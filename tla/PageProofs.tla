---------------------------- MODULE PageProofs ----------------------------
(***************************************************************************)
(* Theorems about Page, for any pages, strokes, regions and bounds: first  *)
(* what the edits of each gesture are, then that each gesture, undo and    *)
(* redo keep the invariant.                                                *)
(***************************************************************************)
EXTENDS Page, PageTreeProofs

(***************************************************************************)
(* What a gesture does to the boxes.                                       *)
(***************************************************************************)
Fills(d, new) == Filled(d) /\ ~new.stuck => Filled(new)

\* The ids removed, as a set of what the sequence has.
LEMMA RemovedIs ==
  ASSUME NEW es, es \in Seq(Range(es))
  PROVE  Removed(es) = {e.id : e \in {f \in Range(es) : f.kind = "remove_node"}}
<1>1. DOMAIN es = 1..Len(es)
  OBVIOUS
<1> QED
  BY <1>1 DEF Removed, Takes, Range

LEMMA RemovedConcat ==
  ASSUME NEW s, s \in Seq(Range(s)), NEW t, t \in Seq(Range(t))
  PROVE  Removed(s \o t) = Removed(s) \cup Removed(t)
<1>1. PICK T, r : T = Range(s) \cup Range(t) /\ r = s \o t
  OBVIOUS
<1>2. s \in Seq(T) /\ t \in Seq(T)
  BY <1>1, SeqInto
<1>3. r \in Seq(T) /\ Range(r) = Range(s) \cup Range(t)
  BY <1>1, <1>2, ConcatIs
<1>4. r \in Seq(Range(r))
  BY <1>1, <1>3
<1>5. Removed(r) = {e.id : e \in {f \in Range(r) : f.kind = "remove_node"}}
  BY <1>4, RemovedIs
<1> QED
  BY <1>1, <1>3, <1>5, RemovedIs

LEMMA RemovesAre ==
  ASSUME NEW T, NEW ids \in Seq(T), NEW es, es = [i \in DOMAIN ids |-> RemoveNode(ids[i])]
  PROVE  Removed(es) = Range(ids) /\ es \in Seq(Range(es))
<1>1. PICK n : n = Len(ids) /\ n \in Nat /\ DOMAIN ids = 1..n
  OBVIOUS
<1>2. DOMAIN es = 1..n /\ es = [i \in 1..n |-> es[i]]
  BY <1>1
<1>3. Len(es) = n /\ es \in Seq(Range(es))
  BY <1>1, <1>2, ListIs
<1>4. \A i \in 1..n : es[i].kind = "remove_node" /\ es[i].id = ids[i]
  BY <1>1 DEF RemoveNode
<1> QED
  BY <1>1, <1>3, <1>4 DEF Removed, Takes, Range

\* Handing out ids changes no page.
LEMMA FilledMore ==
  ASSUME NEW d, DOMAIN d = DocFields, NEW k, NEW c, c = WithIds(d, k)
  PROVE  (Filled(c) <=> Filled(d)) /\ c.page = d.page
<1>1. c.page = d.page /\ c.undo = d.undo /\ c.redo = d.redo
  BY DEF WithIds, DocFields
<1> QED
  BY <1>1 DEF Filled

\* A commit of parts that bring inks only.
LEMMA BitsFill ==
  ASSUME NEW d, DocOK(d), NEW M, NEW es, Bits(Outline(d.page), es, M), Spares(Outline(d.page), Removed(es)),
         NEW new, PartsDo(d, es, new)
  PROVE  Fills(d, new)
<1>1. PICK page, P, r : page = d.page /\ P = Outline(page) /\ r = RunParts(page, es)
  OBVIOUS
<1>2. Tree(page) /\ Sound(P)
  BY <1>1, TreeIs DEF DocOK, PageOK
<1>3. r.ok => Tree(r.page) /\ Culled(Outline(r.page), P, es, Len(es))
  BY <1>1, <1>2, CullRun
<1>4. r.ok => Sound(Outline(r.page)) /\ Inked(Outline(r.page))
  BY <1>1, <1>2, <1>3, TreeIs, CullInked
<1> QED
  BY <1>1, <1>4, PartsFill DEF Fills

-----------------------------------------------------------------------------
(***************************************************************************)
(* What an edit does to the boxes.                                         *)
(***************************************************************************)
\* Root nodes off the page, a new node and what goes under it on it.
LEMMA GatherInked ==
  ASSUME NEW P, Sound(P), Inked(P), NEW ids, \A x \in ids \cap DOMAIN P.node : P.up[x] = Root,
         NEW g, g \notin DOMAIN P.node, NEW rec, NEW B, DOMAIN B.up = DOMAIN B.node, Root \notin DOMAIN B.node,
         g \notin DOMAIN B.node, Inked(B), DOMAIN P.node \cap DOMAIN B.node \subseteq Below(P.up, ids),
         rec.kind = "box" => \E x \in DOMAIN B.node : B.node[x].kind = "ink" /\ B.up[x] = Root,
         NEW a, a = Gather(P, ids, g, rec, B)
  PROVE  Inked(a)
<1>1. PICK q, one, m, keep : /\ q = Pruned(P, ids) /\ one = Alone(g, rec) /\ m = Planted(q, one, Root)
                             /\ keep = DOMAIN P.node \ Below(P.up, ids)
  OBVIOUS
<1>2. DOMAIN P.up = DOMAIN P.node /\ Root \notin DOMAIN P.node
  BY SoundIs
<1>3. /\ DOMAIN q.node = keep /\ \A y \in keep : q.node[y] = P.node[y] /\ q.up[y] = P.up[y]
      /\ DOMAIN one.node = {g} /\ one.node[g] = rec
  BY <1>1 DEF Pruned, Restrict, Alone
<1>4. /\ DOMAIN m.node = keep \cup {g} /\ m.node[g] = rec
      /\ \A y \in keep : m.node[y] = P.node[y] /\ m.up[y] = P.up[y]
  BY <1>1, <1>3 DEF Planted
<1>5. /\ DOMAIN a.node = (keep \cup {g}) \cup DOMAIN B.node
      /\ \A y \in DOMAIN B.node : a.node[y] = B.node[y] /\ a.up[y] = IF B.up[y] = Root THEN g ELSE B.up[y]
      /\ a.node[g] = rec /\ \A y \in keep : a.node[y] = P.node[y] /\ a.up[y] = P.up[y]
  <2>1. a = Planted(m, B, g)
    BY <1>1 DEF Gather
  <2>2. keep \cap DOMAIN B.node = {}
    BY <1>1
  <2> QED
    BY <1>4, <2>1, <2>2 DEF Planted, Hung
<1>6. ASSUME NEW b \in DOMAIN a.node, a.node[b].kind = "box"
      PROVE  \E x \in DOMAIN a.node : a.node[x].kind = "ink" /\ a.up[x] = b
  <2>1. CASE b \in DOMAIN B.node
    <3>1. PICK x \in DOMAIN B.node : B.node[x].kind = "ink" /\ B.up[x] = b
      BY <1>5, <1>6, <2>1 DEF Inked
    <3> QED
      BY <1>5, <2>1, <3>1
  <2>2. CASE b = g
    BY <1>5, <1>6, <2>2
  <2>3. CASE b \in keep
    <3>1. b \in DOMAIN P.node /\ b \notin Below(P.up, ids) /\ P.node[b].kind = "box"
      BY <1>1, <1>5, <1>6, <2>3
    <3>2. PICK x \in DOMAIN P.node : P.node[x].kind = "ink" /\ P.up[x] = b
      BY <3>1 DEF Inked
    <3>3. x \notin ids /\ x \notin Below(P.up, ids)
      BY <1>2, <3>1, <3>2, BelowIs
    <3> QED
      BY <1>1, <1>5, <3>2, <3>3
  <2> QED
    BY <1>5, <2>1, <2>2, <2>3
<1> QED
  BY <1>6 DEF Inked

\* An ink put on the page, and one that goes from the page into a box.
LEMMA AppendInked ==
  ASSUME NEW P, Inked(P), NEW x \in Nat \ {0}, NEW rec \in InkNode, x \notin DOMAIN P.node,
         NEW e, e = AppendInk(x, rec, Root, Root), NEW a, a = After(P, e)
  PROVE  Inked(a)
<1>1. PICK one, home : one = Alone(x, rec) /\ home = Home(P, e)
  OBVIOUS
<1>2. a = Planted(P, one, home)
  BY <1>1 DEF After, AfterAppend, AppendInk
<1>3. DOMAIN one.node = {x} /\ one.node[x] = rec /\ rec.kind = "ink"
  BY <1>1 DEF Alone, InkNode
<1>4. /\ DOMAIN a.node = DOMAIN P.node \cup {x} /\ a.node[x] = rec
      /\ \A y \in DOMAIN P.node : a.node[y] = P.node[y] /\ a.up[y] = P.up[y]
  BY <1>2, <1>3 DEF Planted
<1> QED
  BY <1>3, <1>4 DEF Inked
LEMMA JoinInked ==
  ASSUME NEW P, Sound(P), Inked(P), NEW x \in DOMAIN P.node, P.node[x].kind = "ink", P.up[x] = Root,
         NEW b \in DOMAIN P.node, P.node[b].kind = "box",
         NEW e, e = JoinSmartGroup(x, b), NEW a, a = After(P, e)
  PROVE  Inked(a)
<1>1. PICK q, rec, one : q = Pruned(P, {x}) /\ rec = Localized(P.node[x], P.node[b].at) /\ one = Alone(x, rec)
  OBVIOUS
<1>2. a = Planted(q, one, b)
  BY <1>1 DEF After, AfterJoin, JoinSmartGroup
<1>3. Below(P.up, {x}) = {x}
  BY BelowInk
<1>4. /\ DOMAIN q.node = DOMAIN P.node \ {x} /\ DOMAIN one.node = {x} /\ one.node[x] = rec
      /\ \A y \in DOMAIN P.node \ {x} : q.node[y] = P.node[y] /\ q.up[y] = P.up[y]
  BY <1>1, <1>3 DEF Pruned, Restrict, Alone
<1>5. rec.kind # "box"
  <2>1. P.node[x] \in InkNode /\ P.node[b].at \in Int
    <3>1. P.node[x] \in Node /\ P.node[b] \in Node
      BY SoundIs
    <3> QED
      BY <3>1, KindIs, BoxIs
  <2> QED
    BY <1>1, <2>1, LocalizedIs
<1>6. /\ DOMAIN a.node = DOMAIN P.node /\ a.node[x] = rec
      /\ \A y \in DOMAIN P.node \ {x} : a.node[y] = P.node[y] /\ a.up[y] = P.up[y]
  BY <1>2, <1>4 DEF Planted
<1>7. ASSUME NEW c \in DOMAIN a.node, a.node[c].kind = "box"
      PROVE  \E y \in DOMAIN a.node : a.node[y].kind = "ink" /\ a.up[y] = c
  <2>1. c # x /\ P.node[c].kind = "box"
    BY <1>5, <1>6, <1>7
  <2>2. PICK y \in DOMAIN P.node : P.node[y].kind = "ink" /\ P.up[y] = c
    BY <1>6, <2>1 DEF Inked
  <2>3. y # x
    BY <1>6, <2>2, SoundIs
  <2> QED
    BY <1>6, <2>2, <2>3
<1> QED
  BY <1>7 DEF Inked

\* A box made around an ink, with whole boxes in it, and a connector made of
\* inks on the page.
LEMMA GroupInked ==
  ASSUME NEW P, Sound(P), Inked(P), NEW g, NEW rec, NEW bodies, NEW captured,
         \A f \in Range(bodies) : Inked(Plan(f)),
         NEW edge \in Range(bodies), edge.node[edge.top].kind = "ink",
         NEW e, e = CreateSmartGroup(g, rec, bodies, captured), Fits(P, e), NEW a, a = After(P, e)
  PROVE  Inked(a)
<1>1. /\ e.kind = "create_smart_group" /\ e.id = g /\ e.rec = rec /\ e.bodies = bodies /\ e.captured = captured
  BY DEF CreateSmartGroup
<1>2. FitsGroup(P, e)
  BY <1>1 DEF Fits
<1>3. PICK ids, B : ids = Range(captured) /\ B = Bunch(bodies)
  OBVIOUS
<1>4. a = Gather(P, ids, g, rec, B)
  BY <1>1, <1>3 DEF After, AfterGroup, Gather
<1>5. /\ g \notin DOMAIN P.node /\ Bundle(bodies) /\ AtTop(P, captured)
      /\ \A i \in DOMAIN bodies : /\ DOMAIN bodies[i].node \cap DOMAIN P.node \subseteq Below(P.up, ids)
                                  /\ g \notin DOMAIN bodies[i].node
  BY <1>1, <1>2, <1>3 DEF FitsGroup, Has, Ids
<1>6. \A x \in ids \cap DOMAIN P.node : P.up[x] = Root
  BY <1>3, <1>5 DEF AtTop, Range
<1>7. /\ DOMAIN B.node = Spread(bodies, Len(bodies)) /\ DOMAIN B.up = Spread(bodies, Len(bodies))
      /\ bodies \in Seq(Range(bodies)) /\ \A i \in DOMAIN bodies : BodyOK(bodies[i])
  BY <1>3, <1>5 DEF Bunch, Bundle
<1>8. \A x \in DOMAIN B.node : \E i \in DOMAIN bodies : x \in DOMAIN bodies[i].node
  BY <1>7 DEF Spread
<1>9. ASSUME NEW i \in DOMAIN bodies, NEW x \in DOMAIN bodies[i].node
      PROVE  x \in DOMAIN B.node /\ B.node[x] = bodies[i].node[x] /\ B.up[x] = Plan(bodies[i]).up[x]
  BY <1>3, <1>5, <1>7, BunchIs
<1>10. \A i \in DOMAIN bodies : bodies[i] \in Range(bodies)
  BY DEF Range
<1>11. \A i \in DOMAIN bodies : /\ Root \notin DOMAIN bodies[i].node /\ Plan(bodies[i]).node = bodies[i].node
                                /\ bodies[i].top \in DOMAIN bodies[i].node
                                /\ Plan(bodies[i]).up[bodies[i].top] = Root
  BY <1>7, BodyIs
<1>12. Inked(B)
  <2>1. ASSUME NEW b \in DOMAIN B.node, B.node[b].kind = "box"
        PROVE  \E x \in DOMAIN B.node : B.node[x].kind = "ink" /\ B.up[x] = b
    <3>1. PICK i \in DOMAIN bodies : b \in DOMAIN bodies[i].node
      BY <1>8
    <3>2. Inked(Plan(bodies[i])) /\ Plan(bodies[i]).node = bodies[i].node
      BY <1>10, <1>11
    <3>3. bodies[i].node[b].kind = "box"
      BY <1>9, <2>1, <3>1
    <3>4. PICK x \in DOMAIN bodies[i].node : bodies[i].node[x].kind = "ink" /\ Plan(bodies[i]).up[x] = b
      BY <3>1, <3>2, <3>3 DEF Inked
    <3> QED
      BY <1>9, <3>4
  <2> QED
    BY <2>1 DEF Inked
<1>13. \E x \in DOMAIN B.node : B.node[x].kind = "ink" /\ B.up[x] = Root
  <2>1. PICK i \in DOMAIN bodies : edge = bodies[i]
    BY DEF Range
  <2>2. edge.top \in DOMAIN bodies[i].node
    BY <1>11, <2>1
  <2> QED
    BY <1>9, <1>11, <2>1, <2>2
<1>14. /\ Root \notin DOMAIN B.node /\ g \notin DOMAIN B.node
       /\ DOMAIN P.node \cap DOMAIN B.node \subseteq Below(P.up, ids)
  BY <1>5, <1>8, <1>11
<1> QED
  BY <1>4, <1>5, <1>6, <1>7, <1>12, <1>13, <1>14, GatherInked
LEMMA ConnectorInked ==
  ASSUME NEW P, Sound(P), Inked(P), NEW g, NEW rec, NEW captured,
         NEW e, e = CreateConnector(g, rec, captured), Fits(P, e), NEW a, a = After(P, e)
  PROVE  Inked(a)
<1>1. e.kind = "create_connector" /\ e.id = g /\ e.rec = rec /\ e.captured = captured
  BY DEF CreateConnector
<1>2. FitsConnector(P, e)
  BY <1>1 DEF Fits
<1>3. PICK ids, B : ids = Range(captured) /\ B = Loose(P, captured)
  OBVIOUS
<1>4. a = Gather(P, ids, g, rec, B)
  BY <1>1, <1>3 DEF After, AfterConnector, Gather
<1>5. /\ g \notin DOMAIN P.node /\ AtTop(P, captured) /\ rec \in ConnNode
      /\ \A i \in DOMAIN captured : P.node[captured[i]].kind = "ink"
  BY <1>1, <1>2 DEF FitsConnector, Has, Ids
<1>6. ids \subseteq DOMAIN P.node /\ \A x \in ids : P.up[x] = Root /\ P.node[x].kind = "ink"
  BY <1>3, <1>5 DEF AtTop, Range
<1>7. DOMAIN P.up = DOMAIN P.node /\ Root \notin DOMAIN P.node
  BY SoundIs
<1>8. ids \subseteq Below(P.up, ids)
  BY <1>6, <1>7, BelowIs
<1>9. /\ DOMAIN B.node = ids /\ DOMAIN B.up = ids /\ \A x \in ids : B.node[x] = P.node[x]
  BY <1>3 DEF Loose
<1>10. Inked(B)
  BY <1>6, <1>9 DEF Inked
<1>11. rec.kind # "box"
  BY <1>5, ConnIs
<1>12. /\ \A x \in ids \cap DOMAIN P.node : P.up[x] = Root
       /\ DOMAIN B.up = DOMAIN B.node /\ Root \notin DOMAIN B.node /\ g \notin DOMAIN B.node
       /\ DOMAIN P.node \cap DOMAIN B.node \subseteq Below(P.up, ids)
  BY <1>5, <1>6, <1>7, <1>8, <1>9
<1> QED
  BY <1>4, <1>5, <1>10, <1>11, <1>12, GatherInked

\* A node hung elsewhere, inks being left where they are, and a box moved.
LEMMA RehungInked ==
  ASSUME NEW a, Inked(a), NEW x \in DOMAIN a.node, a.node[x].kind # "ink", NEW parent, NEW b, Rehung(b, a, x, parent)
  PROVE  Inked(b)
BY DEF Rehung, Inked
LEMMA SameInked ==
  ASSUME NEW a, Inked(a), NEW b, DOMAIN b.node = DOMAIN a.node, b.up = a.up,
         \A x \in DOMAIN a.node : b.node[x].kind = a.node[x].kind
  PROVE  Inked(b)
BY DEF Inked

\* What hangs below one id, all of it or what a body keeps of it.
LEMMA PartInked ==
  ASSUME NEW a, Sound(a), Inked(a), NEW x \in DOMAIN a.node, NEW p, p.up = Part(a, x).up,
         DOMAIN p.node = Below(a.up, {x}), \A y \in Below(a.up, {x}) : p.node[y].kind = a.node[y].kind
  PROVE  Inked(p)
<1>1. DOMAIN a.up = DOMAIN a.node /\ Root \notin DOMAIN a.node
  BY SoundIs
<1>2. \A y \in Below(a.up, {x}) : p.up[y] = IF y = x THEN Root ELSE a.up[y]
  BY DEF Part
<1>3. ASSUME NEW b \in DOMAIN p.node, p.node[b].kind = "box"
      PROVE  \E y \in DOMAIN p.node : p.node[y].kind = "ink" /\ p.up[y] = b
  <2>1. b \in Below(a.up, {x}) /\ b \in DOMAIN a.node /\ a.node[b].kind = "box"
    BY <1>1, <1>3, SoundIs
  <2>2. PICK y \in DOMAIN a.node : a.node[y].kind = "ink" /\ a.up[y] = b
    BY <2>1 DEF Inked
  <2>3. y \in Below(a.up, {x})
    BY <1>1, <2>1, <2>2, BelowIs
  <2>4. y # x
    <3>1. CASE a.up[x] = Root
      BY <1>1, <2>1, <2>2, <3>1
    <3>2. CASE a.up[x] # Root
      BY <2>1, <2>2, WayOut
    <3> QED
      BY <3>1, <3>2
  <2> QED
    BY <1>2, <2>2, <2>3, <2>4
<1> QED
  BY <1>3 DEF Inked

\* A body put on a page that has none of its ids.
LEMMA RestoreInked ==
  ASSUME NEW a, Sound(a), Inked(a), NEW body, BodyOK(body), Inked(Plan(body)),
         DOMAIN body.node \cap DOMAIN a.node = {}, NEW e, e.kind = "restore", e.body = body,
         NEW b, b = After(a, e)
  PROVE  Inked(b) /\ DOMAIN b.node = DOMAIN a.node \cup DOMAIN body.node
<1>1. PICK q, p : q = Pruned(a, DOMAIN body.node) /\ p = Plan(body)
  OBVIOUS
<1>2. b = Planted(q, p, e.parent)
  BY <1>1 DEF After, AfterMove
<1>3. DOMAIN a.up = DOMAIN a.node
  BY SoundIs
<1>4. Below(a.up, DOMAIN body.node) = {}
  BY <1>3, BelowNone
<1>5. DOMAIN q.node = DOMAIN a.node /\ \A y \in DOMAIN a.node : q.node[y] = a.node[y] /\ q.up[y] = a.up[y]
  BY <1>1, <1>4 DEF Pruned, Restrict
<1>6. p.node = body.node /\ Root \notin DOMAIN body.node
  BY <1>1, BodyIs
<1>7. /\ DOMAIN b.node = DOMAIN a.node \cup DOMAIN body.node
      /\ \A y \in DOMAIN a.node : b.node[y] = a.node[y] /\ b.up[y] = a.up[y]
      /\ \A y \in DOMAIN body.node :
            b.node[y] = body.node[y] /\ b.up[y] = IF p.up[y] = Root THEN e.parent ELSE p.up[y]
  BY <1>2, <1>5, <1>6 DEF Planted, Hung
<1>8. ASSUME NEW c \in DOMAIN b.node, b.node[c].kind = "box"
      PROVE  \E x \in DOMAIN b.node : b.node[x].kind = "ink" /\ b.up[x] = c
  <2>1. CASE c \in DOMAIN a.node
    <3>1. PICK x \in DOMAIN a.node : a.node[x].kind = "ink" /\ a.up[x] = c
      BY <1>7, <1>8, <2>1 DEF Inked
    <3> QED
      BY <1>7, <3>1
  <2>2. CASE c \in DOMAIN body.node
    <3>1. PICK x \in DOMAIN body.node : body.node[x].kind = "ink" /\ p.up[x] = c
      BY <1>1, <1>6, <1>7, <1>8, <2>2 DEF Inked
    <3> QED
      BY <1>6, <1>7, <2>2, <3>1
  <2> QED
    BY <1>7, <2>1, <2>2
<1> QED
  BY <1>7, <1>8 DEF Inked

\* Bodies put there one after another.
Restores(es) == \A i \in DOMAIN es : es[i].kind = "restore" /\ Inked(Plan(es[i].body))
Swelled(a, P, es, k) ==
    Inked(a) /\ \A x \in DOMAIN a.node \ DOMAIN P.node : \E j \in 1..k : x \in Makes(es[j])
LEMMA RestoresRun ==
  ASSUME NEW page, Tree(page), Inked(Outline(page)), NEW es, PartsOK(Outline(page), es), Restores(es),
         NEW r, r = RunParts(page, es), r.ok
  PROVE  Sound(Outline(r.page)) /\ Inked(Outline(r.page))
<1>1. PICK n, P : n = Len(es) /\ P = Outline(page)
  OBVIOUS
<1>2. n \in Nat /\ DOMAIN es = 1..n
  BY <1>1 DEF PartsOK
<1>3. Tree(r.page) /\ \E o : Traced(o, P, es) /\ o[n] = Outline(r.page)
  BY <1>1, PartsRun
<1>4. PICK o : Traced(o, P, es) /\ o[n] = Outline(r.page)
  BY <1>3
<1>5. \A i \in 0..n : Sound(o[i])
  BY <1>1, <1>2, <1>4, TracedSound
<1>6. o[0] = P /\ \A i \in 1..n : o[i] = After(o[i - 1], es[i])
  BY <1>1, <1>4 DEF Traced
<1> DEFINE Q(i) == i <= n => Swelled(o[i], P, es, i)
<1>7. Q(0)
  BY <1>1, <1>6 DEF Swelled
<1>8. ASSUME NEW i \in Nat, Q(i) PROVE Q(i + 1)
  <2> SUFFICES ASSUME i + 1 <= n PROVE Swelled(o[i + 1], P, es, i + 1)
    OBVIOUS
  <2>1. PICK k, a, e, body : k = i + 1 /\ a = o[i] /\ e = es[k] /\ body = e.body
    OBVIOUS
  <2>2. k \in 1..n /\ k - 1 = i /\ i \in 0..n /\ k \in DOMAIN es
    BY <1>2, <2>1
  <2>3. Sound(a) /\ Swelled(a, P, es, i) /\ o[k] = After(a, e)
    BY <1>5, <1>6, <1>8, <2>1, <2>2
  <2>4. /\ e.kind = "restore" /\ Inked(Plan(body)) /\ BodyOK(body) /\ DOMAIN body.node \cap DOMAIN P.node = {}
        /\ Makes(e) = DOMAIN body.node
    <3>1. PartOK(P, e) /\ e.kind = "restore"
      BY <1>1, <2>1, <2>2 DEF PartsOK, Restores
    <3> QED
      BY <2>1, <2>2, <3>1 DEF PartOK, Restores, Makes
  <2>5. DOMAIN body.node \cap DOMAIN a.node = {}
    <3> SUFFICES ASSUME NEW x \in DOMAIN body.node, x \in DOMAIN a.node PROVE FALSE
      OBVIOUS
    <3>1. PICK j \in 1..i : x \in Makes(es[j])
      BY <2>3, <2>4 DEF Swelled
    <3>2. j \in DOMAIN es /\ j # k
      BY <1>2, <2>1, <2>2
    <3> QED
      BY <2>1, <2>2, <2>4, <3>1, <3>2 DEF PartsOK
  <2>6. Inked(a)
    BY <2>3 DEF Swelled
  <2>7. Inked(o[k]) /\ DOMAIN o[k].node = DOMAIN a.node \cup DOMAIN body.node
    BY <2>1, <2>3, <2>4, <2>5, <2>6, RestoreInked
  <2>8. \A x \in DOMAIN o[k].node \ DOMAIN P.node : \E j \in 1..k : x \in Makes(es[j])
    <3> TAKE x \in DOMAIN o[k].node \ DOMAIN P.node
    <3>1. CASE x \in DOMAIN body.node
      BY <2>1, <2>2, <2>4, <3>1
    <3>2. CASE x \in DOMAIN a.node
      <4>1. PICK j \in 1..i : x \in Makes(es[j])
        BY <2>3, <3>2 DEF Swelled
      <4>2. j \in 1..k
        BY <2>1
      <4> QED
        BY <4>1, <4>2
    <3> QED
      BY <2>7, <3>1, <3>2
  <2> QED
    BY <2>1, <2>7, <2>8 DEF Swelled
<1>9. Q(n)
  <2> HIDE DEF Q
  <2>1. PICK S : S = {i \in Nat : Q(i)}
    OBVIOUS
  <2>2. 0 \in S /\ \A i \in Nat : i \in S => i + 1 \in S
    BY <1>7, <1>8, <2>1
  <2>3. Nat \subseteq S
    BY <2>2, InductionSet
  <2> QED
    BY <1>2, <2>1, <2>3
<1>10. Inked(o[n])
  BY <1>2, <1>9 DEF Swelled
<1> QED
  BY <1>3, <1>4, <1>10, TreeIs

\* A commit of bodies, all of them inked.
LEMMA RestoresFill ==
  ASSUME NEW d, DocOK(d), NEW base, NEW es, Planned(d.page, d.next, base, es), Restores(es),
         NEW new, PartsDo(d, es, new)
  PROVE  Fills(d, new)
<1>1. SUFFICES ASSUME Filled(d), ~new.stuck PROVE Filled(new)
  BY DEF Fills
<1>2. PICK page, r : page = d.page /\ r = RunParts(page, es)
  OBVIOUS
<1>3. Tree(page) /\ Inked(Outline(page)) /\ PartsOK(Outline(page), es)
  BY <1>1, <1>2 DEF Planned, Filled
<1>4. r.ok => Sound(Outline(r.page)) /\ Inked(Outline(r.page))
  BY <1>2, <1>3, RestoresRun
<1> QED
  BY <1>1, <1>2, <1>4, PartsFill

-----------------------------------------------------------------------------
(***************************************************************************)
(* What the erasers plan.                                                  *)
(***************************************************************************)
Ground(page) == [x \in DOMAIN page.kids |-> << >>]
Level(r, page) ==
    [x \in DOMAIN page.kids |->
        FlattenSeq([k \in DOMAIN page.kids[x] |-> <<page.kids[x][k]>> \o r[page.kids[x][k]]])]

\* What PaintOrder goes through.
PaintRun(f, page) ==
    /\ f[0] = Ground(page)
    /\ \A i \in 1..Cardinality(Ids(page)) : f[i] = Level(f[i - 1], page)
    /\ PaintOrder(page) = f[Cardinality(Ids(page))][Root]

\* The recursion of PaintOrder, step by step.
LEMMA PaintUnfold ==
  ASSUME NEW page, Cardinality(Ids(page)) \in Nat
  PROVE  \E f : PaintRun(f, page)
<1> DEFINE n == Cardinality(Ids(page))
           Eq(f, m) == f = [i \in 0..m |-> IF i = 0 THEN Ground(page) ELSE Level(f[i - 1], page)]
           Reached == {m \in Nat : \E f : Eq(f, m)}
<1>1. 0 \in Reached
  <2>1. Eq([i \in 0..0 |-> Ground(page)], 0)
    OBVIOUS
  <2> HIDE DEF Eq
  <2> QED
    BY <2>1
<1>2. ASSUME NEW m \in Nat, m \in Reached PROVE m + 1 \in Reached
  <2>1. PICK f : Eq(f, m)
    BY <1>2
  <2> DEFINE g == [i \in 0..(m + 1) |-> IF i = m + 1 THEN Level(f[m], page) ELSE f[i]]
             w == [i \in 0..(m + 1) |-> IF i = 0 THEN Ground(page) ELSE Level(g[i - 1], page)]
  <2>2. \A i \in 0..(m + 1) : g[i] = w[i]
    <3> TAKE i \in 0..(m + 1)
    <3>1. CASE i = 0
      BY <2>1, <3>1
    <3>2. CASE i = m + 1
      <4>1. g[i] = Level(f[m], page) /\ i - 1 = m /\ i # 0 /\ m \in 0..(m + 1) /\ m # m + 1
        BY <3>2
      <4>2. g[m] = f[m]
        BY <4>1
      <4> QED
        BY <3>2, <4>1, <4>2
    <3>3. CASE i \in 1..m
      <4>1. i \in 0..m /\ i # 0 /\ i # m + 1 /\ i - 1 \in 0..m /\ i - 1 # m + 1 /\ i - 1 \in 0..(m + 1)
        BY <3>3
      <4>2. g[i] = f[i] /\ g[i - 1] = f[i - 1]
        BY <4>1
      <4>3. f[i] = Level(f[i - 1], page)
        BY <2>1, <4>1
      <4> QED
        BY <4>1, <4>2, <4>3
    <3> QED
      BY <3>1, <3>2, <3>3
  <2>3. g = w
    BY <2>2
  <2> HIDE DEF g
  <2>4. Eq(g, m + 1)
    BY <2>3
  <2> HIDE DEF Eq
  <2> QED
    BY <2>4
<1> HIDE DEF Reached
<1>3. n \in Reached
  BY <1>1, <1>2, InductionSet
<1>4. PICK f : Eq(f, n)
  BY <1>3 DEF Reached
<1> DEFINE a == CHOOSE h : Eq(h, n)
<1>5. Eq(a, n)
  <2> HIDE DEF Eq
  <2> QED
    BY <1>4
<1>6. PaintOrder(page) = a[n][Root]
  BY DEF PaintOrder, Ground, Level
<1> HIDE DEF a
<1>7. a[0] = Ground(page) /\ \A i \in 1..n : a[i] = Level(a[i - 1], page)
  <2>1. a = [i \in 0..n |-> IF i = 0 THEN Ground(page) ELSE Level(a[i - 1], page)]
    BY <1>5
  <2>2. 0 \in 0..n /\ \A i \in 1..n : i \in 0..n /\ i # 0
    OBVIOUS
  <2>3. a[0] = Ground(page)
    BY <2>1, <2>2
  <2>4. ASSUME NEW i \in 1..n PROVE a[i] = Level(a[i - 1], page)
    <3>1. PICK v : v = Level(a[i - 1], page)
      OBVIOUS
    <3>2. i \in 0..n /\ i # 0
      BY <2>2
    <3> HIDE DEF n
    <3>3. a[i] = v
      BY <2>1, <3>1, <3>2
    <3> QED
      BY <3>1, <3>3
  <2> QED
    BY <2>3, <2>4
<1> QED
  BY <1>6, <1>7 DEF PaintRun

\* One more level of the walk.
LEMMA LevelIs ==
  ASSUME NEW page, Tree(page), NEW r, \A x \in Ids(page) \cup {Root} : r[x] \in Seq(Ids(page)),
         NEW q \in Ids(page) \cup {Root}
  PROVE  /\ Level(r, page)[q] \in Seq(Ids(page))
         /\ Range(Level(r, page)[q]) = Range(page.kids[q]) \cup UNION {Range(r[y]) : y \in Range(page.kids[q])}
<1>1. PICK T, s, ss : /\ T = Ids(page) /\ s = page.kids[q]
                      /\ ss = [k \in DOMAIN s |-> <<s[k]>> \o r[s[k]]]
  OBVIOUS
<1>2. s \in Seq(T) /\ q \in DOMAIN page.kids
  BY <1>1, TreeIs, KidsUp
<1>3. Level(r, page)[q] = FlattenSeq(ss)
  BY <1>1, <1>2 DEF Level
<1>4. \A k \in DOMAIN s : ss[k] \in Seq(T) /\ Range(ss[k]) = {s[k]} \cup Range(r[s[k]])
  <2> TAKE k \in DOMAIN s
  <2>1. s[k] \in T
    BY <1>2
  <2>2. PICK t, u : t = <<s[k]>> /\ u = r[s[k]]
    OBVIOUS
  <2>3. t \in Seq(T) /\ u \in Seq(T) /\ Range(t) = {s[k]}
    BY <1>1, <2>1, <2>2 DEF Range
  <2>4. t \o u \in Seq(T) /\ Range(t \o u) = Range(t) \cup Range(u)
    BY <2>3, ConcatIs
  <2> QED
    BY <1>1, <2>2, <2>3, <2>4
<1>5. PICK m : m = Len(s) /\ m \in Nat /\ DOMAIN s = 1..m
  BY <1>2
<1>6. ss \in Seq(Seq(T)) /\ Len(ss) = m
  <2>1. DOMAIN ss = 1..m /\ ss = [k \in 1..m |-> ss[k]] /\ \A k \in 1..m : ss[k] \in Seq(T)
    BY <1>1, <1>4, <1>5
  <2> QED
    BY <1>5, <2>1, ListIs
<1>7. FlattenSeq(ss) \in Seq(T) /\ Range(FlattenSeq(ss)) = UNION {Range(ss[i]) : i \in 1..m}
  BY <1>6, FlattenIs
<1>8. UNION {Range(ss[i]) : i \in 1..m} = UNION {{s[k]} \cup Range(r[s[k]]) : k \in DOMAIN s}
  BY <1>4, <1>5
<1>9. UNION {{s[k]} \cup Range(r[s[k]]) : k \in DOMAIN s} = Range(s) \cup UNION {Range(r[y]) : y \in Range(s)}
  BY DEF Range
<1> QED
  BY <1>1, <1>3, <1>7, <1>8, <1>9

\* Every level of the walk.
Walked(f, page, n, T) ==
    /\ \A i \in 0..n, q \in T \cup {Root} : f[i][q] \in Seq(T)
    /\ \A i \in 0..(n - 1), q \in T \cup {Root} :
          Range(f[i + 1][q]) = Range(page.kids[q]) \cup UNION {Range(f[i][y]) : y \in Range(page.kids[q])}

LEMMA PaintSteps ==
  ASSUME NEW page, Tree(page), NEW f, PaintRun(f, page), NEW n, n = Cardinality(Ids(page)),
         NEW T, T = Ids(page)
  PROVE  /\ n \in Nat /\ PaintOrder(page) = f[n][Root]
         /\ Walked(f, page, n, T)
<1>1. n \in Nat
  BY TreeIs, FS_CardinalityType DEF Sound
<1>2. f[0] = Ground(page) /\ (\A i \in 1..n : f[i] = Level(f[i - 1], page)) /\ PaintOrder(page) = f[n][Root]
  BY DEF PaintRun
<1>3. \A i \in 0..(n - 1) : f[i + 1] = Level(f[i], page)
  <2> TAKE i \in 0..(n - 1)
  <2>1. PICK j : j = i + 1 /\ j \in 1..n /\ j - 1 = i
    BY <1>1
  <2>2. f[j] = Level(f[j - 1], page)
    BY <1>2, <2>1
  <2> QED
    BY <2>1, <2>2
<1> DEFINE Q(i) == i <= n => \A q \in T \cup {Root} : f[i][q] \in Seq(T)
<1>4. Q(0)
  <2>1. \A q \in T \cup {Root} : f[0][q] = << >>
    BY <1>2, TreeIs DEF Ground
  <2>2. << >> \in Seq(T)
    OBVIOUS
  <2>3. \A q \in T \cup {Root} : f[0][q] \in Seq(T)
    BY <2>1, <2>2
  <2> QED
    BY <2>3
<1>5. ASSUME NEW i \in Nat, Q(i) PROVE Q(i + 1)
  <2> SUFFICES ASSUME i + 1 <= n, NEW q \in T \cup {Root} PROVE f[i + 1][q] \in Seq(T)
    OBVIOUS
  <2>1. i \in 0..(n - 1) /\ i <= n
    BY <1>1
  <2>2. PICK r : r = f[i] /\ f[i + 1] = Level(r, page)
    BY <1>3, <2>1
  <2>3. \A x \in T \cup {Root} : r[x] \in Seq(T)
    BY <1>5, <2>1, <2>2
  <2> QED
    BY <2>2, <2>3, LevelIs
<1>6. \A i \in 0..n : Q(i)
  <2> HIDE DEF Q
  <2>1. PICK S : S = {i \in Nat : Q(i)}
    OBVIOUS
  <2>2. 0 \in S /\ \A i \in Nat : i \in S => i + 1 \in S
    BY <1>4, <1>5, <2>1
  <2>3. Nat \subseteq S
    BY <2>2, InductionSet
  <2> QED
    BY <1>1, <2>1, <2>3
<1>7. \A i \in 0..n, q \in T \cup {Root} : f[i][q] \in Seq(T)
  BY <1>1, <1>6
<1>8. ASSUME NEW i \in 0..(n - 1), NEW q \in T \cup {Root}
      PROVE  Range(f[i + 1][q]) = Range(page.kids[q]) \cup UNION {Range(f[i][y]) : y \in Range(page.kids[q])}
  <2>1. PICK r : r = f[i] /\ f[i + 1] = Level(r, page)
    BY <1>3
  <2>2. i \in 0..n
    BY <1>1
  <2>3. \A x \in T \cup {Root} : r[x] \in Seq(T)
    BY <1>7, <2>1, <2>2
  <2> QED
    BY <2>1, <2>3, LevelIs
<1> QED
  BY <1>1, <1>2, <1>7, <1>8 DEF Walked

\* The paint order has ids of the page,
LEMMA PaintIs ==
  ASSUME NEW page, Tree(page)
  PROVE  PaintOrder(page) \in Seq(Ids(page))
<1>1. PICK n, T : n = Cardinality(Ids(page)) /\ T = Ids(page)
  OBVIOUS
<1>2. n \in Nat /\ n \in 0..n
  BY <1>1, TreeIs, FS_CardinalityType DEF Sound
<1>3. PICK f : PaintRun(f, page)
  BY <1>1, <1>2, PaintUnfold
<1> QED
  BY <1>1, <1>2, <1>3, PaintSteps DEF Walked

\* all of them: a level that leaves some out lets in one whose parent it has.
LEMMA PaintAll ==
  ASSUME NEW page, Tree(page)
  PROVE  Range(PaintOrder(page)) = Ids(page)
<1>1. PICK n, T : n = Cardinality(Ids(page)) /\ T = Ids(page)
  OBVIOUS
<1>2. n \in Nat /\ IsFiniteSet(T)
  BY <1>1, TreeIs, FS_CardinalityType DEF Sound
<1>3. PICK f : PaintRun(f, page)
  BY <1>1, <1>2, PaintUnfold
<1>4. PICK up, K : up = Up(page) /\ K = [q \in T \cup {Root} |-> {x \in T : up[x] = q}]
  OBVIOUS
<1>5. PICK W : W = [i \in 0..n |-> [q \in T \cup {Root} |-> Range(f[i][q])]]
  OBVIOUS
<1>6. \A q \in T \cup {Root} : Range(page.kids[q]) = K[q] /\ K[q] \subseteq T
  BY <1>1, <1>4, TreeIs, KidsUp
<1>7. /\ \A i \in 0..n, q \in T \cup {Root} : W[i][q] \subseteq T
      /\ PaintOrder(page) = f[n][Root]
      /\ \A i \in 0..(n - 1), q \in T \cup {Root} : W[i + 1][q] = K[q] \cup UNION {W[i][y] : y \in K[q]}
  <2>1. /\ PaintOrder(page) = f[n][Root]
        /\ \A i \in 0..n, q \in T \cup {Root} : f[i][q] \in Seq(T)
        /\ \A i \in 0..(n - 1), q \in T \cup {Root} :
              Range(f[i + 1][q]) = Range(page.kids[q]) \cup UNION {Range(f[i][y]) : y \in Range(page.kids[q])}
    <3>1. PaintOrder(page) = f[n][Root] /\ Walked(f, page, n, T)
      BY <1>1, <1>3, PaintSteps
    <3> QED
      BY <3>1 DEF Walked
  <2>2. \A i \in 0..n, q \in T \cup {Root} : W[i][q] \subseteq T
    BY <1>5, <2>1, RangeOfSeq
  <2>3. ASSUME NEW i \in 0..(n - 1), NEW q \in T \cup {Root}
        PROVE  W[i + 1][q] = K[q] \cup UNION {W[i][y] : y \in K[q]}
    <3>1. i \in 0..n /\ i + 1 \in 0..n
      BY <1>2
    <3>2. W[i + 1][q] = K[q] \cup UNION {Range(f[i][y]) : y \in K[q]}
      BY <1>5, <1>6, <2>1, <3>1
    <3>3. \A y \in K[q] : W[i][y] = Range(f[i][y])
      BY <1>5, <1>6, <3>1
    <3> QED
      BY <3>2, <3>3
  <2> QED
    BY <2>1, <2>2, <2>3
<1> DEFINE Q(i) == i + 1 <= n =>
                      \A q \in T \cup {Root} :
                         /\ W[i][q] \subseteq W[i + 1][q]
                         /\ \A x \in W[i][q] : K[x] \subseteq W[i + 1][q]
<1>8. Q(0)
  <2> SUFFICES ASSUME 0 + 1 <= n, NEW q \in T \cup {Root} PROVE W[0][q] = {}
    OBVIOUS
  <2>1. f[0][q] = << >>
    BY <1>1, <1>3, TreeIs DEF PaintRun, Ground
  <2>2. 0 \in 0..n
    BY <1>2
  <2> QED
    BY <1>5, <2>1, <2>2 DEF Range
<1>9. ASSUME NEW i \in Nat, Q(i) PROVE Q(i + 1)
  <2> SUFFICES ASSUME (i + 1) + 1 <= n, NEW q \in T \cup {Root}
               PROVE  /\ W[i + 1][q] \subseteq W[(i + 1) + 1][q]
                      /\ \A x \in W[i + 1][q] : K[x] \subseteq W[(i + 1) + 1][q]
    OBVIOUS
  <2>1. PICK A, B, C : A = W[i] /\ B = W[i + 1] /\ C = W[(i + 1) + 1]
    OBVIOUS
  <2>2. i \in 0..(n - 1) /\ i + 1 \in 0..(n - 1) /\ i + 1 <= n
    BY <1>2
  <2>3. \A p \in T \cup {Root} : /\ B[p] = K[p] \cup UNION {A[y] : y \in K[p]}
                                 /\ C[p] = K[p] \cup UNION {B[y] : y \in K[p]}
    BY <1>7, <2>1, <2>2
  <2>4. \A p \in T \cup {Root} : A[p] \subseteq B[p] /\ \A x \in A[p] : K[x] \subseteq B[p]
    BY <1>9, <2>1, <2>2
  <2>5. B[q] \subseteq C[q]
    BY <1>6, <2>3, <2>4
  <2>6. ASSUME NEW x \in B[q] PROVE K[x] \subseteq C[q]
    <3>1. CASE x \in K[q]
      <4>1. x \in T /\ K[x] \subseteq B[x]
        BY <1>6, <2>3, <3>1
      <4> QED
        BY <2>3, <3>1, <4>1
    <3>2. CASE x \notin K[q]
      <4>1. PICK y \in K[q] : x \in A[y]
        BY <2>3, <3>2
      <4>2. K[x] \subseteq B[y]
        BY <1>6, <2>4, <4>1
      <4> QED
        BY <2>3, <4>2
    <3> QED
      BY <3>1, <3>2
  <2> QED
    BY <2>1, <2>5, <2>6
<1>10. \A i \in 0..(n - 1) : Q(i)
  <2> HIDE DEF Q
  <2>1. PICK S : S = {i \in Nat : Q(i)}
    OBVIOUS
  <2>2. 0 \in S /\ \A i \in Nat : i \in S => i + 1 \in S
    BY <1>8, <1>9, <2>1
  <2>3. Nat \subseteq S
    BY <2>2, InductionSet
  <2> QED
    BY <1>2, <2>1, <2>3
<1> DEFINE Unmet(i) == T \ W[i][Root]
           D(i) == i <= n => Cardinality(Unmet(i)) <= n - i
<1>11. \A i \in 0..n : IsFiniteSet(Unmet(i)) /\ Cardinality(Unmet(i)) \in Nat
  BY <1>2, FS_Subset, FS_CardinalityType
<1>12. D(0)
  <2>1. Unmet(0) \subseteq T
    OBVIOUS
  <2>2. Cardinality(Unmet(0)) <= Cardinality(T)
    BY <1>2, <2>1, FS_Subset
  <2> QED
    BY <1>1, <1>2, <2>2
<1>13. ASSUME NEW i \in Nat, D(i) PROVE D(i + 1)
  <2> SUFFICES ASSUME i + 1 <= n PROVE Cardinality(Unmet(i + 1)) <= n - (i + 1)
    OBVIOUS
  <2>1. i \in 0..(n - 1) /\ i \in 0..n /\ i + 1 \in 0..n
    BY <1>2
  <2>2. PICK A, B : A = Unmet(i) /\ B = Unmet(i + 1)
    OBVIOUS
  <2>3. /\ W[i][Root] \subseteq W[i + 1][Root]
        /\ \A x \in W[i][Root] : K[x] \subseteq W[i + 1][Root]
        /\ K[Root] \subseteq W[i + 1][Root]
    BY <1>7, <1>10, <2>1
  <2>4. B \subseteq A /\ A \subseteq T
    BY <2>2, <2>3
  <2>5. IsFiniteSet(A) /\ Cardinality(A) \in Nat /\ Cardinality(B) \in Nat /\ Cardinality(A) <= n - i
    <3>1. i <= n
      BY <2>1
    <3>2. Cardinality(Unmet(i)) <= n - i
      BY <1>13, <3>1
    <3> HIDE DEF Unmet
    <3> QED
      BY <1>11, <2>1, <2>2, <3>2
  <2>6. CASE A = {}
    <3>1. B = {} /\ Cardinality(B) = 0
      BY <2>4, <2>6, FS_EmptySet
    <3> QED
      BY <1>2, <2>2, <3>1
  <2>7. CASE A # {}
    <3>1. Founded(up) /\ DOMAIN up = T /\ \A x \in T : up[x] \in T \cup {Root}
      BY <1>1, <1>4, TreeIs DEF Sound
    <3>2. PICK x \in A : up[x] \notin A
      BY <2>4, <2>7, <3>1 DEF Founded
    <3>3. x \in K[up[x]] /\ (up[x] = Root \/ up[x] \in W[i][Root])
      BY <1>4, <2>2, <2>4, <3>1, <3>2
    <3>4. x \notin B
      BY <2>2, <2>3, <3>3
    <3>5. B \subseteq A \ {x}
      BY <2>4, <3>4
    <3>6. IsFiniteSet(A \ {x}) /\ Cardinality(A \ {x}) = Cardinality(A) - 1
      BY <2>5, FS_RemoveElement
    <3>7. Cardinality(B) <= Cardinality(A \ {x})
      BY <3>5, <3>6, FS_Subset
    <3> QED
      BY <1>2, <2>2, <2>5, <3>6, <3>7
  <2> QED
    BY <2>6, <2>7
<1>14. D(n)
  <2> HIDE DEF D
  <2>1. PICK S : S = {i \in Nat : D(i)}
    OBVIOUS
  <2>2. 0 \in S /\ \A i \in Nat : i \in S => i + 1 \in S
    BY <1>12, <1>13, <2>1
  <2>3. Nat \subseteq S
    BY <2>2, InductionSet
  <2> QED
    BY <1>2, <2>1, <2>3
<1>15. n \in 0..n
  BY <1>2
<1>16. Cardinality(Unmet(n)) = 0
  BY <1>2, <1>11, <1>14, <1>15
<1>17. Unmet(n) = {}
  BY <1>11, <1>15, <1>16, FS_EmptySet
<1>18. W[n][Root] = Range(f[n][Root]) /\ W[n][Root] \subseteq T
  BY <1>5, <1>7, <1>15
<1>19. W[n][Root] = T
  BY <1>17, <1>18
<1> QED
  BY <1>1, <1>7, <1>18, <1>19, Zenon

\* The children of a kind.
LEMMA KidsOf ==
  ASSUME NEW page, Tree(page), NEW q \in Ids(page) \cup {Root}, NEW kind, NEW s, s = Kids(page, q, kind)
  PROVE  /\ s \in Seq(Ids(page)) /\ OneOnly(s)
         /\ \A x : x \in Range(s) <=> x \in Ids(page) /\ Up(page)[x] = q /\ page.node[x].kind = kind
<1>1. PICK t, S : t = page.kids[q] /\ S = {y \in Range(page.kids[q]) : page.node[y].kind = kind}
  OBVIOUS
<1>2. t \in Seq(Ids(page)) /\ OneOnly(t) /\ Range(t) = {x \in Ids(page) : Up(page)[x] = q}
  BY <1>1, TreeIs, KidsUp
<1>3. s = Kept(t, S)
  BY <1>1 DEF Kids
<1>4. s \in Seq(Ids(page)) /\ OneOnly(s) /\ Range(s) = Range(t) \cap S
  BY <1>2, <1>3, KeptIs
<1> QED
  BY <1>1, <1>2, <1>4

-----------------------------------------------------------------------------
\* The ids that parts remove.
LEMMA RemovedNone == Removed(<< >>) = {}
BY DEF Removed, Takes
LEMMA RemovedOne ==
  ASSUME NEW e
  PROVE  Removed(<<e>>) = IF e.kind = "remove_node" THEN {e.id} ELSE {}
<1>1. PICK s : s = <<e>>
  OBVIOUS
<1>2. Len(s) = 1 /\ s[1] = e
  BY <1>1
<1>3. Removed(s) = {s[i].id : i \in {j \in 1..1 : s[j].kind = "remove_node"}}
  BY <1>2 DEF Removed, Takes
<1> QED
  BY <1>1, <1>2, <1>3
LEMMA RemovedFlatten ==
  ASSUME NEW n \in Nat, NEW ss, DOMAIN ss = 1..n, ss = [i \in 1..n |-> ss[i]],
         \A i \in 1..n : ss[i] \in Seq(Range(ss[i]))
  PROVE  Removed(FlattenSeq(ss)) = UNION {Removed(ss[i]) : i \in 1..n}
<1>1. PICK T : T = UNION {Range(ss[i]) : i \in 1..n}
  OBVIOUS
<1>2. \A i \in 1..n : ss[i] \in Seq(T)
  <2> TAKE i \in 1..n
  <2>1. ss[i] \in Seq(Range(ss[i])) /\ Range(ss[i]) \subseteq T
    BY <1>1
  <2> QED
    BY <2>1, SeqInto
<1>3. ss \in Seq(Seq(T)) /\ Len(ss) = n
  BY <1>2, ListIs
<1>4. PICK r : r = FlattenSeq(ss)
  OBVIOUS
<1>5. r \in Seq(T) /\ Range(r) = UNION {Range(ss[i]) : i \in 1..n}
  BY <1>3, <1>4, FlattenIs
<1>6. r \in Seq(Range(r))
  BY <1>1, <1>5
<1>7. Removed(r) = {e.id : e \in {f \in Range(r) : f.kind = "remove_node"}}
  BY <1>6, RemovedIs
<1>8. \A i \in 1..n : Removed(ss[i]) = {e.id : e \in {f \in Range(ss[i]) : f.kind = "remove_node"}}
  BY RemovedIs
<1>9. ASSUME NEW x \in Removed(r) PROVE \E i \in 1..n : x \in Removed(ss[i])
  <2>1. PICK e \in Range(r) : e.kind = "remove_node" /\ x = e.id
    BY <1>7, <1>9
  <2>2. PICK i \in 1..n : e \in Range(ss[i])
    BY <1>5, <2>1
  <2> QED
    BY <1>8, <2>1, <2>2
<1>10. ASSUME NEW i \in 1..n, NEW x \in Removed(ss[i]) PROVE x \in Removed(r)
  <2>1. PICK e \in Range(ss[i]) : e.kind = "remove_node" /\ x = e.id
    BY <1>8, <1>10
  <2> QED
    BY <1>5, <1>7, <2>1
<1> QED
  BY <1>4, <1>9, <1>10

\* A sweep has a first and a last cell.
LEMMA SweepIs ==
  ASSUME NEW R, Sweep(R)
  PROVE  Min(R) \in Int /\ Max(R) \in Int
<1>1. PICK a, b \in Int : a \in R /\ b \in R /\ R = a..b
  BY DEF Sweep
<1>2. a \in R /\ \A y \in R : a <= y
  BY <1>1
<1>3. b \in R /\ \A y \in R : y <= b
  BY <1>1
<1>4. Min(R) \in R
  BY <1>2 DEF Min
<1>5. Max(R) \in R
  BY <1>3 DEF Max
<1> QED
  BY <1>1, <1>4, <1>5

\* Pieces of an interval are intervals.
LEMMA RemnantsIs ==
  ASSUME NEW n, n.lo \in Int, n.hi \in Int, NEW R, Sweep(R)
  PROVE  Remnants(n, R) \in Seq(Interval)
<1>1. PICK p, q : p = Min(R) /\ q = Max(R)
  OBVIOUS
<1>2. p \in Int /\ q \in Int
  BY <1>1, SweepIs
<1>3. PICK A, B : A = [lo |-> n.lo, hi |-> p - 1] /\ B = [lo |-> q + 1, hi |-> n.hi]
  OBVIOUS
<1>4. PICK sides : sides = <<A, B>>
  OBVIOUS
<1>5. PICK S : S = {r \in Range(sides) : Cardinality(Cells(r) \cap Cells(n)) >= RemnantFloor}
  OBVIOUS
<1>6. PICK runs : runs = Kept(sides, S)
  OBVIOUS
<1> DEFINE clip(r) == [lo |-> IF r.lo < n.lo THEN n.lo ELSE r.lo,
                       hi |-> IF r.hi > n.hi THEN n.hi ELSE r.hi]
<1>7. Remnants(n, R) = [i \in DOMAIN runs |-> clip(runs[i])]
  BY <1>1, <1>3, <1>4, <1>5, <1>6 DEF Remnants
<1>8. sides \in Seq({A, B})
  BY <1>4
<1>9. runs \in Seq({A, B}) /\ Range(runs) = Range(sides) \cap S
  BY <1>6, <1>8, KeptIs
<1>10. ASSUME NEW i \in DOMAIN runs PROVE clip(runs[i]) \in Interval
  <2>1. PICK r : r = runs[i]
    OBVIOUS
  <2>2. r \in S /\ r \in {A, B}
    BY <1>9, <2>1 DEF Range
  <2>3. r.lo \in Int /\ r.hi \in Int
    BY <1>2, <1>3, <2>2
  <2>4. Cells(r) \cap Cells(n) # {}
    <3>1. Cardinality(Cells(r) \cap Cells(n)) >= RemnantFloor
      BY <1>5, <2>2
    <3>2. Cardinality({}) = 0
      BY FS_EmptySet
    <3> QED
      BY <3>1, <3>2, FloorAssumption
  <2>5. PICK c \in Cells(r) : c \in Cells(n)
    BY <2>4
  <2>6. c \in Int /\ r.lo <= c /\ c <= r.hi /\ n.lo <= c /\ c <= n.hi
    BY <2>3, <2>5 DEF Cells
  <2>7. clip(r).lo \in Int /\ clip(r).hi \in Int /\ clip(r).lo <= clip(r).hi
    BY <2>3, <2>6
  <2>8. clip(r) \in [lo : Int, hi : Int]
    BY <2>7
  <2> QED
    BY <2>1, <2>7, <2>8 DEF Interval
<1>11. PICK m : m = Len(runs) /\ m \in Nat /\ DOMAIN runs = 1..m
  BY <1>9
<1>12. PICK w : w = Remnants(n, R)
  OBVIOUS
<1> HIDE DEF clip
<1>13. w = [i \in 1..m |-> clip(runs[i])] /\ \A i \in 1..m : clip(runs[i]) \in Interval
  BY <1>7, <1>10, <1>11, <1>12
<1>14. w \in Seq(Interval)
  BY <1>11, <1>13
<1> QED
  BY <1>12, <1>14

-----------------------------------------------------------------------------
\* What Kept leaves.
LEMMA KeptOf ==
  ASSUME NEW T, NEW s \in Seq(T), NEW S, NEW r, r = Kept(s, S)
  PROVE  r \in Seq(T) /\ \A i \in DOMAIN r : r[i] \in S /\ r[i] \in T /\ r[i] \in Range(s)
<1>1. r \in Seq(T) /\ Range(r) = Range(s) \cap S
  BY KeptIs
<1> QED
  BY <1>1 DEF Range

\* What is swept is ink.
LEMMA HitIs ==
  ASSUME NEW page, Tree(page), NEW R, NEW skip, NEW hits, hits = HitInks(page, R, skip)
  PROVE  hits \in Seq(Ids(page)) /\ \A i \in DOMAIN hits : page.node[hits[i]].kind = "ink"
<1>1. PICK inks : inks = ErasableInks(page)
  OBVIOUS
<1>2. PaintOrder(page) \in Seq(Ids(page))
  BY PaintIs
<1>3. inks \in Seq(Ids(page)) /\ \A i \in DOMAIN inks : page.node[inks[i]].kind = "ink"
  <2>1. PICK S : S = {x \in Ids(page) : /\ page.node[x].kind = "ink"
                                        /\ ~Of(page, ParentOf(page, x), "conn")}
    OBVIOUS
  <2>2. inks = Kept(PaintOrder(page), S)
    BY <1>1, <2>1 DEF ErasableInks
  <2>3. inks \in Seq(Ids(page)) /\ \A i \in DOMAIN inks : inks[i] \in S
    BY <1>2, <2>2, KeptOf
  <2> QED
    BY <2>1, <2>3
<1>4. PICK H : H = {x \in Range(inks) : /\ ParentOf(page, x) \notin skip
                                        /\ WorldCells(page, x) \cap R # {}}
  OBVIOUS
<1>5. hits = Kept(inks, H)
  BY <1>1, <1>4 DEF HitInks
<1>6. hits \in Seq(Ids(page)) /\ \A i \in DOMAIN hits : hits[i] \in Range(inks)
  BY <1>3, <1>5, KeptOf
<1> QED
  BY <1>3, <1>6 DEF Range

\* A box is somewhere.
LEMMA OwnAtIs ==
  ASSUME NEW page, Tree(page), NEW x
  PROVE  OwnAt(page, x) \in Int
<1>1. PICK b : b = ParentOf(page, x)
  OBVIOUS
<1>2. CASE Of(page, b, "box")
  <2>1. b \in Ids(page) /\ page.node[b].kind = "box"
    BY <1>2 DEF Of, Has
  <2>2. page.node[b].at \in Int
    BY <2>1, TreeIs, KindIs, BoxIs
  <2> QED
    BY <1>1, <1>2, <2>2 DEF OwnAt
<1>3. CASE ~Of(page, b, "box")
  BY <1>1, <1>3 DEF OwnAt
<1> QED
  BY <1>2, <1>3

\* What becomes of one ink.
LEMMA RemnantBits ==
  ASSUME NEW page, Tree(page), NEW x \in Ids(page), page.node[x].kind = "ink", NEW R, Sweep(R),
         NEW fresh \in Nat \ {0}, fresh \notin Ids(page), NEW es, es = RemnantEdits(page, x, R, fresh)
  PROVE  /\ Bits(Outline(page), es, {fresh})
         /\ Removed(es) \subseteq {y \in {x} : Remnants(Moved(page.node[x], OwnAt(page, x)), R) = << >>}
<1>1. PICK P, n, d, rem : P = Outline(page) /\ n = page.node[x] /\ d = OwnAt(page, x)
                          /\ rem = Remnants(Moved(page.node[x], d), R)
  OBVIOUS
<1>2. d \in Int
  BY <1>1, OwnAtIs
<1>3. n \in InkNode
  BY <1>1, TreeIs, KindIs
<1>4. n.lo \in Int /\ n.hi \in Int /\ n.kind = "ink" /\ DOMAIN n = InkFields
  BY <1>3, InkIs DEF Record
<1>5. rem \in Seq(Interval)
  <2>1. PICK m : m = Moved(n, d)
    OBVIOUS
  <2>2. m.lo \in Int /\ m.hi \in Int
    BY <1>2, <1>4, <2>1 DEF Moved
  <2> QED
    BY <1>1, <2>1, <2>2, RemnantsIs
<1>6. /\ P.node = page.node /\ DOMAIN P.node = Ids(page) /\ P.up = Up(page)
      /\ \A kind : Of(P, x, kind) <=> Of(page, x, kind)
  BY <1>1, OutlineIs
<1>7. Of(P, x, "ink") /\ P.up[x] = ParentOf(page, x) /\ P.node[x].kind = "ink"
  BY <1>1, <1>4, <1>6 DEF Of, Has, Up
<1>8. CASE rem = << >>
  <2>1. PICK e : e = RemoveNode(x)
    OBVIOUS
  <2>2. es = <<e>>
    BY <1>1, <1>8, <2>1 DEF RemnantEdits
  <2>3. e.kind = "remove_node" /\ e.id = x
    BY <2>1 DEF RemoveNode
  <2>4. Bit(P, e, {fresh}) /\ e.kind \notin Creates
    BY <1>6, <2>3 DEF Bit, PartOK, Makes, Creates
  <2>5. Bits(P, <<e>>, {fresh}) /\ Removed(<<e>>) = {x}
    BY <2>3, <2>4, BitsOne, RemovedOne
  <2> QED
    BY <1>1, <1>8, <2>2, <2>5
<1>9. CASE rem # << >>
  <2>1. PICK long : long = IF Len(rem) = 2 /\ rem[2].hi - rem[2].lo > rem[1].hi - rem[1].lo THEN 2 ELSE 1
    OBVIOUS
  <2>2. PICK keep, rest : keep = Moved(rem[long], -d) /\ rest = Moved(rem[3 - long], -d)
    OBVIOUS
  <2>3. PICK piece : piece = [page.node[x] EXCEPT !.lo = rest.lo, !.hi = rest.hi, !.last = 0]
    OBVIOUS
  <2>4. PICK e, f : e = SetInkSamples(x, keep.lo, keep.hi) /\ f = AppendInk(fresh, piece, ParentOf(page, x), x)
    OBVIOUS
  <2>5. es = <<e>> \o (IF Len(rem) = 2 THEN <<f>> ELSE << >>)
    BY <1>1, <1>9, <2>1, <2>2, <2>3, <2>4 DEF RemnantEdits
  <2>6. \A i \in 1..Len(rem) : rem[i].lo \in Int /\ rem[i].hi \in Int /\ rem[i].lo <= rem[i].hi
    BY <1>5 DEF Interval
  <2>7. long \in {1, 2} /\ long \in 1..Len(rem)
    BY <1>5, <1>9, <2>1
  <2>8. keep.lo \in Int /\ keep.hi \in Int /\ keep.lo <= keep.hi
    <3>1. PICK r : r = rem[long] /\ r.lo \in Int /\ r.hi \in Int /\ r.lo <= r.hi
      BY <2>6, <2>7
    <3> QED
      BY <1>2, <2>2, <3>1 DEF Moved
  <2>9. Bit(P, e, {fresh}) /\ e.kind \notin Creates /\ Makes(e) = {} /\ Removed(<<e>>) = {}
    <3>1. e.kind = "set_ink_samples" /\ e.id = x /\ e.lo = keep.lo /\ e.hi = keep.hi
      BY <2>4 DEF SetInkSamples
    <3>2. Makes(e) = {}
      BY <3>1 DEF Makes
    <3>3. PartOK(P, e)
      BY <1>7, <2>8, <3>1 DEF PartOK
    <3>4. Removed(<<e>>) = {}
      BY <3>1, RemovedOne
    <3> QED
      BY <3>1, <3>2, <3>3, <3>4 DEF Bit, Creates
  <2>10. CASE Len(rem) = 2
    <3>1. 3 - long \in 1..Len(rem)
      BY <2>7, <2>10
    <3>2. rest.lo \in Int /\ rest.hi \in Int /\ rest.lo <= rest.hi
      <4>1. PICK r : r = rem[3 - long] /\ r.lo \in Int /\ r.hi \in Int /\ r.lo <= r.hi
        BY <2>6, <3>1
      <4> QED
        BY <1>2, <2>2, <4>1 DEF Moved
    <3>3. piece \in InkNode
      <4>1. /\ DOMAIN piece = InkFields /\ piece = [g \in InkFields |-> piece[g]]
            /\ piece.lo = rest.lo /\ piece.hi = rest.hi /\ piece.last = 0
            /\ piece.kind = n.kind /\ piece.loop = n.loop /\ piece.role = n.role
        BY <1>1, <1>4, <2>3 DEF InkFields
      <4>2. n.loop \in BOOLEAN /\ n.role \in {"none", "boundary", "content"}
        BY <1>3, InkIs
      <4> QED
        BY <1>4, <3>2, <4>1, <4>2, InkIs DEF Record
    <3>4. f.kind = "append_ink" /\ f.id = fresh /\ f.rec = piece /\ f.parent = ParentOf(page, x) /\ f.after = x
      BY <2>4 DEF AppendInk
    <3>5. PartOK(P, f)
      BY <1>6, <1>7, <3>3, <3>4 DEF PartOK, Root
    <3>6. Makes(f) \subseteq {fresh}
      BY <3>4 DEF Makes
    <3>7. Bit(P, f, {fresh})
      BY <3>4, <3>5, <3>6 DEF Bit
    <3>8. Bits(P, <<e>> \o <<f>>, {fresh})
      BY <2>9, <3>7, BitsTwo
    <3>9. Removed(<<e>> \o <<f>>) = {}
      <4>1. Removed(<<f>>) = {}
        BY <3>4, RemovedOne
      <4>2. PICK u, v : u = <<e>> /\ v = <<f>> /\ u \in Seq(Range(u)) /\ v \in Seq(Range(v))
        <5>1. ASSUME NEW g PROVE <<g>> \in Seq(Range(<<g>>))
          BY DEF Range
        <5> QED
          BY <5>1
      <4>3. Removed(u \o v) = Removed(u) \cup Removed(v)
        BY <4>2, RemovedConcat
      <4> QED
        BY <2>9, <4>1, <4>2, <4>3
    <3> QED
      BY <1>1, <2>5, <2>10, <3>8, <3>9
  <2>11. CASE Len(rem) # 2
    <3>1. es = <<e>>
      BY <2>5, <2>11
    <3>2. Bits(P, es, {fresh}) /\ Removed(es) = {}
      BY <2>9, <3>1, BitsOne
    <3> QED
      BY <1>1, <3>2
  <2> QED
    BY <2>10, <2>11
<1> QED
  BY <1>8, <1>9

-----------------------------------------------------------------------------
\* Style strokes stay intervals in and out of the frame of an end.
LEMMA MovedPiece ==
  ASSUME NEW n \in Interval, NEW end \in Int
  PROVE  ToWorld(end, n) \in Interval /\ ToFace(end, n) \in Interval
<1>1. n.lo \in Int /\ n.hi \in Int /\ n.lo <= n.hi
  BY DEF Interval
<1>2. n.lo + end \in Int /\ n.hi + end \in Int /\ n.lo + end <= n.hi + end
  BY <1>1
<1>3. n.lo - end \in Int /\ n.hi - end \in Int /\ n.lo - end <= n.hi - end
  BY <1>1
<1>4. ASSUME NEW lo \in Int, NEW hi \in Int, lo <= hi PROVE [lo |-> lo, hi |-> hi] \in Interval
  BY <1>4 DEF Interval
<1> QED
  BY <1>2, <1>3, <1>4 DEF ToWorld, ToFace

\* What a sweep leaves of a style stroke are intervals.
LEMMA StyleLeftIs ==
  ASSUME NEW n \in Interval, NEW R, Sweep(R), NEW whole \in BOOLEAN
  PROVE  StyleLeft(n, R, whole) \in Seq(Interval)
<1>1. n.lo \in Int /\ n.hi \in Int
  BY DEF Interval
<1>2. Remnants(n, R) \in Seq(Interval)
  BY <1>1, RemnantsIs
<1>3. << >> \in Seq(Interval) /\ <<n>> \in Seq(Interval)
  OBVIOUS
<1> QED
  BY <1>2, <1>3 DEF StyleLeft

\* One end of a connector: at most one part, of that connector.
LEMMA StyleEditBits ==
  ASSUME NEW page, Tree(page), NEW x \in Ids(page), page.node[x].kind = "conn", NEW fromEnd \in BOOLEAN,
         NEW R, Sweep(R), NEW whole \in BOOLEAN, NEW es, es = StyleEdit(page, x, fromEnd, R, whole)
  PROVE  /\ Bits(Outline(page), es, {}) /\ es \in Seq(Range(es)) /\ Removed(es) = {}
         /\ \A i \in DOMAIN es : es[i].id = x
<1>1. PICK c, end, now : c = page.node[x] /\ end = (IF fromEnd THEN c.p ELSE c.q)
                         /\ now = (IF fromEnd THEN c.fromInk ELSE c.toInk)
  OBVIOUS
<1>2. c \in ConnNode
  BY <1>1, TreeIs, KindIs
<1>3. end \in Int /\ now \in Seq(Interval)
  BY <1>1, <1>2, ConnIs
<1>4. Len(now) \in Nat /\ DOMAIN now = 1..Len(now) /\ \A i \in DOMAIN now : now[i] \in Interval
  BY <1>3
<1>5. PICK lefts : lefts = [i \in DOMAIN now |-> StyleLeft(ToWorld(end, now[i]), R, whole)]
  OBVIOUS
<1>6. \A i \in DOMAIN now : StyleLeft(ToWorld(end, now[i]), R, whole) \in Seq(Interval)
  BY <1>3, <1>4, MovedPiece, StyleLeftIs
<1>7. lefts \in Seq(Seq(Interval))
  BY <1>4, <1>5, <1>6
<1>8. PICK rest : rest = FlattenSeq(lefts)
  OBVIOUS
<1>9. rest \in Seq(Interval)
  BY <1>7, <1>8, FlattenIs
<1>10. PICK next : next = [i \in DOMAIN rest |-> ToFace(end, rest[i])]
  OBVIOUS
<1>11. Len(rest) \in Nat /\ DOMAIN rest = 1..Len(rest) /\ \A i \in DOMAIN rest : rest[i] \in Interval
  BY <1>9
<1>12. \A i \in DOMAIN rest : ToFace(end, rest[i]) \in Interval
  BY <1>3, <1>11, MovedPiece
<1>13. next \in Seq(Interval)
  BY <1>10, <1>11, <1>12
<1>14. es = IF next = now THEN << >> ELSE <<SetEndpointInk(x, fromEnd, next)>>
  <2> DEFINE Now == IF fromEnd THEN page.node[x].fromInk ELSE page.node[x].toInk
             End == IF fromEnd THEN page.node[x].p ELSE page.node[x].q
             Lefts == [i \in DOMAIN Now |-> StyleLeft(ToWorld(End, Now[i]), R, whole)]
             Faces == [i \in DOMAIN FlattenSeq(Lefts) |-> ToFace(End, FlattenSeq(Lefts)[i])]
  <2>1. es = IF Faces = Now THEN << >> ELSE <<SetEndpointInk(x, fromEnd, Faces)>>
    BY DEF StyleEdit
  <2>2. Now = now /\ End = end
    BY <1>1
  <2> HIDE DEF Now, End
  <2>3. Lefts = lefts
    BY <1>5, <2>2
  <2> HIDE DEF Lefts
  <2>4. Faces = next
    BY <1>8, <1>10, <2>2, <2>3
  <2> HIDE DEF Faces
  <2> QED
    BY <2>1, <2>2, <2>4
<1>15. CASE next = now
  <2>1. es = << >>
    BY <1>14, <1>15
  <2> QED
    BY <2>1, BitsNone, RemovedNone
<1>16. CASE next # now
  <2>1. PICK e : e = SetEndpointInk(x, fromEnd, next)
    OBVIOUS
  <2>2. /\ e.kind = "set_endpoint_ink" /\ e.id = x /\ e.fromEnd = fromEnd /\ e.strokes = next
        /\ "strokes" \in DOMAIN e
    BY <2>1 DEF SetEndpointInk
  <2>3. Of(Outline(page), x, "conn")
    BY OutlineIs DEF Of, Has
  <2>4. PartOK(Outline(page), e)
    BY <1>13, <2>2, <2>3 DEF PartOK
  <2>5. e.kind # "restore" /\ e.kind \notin Creates /\ Makes(e) \subseteq {}
    BY <2>2 DEF Creates, Makes
  <2>6. Bit(Outline(page), e, {})
    BY <2>4, <2>5 DEF Bit
  <2>7. es = <<e>>
    BY <1>14, <1>16, <2>1
  <2>8. es \in Seq(Range(es)) /\ \A i \in DOMAIN es : es[i].id = x
    BY <2>2, <2>7 DEF Range
  <2>9. Bits(Outline(page), <<e>>, {}) /\ Removed(<<e>>) = {}
    BY <2>2, <2>5, <2>6, BitsOne, RemovedOne
  <2> QED
    BY <2>7, <2>8, <2>9
<1> QED
  BY <1>15, <1>16

\* The parts for the style ink of any connectors.
LEMMA StyleEditsBits ==
  ASSUME NEW page, Tree(page), NEW conns, conns \subseteq Connectors(page), NEW R, Sweep(R),
         NEW whole \in BOOLEAN
  PROVE  /\ Bits(Outline(page), StyleEdits(page, conns, R, whole), {})
         /\ Removed(StyleEdits(page, conns, R, whole)) = {}
<1>1. PICK order : order = Kept(PaintOrder(page), conns)
  OBVIOUS
<1>2. order \in Seq(Ids(page)) /\ \A i \in DOMAIN order : order[i] \in conns
  BY <1>1, PaintIs, KeptOf
<1>3. Len(order) \in Nat /\ DOMAIN order = 1..Len(order)
  BY <1>2
<1>4. PICK ss : ss = [i \in DOMAIN order |-> StyleEdit(page, order[i], TRUE, R, whole)
                                               \o StyleEdit(page, order[i], FALSE, R, whole)]
  OBVIOUS
<1>5. StyleEdits(page, conns, R, whole) = FlattenSeq(ss)
  BY <1>1, <1>4 DEF StyleEdits
<1>6. ASSUME NEW i \in 1..Len(order) PROVE Bits(Outline(page), ss[i], {}) /\ Removed(ss[i]) = {}
  <2>1. PICK s, t : s = StyleEdit(page, order[i], TRUE, R, whole) /\ t = StyleEdit(page, order[i], FALSE, R, whole)
    OBVIOUS
  <2>2. order[i] \in Ids(page) /\ page.node[order[i]].kind = "conn"
    BY <1>2, <1>3 DEF Connectors
  <2>3. /\ Bits(Outline(page), s, {}) /\ Bits(Outline(page), t, {})
        /\ s \in Seq(Range(s)) /\ t \in Seq(Range(t)) /\ Removed(s) = {} /\ Removed(t) = {}
    BY <2>1, <2>2, StyleEditBits
  <2>4. Bits(Outline(page), s \o t, {} \cup {})
    BY <2>3, BitsConcat
  <2>5. Removed(s \o t) = {}
    BY <2>3, RemovedConcat
  <2> QED
    BY <1>3, <1>4, <2>1, <2>4, <2>5
<1>7. PICK M : M = [i \in 1..Len(order) |-> {}]
  OBVIOUS
<1>8. /\ Len(ss) = Len(order) /\ DOMAIN ss = 1..Len(order) /\ (Len(order) = 0 => ss = << >>)
      /\ ss = [i \in 1..Len(order) |-> ss[i]]
  <2>1. DOMAIN ss = 1..Len(order) /\ ss = [i \in 1..Len(order) |-> ss[i]]
    BY <1>3, <1>4, Zenon
  <2> QED
    BY <1>3, <2>1, ListIs
<1>9. /\ \A i \in 1..Len(order) : Bits(Outline(page), ss[i], M[i])
      /\ \A i, j \in 1..Len(order) : i # j => M[i] \cap M[j] = {}
      /\ \A i \in 1..Len(order) : M[i] \subseteq {}
  BY <1>6, <1>7
<1>10. PICK n, P, N : n = Len(order) /\ P = Outline(page) /\ N = {}
  OBVIOUS
<1>11. Bits(P, FlattenSeq(ss), N)
  BY <1>3, <1>8, <1>9, <1>10, BitsFlatten
<1>12. Removed(FlattenSeq(ss)) = {}
  <2>1. \A i \in 1..n : ss[i] \in Seq(Range(ss[i])) /\ Removed(ss[i]) = {}
    BY <1>6, <1>10 DEF Bits
  <2>2. Removed(FlattenSeq(ss)) = UNION {Removed(ss[i]) : i \in 1..n}
    BY <1>3, <1>8, <1>10, <2>1, RemovedFlatten
  <2> QED
    BY <2>1, <2>2
<1> QED
  BY <1>5, <1>10, <1>11, <1>12

-----------------------------------------------------------------------------
\* Root nodes chosen by an eraser.
LEMMA AmongIs ==
  ASSUME NEW page, Tree(page), NEW S, NEW ids, ids = Among(page, S)
  PROVE  /\ ids \in Seq(Ids(page)) /\ OneOnly(ids)
         /\ \A i \in DOMAIN ids : ids[i] \in S /\ Up(page)[ids[i]] = Root
<1>1. PICK s : s = page.kids[Root]
  OBVIOUS
<1>2. Root \in Ids(page) \cup {Root}
  OBVIOUS
<1>3. s \in Seq(Ids(page)) /\ OneOnly(s) /\ Range(s) = {x \in Ids(page) : Up(page)[x] = Root}
  BY <1>1, <1>2, TreeIs, KidsUp
<1>4. ids = Kept(s, S)
  BY <1>1 DEF Among
<1>5. ids \in Seq(Ids(page)) /\ OneOnly(ids) /\ Range(ids) = Range(s) \cap S
  BY <1>3, <1>4, KeptIs
<1>6. \A i \in DOMAIN ids : ids[i] \in Range(ids)
  BY DEF Range
<1> QED
  BY <1>3, <1>5, <1>6

\* Inks that a sweep leaves nothing of, and the boxes they were all the ink of.
Doomed(page, hits, R) == {x \in Range(hits) : Remnants(Moved(page.node[x], OwnAt(page, x)), R) = << >>}
Bereft(page, gone) ==
    {b \in Ids(page) : /\ page.node[b].kind = "box"
                       /\ Kids(page, b, "ink") # << >>
                       /\ Range(Kids(page, b, "ink")) \subseteq gone}

\* What is in a sequence is in its reverse.
LEMMA ReversedIs ==
  ASSUME NEW T, NEW s \in Seq(T)
  PROVE  Reverse(s) \in Seq(T) /\ Range(Reverse(s)) = Range(s)
<1>1. PICK n, r : n = Len(s) /\ r = Reverse(s)
  OBVIOUS
<1>2. n \in Nat /\ DOMAIN s = 1..n /\ \A i \in 1..n : s[i] \in T
  BY <1>1
<1>3. \A i \in 1..n : (n - i) + 1 \in 1..n /\ (n - ((n - i) + 1)) + 1 = i
  BY <1>2
<1>4. r = [i \in 1..n |-> s[(n - i) + 1]]
  BY <1>1 DEF Reverse
<1>5. r \in Seq(T) /\ DOMAIN r = 1..n
  BY <1>2, <1>3, <1>4
<1>6. \A i \in 1..n : r[(n - i) + 1] = s[i] /\ r[i] = s[(n - i) + 1]
  BY <1>3, <1>4
<1>7. Range(r) = Range(s)
  BY <1>2, <1>3, <1>5, <1>6 DEF Range
<1> QED
  BY <1>1, <1>5, <1>7

\* Those are the boxes that a brush takes with their inks.
LEMMA EmptiedIs ==
  ASSUME NEW page, Tree(page), NEW hits, NEW R, NEW rev \in BOOLEAN
  PROVE  /\ EmptiedBoxes(page, hits, R, rev) \in Seq(Ids(page))
         /\ Range(EmptiedBoxes(page, hits, R, rev)) = Bereft(page, Doomed(page, hits, R))
<1>1. PICK gone : gone = Doomed(page, hits, R)
  OBVIOUS
<1>2. PICK S : S = Bereft(page, gone)
  OBVIOUS
<1>3. PICK out : out = Kept(PaintOrder(page), S)
  OBVIOUS
<1>4. out \in Seq(Ids(page)) /\ Range(out) = Range(PaintOrder(page)) \cap S
  BY <1>3, PaintIs, KeptIs
<1>5. Range(out) = S
  BY <1>2, <1>4, PaintAll DEF Bereft
<1>6. EmptiedBoxes(page, hits, R, rev) = IF rev THEN Reverse(out) ELSE out
  BY <1>1, <1>2, <1>3 DEF EmptiedBoxes, Doomed, Bereft
<1>7. Reverse(out) \in Seq(Ids(page)) /\ Range(Reverse(out)) = S
  BY <1>4, <1>5, ReversedIs
<1> QED
  BY <1>1, <1>2, <1>4, <1>5, <1>6, <1>7

\* All that a sweep of the eraser asks for.
LEMMA EraseBits ==
  ASSUME NEW page, Tree(page), NEW R, Sweep(R), NEW skip, NEW next \in Nat \ {0}, \A x \in Ids(page) : x < next,
         NEW rev \in BOOLEAN, NEW k, k = Len(HitInks(page, R, skip))
  PROVE  /\ k \in Nat /\ Bits(Outline(page), PlanErase(page, R, skip, next, rev), next..(next + k - 1))
         /\ \E gone : /\ Bereft(page, gone) \subseteq Removed(PlanErase(page, R, skip, next, rev))
                      /\ Removed(PlanErase(page, R, skip, next, rev)) \subseteq gone \cup Bereft(page, gone)
<1>1. PICK hits, boxes, P : hits = HitInks(page, R, skip) /\ boxes = EmptiedBoxes(page, hits, R, rev)
                            /\ P = Outline(page)
  OBVIOUS
<1>2. hits \in Seq(Ids(page)) /\ \A i \in DOMAIN hits : page.node[hits[i]].kind = "ink"
  BY <1>1, HitIs
<1>3. k \in Nat /\ DOMAIN hits = 1..k
  BY <1>1, <1>2
<1>4. PICK ss : ss = [i \in DOMAIN hits |-> RemnantEdits(page, hits[i], R, next + i - 1)]
  OBVIOUS
<1>5. PICK M, N : M = [i \in 1..k |-> {next + i - 1}] /\ N = next..(next + k - 1)
  OBVIOUS
<1>0. PICK gone : gone = Doomed(page, hits, R)
  OBVIOUS
<1>6. Bits(P, FlattenSeq(ss), N) /\ Removed(FlattenSeq(ss)) \subseteq gone
  <2>1. DOMAIN ss = 1..k /\ ss = [i \in 1..k |-> ss[i]]
    BY <1>3, <1>4, Zenon
  <2>2. Len(ss) = k /\ (k = 0 => ss = << >>)
    BY <1>3, <2>1, ListIs
  <2>3. ASSUME NEW i \in 1..k PROVE Bits(P, ss[i], M[i]) /\ Removed(ss[i]) \subseteq gone
    <3>1. PICK fresh, x : fresh = next + i - 1 /\ x = hits[i]
      OBVIOUS
    <3>2. fresh \in Nat \ {0} /\ fresh >= next
      BY <1>3, <3>1
    <3>3. fresh \notin Ids(page) /\ x \in Ids(page) /\ page.node[x].kind = "ink"
      <4>1. x \in Ids(page) /\ page.node[x].kind = "ink"
        BY <1>2, <1>3, <3>1
      <4>2. Ids(page) \subseteq Nat
        BY TreeIs
      <4> QED
        BY <3>2, <4>1, <4>2
    <3>4. ss[i] = RemnantEdits(page, x, R, fresh)
      BY <1>3, <1>4, <3>1
    <3>5. /\ Bits(P, ss[i], {fresh})
          /\ Removed(ss[i]) \subseteq {y \in {x} : Remnants(Moved(page.node[x], OwnAt(page, x)), R) = << >>}
      BY <1>1, <3>2, <3>3, <3>4, RemnantBits
    <3>6. x \in Range(hits)
      BY <1>3, <3>1 DEF Range
    <3>7. Removed(ss[i]) \subseteq gone
      BY <1>0, <3>5, <3>6 DEF Doomed
    <3> QED
      BY <1>5, <3>1, <3>5, <3>7
  <2>4. \A i, j \in 1..k : i # j => M[i] \cap M[j] = {}
    BY <1>3, <1>5
  <2>5. \A i \in 1..k : M[i] \subseteq N
    BY <1>3, <1>5
  <2>6. Bits(P, FlattenSeq(ss), N)
    BY <1>3, <2>1, <2>2, <2>3, <2>4, <2>5, BitsFlatten
  <2>7. \A i \in 1..k : ss[i] \in Seq(Range(ss[i]))
    BY <2>3 DEF Bits
  <2>8. Removed(FlattenSeq(ss)) = UNION {Removed(ss[i]) : i \in 1..k}
    BY <1>3, <2>1, <2>7, RemovedFlatten
  <2> QED
    BY <2>3, <2>6, <2>8
<1>7. /\ Bits(P, StyleEdits(page, Connectors(page), R, FALSE), {})
      /\ Removed(StyleEdits(page, Connectors(page), R, FALSE)) = {}
  BY <1>1, StyleEditsBits
<1>8. PICK rs : rs = [i \in DOMAIN boxes |-> RemoveNode(boxes[i])]
  OBVIOUS
<1>9. Bits(P, rs, {}) /\ Removed(rs) = Bereft(page, gone)
  <2>1. /\ boxes \in Seq(Ids(page)) /\ Ids(page) \subseteq DOMAIN P.node
        /\ Range(boxes) = Bereft(page, gone)
    BY <1>0, <1>1, EmptiedIs, OutlineIs
  <2> QED
    BY <1>8, <2>1, RemovesBits, RemovesAre
<1>10. PICK a, b : a = FlattenSeq(ss) /\ b = StyleEdits(page, Connectors(page), R, FALSE)
  OBVIOUS
<1>11. Bits(P, a \o b, N \cup {})
  BY <1>6, <1>7, <1>10, BitsConcat
<1>12. Bits(P, (a \o b) \o rs, (N \cup {}) \cup {})
  BY <1>9, <1>11, BitsConcat
<1>13. PlanErase(page, R, skip, next, rev) = (a \o b) \o rs
  BY <1>1, <1>4, <1>8, <1>10 DEF PlanErase
<1>14. Removed((a \o b) \o rs) = (Removed(a) \cup Removed(b)) \cup Removed(rs)
  <2>1. PICK c : c = a \o b
    OBVIOUS
  <2>2. a \in Seq(Range(a)) /\ b \in Seq(Range(b)) /\ c \in Seq(Range(c)) /\ rs \in Seq(Range(rs))
    BY <1>6, <1>7, <1>9, <1>10, <1>11, <2>1 DEF Bits
  <2>3. Removed(c) = Removed(a) \cup Removed(b) /\ Removed(c \o rs) = Removed(c) \cup Removed(rs)
    BY <2>1, <2>2, RemovedConcat
  <2> QED
    BY <2>1, <2>3
<1>15. /\ Bereft(page, gone) \subseteq Removed(PlanErase(page, R, skip, next, rev))
       /\ Removed(PlanErase(page, R, skip, next, rev)) \subseteq gone \cup Bereft(page, gone)
  BY <1>6, <1>7, <1>9, <1>10, <1>13, <1>14
<1> QED
  BY <1>1, <1>3, <1>5, <1>12, <1>13, <1>15

-----------------------------------------------------------------------------
\* The commit of parts that were put together so.
LEMMA BitsCommit ==
  ASSUME NEW d, DocOK(d), ~d.latched, NEW k \in Nat, NEW es, Bits(Outline(d.page), es, d.next..(d.next + k - 1)),
         NEW new, new = CommitParts(WithIds(d, k), es)
  PROVE  Sane(new) /\ (Spares(Outline(d.page), Removed(es)) => Fills(d, new))
<1>1. PICK c, base : c = WithIds(d, k) /\ base = d.next
  OBVIOUS
<1>2. DocOK(c) /\ c.page = d.page /\ c.next = base + k /\ c.latched = d.latched
  BY <1>1, NextMore
<1>3. base \in Nat /\ base <= base + k /\ base + k \in Nat /\ (base + k) - 1 = base + k - 1
  BY <1>1 DEF DocOK, DocShape
<1>4. Tree(d.page) /\ Known(Outline(d.page), base)
  BY <1>1 DEF DocOK, PageOK
<1>5. PICK page, next : page = d.page /\ next = base + k
  OBVIOUS
<1>6. Planned(page, next, base, es)
  BY <1>1, <1>3, <1>4, <1>5, BitsPlanned
<1>7. Sane(new) /\ PartsDo(c, es, new)
  BY <1>1, <1>2, <1>5, <1>6, CommitPartsOK
<1>8. DOMAIN d = DocFields
  BY DEF DocOK, DocShape
<1>9. Spares(Outline(c.page), Removed(es)) => Fills(c, new)
  BY <1>2, <1>7, BitsFill
<1> QED
  BY <1>1, <1>2, <1>7, <1>8, <1>9, FilledMore DEF Fills
\* A gesture that makes no node.
LEMMA BitsHere ==
  ASSUME NEW d, DocOK(d), ~d.latched, NEW es, Bits(Outline(d.page), es, {}), NEW new, new = CommitParts(d, es)
  PROVE  Sane(new) /\ (Spares(Outline(d.page), Removed(es)) => Fills(d, new))
<1>1. PICK base, page : base = d.next /\ page = d.page
  OBVIOUS
<1>2. base \in Nat /\ base <= base /\ base..(base - 1) = {}
  BY <1>1 DEF DocOK, DocShape
<1>3. Tree(page) /\ Known(Outline(page), base)
  BY <1>1 DEF DocOK, PageOK
<1>4. Planned(page, base, base, es)
  BY <1>1, <1>2, <1>3, BitsPlanned
<1>5. Sane(new) /\ PartsDo(d, es, new)
  BY <1>1, <1>4, CommitPartsOK
<1> QED
  BY <1>5, BitsFill

-----------------------------------------------------------------------------
(***************************************************************************)
(* The erasers, and cutting.                                               *)
(***************************************************************************)
LEMMA DocIs ==
  ASSUME NEW d, DocOK(d)
  PROVE  /\ d.next \in Nat \ {0} /\ Tree(d.page) /\ Known(Outline(d.page), d.next)
         /\ \A x \in Ids(d.page) : x < d.next
         /\ \A x \in Ids(d.page) : Named(d.page.node[x], d.next)
<1>1. d.next \in Nat \ {0} /\ Tree(d.page) /\ Known(Outline(d.page), d.next)
  BY DEF DocOK, DocShape, PageOK
<1> QED
  BY <1>1, KnownIs

\* What is removed is swept, a box, or on the page itself: a box that stays
\* keeps an ink.
LEMMA SparesBy ==
  ASSUME NEW page, Tree(page), Inked(Outline(page)), NEW gone, NEW T, Bereft(page, gone) \subseteq T,
         T \subseteq gone \cup {x \in Ids(page) : page.node[x].kind # "ink" \/ Up(page)[x] = Root}
  PROVE  Spares(Outline(page), T)
<1>1. PICK P : P = Outline(page)
  OBVIOUS
<1>2. P.node = page.node /\ DOMAIN P.node = Ids(page) /\ P.up = Up(page) /\ DOMAIN Up(page) = Ids(page)
  BY <1>1, OutlineIs
<1>3. SUFFICES ASSUME NEW b \in Ids(page), page.node[b].kind = "box", b \notin Below(P.up, T)
               PROVE  \E x \in Ids(page) \ T : page.node[x].kind = "ink" /\ Up(page)[x] = b
  BY <1>1, <1>2 DEF Spares
<1>4. b \notin T /\ b \notin Bereft(page, gone) /\ b # Root
  BY <1>2, <1>3, BelowIs, TreeIs
<1>5. PICK kids : kids = Kids(page, b, "ink")
  OBVIOUS
<1>6. \A x : x \in Range(kids) <=> x \in Ids(page) /\ Up(page)[x] = b /\ page.node[x].kind = "ink"
  BY <1>3, <1>5, KidsOf
<1>7. PICK x \in Range(kids) : TRUE
  BY <1>1, <1>2, <1>3, <1>6 DEF Inked
<1>8. kids # << >>
  BY <1>7 DEF Range
<1>9. PICK y \in Range(kids) : y \notin gone
  BY <1>3, <1>4, <1>5, <1>8 DEF Bereft
<1>10. y \notin T
  BY <1>4, <1>6, <1>9
<1> QED
  BY <1>6, <1>10
LEMMA SparesWhole ==
  ASSUME NEW page, Tree(page), Inked(Outline(page)), NEW T,
         T \subseteq {x \in Ids(page) : page.node[x].kind # "ink" \/ Up(page)[x] = Root}
  PROVE  Spares(Outline(page), T)
<1>1. Bereft(page, {}) = {}
  <2>1. SUFFICES ASSUME NEW b \in Bereft(page, {}) PROVE FALSE
    OBVIOUS
  <2>2. PICK kids : kids = Kids(page, b, "ink")
    OBVIOUS
  <2>3. b \in Ids(page) \cup {Root} /\ kids # << >> /\ Range(kids) = {}
    BY <2>1, <2>2 DEF Bereft
  <2>4. kids \in Seq(Ids(page))
    BY <2>2, <2>3, KidsOf
  <2>5. 1 \in DOMAIN kids
    BY <2>3, <2>4
  <2>6. kids[1] \in Range(kids)
    BY <2>5 DEF Range
  <2> QED
    BY <2>3, <2>6
<1>2. PICK gone : gone = {}
  OBVIOUS
<1>3. Bereft(page, gone) \subseteq T
  BY <1>1, <1>2
<1> QED
  BY <1>2, <1>3, SparesBy

\* commitEraseRegion.
LEMMA BrushSane ==
  ASSUME NEW d, DocOK(d), ~d.latched, NEW R, Sweep(R), NEW rev \in BOOLEAN
  PROVE  Sane(EraseBrush(d, R, rev)) /\ Fills(d, EraseBrush(d, R, rev))
<1>1. PICK k, next, page, es : k = Len(HitInks(d.page, R, {})) /\ next = d.next /\ page = d.page
                               /\ es = PlanErase(d.page, R, {}, d.next, rev)
  OBVIOUS
<1>2. next \in Nat \ {0} /\ Tree(page) /\ \A x \in Ids(page) : x < next
  BY <1>1, DocIs
<1>3. /\ k \in Nat /\ Bits(Outline(page), PlanErase(page, R, {}, next, rev), next..(next + k - 1))
      /\ \E gone : /\ Bereft(page, gone) \subseteq Removed(PlanErase(page, R, {}, next, rev))
                   /\ Removed(PlanErase(page, R, {}, next, rev)) \subseteq gone \cup Bereft(page, gone)
  BY <1>1, <1>2, EraseBits
<1>4. Bits(Outline(d.page), es, d.next..(d.next + k - 1))
  BY <1>1, <1>3
<1>5. PICK new : new = CommitParts(WithIds(d, k), es)
  OBVIOUS
<1>6. Sane(new) /\ (Spares(Outline(d.page), Removed(es)) => Fills(d, new))
  BY <1>3, <1>4, <1>5, BitsCommit
<1>7. Inked(Outline(page)) => Spares(Outline(page), Removed(es))
  <2> HAVE Inked(Outline(page))
  <2>1. PICK gone : Bereft(page, gone) \subseteq Removed(es) /\ Removed(es) \subseteq gone \cup Bereft(page, gone)
    BY <1>1, <1>3
  <2>2. Bereft(page, gone) \subseteq {x \in Ids(page) : page.node[x].kind # "ink" \/ Up(page)[x] = Root}
    BY DEF Bereft
  <2>3. Removed(es) \subseteq gone \cup {x \in Ids(page) : page.node[x].kind # "ink" \/ Up(page)[x] = Root}
    BY <2>1, <2>2
  <2> QED
    BY <1>2, <2>1, <2>3, SparesBy
<1>8. Fills(d, new)
  BY <1>1, <1>6, <1>7 DEF Fills, Filled
<1> QED
  BY <1>1, <1>5, <1>6, <1>8 DEF EraseBrush

\* commitAreaErase, refused or not.
LEMMA AreaSane ==
  ASSUME NEW d, DocOK(d), ~d.latched, NEW R, Sweep(R), NEW rev \in BOOLEAN
  PROVE  Sane(EraseArea(d, R, rev)) /\ Fills(d, EraseArea(d, R, rev))
<1>1. PICK out, skip : out = Among(d.page, {x \in Roots(d.page) : FullyInside(d.page, x, R)}) /\ skip = Range(out)
  OBVIOUS
<1>2. PICK k, next, page, es : k = Len(HitInks(d.page, R, skip)) /\ next = d.next /\ page = d.page
                               /\ es = PlanErase(d.page, R, skip, d.next, rev)
  OBVIOUS
<1>3. next \in Nat \ {0} /\ Tree(page) /\ \A x \in Ids(page) : x < next
  BY <1>2, DocIs
<1>4. /\ k \in Nat /\ Bits(Outline(page), PlanErase(page, R, skip, next, rev), next..(next + k - 1))
      /\ \E gone : /\ Bereft(page, gone) \subseteq Removed(PlanErase(page, R, skip, next, rev))
                   /\ Removed(PlanErase(page, R, skip, next, rev)) \subseteq gone \cup Bereft(page, gone)
  BY <1>2, <1>3, EraseBits
<1>5. PICK P, N, rs : P = Outline(page) /\ N = next..(next + k - 1) /\ rs = Removes(out)
  OBVIOUS
<1>6. Bits(P, rs, {}) /\ Removed(rs) \subseteq {x \in Ids(page) : Up(page)[x] = Root}
  <2>1. /\ out \in Seq(Ids(page)) /\ Ids(page) \subseteq DOMAIN P.node
        /\ \A i \in DOMAIN out : Up(page)[out[i]] = Root
    BY <1>1, <1>2, <1>3, <1>5, AmongIs, OutlineIs
  <2>2. rs = [i \in DOMAIN out |-> RemoveNode(out[i])]
    BY <1>5 DEF Removes
  <2>3. Bits(P, rs, {}) /\ Removed(rs) = Range(out)
    BY <2>1, <2>2, RemovesBits, RemovesAre
  <2>4. Range(out) \subseteq {x \in Ids(page) : Up(page)[x] = Root}
    BY <2>1 DEF Range
  <2> QED
    BY <2>3, <2>4
<1>7. Bits(P, es, N)
  BY <1>2, <1>4, <1>5
<1>8. Bits(P, rs \o es, {} \cup N)
  BY <1>6, <1>7, BitsConcat
<1>9. Bits(Outline(d.page), rs \o es, d.next..(d.next + k - 1))
  BY <1>2, <1>5, <1>8
<1>10. PICK new, all : new = CommitParts(WithIds(d, k), rs \o es) /\ all = Removed(rs \o es)
  OBVIOUS
<1>11. Sane(new) /\ (Spares(Outline(d.page), all) => Fills(d, new))
  BY <1>4, <1>9, <1>10, BitsCommit
<1>12. Inked(Outline(page)) => Spares(Outline(page), all)
  <2> HAVE Inked(Outline(page))
  <2>1. PICK gone : Bereft(page, gone) \subseteq Removed(es) /\ Removed(es) \subseteq gone \cup Bereft(page, gone)
    BY <1>2, <1>4
  <2>2. Bereft(page, gone) \subseteq {x \in Ids(page) : page.node[x].kind # "ink" \/ Up(page)[x] = Root}
    BY DEF Bereft
  <2>3. all = Removed(rs) \cup Removed(es)
    <3>1. rs \in Seq(Range(rs)) /\ es \in Seq(Range(es))
      BY <1>6, <1>7 DEF Bits
    <3> QED
      BY <1>10, <3>1, RemovedConcat
  <2>4. /\ Bereft(page, gone) \subseteq all
        /\ all \subseteq gone \cup {x \in Ids(page) : page.node[x].kind # "ink" \/ Up(page)[x] = Root}
    BY <1>6, <2>1, <2>2, <2>3
  <2> QED
    BY <1>3, <2>4, SparesBy
<1>13. Fills(d, new)
  BY <1>2, <1>11, <1>12 DEF Fills, Filled
<1> QED
  BY <1>1, <1>2, <1>5, <1>10, <1>11, <1>13 DEF EraseArea

\* commitObjectErase.
LEMMA ObjectSane ==
  ASSUME NEW d, DocOK(d), ~d.latched, NEW R, Sweep(R)
  PROVE  Sane(EraseObject(d, R)) /\ Fills(d, EraseObject(d, R))
<1>1. PICK out : out = Among(d.page, {x \in Roots(d.page) : ObjectHit(d.page, x, R)})
  OBVIOUS
<1>2. PICK P, page, rs, conns, es : /\ page = d.page /\ P = Outline(page) /\ rs = Removes(out)
                             /\ conns = Connectors(page) \ Range(out) /\ es = StyleEdits(page, conns, R, TRUE)
  OBVIOUS
<1>3. Tree(page)
  BY <1>2, DocIs
<1>4. Bits(P, rs, {}) /\ Removed(rs) \subseteq {x \in Ids(page) : Up(page)[x] = Root}
  <2>1. /\ out \in Seq(Ids(page)) /\ Ids(page) \subseteq DOMAIN P.node
        /\ \A i \in DOMAIN out : Up(page)[out[i]] = Root
    BY <1>1, <1>2, <1>3, AmongIs, OutlineIs
  <2>2. rs = [i \in DOMAIN out |-> RemoveNode(out[i])]
    BY <1>2 DEF Removes
  <2>3. Bits(P, rs, {}) /\ Removed(rs) = Range(out)
    BY <2>1, <2>2, RemovesBits, RemovesAre
  <2>4. Range(out) \subseteq {x \in Ids(page) : Up(page)[x] = Root}
    BY <2>1 DEF Range
  <2> QED
    BY <2>3, <2>4
<1>5. Bits(P, es, {}) /\ Removed(es) = {}
  BY <1>2, <1>3, StyleEditsBits
<1>6. Bits(P, rs \o es, {} \cup {})
  BY <1>4, <1>5, BitsConcat
<1>7. Bits(Outline(d.page), rs \o es, {})
  BY <1>2, <1>6
<1>8. PICK new, all : new = CommitParts(d, rs \o es) /\ all = Removed(rs \o es)
  OBVIOUS
<1>9. Sane(new) /\ (Spares(Outline(d.page), all) => Fills(d, new))
  BY <1>7, <1>8, BitsHere
<1>10. all \subseteq {x \in Ids(page) : page.node[x].kind # "ink" \/ Up(page)[x] = Root}
  <2>1. rs \in Seq(Range(rs)) /\ es \in Seq(Range(es))
    BY <1>4, <1>5 DEF Bits
  <2>2. all = Removed(rs) \cup Removed(es)
    BY <1>8, <2>1, RemovedConcat
  <2> QED
    BY <1>4, <1>5, <2>2
<1>11. Inked(Outline(page)) => Spares(Outline(page), all)
  BY <1>3, <1>10, SparesWhole
<1>12. Fills(d, new)
  BY <1>2, <1>9, <1>11 DEF Fills, Filled
<1> QED
  BY <1>1, <1>2, <1>8, <1>9, <1>12 DEF EraseObject

\* commitCut.
LEMMA CutSane ==
  ASSUME NEW d, DocOK(d), ~d.latched, NEW ids \in Seq(Ids(d.page)),
         \A i \in DOMAIN ids : d.page.node[ids[i]].kind # "ink" \/ Up(d.page)[ids[i]] = Root
  PROVE  Sane(CutSelection(d, ids)) /\ Fills(d, CutSelection(d, ids))
<1>1. PICK P, rs : P = Outline(d.page) /\ rs = Removes(ids)
  OBVIOUS
<1>2. rs = [i \in DOMAIN ids |-> RemoveNode(ids[i])] /\ Ids(d.page) \subseteq DOMAIN P.node
  BY <1>1, OutlineIs DEF Removes
<1>3. Bits(P, rs, {}) /\ Removed(rs) = Range(ids)
  BY <1>2, RemovesBits, RemovesAre
<1>4. PICK page, new : page = d.page /\ new = CommitParts(d, rs)
  OBVIOUS
<1>5. Sane(new) /\ (Spares(P, Removed(rs)) => Fills(d, new))
  BY <1>1, <1>3, <1>4, BitsHere
<1>6. Removed(rs) \subseteq {x \in Ids(page) : page.node[x].kind # "ink" \/ Up(page)[x] = Root}
  BY <1>3, <1>4 DEF Range
<1>7. Tree(page)
  BY <1>4, DocIs
<1>8. Inked(P) => Spares(P, Removed(rs))
  BY <1>1, <1>4, <1>6, <1>7, SparesWhole
<1>9. Fills(d, new)
  BY <1>1, <1>5, <1>8 DEF Fills, Filled
<1> QED
  BY <1>1, <1>4, <1>5, <1>9 DEF CutSelection

-----------------------------------------------------------------------------
(***************************************************************************)
(* Contexts.                                                               *)
(***************************************************************************)
Above(page, x) == Tail(Chain(page, x))
Offset(page, y) == IF Of(page, y, "box") THEN page.node[y].at ELSE 0
\* What Ctx goes through.
CtxRun(f, page, x) ==
    /\ f[0] = 0
    /\ \A i \in 1..Len(Above(page, x)) : f[i] = (f[i - 1] + Offset(page, Above(page, x)[i]))
    /\ Ctx(page, x) = f[Len(Above(page, x))]

\* The recursion of Ctx, step by step.
LEMMA CtxUnfold ==
  ASSUME NEW page, NEW x, Len(Above(page, x)) \in Nat
  PROVE  \E f : CtxRun(f, page, x)
<1> DEFINE n == Len(Above(page, x))
           Eq(f, m) == f = [i \in 0..m |-> IF i = 0 THEN 0 ELSE (f[i - 1] + Offset(page, Above(page, x)[i]))]
           Reached == {m \in Nat : \E f : Eq(f, m)}
<1>1. 0 \in Reached
  <2>1. Eq([i \in 0..0 |-> 0], 0)
    OBVIOUS
  <2> HIDE DEF Eq
  <2> QED
    BY <2>1
<1>2. ASSUME NEW m \in Nat, m \in Reached PROVE m + 1 \in Reached
  <2>1. PICK f : Eq(f, m)
    BY <1>2
  <2> DEFINE g == [i \in 0..(m + 1) |-> IF i = m + 1 THEN (f[m] + Offset(page, Above(page, x)[m + 1])) ELSE f[i]]
             w == [i \in 0..(m + 1) |-> IF i = 0 THEN 0 ELSE (g[i - 1] + Offset(page, Above(page, x)[i]))]
  <2>2. \A i \in 0..(m + 1) : g[i] = w[i]
    <3> TAKE i \in 0..(m + 1)
    <3>1. CASE i = 0
      BY <2>1, <3>1
    <3>2. CASE i = m + 1
      <4>1. g[i] = (f[m] + Offset(page, Above(page, x)[m + 1])) /\ i - 1 = m /\ i # 0 /\ m \in 0..(m + 1)
                /\ m # m + 1
        BY <3>2
      <4>2. g[m] = f[m]
        BY <4>1
      <4> QED
        BY <3>2, <4>1, <4>2
    <3>3. CASE i \in 1..m
      <4>1. i \in 0..m /\ i # 0 /\ i # m + 1 /\ i - 1 \in 0..m /\ i - 1 # m + 1 /\ i - 1 \in 0..(m + 1)
        BY <3>3
      <4>2. g[i] = f[i] /\ g[i - 1] = f[i - 1]
        BY <4>1
      <4>3. f[i] = (f[i - 1] + Offset(page, Above(page, x)[i]))
        BY <2>1, <4>1
      <4> QED
        BY <4>1, <4>2, <4>3
    <3> QED
      BY <3>1, <3>2, <3>3
  <2>3. g = w
    BY <2>2
  <2> HIDE DEF g
  <2>4. Eq(g, m + 1)
    BY <2>3
  <2> HIDE DEF Eq
  <2> QED
    BY <2>4
<1> HIDE DEF Reached
<1>3. n \in Reached
  BY <1>1, <1>2, InductionSet
<1>4. PICK f : Eq(f, n)
  BY <1>3 DEF Reached
<1> DEFINE a == CHOOSE h : Eq(h, n)
<1>5. Eq(a, n)
  <2> HIDE DEF Eq
  <2> QED
    BY <1>4
<1>6. Ctx(page, x) = a[n]
  BY DEF Ctx, Above, Offset
<1> HIDE DEF a
<1>7. a[0] = 0 /\ \A i \in 1..n : a[i] = (a[i - 1] + Offset(page, Above(page, x)[i]))
  <2>1. a = [i \in 0..n |-> IF i = 0 THEN 0 ELSE (a[i - 1] + Offset(page, Above(page, x)[i]))]
    BY <1>5
  <2>2. 0 \in 0..n /\ \A i \in 1..n : i \in 0..n /\ i # 0
    OBVIOUS
  <2>3. a[0] = 0
    BY <2>1, <2>2
  <2>4. ASSUME NEW i \in 1..n PROVE a[i] = (a[i - 1] + Offset(page, Above(page, x)[i]))
    <3>1. PICK v : v = (a[i - 1] + Offset(page, Above(page, x)[i]))
      OBVIOUS
    <3>2. i \in 0..n /\ i # 0
      BY <2>2
    <3> HIDE DEF n
    <3>3. a[i] = v
      BY <2>1, <3>1, <3>2
    <3> QED
      BY <3>1, <3>3
  <2> QED
    BY <2>3, <2>4
<1> QED
  BY <1>6, <1>7 DEF CtxRun

\* A context is a whole number of cells.
LEMMA CtxIs ==
  ASSUME NEW page, Tree(page), NEW x \in Ids(page)
  PROVE  Ctx(page, x) \in Int /\ (page.node[x].kind = "box" => ContentCtx(page, x) \in Int)
<1>1. PICK up : up = Above(page, x)
  OBVIOUS
<1>2. Chain(page, x) \in Seq(Ids(page) \cup {Root}) /\ Len(Chain(page, x)) > 1
  BY ChainIs DEF WayUp
<1>3. up \in Seq(Ids(page) \cup {Root})
  BY <1>1, <1>2 DEF Above
<1>4. PICK n : n = Len(up) /\ n \in Nat
  BY <1>3
<1>5. PICK f : CtxRun(f, page, x)
  BY <1>1, <1>4, CtxUnfold
<1>6. f[0] = 0 /\ (\A i \in 1..n : f[i] = f[i - 1] + Offset(page, up[i])) /\ Ctx(page, x) = f[n]
  BY <1>1, <1>4, <1>5 DEF CtxRun
<1>7. \A y : Offset(page, y) \in Int
  <2> SUFFICES ASSUME NEW y PROVE Offset(page, y) \in Int
    OBVIOUS
  <2>1. CASE Of(page, y, "box")
    <3>1. page.node[y] \in Node /\ page.node[y].kind = "box"
      BY <2>1, TreeIs DEF Of, Has
    <3>2. page.node[y].at \in Int
      BY <3>1, KindIs, BoxIs
    <3> QED
      BY <2>1, <3>2 DEF Offset
  <2> QED
    BY <2>1 DEF Offset
<1>8. PICK S : S = {i \in Nat : i <= n => f[i] \in Int}
  OBVIOUS
<1>9. 0 \in S
  BY <1>6, <1>8
<1>10. ASSUME NEW i \in Nat, i \in S PROVE i + 1 \in S
  <2>1. CASE i + 1 <= n
    <3>1. i + 1 \in 1..n /\ (i + 1) - 1 = i /\ i <= n
      BY <1>4, <2>1
    <3>2. f[i + 1] = f[i] + Offset(page, up[i + 1]) /\ f[i] \in Int
      BY <1>6, <1>8, <1>10, <3>1
    <3>3. PICK a, b : a = f[i] /\ b = Offset(page, up[i + 1]) /\ a \in Int /\ b \in Int
      BY <1>7, <3>2
    <3>4. f[i + 1] \in Int
      BY <3>2, <3>3
    <3> QED
      BY <1>8, <3>4
  <2> QED
    BY <1>8, <2>1
<1>11. n \in S
  BY <1>4, <1>9, <1>10, InductionSet
<1>12. Ctx(page, x) \in Int
  BY <1>4, <1>6, <1>8, <1>11
<1>13. CASE page.node[x].kind = "box"
  <2>1. page.node[x].at \in Int /\ x # Root
    BY <1>13, TreeIs, KindIs, BoxIs
  <2> QED
    BY <1>12, <2>1 DEF ContentCtx
<1> QED
  BY <1>12, <1>13

-----------------------------------------------------------------------------
(***************************************************************************)
(* Lists of bodies that share no id; M has their ids.                      *)
(***************************************************************************)
Lots(bs, M) ==
    /\ bs \in Seq(Range(bs)) /\ \A i \in DOMAIN bs : DOMAIN bs[i].node \subseteq M
    /\ \A i, j \in DOMAIN bs : i # j => DOMAIN bs[i].node \cap DOMAIN bs[j].node = {}

\* Bodies have at most the ids they are given.
LEMMA LotsMore ==
  ASSUME NEW bs, NEW M, NEW N, Lots(bs, M), M \subseteq N
  PROVE  Lots(bs, N)
  BY DEF Lots
\* No bodies.
LEMMA LotsNone ==
  ASSUME NEW M
  PROVE  Lots(<< >>, M) /\ Range(<< >>) = {}
  BY DEF Lots, Range
\* One body.
LEMMA LotsOne ==
  ASSUME NEW b, NEW M, DOMAIN b.node \subseteq M
  PROVE  Lots(<<b>>, M) /\ Range(<<b>>) = {b}
<1>1. PICK s : s = <<b>>
  OBVIOUS
<1>2. DOMAIN s = {1} /\ s[1] = b /\ s \in Seq({b})
  BY <1>1
<1>3. Range(s) = {b}
  BY <1>2 DEF Range
<1>4. Lots(s, M)
  BY <1>2, <1>3 DEF Lots
<1> QED
  BY <1>1, <1>3, <1>4

\* Bodies with ids of their own, put together.
LEMMA LotsConcat ==
  ASSUME NEW s, NEW t, NEW M, NEW N, Lots(s, M), Lots(t, N), M \cap N = {}
  PROVE  Lots(s \o t, M \cup N) /\ Range(s \o t) = Range(s) \cup Range(t)
<1>1. PICK T, m, n, u : T = Range(s) \cup Range(t) /\ m = Len(s) /\ n = Len(t) /\ u = s \o t
  OBVIOUS
<1>2. s \in Seq(T) /\ t \in Seq(T)
  BY <1>1, SeqInto DEF Lots
<1>3. /\ u \in Seq(T) /\ Range(u) = T /\ DOMAIN u = 1..(m + n) /\ m \in Nat /\ n \in Nat
      /\ \A i \in 1..(m + n) : u[i] = IF i <= m THEN s[i] ELSE t[i - m]
  BY <1>1, <1>2, ConcatIs
<1>4. DOMAIN s = 1..m /\ DOMAIN t = 1..n
  BY <1>1, <1>2
<1>5. ASSUME NEW i \in 1..(m + n)
      PROVE  \/ i \in 1..m /\ u[i] = s[i]
             \/ i \notin 1..m /\ i - m \in 1..n /\ u[i] = t[i - m]
  BY <1>3, <1>5
<1>6. \A i \in 1..m : DOMAIN s[i].node \subseteq M
  BY <1>4 DEF Lots
<1>7. \A i \in 1..n : DOMAIN t[i].node \subseteq N
  BY <1>4 DEF Lots
<1>8. ASSUME NEW i \in 1..(m + n), NEW j \in 1..(m + n), i # j PROVE DOMAIN u[i].node \cap DOMAIN u[j].node = {}
  <2>1. CASE i \in 1..m /\ j \in 1..m
    BY <1>4, <1>5, <1>8, <2>1 DEF Lots
  <2>2. CASE i \notin 1..m /\ j \notin 1..m
    <3>1. i - m \in 1..n /\ j - m \in 1..n /\ i - m # j - m
      BY <1>3, <1>5, <1>8, <2>2
    <3>2. DOMAIN t[i - m].node \cap DOMAIN t[j - m].node = {}
      BY <1>4, <3>1 DEF Lots
    <3> QED
      BY <1>5, <2>2, <3>2
  <2>3. CASE i \in 1..m /\ j \notin 1..m
    BY <1>5, <1>6, <1>7, <2>3
  <2>4. CASE i \notin 1..m /\ j \in 1..m
    BY <1>5, <1>6, <1>7, <2>4
  <2> QED
    BY <2>1, <2>2, <2>3, <2>4
<1>9. \A i \in 1..(m + n) : DOMAIN u[i].node \subseteq M \cup N
  BY <1>5, <1>6, <1>7
<1>10. Lots(u, M \cup N)
  BY <1>3, <1>8, <1>9 DEF Lots
<1> QED
  BY <1>1, <1>3, <1>10

\* One list after another.
LEMMA LotsFlatten ==
  ASSUME NEW n \in Nat, NEW ss, Len(ss) = n, DOMAIN ss = 1..n, ss \in Seq(Range(ss)), NEW M, NEW N,
         \A i \in 1..n : Lots(ss[i], M[i]), \A i, j \in 1..n : i # j => M[i] \cap M[j] = {},
         \A i \in 1..n : M[i] \subseteq N
  PROVE  Lots(FlattenSeq(ss), N) /\ \A b \in Range(FlattenSeq(ss)) : \E i \in 1..n : b \in Range(ss[i])
<1>1. PICK T, K : T = UNION {Range(ss[i]) : i \in 1..n} /\ K = [b \in T |-> DOMAIN b.node]
  OBVIOUS
<1>2. \A i \in 1..n : ss[i] \in Seq(T)
  <2> SUFFICES ASSUME NEW i \in 1..n PROVE ss[i] \in Seq(T)
    OBVIOUS
  <2>1. ss[i] \in Seq(Range(ss[i])) /\ Range(ss[i]) \subseteq T
    BY <1>1 DEF Lots
  <2> QED
    BY <2>1, SeqInto
<1>3. ss \in Seq(Seq(T))
  BY <1>2
<1>4. PICK u : u = FlattenSeq(ss)
  OBVIOUS
<1>5. /\ \A i \in 1..n : Apart(ss[i], K)
      /\ \A i, j \in 1..n : i # j => \A k \in DOMAIN ss[i], l \in DOMAIN ss[j] : K[ss[i][k]] \cap K[ss[j][l]] = {}
      /\ \A i \in 1..n : \A k \in DOMAIN ss[i] : ss[i][k] \in T /\ K[ss[i][k]] \subseteq M[i]
  <2>1. \A i \in 1..n : \A k \in DOMAIN ss[i] : ss[i][k] \in T
    BY <1>2
  <2>2. \A i \in 1..n : \A k \in DOMAIN ss[i] : K[ss[i][k]] = DOMAIN ss[i][k].node
    BY <1>1, <2>1
  <2>3. \A i \in 1..n : \A k \in DOMAIN ss[i] : K[ss[i][k]] \subseteq M[i]
    <3> SUFFICES ASSUME NEW i \in 1..n, NEW k \in DOMAIN ss[i] PROVE K[ss[i][k]] \subseteq M[i]
      OBVIOUS
    <3>1. DOMAIN ss[i][k].node \subseteq M[i]
      BY DEF Lots
    <3> QED
      BY <2>2, <3>1
  <2>4. \A i \in 1..n : Apart(ss[i], K)
    BY <2>2 DEF Lots, Apart
  <2> QED
    BY <2>1, <2>3, <2>4
<1>6. u \in Seq(T) /\ Range(u) = T /\ Apart(u, K)
  <2>1. u \in Seq(T) /\ Range(u) = UNION {Range(ss[i]) : i \in 1..Len(ss)}
    BY <1>3, <1>4, FlattenIs
  <2>2. \A L : (\A i \in 1..Len(ss) : Apart(ss[i], L))
              /\ (\A i, j \in 1..Len(ss) : i # j =>
                    \A k \in DOMAIN ss[i], l \in DOMAIN ss[j] : L[ss[i][k]] \cap L[ss[j][l]] = {})
              => Apart(u, L)
    <3>1. PICK w : w = ss
      OBVIOUS
    <3> QED
      BY <1>3, <1>4, FlattenIs
  <2>3. Apart(u, K)
    BY <1>5, <2>2
  <2> QED
    BY <1>1, <2>1, <2>3
<1>7. ASSUME NEW i \in DOMAIN u PROVE u[i] \in T /\ K[u[i]] = DOMAIN u[i].node /\ K[u[i]] \subseteq N
  <2>1. u[i] \in T
    BY <1>6
  <2>2. PICK j \in 1..n : u[i] \in Range(ss[j])
    BY <1>1, <2>1
  <2>3. PICK k \in DOMAIN ss[j] : u[i] = ss[j][k]
    BY <2>2 DEF Range
  <2> QED
    BY <1>1, <1>5, <2>1, <2>3
<1>8. Lots(u, N)
  <2>1. \A i, j \in DOMAIN u : i # j => DOMAIN u[i].node \cap DOMAIN u[j].node = {}
    BY <1>6, <1>7 DEF Apart
  <2> QED
    BY <1>6, <1>7, <2>1 DEF Lots
<1> QED
  BY <1>1, <1>4, <1>6, <1>8

-----------------------------------------------------------------------------
\* New records of the same kinds in a body.
LEMMA BodyNodes ==
  ASSUME NEW body, BodyOK(body), NEW node \in [DOMAIN body.node -> Node],
         \A x \in DOMAIN body.node : node[x].kind = body.node[x].kind,
         NEW new, new = [top |-> body.top, node |-> node, kids |-> body.kids]
  PROVE  /\ BodyOK(new) /\ DOMAIN new.node = DOMAIN body.node /\ Plan(new).up = Plan(body).up
         /\ Inked(Plan(body)) => Inked(Plan(new))
<1>1. PICK page, next : page = AsPage(body) /\ next = AsPage(new)
  OBVIOUS
<1>2. Tree(page) /\ Ids(page) = DOMAIN body.node /\ page.node = body.node
  BY <1>1, BodyIs DEF AsPage
<1>3. next = [node |-> node, kids |-> page.kids]
  BY <1>1 DEF AsPage
<1>4. Tree(next) /\ Up(next) = Up(page)
  <2>1. node \in [Ids(page) -> Node] /\ \A x \in Ids(page) : node[x].kind = page.node[x].kind
    BY <1>2
  <2>2. Tree(next) /\ Outline(next) = [node |-> node, up |-> Up(page)]
    BY <1>2, <1>3, <2>1, NewNodes
  <2>3. Outline(next).up = Up(next)
    BY DEF Outline
  <2> QED
    BY <2>2, <2>3
<1>5. new = [top |-> new.top, node |-> new.node, kids |-> new.kids] /\ DOMAIN new.kids = DOMAIN new.node
  BY DEF BodyOK
<1>6. Plan(new).up = Plan(body).up
  BY <1>1, <1>4 DEF Plan, Outline
<1>7. BodyOK(new) /\ DOMAIN new.node = DOMAIN body.node /\ new.node = node
  BY <1>1, <1>4, <1>5 DEF BodyOK
<1>8. Inked(Plan(body)) => Inked(Plan(new))
  <2>1. PICK a, b : a = Plan(body) /\ b = Plan(new)
    OBVIOUS
  <2>2. a.node = body.node /\ b.node = node /\ b.up = a.up
    BY <1>6, <1>7, <2>1, BodyIs
  <2>3. DOMAIN b.node = DOMAIN a.node /\ \A x \in DOMAIN a.node : b.node[x].kind = a.node[x].kind
    BY <1>7, <2>2
  <2>4. Inked(a) => Inked(b)
    BY <2>2, <2>3, SameInked
  <2> QED
    BY <2>1, <2>4
<1> QED
  BY <1>6, <1>7, <1>8

-----------------------------------------------------------------------------
(***************************************************************************)
(* Bodies that are moved, copied and taken apart.                          *)
(***************************************************************************)
Chip(f, x) == BodyOK(f) /\ f.top = x /\ DOMAIN f.node = {x} /\ f.node[x] \in InkNode
\* A body whose connectors name what there is.
Fine(b, next) == BodyOK(b) /\ \A x \in DOMAIN b.node : Named(b.node[x], next)

\* An ink taken into a box keeps its id.
LEMMA ContentIs ==
  ASSUME NEW page, Tree(page), NEW x \in Ids(page), page.node[x].kind = "ink", NEW origin \in Int
  PROVE  Chip(Content(page, x, origin), x)
<1>1. PICK rec : rec = Localized(page.node[x], origin)
  OBVIOUS
<1>2. page.node[x] \in InkNode
  BY TreeIs, KindIs
<1>3. rec \in InkNode
  BY <1>1, <1>2, LocalizedIs
<1>4. x \in Nat \ {0} /\ rec \in Node
  BY <1>3, TreeIs DEF Root, Node
<1>5. BodyOK(Leaf(x, rec)) /\ Leaf(x, rec).top = x /\ DOMAIN Leaf(x, rec).node = {x} /\ Leaf(x, rec).node[x] = rec
  BY <1>4, LeafIs
<1>6. Content(page, x, origin) = Leaf(x, rec)
  BY <1>1 DEF Content
<1> QED
  BY <1>3, <1>5, <1>6 DEF Chip

\* So do several.
LEMMA ContentList ==
  ASSUME NEW page, Tree(page), NEW T, T \subseteq Ids(page), \A x \in T : page.node[x].kind = "ink",
         NEW ids \in Seq(T), OneOnly(ids), NEW origin \in Int,
         NEW bs, bs = [i \in DOMAIN ids |-> Content(page, ids[i], origin)]
  PROVE  Lots(bs, T) /\ \A f \in Range(bs) : \E x \in Range(ids) : Chip(f, x)
<1>1. PICK n : n = Len(ids) /\ n \in Nat /\ DOMAIN ids = 1..n
  OBVIOUS
<1>2. \A i \in 1..n : ids[i] \in T
  BY <1>1
<1>3. DOMAIN bs = 1..n /\ bs = [i \in 1..n |-> bs[i]] /\ \A i \in 1..n : bs[i] = Content(page, ids[i], origin)
  BY <1>1, Zenon
<1>4. bs \in Seq(Range(bs))
  BY <1>1, <1>3, ListIs
<1>5. \A i \in 1..n : Chip(bs[i], ids[i])
  BY <1>2, <1>3, ContentIs
<1>6. \A i \in 1..n : DOMAIN bs[i].node = {ids[i]}
  BY <1>5 DEF Chip
<1>7. \A i, j \in 1..n : i # j => ids[i] # ids[j]
  BY <1>1 DEF OneOnly
<1>8. Lots(bs, T)
  BY <1>2, <1>3, <1>4, <1>6, <1>7 DEF Lots
<1>9. \A f \in Range(bs) : \E x \in Range(ids) : Chip(f, x)
  <2> SUFFICES ASSUME NEW f \in Range(bs) PROVE \E x \in Range(ids) : Chip(f, x)
    OBVIOUS
  <2>1. PICK i \in 1..n : f = bs[i]
    BY <1>3 DEF Range
  <2>2. ids[i] \in Range(ids)
    BY <1>1 DEF Range
  <2> QED
    BY <1>5, <2>1, <2>2
<1> QED
  BY <1>8, <1>9

\* An empty box, taken apart.
LEMMA FlattenInks ==
  ASSUME NEW page, Tree(page), NEW b \in Ids(page), page.node[b].kind = "box", NEW origin \in Int,
         NEW bs, bs = FlattenToInks(page, b, origin)
  PROVE  /\ Lots(bs, Ids(page))
         /\ \A f \in Range(bs) : \E x \in Ids(page) : Chip(f, x) /\ page.node[x].kind = "ink" /\ Up(page)[x] = b
<1>1. PICK inks, at : inks = Kids(page, b, "ink") /\ at = origin - page.node[b].at
  OBVIOUS
<1>2. /\ inks \in Seq(Ids(page)) /\ OneOnly(inks)
      /\ \A x : x \in Range(inks) <=> x \in Ids(page) /\ Up(page)[x] = b /\ page.node[x].kind = "ink"
  BY <1>1, KidsOf
<1>3. at \in Int
  <2>1. page.node[b].at \in Int
    BY TreeIs, KindIs, BoxIs
  <2> QED
    BY <1>1, <2>1
<1>4. PICK T : T = Range(inks)
  OBVIOUS
<1>5. inks \in Seq(T) /\ T \subseteq Ids(page) /\ \A x \in T : page.node[x].kind = "ink"
  <2>1. T \subseteq Ids(page) /\ \A x \in T : page.node[x].kind = "ink"
    BY <1>2, <1>4
  <2>2. inks \in Seq(T)
    BY <1>2, <1>4, SeqInto
  <2> QED
    BY <2>1, <2>2
<1>6. bs = [i \in DOMAIN inks |-> Content(page, inks[i], at)]
  BY <1>1 DEF FlattenToInks
<1>7. Lots(bs, T) /\ \A f \in Range(bs) : \E x \in Range(inks) : Chip(f, x)
  BY <1>2, <1>3, <1>5, <1>6, ContentList
<1>8. Lots(bs, Ids(page))
  BY <1>5, <1>7, LotsMore
<1> QED
  BY <1>2, <1>7, <1>8

\* Translating a node changes neither its kind nor what it is bound to.
LEMMA TranslateNodeIs ==
  ASSUME NEW n \in Node, NEW d \in Int
  PROVE  /\ TranslateNode(n, d) \in Node /\ TranslateNode(n, d).kind = n.kind
         /\ n.kind = "conn" => TranslateNode(n, d).from = n.from /\ TranslateNode(n, d).to = n.to
<1>1. PICK m : m = TranslateNode(n, d)
  OBVIOUS
<1>2. CASE n.kind = "ink"
  <2>1. Record(n, InkFields) /\ n.kind = "ink" /\ n.lo \in Int /\ n.hi \in Int /\ n.lo <= n.hi /\ n.loop \in BOOLEAN
        /\ n.role \in {"none", "boundary", "content"} /\ n.last \in Nat
    BY <1>2, KindIs, InkIs
  <2>2. m = [n EXCEPT !.lo = @ + d, !.hi = @ + d]
    BY <1>1, <1>2 DEF TranslateNode
  <2>3. DOMAIN m = DOMAIN n /\ \A f \in DOMAIN n : m[f] = IF f \in {"lo", "hi"} THEN n[f] + d ELSE n[f]
    BY <2>1, <2>2 DEF Record, InkFields
  <2>4. m = [f \in InkFields |-> m[f]]
    BY <2>1, <2>2 DEF Record
  <2>5. /\ m.kind = n.kind /\ m.lo = n.lo + d /\ m.hi = n.hi + d /\ m.loop = n.loop /\ m.role = n.role
        /\ m.last = n.last
    BY <2>1, <2>3 DEF Record, InkFields
  <2>6. m.lo \in Int /\ m.hi \in Int /\ m.lo <= m.hi
    BY <2>1, <2>5
  <2>7. Record(m, InkFields)
    BY <2>1, <2>3, <2>4 DEF Record
  <2>8. m \in InkNode
    BY <2>1, <2>5, <2>6, <2>7, InkIs
  <2> QED
    BY <1>1, <1>2, <2>5, <2>8 DEF Node
<1>3. CASE n.kind = "box"
  <2>1. Record(n, BoxFields) /\ n.at \in Int /\ n.w \in Int /\ n.last \in Nat
    BY <1>3, KindIs, BoxIs
  <2>2. m = [n EXCEPT !.at = @ + d]
    BY <1>1, <1>3 DEF TranslateNode
  <2>3. DOMAIN m = DOMAIN n /\ m = [f \in BoxFields |-> m[f]]
    BY <2>1, <2>2 DEF Record
  <2>4. m.kind = n.kind /\ m.at = n.at + d /\ m.w = n.w /\ m.last = n.last
    BY <2>1, <2>2 DEF Record, BoxFields
  <2>5. Record(m, BoxFields) /\ m.at \in Int
    BY <2>1, <2>3, <2>4 DEF Record
  <2>6. m \in BoxNode
    BY <1>3, <2>1, <2>4, <2>5, BoxIs
  <2> QED
    BY <1>1, <1>3, <2>4, <2>6 DEF Node
<1>4. CASE n.kind = "conn"
  <2>1. /\ Record(n, ConnFields) /\ n.from \in Nat /\ n.to \in Nat
        /\ n.fromAt \in Int /\ n.toAt \in Int /\ n.p \in Int /\ n.q \in Int
        /\ n.fromInk \in Seq(Interval) /\ n.toInk \in Seq(Interval) /\ n.last \in Nat
    BY <1>4, KindIs, ConnIs
  <2>2. m = [n EXCEPT !.p = @ + d, !.q = @ + d]
    BY <1>1, <1>4 DEF TranslateNode
  <2>3. DOMAIN m = DOMAIN n /\ m = [f \in ConnFields |-> m[f]]
    BY <2>1, <2>2 DEF Record
  <2>4. m.p = n.p + d /\ m.q = n.q + d
    BY <2>1, <2>2 DEF Record, ConnFields
  <2>5. /\ m.kind = n.kind /\ m.from = n.from /\ m.to = n.to /\ m.fromAt = n.fromAt /\ m.toAt = n.toAt
        /\ m.fromInk = n.fromInk /\ m.toInk = n.toInk /\ m.last = n.last
    BY <2>1, <2>2 DEF Record, ConnFields
  <2>6. Record(m, ConnFields) /\ m.p \in Int /\ m.q \in Int
    BY <2>1, <2>3, <2>4 DEF Record
  <2>7. m \in ConnNode
    BY <1>4, <2>1, <2>5, <2>6, ConnIs
  <2> QED
    BY <1>1, <1>4, <2>5, <2>7 DEF Node
<1> QED
  BY <1>2, <1>3, <1>4, KindIs

-----------------------------------------------------------------------------
\* What a body is made of.
LEMMA BodyNode ==
  ASSUME NEW body, BodyOK(body)
  PROVE  /\ body = [top |-> body.top, node |-> body.node, kids |-> body.kids]
         /\ \A x \in DOMAIN body.node : body.node[x] \in Node
         /\ body.top \in DOMAIN body.node
<1>1. body.top \in DOMAIN body.node /\ Tree(AsPage(body)) /\ AsPage(body).node = body.node
  BY BodyIs DEF AsPage
<1>2. \A x \in Ids(AsPage(body)) : AsPage(body).node[x] \in Node
  BY <1>1, TreeIs
<1> QED
  BY <1>1, <1>2 DEF BodyOK, Ids

\* A body translated is a body of the same ids.
LEMMA TranslateIs ==
  ASSUME NEW body, NEW next, Fine(body, next), NEW d \in Int, NEW new, new = Translate(body, d)
  PROVE  /\ Fine(new, next) /\ DOMAIN new.node = DOMAIN body.node /\ new.top = body.top
         /\ Inked(Plan(body)) => Inked(Plan(new))
<1>1. BodyOK(body) /\ \A x \in DOMAIN body.node : Named(body.node[x], next)
  BY DEF Fine
<1>2. /\ body = [top |-> body.top, node |-> body.node, kids |-> body.kids]
      /\ \A x \in DOMAIN body.node : body.node[x] \in Node
  BY <1>1, BodyNode
<1>3. PICK node : node = [x \in DOMAIN body.node |->
                            IF x = body.top \/ body.node[body.top].kind = "conn" THEN TranslateNode(body.node[x], d)
                            ELSE body.node[x]]
  OBVIOUS
<1>4. new = [top |-> body.top, node |-> node, kids |-> body.kids]
  <2>1. new = [body EXCEPT !.node = node]
    BY <1>3, Zenon DEF Translate
  <2> QED
    BY <1>2, <2>1
<1>5. \A x \in DOMAIN body.node :
         /\ node[x] \in Node /\ node[x].kind = body.node[x].kind
         /\ node[x].kind = "conn" => node[x].from = body.node[x].from /\ node[x].to = body.node[x].to
  BY <1>2, <1>3, TranslateNodeIs
<1>6. DOMAIN node = DOMAIN body.node /\ node \in [DOMAIN body.node -> Node]
  BY <1>3, <1>5
<1>7. BodyOK(new) /\ DOMAIN new.node = DOMAIN body.node /\ (Inked(Plan(body)) => Inked(Plan(new)))
  BY <1>1, <1>4, <1>5, <1>6, BodyNodes
<1>8. \A x \in DOMAIN new.node : Named(new.node[x], next)
  BY <1>1, <1>4, <1>5, <1>6 DEF Named
<1> QED
  BY <1>4, <1>7, <1>8 DEF Fine

-----------------------------------------------------------------------------
\* Fresh names.
Naming(name, D, next) ==
    /\ DOMAIN name = D
    /\ \A x \in D : name[x] \in Nat \ {0} /\ name[x] < next
    /\ \A x, y \in D : name[x] = name[y] => x = y
\* A renamed reference is below the next fresh id.
LEMMA RenamedIs ==
  ASSUME NEW name, NEW D, NEW next \in Nat, Naming(name, D, next), NEW x \in Nat, x < next
  PROVE  Renamed(name, x) \in Nat /\ Renamed(name, x) < next
  BY DEF Naming, Renamed

\* A node with its references renamed.
LEMMA RemapIs ==
  ASSUME NEW n \in Node, NEW name, NEW D, NEW next \in Nat, Naming(name, D, next), Named(n, next),
         NEW m, m = RemapRefs(name, n)
  PROVE  m \in Node /\ m.kind = n.kind /\ Named(m, next)
<1>1. CASE n.kind = "conn"
  <2>1. /\ Record(n, ConnFields) /\ n.from \in Nat /\ n.to \in Nat
        /\ n.fromAt \in Int /\ n.toAt \in Int /\ n.p \in Int /\ n.q \in Int
        /\ n.fromInk \in Seq(Interval) /\ n.toInk \in Seq(Interval) /\ n.last \in Nat
    BY <1>1, KindIs, ConnIs
  <2>2. m = [n EXCEPT !.last = 0, !.from = Renamed(name, @), !.to = Renamed(name, @)]
    BY <1>1 DEF RemapRefs
  <2>3. DOMAIN m = DOMAIN n /\ m = [f \in ConnFields |-> m[f]]
    BY <2>1, <2>2 DEF Record
  <2>4. m.from = Renamed(name, n.from) /\ m.to = Renamed(name, n.to) /\ m.last = 0
    BY <2>1, <2>2 DEF Record, ConnFields
  <2>5. /\ m.kind = n.kind /\ m.p = n.p /\ m.q = n.q /\ m.fromAt = n.fromAt /\ m.toAt = n.toAt
        /\ m.fromInk = n.fromInk /\ m.toInk = n.toInk
    BY <2>1, <2>2 DEF Record, ConnFields
  <2>6. n.from < next /\ n.to < next
    BY <1>1 DEF Named
  <2>7. m.from \in Nat /\ m.to \in Nat /\ m.from < next /\ m.to < next
    BY <2>1, <2>4, <2>6, RenamedIs
  <2>8. Record(m, ConnFields)
    BY <2>1, <2>3 DEF Record
  <2>9. m \in ConnNode
    <3>1. m.last \in Nat /\ m.kind = "conn"
      BY <1>1, <2>4, <2>5
    <3> QED
      BY <2>1, <2>5, <2>7, <2>8, <3>1, ConnIs
  <2> QED
    BY <2>5, <2>7, <2>9 DEF Node, Named
<1>2. CASE n.kind # "conn"
  <2>1. m = [n EXCEPT !.last = 0]
    BY <1>2 DEF RemapRefs
  <2>2. m = Marked(n, 1, [x \in {1} |-> 0])
    BY <2>1 DEF Marked
  <2>3. m \in Node /\ m.kind = n.kind
    <3>1. PICK marks : marks = [x \in {1} |-> 0]
      OBVIOUS
    <3>2. 1 \in DOMAIN marks => marks[1] \in Nat
      BY <3>1
    <3> QED
      BY <2>2, <3>1, <3>2, MarkedIs
  <2> QED
    BY <1>2, <2>3 DEF Named
<1> QED
  BY <1>1, <1>2

-----------------------------------------------------------------------------
\* remintTree: a body under fresh ids.
LEMMA RemintIs ==
  ASSUME NEW body, NEW next \in Nat, Fine(body, next), NEW name, NEW D, Naming(name, D, next),
         DOMAIN body.node \subseteq D, NEW new, new = Remint(body, name)
  PROVE  /\ Fine(new, next) /\ DOMAIN new.node = {name[x] : x \in DOMAIN body.node} /\ new.top = name[body.top]
         /\ Inked(Plan(body)) => Inked(Plan(new))
<1>1. BodyOK(body) /\ \A x \in DOMAIN body.node : Named(body.node[x], next)
  BY DEF Fine
<1>2. /\ body = [top |-> body.top, node |-> body.node, kids |-> body.kids]
      /\ \A x \in DOMAIN body.node : body.node[x] \in Node
      /\ body.top \in DOMAIN body.node
  BY <1>1, BodyNode
<1>3. PICK old : old = [y \in {name[x] : x \in DOMAIN body.node} |->
                          CHOOSE x \in DOMAIN body.node : name[x] = y]
  OBVIOUS
<1>4. PICK I, N : I = DOMAIN body.node /\ N = DOMAIN old
  OBVIOUS
<1>5. /\ N = {name[x] : x \in I} /\ \A x \in I : name[x] \in N /\ old[name[x]] = x
      /\ \A y \in N : old[y] \in I /\ name[old[y]] = y
  <2>1. \A x, y \in I : name[x] = name[y] => x = y
    BY <1>4 DEF Naming
  <2>2. N = {name[x] : x \in I} /\ \A y \in N : old[y] = CHOOSE x \in I : name[x] = y
    BY <1>3, <1>4, Zenon
  <2>3. ASSUME NEW y \in N PROVE old[y] \in I /\ name[old[y]] = y
    <3>1. \E x \in I : name[x] = y
      BY <2>2
    <3> QED
      BY <2>2, <3>1
  <2>4. \A x \in I : name[x] \in N
    BY <2>2
  <2> QED
    BY <2>1, <2>2, <2>3, <2>4
<1>6. new = [top |-> name[body.top],
             node |-> [y \in N |-> RemapRefs(name, body.node[old[y]])],
             kids |-> [y \in N |-> [i \in DOMAIN body.kids[old[y]] |-> name[body.kids[old[y]][i]]]]]
  <2>1. new = [top |-> name[body.top],
             node |-> [y \in DOMAIN old |-> RemapRefs(name, body.node[old[y]])],
             kids |-> [y \in DOMAIN old |-> [i \in DOMAIN body.kids[old[y]] |-> name[body.kids[old[y]][i]]]]]
    BY <1>3 DEF Remint
  <2> QED
    BY <1>4, <2>1
<1>7. /\ new.top = name[body.top] /\ DOMAIN new.node = N /\ DOMAIN new.kids = N
      /\ \A y \in N : /\ new.node[y] = RemapRefs(name, body.node[old[y]])
                       /\ new.kids[y] = [i \in DOMAIN body.kids[old[y]] |-> name[body.kids[old[y]][i]]]
      /\ new = [top |-> new.top, node |-> new.node, kids |-> new.kids]
  BY <1>6
<1> HIDE <1>6
<1>8. /\ Tree(AsPage(body)) /\ IsFiniteSet(I) /\ Founded(Plan(body).up) /\ DOMAIN Plan(body).up = I
      /\ \A x \in I : Plan(body).up[x] \in I \cup {Root}
      /\ \A x \in I : (Plan(body).up[x] = Root) <=> (x = body.top)
      /\ \A x \in I : Plan(body).up[x] # Root => Holds(body.node[Plan(body).up[x]].kind, body.node[x].kind)
      /\ \A q \in I : /\ body.kids[q] \in Seq(I) /\ OneOnly(body.kids[q])
                       /\ Range(body.kids[q]) = {x \in I : Plan(body).up[x] = q}
      /\ Root \notin I
  <2>1. Sound(Plan(body)) /\ Plan(body).node = body.node
    BY <1>1, BodyIs
  <2>2. IsFiniteSet(I) /\ Founded(Plan(body).up)
        /\ \A x \in I : Plan(body).up[x] # Root => Holds(body.node[Plan(body).up[x]].kind, body.node[x].kind)
    BY <1>4, <2>1 DEF Sound
  <2>3. \A x \in I : Plan(body).up[x] \in I \cup {Root}
    BY <1>4, <2>1, SoundIs
  <2> QED
    BY <1>1, <1>4, <2>2, <2>3, BodyIs
<1>9. PICK up, page : /\ up = [y \in N |-> IF old[y] = body.top THEN Root ELSE name[Plan(body).up[old[y]]]]
                      /\ page = AsPage(new)
  OBVIOUS
<1>10. /\ page = [node |-> page.node, kids |-> page.kids] /\ page.node = new.node
       /\ DOMAIN page.kids = N \cup {Root} /\ Ids(page) = N /\ Root \notin N
       /\ page.kids[Root] = <<new.top>> /\ \A y \in N : page.kids[y] = new.kids[y]
  <2>1. Root \notin N
    BY <1>4, <1>5 DEF Naming, Root
  <2> QED
    BY <1>7, <1>9, <2>1 DEF AsPage, Over, Ids
<1>11. body.top \in I /\ new.top \in N /\ old[new.top] = body.top
  BY <1>2, <1>4, <1>5, <1>7
<1>12. \A y \in N : up[y] \in N \cup {Root} /\ (up[y] = Root <=> y = new.top)
                   /\ (y # new.top => up[y] = name[Plan(body).up[old[y]]] /\ Plan(body).up[old[y]] \in I)
  <2> SUFFICES ASSUME NEW y \in N
               PROVE  /\ up[y] \in N \cup {Root} /\ (up[y] = Root <=> y = new.top)
                      /\ (y # new.top => up[y] = name[Plan(body).up[old[y]]] /\ Plan(body).up[old[y]] \in I)
    OBVIOUS
  <2>1. old[y] \in I /\ name[old[y]] = y
    BY <1>5
  <2>2. CASE old[y] = body.top
    BY <1>7, <1>9, <2>1, <2>2
  <2>3. CASE old[y] # body.top
    <3>1. Plan(body).up[old[y]] \in I
      BY <1>8, <2>1, <2>3
    <3>2. up[y] = name[Plan(body).up[old[y]]] /\ up[y] \in N
      BY <1>5, <1>9, <2>3, <3>1
    <3> QED
      BY <1>10, <1>11, <2>3, <3>1, <3>2
  <2> QED
    BY <2>2, <2>3
<1>13. \A q \in N : /\ new.kids[q] \in Seq(N) /\ OneOnly(new.kids[q])
                    /\ \A y \in N : y \in Range(new.kids[q]) <=> up[y] = q
  <2> SUFFICES ASSUME NEW q \in N
               PROVE  /\ new.kids[q] \in Seq(N) /\ OneOnly(new.kids[q])
                      /\ \A y \in N : y \in Range(new.kids[q]) <=> up[y] = q
    OBVIOUS
  <2>1. PICK s, t : s = body.kids[old[q]] /\ t = new.kids[q]
    OBVIOUS
  <2>2. old[q] \in I /\ name[old[q]] = q
    BY <1>5
  <2>3. s \in Seq(I) /\ OneOnly(s) /\ Range(s) = {x \in I : Plan(body).up[x] = old[q]}
    BY <1>8, <2>1, <2>2
  <2>4. t = [i \in DOMAIN s |-> name[s[i]]]
    BY <1>7, <2>1
  <2>5. t \in Seq(N)
    BY <1>5, <2>3, <2>4
  <2>6. DOMAIN t = DOMAIN s /\ \A i \in DOMAIN s : t[i] = name[s[i]] /\ s[i] \in I /\ old[t[i]] = s[i]
    BY <1>5, <2>3, <2>4
  <2>7. OneOnly(t)
    BY <2>3, <2>6 DEF OneOnly
  <2>8. ASSUME NEW y \in N PROVE y \in Range(t) <=> up[y] = q
    <3>1. y \in Range(t) <=> old[y] \in Range(s)
      <4>1. y \in Range(t) => old[y] \in Range(s)
        BY <2>6 DEF Range
      <4>2. old[y] \in Range(s) => y \in Range(t)
        BY <1>5, <2>6 DEF Range
      <4> QED
        BY <4>1, <4>2
    <3>2. old[y] \in Range(s) <=> Plan(body).up[old[y]] = old[q]
      BY <1>5, <2>3
    <3>3. CASE y = new.top
      <4>1. up[y] = Root /\ Plan(body).up[old[y]] = Root
        BY <1>8, <1>11, <1>12, <3>3
      <4> QED
        BY <1>8, <1>10, <2>2, <3>1, <3>2, <4>1
    <3>4. CASE y # new.top
      <4>1. up[y] = name[Plan(body).up[old[y]]] /\ Plan(body).up[old[y]] \in I
        BY <1>12, <3>4
      <4>2. up[y] = q <=> Plan(body).up[old[y]] = old[q]
        BY <1>5, <2>2, <4>1
      <4> QED
        BY <3>1, <3>2, <4>2
    <3> QED
      BY <3>3, <3>4
  <2> QED
    BY <2>1, <2>5, <2>7, <2>8
<1>14. Placed(page) /\ Up(page) = up
  <2>1. ASSUME NEW q \in Ids(page) \cup {Root} PROVE page.kids[q] \in Seq(Ids(page)) /\ OneOnly(page.kids[q])
    <3>1. CASE q = Root
      <4>1. PICK t, z : t = page.kids[q] /\ z = new.top
        OBVIOUS
      <4>2. t = <<z>> /\ z \in Ids(page)
        BY <1>10, <1>11, <3>1, <4>1
      <4>3. t \in Seq(Ids(page)) /\ DOMAIN t = {1}
        BY <4>2
      <4> QED
        BY <4>1, <4>3 DEF OneOnly
    <3>2. CASE q # Root
      BY <1>10, <1>13, <3>2
    <3> QED
      BY <3>1, <3>2
  <2>2. ASSUME NEW q \in Ids(page) \cup {Root}, NEW y \in Ids(page) PROVE y \in Range(page.kids[q]) <=> up[y] = q
    <3>1. CASE q = Root
      <4>1. page.kids[q] = <<new.top>>
        BY <1>10, <3>1
      <4>2. Range(<<new.top>>) = {new.top}
        BY DEF Range
      <4> QED
        BY <1>10, <1>12, <3>1, <4>1, <4>2
    <3>2. CASE q # Root
      BY <1>10, <1>13, <3>2
    <3> QED
      BY <3>1, <3>2
  <2>3. up \in [Ids(page) -> Ids(page) \cup {Root}]
    BY <1>9, <1>10, <1>12
  <2> QED
    BY <1>10, <2>1, <2>2, <2>3, PlacedBy
<1>15. \A y \in N : new.node[y] \in Node /\ new.node[y].kind = body.node[old[y]].kind /\ Named(new.node[y], next)
  <2> SUFFICES ASSUME NEW y \in N
               PROVE  new.node[y] \in Node /\ new.node[y].kind = body.node[old[y]].kind /\ Named(new.node[y], next)
    OBVIOUS
  <2>1. PICK n, m : n = body.node[old[y]] /\ m = new.node[y]
    OBVIOUS
  <2>2. n \in Node /\ Named(n, next) /\ m = RemapRefs(name, n)
    BY <1>1, <1>2, <1>4, <1>5, <1>7, <2>1
  <2>3. m \in Node /\ m.kind = n.kind /\ Named(m, next)
    BY <2>2, RemapIs
  <2> QED
    BY <2>1, <2>3
<1>16. PICK a : a = Outline(page)
  OBVIOUS
<1>17. a = [node |-> a.node, up |-> a.up] /\ a.node = new.node /\ a.up = up
  BY <1>10, <1>14, <1>16 DEF Outline
<1>18. IsFiniteSet(N) /\ N \subseteq Nat \ {Root}
  <2>1. N = {name[x] : x \in I}
    BY <1>5
  <2>2. IsFiniteSet(N)
    <3>1. old = [y \in N |-> old[y]]
      BY <1>3, <1>4
    <3>2. old \in Injection(N, I)
      BY <1>5, <3>1 DEF Injection, IsInjective
    <3> QED
      BY <1>8, <3>2, FS_Injection
  <2> QED
    BY <1>4, <2>1, <2>2 DEF Naming, Root
<1>19. Founded(up)
  <2> SUFFICES ASSUME NEW S \in SUBSET DOMAIN up, S # {} PROVE \E y \in S : up[y] \notin S
    BY DEF Founded
  <2>1. PICK W : W = {old[y] : y \in S}
    OBVIOUS
  <2>2. S \subseteq N
    BY <1>9
  <2>3. W \subseteq I /\ W # {}
    BY <1>5, <2>1, <2>2
  <2>4. PICK x \in W : Plan(body).up[x] \notin W
    BY <1>8, <2>3 DEF Founded
  <2>5. PICK y \in S : x = old[y]
    BY <2>1
  <2>6. CASE y = new.top
    BY <1>10, <1>12, <2>2, <2>6
  <2>7. CASE y # new.top
    <3>1. up[y] = name[Plan(body).up[x]] /\ Plan(body).up[x] \in I
      BY <1>12, <2>2, <2>5, <2>7
    <3>2. old[up[y]] = Plan(body).up[x]
      BY <1>5, <3>1
    <3> QED
      BY <2>1, <2>4, <3>2
  <2> QED
    BY <2>6, <2>7
<1>20. \A y \in N : up[y] # Root => Holds(new.node[up[y]].kind, new.node[y].kind)
  <2> SUFFICES ASSUME NEW y \in N, up[y] # Root PROVE Holds(new.node[up[y]].kind, new.node[y].kind)
    OBVIOUS
  <2>1. PICK x, z : x = old[y] /\ z = Plan(body).up[x]
    OBVIOUS
  <2>2. x \in I /\ z \in I /\ up[y] = name[z] /\ old[up[y]] = z /\ up[y] \in N
    BY <1>5, <1>12, <2>1
  <2>3. Holds(body.node[z].kind, body.node[x].kind)
    BY <1>8, <1>10, <2>1, <2>2
  <2> QED
    BY <1>15, <2>1, <2>2, <2>3
<1>21. Sound(a)
  <2>1. DOMAIN a.node = N /\ a.node \in [N -> Node]
    <3>1. new.node = [y \in N |-> new.node[y]]
      BY <1>6
    <3> QED
      BY <1>7, <1>15, <1>17, <3>1
  <2>2. a.up \in [N -> N \cup {Root}]
    BY <1>9, <1>12, <1>17
  <2> QED
    BY <1>17, <1>18, <1>19, <1>20, <2>1, <2>2 DEF Sound
<1>22. BodyOK(new)
  BY <1>7, <1>9, <1>14, <1>16, <1>21 DEF BodyOK, Tree
<1>23. Inked(Plan(body)) => Inked(Plan(new))
  <2>1. a = Plan(new) /\ Plan(body).node = body.node
    BY <1>1, <1>9, <1>16, BodyIs DEF Plan
  <2>2. SUFFICES ASSUME Inked(Plan(body)), NEW y \in N, new.node[y].kind = "box"
                 PROVE  \E z \in N : new.node[z].kind = "ink" /\ up[z] = y
    BY <1>7, <1>17, <2>1 DEF Inked
  <2>3. old[y] \in I /\ body.node[old[y]].kind = "box" /\ name[old[y]] = y
    BY <1>5, <1>15, <2>2
  <2>4. PICK x \in I : body.node[x].kind = "ink" /\ Plan(body).up[x] = old[y]
    BY <1>4, <2>1, <2>2, <2>3 DEF Inked
  <2>5. PICK z \in N : z = name[x] /\ old[z] = x
    BY <1>5
  <2>6. z # new.top
    BY <1>8, <1>11, <2>3, <2>4, <2>5
  <2>7. up[z] = y
    BY <1>12, <2>3, <2>4, <2>5, <2>6
  <2> QED
    BY <1>15, <2>4, <2>5, <2>7
<1> QED
  BY <1>4, <1>5, <1>7, <1>15, <1>22, <1>23 DEF Fine

-----------------------------------------------------------------------------
\* Fresh ids in the order of the old ones.
LEMMA NamesIs ==
  ASSUME NEW S, IsFiniteSet(S), S \subseteq Nat, NEW next \in Nat \ {0},
         NEW name, name = [x \in S |-> next - 1 + Cardinality({y \in S : y <= x})]
  PROVE  /\ Cardinality(S) \in Nat /\ Naming(name, S, next + Cardinality(S))
         /\ \A x \in S : next <= name[x]
<1>1. PICK C : C = [x \in S |-> {y \in S : y <= x}]
  OBVIOUS
<1>2. Cardinality(S) \in Nat
  BY FS_CardinalityType
<1>3. ASSUME NEW x \in S
      PROVE  IsFiniteSet(C[x]) /\ Cardinality(C[x]) \in Nat /\ 1 <= Cardinality(C[x])
                 /\ Cardinality(C[x]) <= Cardinality(S)
  <2>1. C[x] \in SUBSET S /\ x \in C[x]
    BY <1>1
  <2>2. IsFiniteSet(C[x]) /\ Cardinality(C[x]) <= Cardinality(S)
    BY <2>1, FS_Subset
  <2>3. Cardinality(C[x]) \in Nat /\ Cardinality(C[x]) # 0
    BY <2>1, <2>2, FS_CardinalityType, FS_EmptySet
  <2> QED
    BY <2>2, <2>3
<1>4. ASSUME NEW x \in S, NEW y \in S, x < y PROVE Cardinality(C[x]) < Cardinality(C[y])
  <2>1. C[x] \in SUBSET C[y] /\ y \in C[y] /\ y \notin C[x]
    <3>1. x \in Nat /\ y \in Nat /\ ~(y <= x) /\ y <= y
      BY <1>4
    <3>2. ASSUME NEW z \in S, z <= x PROVE z <= y
      BY <1>4, <3>2
    <3>3. C[x] = {z \in S : z <= x} /\ C[y] = {z \in S : z <= y}
      BY <1>1
    <3> QED
      BY <3>1, <3>2, <3>3
  <2>2. Cardinality(C[x]) <= Cardinality(C[y]) /\ (Cardinality(C[x]) = Cardinality(C[y]) <=> C[x] = C[y])
    BY <1>3, <2>1, FS_Subset
  <2>3. Cardinality(C[x]) # Cardinality(C[y])
    BY <2>1, <2>2
  <2>4. Cardinality(C[x]) \in Nat /\ Cardinality(C[y]) \in Nat
    BY <1>3
  <2> QED
    BY <2>2, <2>3, <2>4
<1>5. DOMAIN name = S /\ \A x \in S : name[x] = next - 1 + Cardinality(C[x])
  BY <1>1
<1>6. PICK n : n = Cardinality(S) /\ n \in Nat
  BY <1>2
<1>7. ASSUME NEW x \in S PROVE name[x] \in Nat \ {0} /\ name[x] < next + n /\ next <= name[x]
  <2>1. PICK c : c = Cardinality(C[x]) /\ c \in Nat /\ 1 <= c /\ c <= n
    BY <1>3, <1>6
  <2>2. name[x] = next - 1 + c
    BY <1>5, <2>1
  <2> QED
    BY <1>6, <2>1, <2>2
<1>8. ASSUME NEW x \in S, NEW y \in S, x < y PROVE name[x] # name[y]
  <2>1. PICK c, e : c = Cardinality(C[x]) /\ c \in Nat /\ e = Cardinality(C[y]) /\ e \in Nat
    BY <1>3
  <2>2. c < e
    BY <1>4, <1>8, <2>1
  <2>3. name[x] = next - 1 + c /\ name[y] = next - 1 + e
    BY <1>5, <2>1
  <2> QED
    BY <2>1, <2>2, <2>3
<1>9. \A x, y \in S : name[x] = name[y] => x = y
  <2> SUFFICES ASSUME NEW x \in S, NEW y \in S, x # y PROVE name[x] # name[y]
    OBVIOUS
  <2>1. x < y \/ y < x
    OBVIOUS
  <2> QED
    BY <1>8, <2>1
<1>10. Naming(name, S, next + n)
  BY <1>5, <1>7, <1>9 DEF Naming
<1> QED
  BY <1>6, <1>7, <1>10

-----------------------------------------------------------------------------
\* The bodies one copied root comes to in a box.
FineLot(bs, M, next) == Lots(bs, M) /\ \A f \in Range(bs) : Fine(f, next)
\* Bodies without an empty box.
SlotInked(bs) == \A f \in Range(bs) : Inked(Plan(f))
\* An ink alone is a body without references.
LEMMA ChipFine ==
  ASSUME NEW f, NEW x, Chip(f, x), NEW next
  PROVE  Fine(f, next)
<1>1. BodyOK(f) /\ DOMAIN f.node = {x} /\ f.node[x].kind = "ink"
  BY InkIs DEF Chip
<1> QED
  BY <1>1 DEF Fine, Named
\* A stroke alone has no box to be empty.
LEMMA ChipInked ==
  ASSUME NEW f, NEW x, Chip(f, x)
  PROVE  Inked(Plan(f))
<1>1. BodyOK(f) /\ DOMAIN f.node = {x} /\ f.node[x] \in InkNode
  BY DEF Chip
<1>2. f.node[x].kind = "ink"
  BY <1>1, InkIs
<1>3. Plan(f).node = f.node
  BY <1>1, BodyIs
<1> QED
  BY <1>1, <1>2, <1>3 DEF Inked
\* Pasting into a box: the bodies have the ids of what was copied.
LEMMA IntoBoxIs ==
  ASSUME NEW page, Tree(page), NEW parent \in Ids(page), page.node[parent].kind = "box",
         NEW body, NEW next, Fine(body, next), NEW bs, bs = IntoBox(page, body, parent)
  PROVE  FineLot(bs, DOMAIN body.node, next) /\ (Inked(Plan(body)) => SlotInked(bs))
<1>1. PICK n, own, ctx, sub : /\ n = body.node[body.top] /\ own = page.node[parent].at
                              /\ ctx = ContentCtx(page, parent) /\ sub = AsPage(body)
  OBVIOUS
<1>2. own \in Int /\ ctx \in Int
  <2>1. own \in Int
    BY <1>1, TreeIs, KindIs, BoxIs
  <2> QED
    BY <1>1, <2>1, CtxIs
<1>3. BodyOK(body) /\ Tree(sub) /\ Ids(sub) = DOMAIN body.node /\ sub.node = body.node
          /\ body.top \in DOMAIN body.node
      /\ n \in Node
  <2>1. BodyOK(body)
    BY DEF Fine
  <2> QED
    BY <1>1, <2>1, BodyIs, BodyNode DEF AsPage
<1>4. CASE n.kind = "ink"
  <2>1. PICK rec : rec = Localized(n, own)
    OBVIOUS
  <2>2. rec \in InkNode
    BY <1>2, <1>3, <1>4, <2>1, KindIs, LocalizedIs
  <2>3. PICK f : f = Leaf(body.top, rec)
    OBVIOUS
  <2>4. body.top \in Nat \ {0} /\ rec \in Node
    BY <1>3, <2>2, TreeIs DEF Root, Node
  <2>5. Chip(f, body.top)
    BY <2>2, <2>3, <2>4, LeafIs DEF Chip
  <2>6. bs = <<f>>
    BY <1>1, <1>4, <2>1, <2>3 DEF IntoBox
  <2>7. Lots(bs, DOMAIN body.node) /\ Range(bs) = {f}
    <3>1. DOMAIN f.node \subseteq DOMAIN body.node
      BY <1>3, <2>5 DEF Chip
    <3> QED
      BY <2>6, <3>1, LotsOne
  <2> QED
    BY <2>5, <2>7, ChipFine, ChipInked DEF FineLot, SlotInked
<1>5. CASE n.kind = "box" /\ IsEmptySmartGroup(sub, body.top)
  <2>1. bs = FlattenToInks(sub, body.top, ctx)
    BY <1>1, <1>5 DEF IntoBox
  <2>2. /\ Lots(bs, Ids(sub))
        /\ \A f \in Range(bs) : \E x \in Ids(sub) : Chip(f, x)
    <3>1. body.top \in Ids(sub) /\ sub.node[body.top].kind = "box"
      BY <1>1, <1>3, <1>5
    <3> QED
      BY <1>2, <1>3, <2>1, <3>1, FlattenInks
  <2> QED
    BY <1>3, <2>2, ChipFine, ChipInked DEF FineLot, SlotInked
<1>6. CASE n.kind = "box" /\ ~IsEmptySmartGroup(sub, body.top)
  <2>1. PICK f : f = Translate(body, -ctx)
    OBVIOUS
  <2>2. bs = <<f>>
    BY <1>1, <1>6, <2>1 DEF IntoBox
  <2>3. PICK d : d = -ctx /\ d \in Int
    BY <1>2
  <2>4. Fine(f, next) /\ DOMAIN f.node = DOMAIN body.node /\ (Inked(Plan(body)) => Inked(Plan(f)))
    BY <2>1, <2>3, TranslateIs
  <2>5. Lots(bs, DOMAIN body.node) /\ Range(bs) = {f}
    BY <2>2, <2>4, LotsOne
  <2> QED
    BY <2>4, <2>5 DEF FineLot, SlotInked
<1>7. CASE n.kind # "ink" /\ n.kind # "box"
  <2>1. bs = <<body>>
    BY <1>1, <1>7 DEF IntoBox
  <2>2. Lots(bs, DOMAIN body.node) /\ Range(bs) = {body}
    BY <2>1, LotsOne
  <2> QED
    BY <2>2 DEF FineLot, SlotInked
<1> QED
  BY <1>4, <1>5, <1>6, <1>7

-----------------------------------------------------------------------------
\* Finitely many numbers have a least.
LEMMA LeastOf ==
  ASSUME NEW n \in Nat \ {0}, NEW f, \A i \in 1..n : f[i] \in Int
  PROVE  \E i \in 1..n : \A j \in 1..n : f[i] <= f[j]
<1>1. PICK S : S = {k \in Nat : k \in 1..n => \E i \in 1..k : \A j \in 1..k : f[i] <= f[j]}
  OBVIOUS
<1>2. 0 \in S
  BY <1>1
<1>3. ASSUME NEW k \in Nat, k \in S PROVE k + 1 \in S
  <2> SUFFICES ASSUME k + 1 \in 1..n PROVE \E i \in 1..(k + 1) : \A j \in 1..(k + 1) : f[i] <= f[j]
    BY <1>1
  <2>1. CASE k = 0
    <3>1. 1..(k + 1) = {1} /\ f[1] \in Int
      BY <2>1
    <3> QED
      BY <3>1
  <2>2. CASE k # 0
    <3>1. k \in 1..n
      BY <2>2
    <3>2. PICK i \in 1..k : \A j \in 1..k : f[i] <= f[j]
      BY <1>1, <1>3, <3>1
    <3>3. PICK a, b : a = f[i] /\ b = f[k + 1] /\ a \in Int /\ b \in Int
      BY <3>1, <3>2
    <3>4. \A j \in 1..k : f[j] \in Int /\ a <= f[j]
      BY <3>1, <3>2, <3>3
    <3>5. \A j \in 1..(k + 1) : j \in 1..k \/ j = k + 1
      OBVIOUS
    <3>6. i \in 1..(k + 1) /\ k + 1 \in 1..(k + 1)
      BY <3>2
    <3>7. CASE a <= b
      <4>1. \A j \in 1..(k + 1) : f[i] <= f[j]
        BY <3>3, <3>4, <3>5, <3>7
      <4> QED
        BY <3>6, <4>1
    <3>8. CASE ~(a <= b)
      <4>1. \A j \in 1..k : b <= f[j]
        BY <3>3, <3>4, <3>8
      <4>2. \A j \in 1..(k + 1) : f[k + 1] <= f[j]
        BY <3>3, <3>5, <4>1
      <4> QED
        BY <3>6, <4>2
    <3> QED
      BY <3>7, <3>8
  <2> QED
    BY <2>1, <2>2
<1>4. n \in S
  BY <1>2, <1>3, InductionSet
<1> QED
  BY <1>1, <1>4

\* A body has a left edge.
LEMMA LeftIs ==
  ASSUME NEW body, BodyOK(body)
  PROVE  LeftOf(body) \in Int
<1>1. PICK n : n = body.node[body.top]
  OBVIOUS
<1>2. n \in Node
  BY <1>1, BodyNode
<1>3. CASE n.kind = "ink"
  BY <1>1, <1>2, <1>3, KindIs, InkIs DEF LeftOf
<1>4. CASE n.kind = "box"
  BY <1>1, <1>2, <1>4, KindIs, BoxIs DEF LeftOf
<1>5. CASE n.kind = "conn"
  <2>1. n.p \in Int /\ n.q \in Int
    BY <1>2, <1>5, KindIs, ConnIs
  <2>2. LeftOf(body) = Min({n.p, n.q})
    BY <1>1, <1>5 DEF LeftOf
  <2>3. \E x \in {n.p, n.q} : \A y \in {n.p, n.q} : x <= y
    BY <2>1
  <2>4. Min({n.p, n.q}) \in {n.p, n.q}
    BY <2>3 DEF Min
  <2> QED
    BY <2>1, <2>2, <2>4
<1> QED
  BY <1>2, <1>3, <1>4, <1>5, KindIs

SlotOK(copied, next) == FineLot(copied, 1..(next - 1), next)
\* So has a clipboard that is not empty.
LEMMA SlotLeftIs ==
  ASSUME NEW copied, NEW next, SlotOK(copied, next), copied # << >>
  PROVE  SlotLeft(copied) \in Int
<1>1. copied \in Seq(Range(copied)) /\ \A f \in Range(copied) : BodyOK(f)
  BY DEF SlotOK, FineLot, Lots, Fine
<1>2. PICK n : n = Len(copied) /\ n \in Nat \ {0} /\ DOMAIN copied = 1..n
  BY <1>1
<1>3. \A i \in 1..n : copied[i] \in Range(copied)
  BY <1>2 DEF Range
<1>4. PICK f : f = [i \in 1..n |-> LeftOf(copied[i])]
  OBVIOUS
<1>5. \A i \in 1..n : f[i] \in Int
  BY <1>1, <1>3, <1>4, LeftIs
<1>6. PICK k \in 1..n : \A j \in 1..n : f[k] <= f[j]
  BY <1>2, <1>5, LeastOf
<1>7. PICK S : S = {LeftOf(copied[i]) : i \in DOMAIN copied}
  OBVIOUS
<1>8. S = {f[i] : i \in 1..n}
  BY <1>2, <1>4, <1>7
<1>9. f[k] \in S /\ (\A y \in S : f[k] <= y) /\ S \subseteq Int
  BY <1>5, <1>6, <1>8
<1>10. Min(S) \in S
  <2>1. \E x \in S : \A y \in S : x <= y
    BY <1>9
  <2> QED
    BY <2>1 DEF Min
<1> QED
  BY <1>7, <1>9, <1>10 DEF SlotLeft

-----------------------------------------------------------------------------
\* Bodies restored one after another, as parts of a gesture.
LEMMA RestoresPlanned ==
  ASSUME NEW page, Tree(page), NEW base \in Nat \ {0}, Known(Outline(page), base), NEW next \in Nat, base <= next,
         NEW parent \in Ids(page) \cup {Root}, parent # Root => page.node[parent].kind = "box",
         NEW bodies, FineLot(bodies, base..(next - 1), next),
         NEW es, es = [i \in DOMAIN bodies |-> Restore(bodies[i], parent, AtEnd)]
  PROVE  Planned(page, next, base, es)
<1>1. PICK P, M : P = Outline(page) /\ M = base..(next - 1)
  OBVIOUS
<1>2. bodies \in Seq(Range(bodies)) /\ (\A f \in Range(bodies) : Fine(f, next))
      /\ (\A i \in DOMAIN bodies : DOMAIN bodies[i].node \subseteq M)
      /\ \A i, j \in DOMAIN bodies : i # j => DOMAIN bodies[i].node \cap DOMAIN bodies[j].node = {}
  BY <1>1 DEF FineLot, Lots
<1>3. PICK n : n = Len(bodies) /\ n \in Nat /\ DOMAIN bodies = 1..n
  BY <1>2
<1>4. DOMAIN es = 1..n /\ es = [i \in 1..n |-> es[i]] /\ \A i \in 1..n : es[i] = Restore(bodies[i], parent, AtEnd)
  BY <1>3, Zenon
<1>5. es \in Seq(Range(es)) /\ Len(es) = n
  BY <1>3, <1>4, ListIs
<1>6. \A i \in 1..n : Fine(bodies[i], next) /\ DOMAIN bodies[i].node \subseteq M
  BY <1>2, <1>3 DEF Range
<1>7. \A i \in 1..n : /\ es[i].kind = "restore" /\ es[i].id = bodies[i].top /\ es[i].body = bodies[i]
                      /\ es[i].parent = parent /\ es[i].index \in Nat \ {0}
  BY <1>4 DEF Restore, AtEnd
<1>8. /\ DOMAIN P.node = Ids(page) /\ P.node = page.node /\ \A x \in Ids(page) : x < base
  BY <1>1, OutlineIs, KnownIs
<1>9. M \cap Ids(page) = {}
  <2>1. Ids(page) \subseteq Nat
    BY TreeIs
  <2> QED
    BY <1>1, <1>8, <2>1
<1>10. ASSUME NEW i \in 1..n PROVE PartOK(P, es[i]) /\ Makes(es[i]) = DOMAIN bodies[i].node
                  /\ Brings(es[i], base, next)
  <2>1. PICK e, f : e = es[i] /\ f = bodies[i]
    OBVIOUS
  <2>2. e.kind = "restore" /\ e.id = f.top /\ e.body = f /\ e.parent = parent /\ e.index \in Nat \ {0}
    BY <1>7, <2>1
  <2>3. BodyOK(f) /\ (\A x \in DOMAIN f.node : Named(f.node[x], next)) /\ DOMAIN f.node \subseteq M
    BY <1>6, <2>1 DEF Fine
  <2>4. e.parent # Root => Holds(P.node[e.parent].kind, e.body.node[e.id].kind)
    BY <1>8, <2>2 DEF Holds
  <2>5. DOMAIN e.body.node \cap DOMAIN P.node = {} /\ e.parent \in DOMAIN P.node \cup {Root}
    BY <1>8, <1>9, <2>2, <2>3
  <2>6. PartOK(P, e)
    BY <2>2, <2>3, <2>4, <2>5 DEF PartOK
  <2>7. Makes(e) = DOMAIN f.node /\ \A x : Brought(e, x) = f.node[x]
    BY <2>2 DEF Makes, Brought
  <2>8. \A x \in DOMAIN f.node : base <= x /\ x < next
    BY <1>1, <2>3
  <2>9. Brings(e, base, next)
    BY <2>3, <2>7, <2>8 DEF Brings
  <2> QED
    BY <2>1, <2>6, <2>7, <2>9
<1>11. PartsOK(P, es)
  BY <1>2, <1>3, <1>4, <1>5, <1>10 DEF PartsOK
<1>12. n # 0 => es[n].kind \in Creates
  BY <1>3, <1>7 DEF Creates
<1> QED
  BY <1>1, <1>4, <1>5, <1>10, <1>11, <1>12 DEF Planned

-----------------------------------------------------------------------------
Names(S, base) == [x \in S |-> base - 1 + Cardinality({y \in S : y <= x})]
Images(name, D) == {name[x] : x \in D}
CopyOf(copied, i, dx, name) == Remint(Translate(copied[i], dx), name)
Landing(page, copied, dx, name, parent) ==
    [i \in DOMAIN copied |-> IF parent = Root THEN <<CopyOf(copied, i, dx, name)>>
                             ELSE IntoBox(page, CopyOf(copied, i, dx, name), parent)]
FreshNames(name, S, base, next) ==
    /\ base \in Nat /\ next \in Nat /\ base <= next /\ Naming(name, S, next)
    /\ \A x \in S : base <= name[x]

\* One pasted root, under its fresh ids.
LEMMA CopyFine ==
  ASSUME NEW copied, NEW base, SlotOK(copied, base), NEW dx \in Int, NEW name, NEW next,
         FreshNames(name, Sources(copied), base, next), NEW i \in DOMAIN copied,
         NEW new, new = CopyOf(copied, i, dx, name)
  PROVE  /\ Fine(new, next) /\ DOMAIN new.node = Images(name, DOMAIN copied[i].node)
         /\ Inked(Plan(copied[i])) => Inked(Plan(new))
<1>1. PICK b, t, S : b = copied[i] /\ t = Translate(b, dx) /\ S = Sources(copied)
  OBVIOUS
<1>2. Fine(b, base) /\ DOMAIN b.node \subseteq S
  BY <1>1 DEF SlotOK, FineLot, Range, Sources
<1>3. base \in Nat /\ next \in Nat /\ base <= next /\ Naming(name, S, next)
  BY <1>1 DEF FreshNames
<1>4. ASSUME NEW x \in DOMAIN b.node PROVE Named(b.node[x], next)
  <2>1. b.node[x] \in Node /\ Named(b.node[x], base)
    BY <1>2, BodyNode DEF Fine
  <2>2. b.node[x].kind = "conn" => b.node[x].from \in Nat /\ b.node[x].to \in Nat
    BY <2>1, KindIs, ConnIs
  <2> QED
    BY <1>3, <2>1, <2>2 DEF Named
<1>5. Fine(b, next)
  BY <1>2, <1>4 DEF Fine
<1>6. Fine(t, next) /\ DOMAIN t.node = DOMAIN b.node /\ (Inked(Plan(b)) => Inked(Plan(t)))
  BY <1>1, <1>5, TranslateIs
<1>7. new = Remint(t, name) /\ DOMAIN t.node \subseteq S
  BY <1>1, <1>2, <1>6 DEF CopyOf
<1>8. /\ Fine(new, next) /\ DOMAIN new.node = {name[x] : x \in DOMAIN t.node} /\ new.top = name[t.top]
      /\ Inked(Plan(t)) => Inked(Plan(new))
  BY <1>3, <1>6, <1>7, RemintIs
<1> QED
  BY <1>1, <1>6, <1>8 DEF Images

\* Fresh copies of what was copied, where they go.
LEMMA CopiesFine ==
  ASSUME NEW page, Tree(page), NEW copied, NEW base, SlotOK(copied, base), NEW dx \in Int, NEW name, NEW next,
         FreshNames(name, Sources(copied), base, next),
         NEW parent \in Ids(page) \cup {Root}, parent # Root => page.node[parent].kind = "box",
         NEW ss, ss = Landing(page, copied, dx, name, parent)
  PROVE  FineLot(FlattenSeq(ss), base..(next - 1), next) /\ (SlotInked(copied) => SlotInked(FlattenSeq(ss)))
<1>1. /\ copied \in Seq(Range(copied))
      /\ \A i, j \in DOMAIN copied : i # j => DOMAIN copied[i].node \cap DOMAIN copied[j].node = {}
  BY DEF SlotOK, FineLot, Lots
<1>2. PICK n : n = Len(copied) /\ n \in Nat /\ DOMAIN copied = 1..n
  BY <1>1
<1>0. PICK S : S = Sources(copied)
  OBVIOUS
<1>3. S = Sources(copied) /\ \A i \in 1..n : DOMAIN copied[i].node \subseteq S
  BY <1>0, <1>2 DEF Sources
<1>4. base \in Nat /\ next \in Nat /\ base <= next /\ Naming(name, S, next) /\ \A x \in S : base <= name[x]
  BY <1>3 DEF FreshNames
<1>5. PICK M, N : M = [i \in 1..n |-> Images(name, DOMAIN copied[i].node)] /\ N = base..(next - 1)
  OBVIOUS
<1>6. \A i \in 1..n : \A y \in M[i] : \E x \in DOMAIN copied[i].node : x \in S /\ y = name[x]
  BY <1>3, <1>5 DEF Images
<1>7. \A i \in 1..n : M[i] \subseteq N
  <2> SUFFICES ASSUME NEW i \in 1..n, NEW y \in M[i] PROVE y \in N
    OBVIOUS
  <2>1. PICK x \in S : y = name[x]
    BY <1>6
  <2>2. y \in Nat /\ y < next /\ base <= y
    BY <1>4, <2>1 DEF Naming
  <2> QED
    BY <1>4, <1>5, <2>2
<1>8. \A i, j \in 1..n : i # j => M[i] \cap M[j] = {}
  <2> SUFFICES ASSUME NEW i \in 1..n, NEW j \in 1..n, i # j, NEW y \in M[i], y \in M[j] PROVE FALSE
    OBVIOUS
  <2>1. PICK x \in DOMAIN copied[i].node : x \in S /\ y = name[x]
    BY <1>6
  <2>2. PICK z \in DOMAIN copied[j].node : z \in S /\ y = name[z]
    BY <1>6
  <2>3. x = z
    BY <1>4, <2>1, <2>2 DEF Naming
  <2> QED
    BY <1>1, <1>2, <2>3
<1>9. DOMAIN ss = 1..n /\ ss = [i \in 1..n |-> ss[i]]
  BY <1>2, Zenon DEF Landing
<1>10. \A i \in 1..n : ss[i] = IF parent = Root THEN <<CopyOf(copied, i, dx, name)>>
                               ELSE IntoBox(page, CopyOf(copied, i, dx, name), parent)
  BY <1>2 DEF Landing
<1>11. Len(ss) = n /\ ss \in Seq(Range(ss))
  <2>1. PICK tt : tt = ss
    OBVIOUS
  <2>2. DOMAIN tt = 1..n /\ tt = [i \in 1..n |-> tt[i]]
    BY <1>9, <2>1
  <2>3. Len(tt) = n /\ tt \in Seq(Range(tt))
    BY <1>2, <2>2, ListIs
  <2> QED
    BY <2>1, <2>3
<1>12. ASSUME NEW i \in 1..n PROVE FineLot(ss[i], M[i], next) /\ (SlotInked(copied) => SlotInked(ss[i]))
  <2>1. PICK b : b = CopyOf(copied, i, dx, name)
    OBVIOUS
  <2>2. Fine(b, next) /\ M[i] = DOMAIN b.node /\ (Inked(Plan(copied[i])) => Inked(Plan(b)))
    BY <1>2, <1>5, <2>1, CopyFine
  <2>3. SlotInked(copied) => Inked(Plan(b))
    BY <1>2, <2>2 DEF SlotInked, Range
  <2>4. CASE parent = Root
    <3>1. ss[i] = <<b>>
      BY <1>10, <2>1, <2>4
    <3>2. Lots(<<b>>, M[i]) /\ Range(<<b>>) = {b}
      BY <2>2, LotsOne
    <3> QED
      BY <2>2, <2>3, <3>1, <3>2 DEF FineLot, SlotInked
  <2>5. CASE parent # Root
    <3>1. ss[i] = IntoBox(page, b, parent) /\ parent \in Ids(page) /\ page.node[parent].kind = "box"
      BY <1>10, <2>1, <2>5
    <3>2. FineLot(ss[i], DOMAIN b.node, next) /\ (Inked(Plan(b)) => SlotInked(ss[i]))
      BY <2>2, <3>1, IntoBoxIs
    <3> QED
      BY <2>2, <2>3, <3>2
  <2> QED
    BY <2>4, <2>5
<1>13. Lots(FlattenSeq(ss), N) /\ \A b \in Range(FlattenSeq(ss)) : \E i \in 1..n : b \in Range(ss[i])
  <2>1. \A i \in 1..n : Lots(ss[i], M[i])
    BY <1>12 DEF FineLot
  <2> QED
    BY <1>2, <1>7, <1>8, <1>9, <1>11, <2>1, LotsFlatten
<1>14. \A b \in Range(FlattenSeq(ss)) : Fine(b, next)
  BY <1>12, <1>13 DEF FineLot
<1>15. SlotInked(copied) => SlotInked(FlattenSeq(ss))
  BY <1>12, <1>13 DEF SlotInked
<1> QED
  BY <1>5, <1>13, <1>14, <1>15 DEF FineLot

\* commitPaste.
LEMMA PasteSane ==
  ASSUME NEW d, DocOK(d), ~d.latched, NEW copied, SlotOK(copied, d.next), copied # << >>, NEW c \in Int
  PROVE  Sane(Paste(d, copied, c)) /\ (SlotInked(copied) => Fills(d, Paste(d, copied, c)))
<1>1. PICK page, base, hit, parent, S, dx :
         /\ page = d.page /\ base = d.next /\ hit = Tapped(d.page, c)
         /\ parent = (IF Of(page, hit, "box") THEN hit ELSE Root)
         /\ S = Sources(copied) /\ dx = c - SlotLeft(copied)
  OBVIOUS
<1>2. PICK name : name = Names(S, base)
  OBVIOUS
<1>3. PICK ss : ss = Landing(page, copied, dx, name, parent)
  OBVIOUS
<1>4. PICK m, next, bodies : m = Cardinality(S) /\ next = base + m /\ bodies = FlattenSeq(ss)
  OBVIOUS
<1>5. PICK es : es = [i \in DOMAIN bodies |-> Restore(bodies[i], parent, AtEnd)]
  OBVIOUS
<1>6. Paste(d, copied, c) = IF copied = << >> \/ hit \in S THEN d ELSE CommitParts(WithIds(d, m), es)
  BY <1>1, <1>2, <1>3, <1>4, <1>5 DEF Paste, Names, Landing, CopyOf
<1>7. base \in Nat \ {0} /\ Tree(page) /\ Known(Outline(page), base)
  BY <1>1, DocIs
<1>8. parent \in Ids(page) \cup {Root} /\ (parent # Root => page.node[parent].kind = "box")
  BY <1>1 DEF Of, Has
<1>9. dx \in Int
  <2>1. SlotLeft(copied) \in Int
    BY SlotLeftIs
  <2> QED
    BY <1>1, <2>1
<1>10. m \in Nat /\ FineLot(bodies, base..(next - 1), next) /\ (SlotInked(copied) => SlotInked(bodies))
  <2>1. SlotOK(copied, base)
    BY <1>1
  <2>2. IsFiniteSet(S) /\ S \subseteq Nat
    <3>1. S \subseteq 1..(base - 1)
      BY <1>1, <2>1 DEF SlotOK, FineLot, Lots, Sources
    <3>2. IsFiniteSet(1..(base - 1))
      BY <1>7, FS_Interval
    <3>3. S \subseteq Nat
      BY <1>7, <3>1
    <3>4. IsFiniteSet(S)
      BY <3>1, <3>2, FS_Subset, Zenon
    <3> QED
      BY <3>3, <3>4
  <2>3. name = [x \in S |-> base - 1 + Cardinality({y \in S : y <= x})]
    BY <1>2 DEF Names
  <2>4. /\ Cardinality(S) \in Nat /\ Naming(name, S, base + Cardinality(S)) /\ \A x \in S : base <= name[x]
    BY <1>7, <2>2, <2>3, NamesIs
  <2>5. m \in Nat /\ FreshNames(name, Sources(copied), base, next)
    BY <1>1, <1>4, <1>7, <2>4 DEF FreshNames
  <2>6. FineLot(FlattenSeq(ss), base..(next - 1), next) /\ (SlotInked(copied) => SlotInked(FlattenSeq(ss)))
    BY <1>3, <1>7, <1>8, <1>9, <2>1, <2>5, CopiesFine
  <2> QED
    BY <1>4, <2>5, <2>6
<1>11. next \in Nat /\ base <= next
  BY <1>4, <1>7, <1>10
<1>12. Planned(page, next, base, es)
  BY <1>5, <1>7, <1>8, <1>10, <1>11, RestoresPlanned
<1>13. CASE copied = << >> \/ hit \in S
  BY <1>6, <1>13 DEF Sane, Fills
<1>14. CASE ~(copied = << >> \/ hit \in S)
  <2>1. PICK w : w = WithIds(d, m)
    OBVIOUS
  <2>2. DocOK(w) /\ w.page = page /\ w.next = next /\ w.latched = d.latched
    BY <1>1, <1>4, <1>10, <2>1, NextMore
  <2>3. PICK new : new = CommitParts(w, es)
    OBVIOUS
  <2>4. Sane(new) /\ PartsDo(w, es, new)
    BY <1>12, <2>2, <2>3, CommitPartsOK
  <2>5. SlotInked(copied) => Restores(es)
    <3>1. \A i \in DOMAIN es : es[i].kind = "restore" /\ es[i].body = bodies[i] /\ bodies[i] \in Range(bodies)
      BY <1>5 DEF Restore, Range
    <3> QED
      BY <1>10, <3>1 DEF Restores, SlotInked
  <2>6. SlotInked(copied) => Fills(w, new)
    BY <1>12, <2>2, <2>4, <2>5, RestoresFill
  <2>7. DOMAIN d = DocFields
    BY DEF DocOK, DocShape
  <2>8. SlotInked(copied) => Fills(d, new)
    BY <2>1, <2>6, <2>7, FilledMore DEF Fills
  <2> QED
    BY <1>6, <1>14, <2>1, <2>3, <2>4, <2>8
<1> QED
  BY <1>13, <1>14

-----------------------------------------------------------------------------
\* The fields a drag of b leaves different: where the box is, and the ends
\* that went with it.
Loosened(P, b, x) == {f \in Fields : (f = "at" /\ x = b) \/ Slack(P, {}, x, f)}
Slid(a, P, b) ==
    /\ DOMAIN a.node = DOMAIN P.node /\ a.up = P.up
    /\ \A x \in DOMAIN P.node : Agree(a.node[x], P.node[x], Loosened(P, b, x))
SameLast(a, P) == \A x \in DOMAIN P.node : a.node[x].last = P.node[x].last

\* Agreement is symmetric.
LEMMA AgreeBack ==
  ASSUME NEW m, NEW n, NEW F, Agree(m, n, F)
  PROVE  Agree(n, m, F)
  BY DEF Agree

\* And transitive, the exceptions added up.
LEMMA AgreeThree ==
  ASSUME NEW k, NEW m, NEW n, NEW F, NEW H, Agree(k, m, F), Agree(m, n, H)
  PROVE  Agree(k, n, F \cup H)
  BY DEF Agree

\* A slack field is a connector's, and not one that says what it joins.
LEMMA SlackIs ==
  ASSUME NEW P, NEW x, NEW f, Slack(P, {}, x, f)
  PROVE  Of(P, x, "conn") /\ f \in {"p", "q"}
  BY DEF Slack

\* Outlines with the same kinds and the same joins have the same slack.
LEMMA SlackSame ==
  ASSUME NEW P, NEW a, DOMAIN a.node = DOMAIN P.node,
         \A x \in DOMAIN P.node : a.node[x].kind = P.node[x].kind,
         NEW x, Of(P, x, "conn") => a.node[x].from = P.node[x].from /\ a.node[x].to = P.node[x].to, NEW f
  PROVE  Slack(a, {}, x, f) <=> Slack(P, {}, x, f)
<1>1. \A y, kind : Of(a, y, kind) <=> Of(P, y, kind)
  BY DEF Of, Has, Ids
<1> QED
  BY <1>1 DEF Slack

\* What is slid has the kinds and the joins it had.
LEMMA SlidIs ==
  ASSUME NEW P, Sound(P), NEW a, NEW b, Slid(a, P, b)
  PROVE  /\ \A x \in DOMAIN P.node : a.node[x].kind = P.node[x].kind /\ DOMAIN a.node[x] = DOMAIN P.node[x]
         /\ \A x \in DOMAIN P.node : P.node[x].kind = "conn" =>
               a.node[x].from = P.node[x].from /\ a.node[x].to = P.node[x].to
         /\ \A x, f : Slack(a, {}, x, f) <=> Slack(P, {}, x, f)
         /\ \A next : Known(P, next) => Known(a, next)
<1>1. \A x \in DOMAIN P.node : a.node[x].kind = P.node[x].kind /\ DOMAIN a.node[x] = DOMAIN P.node[x]
  BY DEF Slid, Agree
<1>2. ASSUME NEW x \in DOMAIN P.node, P.node[x].kind = "conn"
      PROVE  a.node[x].from = P.node[x].from /\ a.node[x].to = P.node[x].to
  <2>1. P.node[x] \in Node
    BY SoundIs
  <2>2. DOMAIN P.node[x] = ConnFields
    BY <1>2, <2>1, NodeFields
  <2>3. "from" \in DOMAIN P.node[x] /\ "to" \in DOMAIN P.node[x]
    BY <2>2 DEF ConnFields
  <2>4. "from" \notin Loosened(P, b, x) /\ "to" \notin Loosened(P, b, x)
    BY DEF Loosened, Slack
  <2> QED
    BY <2>3, <2>4 DEF Slid, Agree
<1>3. ASSUME NEW x, NEW f PROVE Slack(a, {}, x, f) <=> Slack(P, {}, x, f)
  <2>1. Of(P, x, "conn") => a.node[x].from = P.node[x].from /\ a.node[x].to = P.node[x].to
    BY <1>2 DEF Of, Has, Ids
  <2>2. DOMAIN a.node = DOMAIN P.node
    BY DEF Slid
  <2> QED
    BY <1>1, <2>1, <2>2, SlackSame
<1>4. ASSUME NEW next, Known(P, next) PROVE Known(a, next)
  <2>1. DOMAIN a.node = DOMAIN P.node
    BY DEF Slid
  <2> QED
    BY <1>1, <1>2, <1>4, <2>1 DEF Known
<1> QED
  BY <1>1, <1>2, <1>3, <1>4

\* So a box keeps its inks.
LEMMA SlidInked ==
  ASSUME NEW P, Sound(P), NEW a, NEW b, Slid(a, P, b), Inked(P)
  PROVE  Inked(a)
<1>1. \A x \in DOMAIN P.node : a.node[x].kind = P.node[x].kind
  BY SlidIs
<1>2. DOMAIN a.node = DOMAIN P.node /\ a.up = P.up
  BY DEF Slid
<1> QED
  BY <1>1, <1>2, SameInked

\* The drag, on the page.
LEMMA DraggedIs ==
  ASSUME NEW page, Tree(page), NEW b \in Ids(page), page.node[b].kind = "box", NEW dx \in Int,
         NEW new, new = Dragged(page, b, dx)
  PROVE  Tree(new) /\ Ids(new) = Ids(page) /\ Slid(Outline(new), Outline(page), b)
         /\ SameLast(Outline(new), Outline(page))
<1>1. PICK P, rec, mid, m : /\ P = Outline(page) /\ rec = [page.node[b] EXCEPT !.at = @ + dx]
                            /\ mid = [page EXCEPT !.node[b] = rec] /\ m = Outline(mid)
  OBVIOUS
<1>2. page.node[b] \in Node /\ P.node = page.node /\ P.up = Up(page) /\ Sound(P)
  BY <1>1, TreeIs
<1>3. page.node[b] \in BoxNode
  BY <1>2, KindIs
<1>4. /\ DOMAIN page.node[b] = BoxFields /\ page.node[b].at \in Int
  BY <1>2, NodeFields
<1>5. rec \in BoxNode /\ rec.kind = "box" /\ rec.last = page.node[b].last /\ DOMAIN rec = BoxFields
      /\ \A f \in BoxFields : f # "at" => rec[f] = page.node[b][f]
  <2>1. page.node[b] \in [kind : {"box"}, at : Int, w : Int, last : Nat]
    BY <1>3 DEF BoxNode
  <2> QED
    BY <1>1, <1>4, <2>1 DEF BoxNode, BoxFields
<1>6. rec \in Node /\ rec.kind = page.node[b].kind
  BY <1>5 DEF Node
<1>7. /\ Tree(mid)
      /\ m = [node |-> [y \in Ids(page) |-> IF y = b THEN rec ELSE page.node[y]], up |-> Up(page)]
  BY <1>1, <1>6, Recorded1
<1>8. m.up = P.up /\ DOMAIN m.node = Ids(page) /\ \A y \in Ids(page) : m.node[y] = IF y = b THEN rec
          ELSE page.node[y]
  BY <1>2, <1>7
<1>9. new = Refresh(mid)
  BY <1>1 DEF Dragged
<1>10. Tree(new) /\ Outline(new) = Refresh(m)
  BY <1>1, <1>7, <1>9, RefreshTree
<1>11. PICK n : n = Outline(new)
  OBVIOUS
<1>12. Sound(m)
  BY <1>1, <1>7, TreeIs
<1>13. /\ Close(n, m, {})
       /\ \A x \in DOMAIN m.node : n.node[x].kind = m.node[x].kind /\ n.node[x].last = m.node[x].last
  BY <1>10, <1>11, <1>12, CloseFresh
<1>14. DOMAIN n.node = Ids(page) /\ n.up = P.up
  BY <1>8, <1>13 DEF Close
<1>15. \A x, f : Slack(m, {}, x, f) <=> Slack(P, {}, x, f)
  <2>1. DOMAIN m.node = DOMAIN P.node /\ \A x \in DOMAIN P.node : m.node[x].kind = P.node[x].kind
    BY <1>2, <1>6, <1>8 DEF Ids
  <2>2. \A x : Of(P, x, "conn") => m.node[x].from = P.node[x].from /\ m.node[x].to = P.node[x].to
    BY <1>2, <1>8 DEF Of, Has, Ids
  <2> QED
    BY <2>1, <2>2, SlackSame
<1>16. ASSUME NEW x \in Ids(page)
       PROVE  Agree(n.node[x], P.node[x], Loosened(P, b, x)) /\ n.node[x].last = P.node[x].last
  <2>1. Agree(n.node[x], m.node[x], {f \in Fields : Slack(m, {}, x, f)})
    BY <1>8, <1>13 DEF Close
  <2>2. {f \in Fields : Slack(m, {}, x, f)} \subseteq Loosened(P, b, x)
    BY <1>15 DEF Loosened
  <2>3. Agree(n.node[x], m.node[x], Loosened(P, b, x))
    BY <2>1, <2>2, AgreeMore
  <2>4. CASE x # b
    BY <1>2, <1>8, <1>13, <2>3, <2>4
  <2>5. CASE x = b
    <3>1. m.node[x] = rec /\ P.node[x] = page.node[b]
      BY <1>2, <1>8, <2>5
    <3>2. "at" \in Loosened(P, b, x)
      BY <2>5 DEF Loosened, Fields, BoxFields
    <3>3. Agree(rec, page.node[b], Loosened(P, b, x))
      BY <1>4, <1>5, <1>6, <3>2 DEF Agree
    <3>4. Loosened(P, b, x) \cup Loosened(P, b, x) = Loosened(P, b, x)
      OBVIOUS
    <3>5. Agree(n.node[x], rec, Loosened(P, b, x))
      BY <2>3, <3>1
    <3>6. Agree(n.node[x], page.node[b], Loosened(P, b, x) \cup Loosened(P, b, x))
      BY <3>3, <3>5, AgreeThree
    <3>7. n.node[x].last = page.node[b].last
      BY <1>5, <1>8, <1>13, <2>5, <3>1
    <3> QED
      BY <3>1, <3>4, <3>6, <3>7
  <2> QED
    BY <2>4, <2>5
<1>17. Ids(new) = Ids(page)
  BY <1>11, <1>14, OutlineIs
<1> QED
  BY <1>1, <1>2, <1>10, <1>11, <1>14, <1>16, <1>17 DEF Slid, SameLast, Ids

\* The box's place set on the page dragged, and on the one before the drag.
LEMMA SetSlid ==
  ASSUME NEW P, Sound(P), NEW b \in DOMAIN P.node, P.node[b].kind = "box",
         NEW a, Sound(a), Slid(a, P, b), NEW e, e.id = b, e.at \in Int,
         NEW m, m = AfterTransform(a, e), NEW n, n = AfterTransform(P, e)
  PROVE  Slid(m, P, b) /\ Close(n, m, {})
<1>1. /\ DOMAIN m.node = DOMAIN P.node /\ m.up = P.up /\ DOMAIN n.node = DOMAIN P.node /\ n.up = P.up
      /\ \A x \in DOMAIN P.node : m.node[x] = (IF x = b THEN [a.node[x] EXCEPT !.at = e.at] ELSE a.node[x])
      /\ \A x \in DOMAIN P.node : n.node[x] = (IF x = b THEN [P.node[x] EXCEPT !.at = e.at] ELSE P.node[x])
  BY DEF AfterTransform, Slid
<1>2. /\ DOMAIN a.node[b] = BoxFields /\ DOMAIN P.node[b] = BoxFields /\ a.node[b].kind = "box"
  <2>1. P.node[b] \in Node
    BY SoundIs
  <2> QED
    BY <2>1, NodeFields, SlidIs
<1>3. \A x \in DOMAIN P.node : Agree(a.node[x], P.node[x], Loosened(P, b, x))
  BY DEF Slid
<1>4. /\ DOMAIN m.node[b] = BoxFields /\ m.node[b].kind = "box" /\ m.node[b].at = e.at
      /\ \A f \in BoxFields : f # "at" => m.node[b][f] = a.node[b][f]
  BY <1>1, <1>2 DEF BoxFields
<1>5. /\ DOMAIN n.node[b] = BoxFields /\ n.node[b].kind = "box" /\ n.node[b].at = e.at
      /\ \A f \in BoxFields : f # "at" => n.node[b][f] = P.node[b][f]
  BY <1>1, <1>2 DEF BoxFields
<1>6. \A f \in BoxFields : f # "at" => a.node[b][f] = P.node[b][f]
  <2>1. ~Of(P, b, "conn")
    BY DEF Of
  <2>2. \A f \in BoxFields : f # "at" => f \notin Loosened(P, b, b)
    BY <2>1, SlackIs DEF Loosened
  <2> QED
    BY <1>2, <1>3, <2>2 DEF Agree
<1>7. ASSUME NEW x \in DOMAIN P.node PROVE Agree(m.node[x], P.node[x], Loosened(P, b, x))
  <2>1. CASE x # b
    BY <1>1, <1>3, <2>1
  <2>2. CASE x = b
    <3>1. "at" \in Loosened(P, b, x)
      BY <2>2 DEF Loosened, Fields, BoxFields
    <3> QED
      BY <1>2, <1>4, <1>6, <2>2, <3>1 DEF Agree
  <2> QED
    BY <2>1, <2>2
<1>8. Slid(m, P, b)
  BY <1>1, <1>7 DEF Slid
<1>9. \A x, f : Slack(m, {}, x, f) <=> Slack(P, {}, x, f)
  BY <1>8, SlidIs
<1>10. ASSUME NEW x \in DOMAIN P.node
       PROVE  Agree(n.node[x], m.node[x], {f \in Fields : Slack(m, {}, x, f)})
  <2>1. CASE x # b
    <3>1. Loosened(P, b, x) \subseteq {f \in Fields : Slack(m, {}, x, f)}
      BY <1>9, <2>1 DEF Loosened
    <3>2. Agree(m.node[x], P.node[x], {f \in Fields : Slack(m, {}, x, f)})
      BY <1>7, <3>1, AgreeMore
    <3> QED
      BY <1>1, <2>1, <3>2, AgreeBack
  <2>2. CASE x = b
    BY <1>4, <1>5, <1>6, <2>2 DEF Agree
  <2> QED
    BY <2>1, <2>2
<1> QED
  BY <1>1, <1>8, <1>10 DEF Close

\* The same under a new parent.
LEMMA RehungClose ==
  ASSUME NEW a, NEW c, Close(a, c, {}), NEW x, NEW parent, NEW m, Rehung(m, a, x, parent),
         NEW n, Rehung(n, c, x, parent), Sound(m), Sound(n)
  PROVE  Close(m, n, {})
<1>1. DOMAIN a.node = DOMAIN c.node /\ a.up = c.up
  BY DEF Close
<1>2. DOMAIN m.node = DOMAIN n.node /\ DOMAIN n.node = DOMAIN c.node
  BY <1>1 DEF Rehung
<1>3. \A y \in DOMAIN c.node : m.node[y] = a.node[y] /\ n.node[y] = c.node[y] /\ m.up[y] = n.up[y]
  BY <1>1 DEF Rehung
<1>4. m.up = n.up
  BY <1>1, <1>2, <1>3 DEF Sound
<1>5. \A y, kind : Of(n, y, kind) <=> Of(c, y, kind)
  BY <1>2, <1>3 DEF Of, Has, Ids
<1>6. \A y \in DOMAIN c.node : \A f : Slack(n, {}, y, f) <=> Slack(c, {}, y, f)
  BY <1>3, <1>5 DEF Slack
<1>7. \A y \in DOMAIN c.node : Agree(a.node[y], c.node[y], {f \in Fields : Slack(c, {}, y, f)})
  BY DEF Close
<1>8. ASSUME NEW y \in DOMAIN c.node PROVE Agree(m.node[y], n.node[y], {f \in Fields : Slack(n, {}, y, f)})
  <2>1. {f \in Fields : Slack(c, {}, y, f)} \subseteq {f \in Fields : Slack(n, {}, y, f)}
    BY <1>6
  <2>2. Agree(a.node[y], c.node[y], {f \in Fields : Slack(n, {}, y, f)})
    BY <1>7, <2>1, AgreeMore
  <2> QED
    BY <1>3, <2>2
<1> QED
  BY <1>2, <1>4, <1>8 DEF Close

-----------------------------------------------------------------------------
\* Where a box may go.
LEMMA MoveParentIs ==
  ASSUME NEW page, Tree(page), NEW b \in Ids(page), NEW q, q = MoveParent(page, b)
  PROVE  /\ q \in (Ids(page) \ Below(Up(page), {b})) \cup {Root}
         /\ q # Root => page.node[q].kind = "box"
<1>1. PICK S : S = {n \in Ids(page) \ Under(page, b) :
                      page.node[n].kind = "box"
                      /\ MostlyIn(ComposedBounds(page, b), Shift(Inside(page, n), Ctx(page, n)))}
  OBVIOUS
<1>2. PICK s, fits : s = PaintOrder(page) /\ fits = Kept(s, S)
  OBVIOUS
<1>3. s \in Seq(Ids(page))
  BY <1>2, PaintIs
<1>4. fits \in Seq(Ids(page)) /\ \A i \in DOMAIN fits : fits[i] \in S
  BY <1>2, <1>3, KeptOf
<1>5. q = IF fits = << >> THEN Root ELSE Last(fits)
  BY <1>1, <1>2 DEF MoveParent
<1>6. CASE fits = << >>
  BY <1>5, <1>6
<1>7. CASE fits # << >>
  <2>1. Len(fits) \in DOMAIN fits /\ q = fits[Len(fits)]
    BY <1>4, <1>5, <1>7 DEF Last
  <2>2. q \in S
    BY <1>4, <2>1
  <2>3. Under(page, b) = Below(Up(page), {b})
    BY UnderIsBelow
  <2> QED
    BY <1>1, <2>2, <2>3
<1> QED
  BY <1>6, <1>7

\* The drag of a box that stays where it hangs, undone.
LEMMA SetReverts ==
  ASSUME NEW P, Sound(P), NEW b \in DOMAIN P.node, P.node[b].kind = "box", NEW a, Slid(a, P, b),
         NEW fs, Len(fs) = 1, fs[1].kind = "set_smart_transform", fs[1].id = b, fs[1].at = P.node[b].at, NEW L
  PROVE  Reverts(fs, L, P, a)
<1>1. PICK G : G = {}
  OBVIOUS
<1>2. Of(P, b, "box")
  BY DEF Of, Has, Ids
<1>3. UndoesAll(P, L, fs)
  BY <1>2 DEF UndoesAll, Undoes
<1>4. Lacking(a, P, fs, 1) /\ Strangers(a, P, fs, 1)
  BY DEF Slid, Lacking, Strangers
<1>5. ASSUME NEW x \in DOMAIN P.node PROVE Loosened(P, b, x) \subseteq Open(P, L, fs, 1, x)
  <2>1. ASSUME NEW f \in Loosened(P, b, x) PROVE f \in Open(P, L, fs, 1, x)
    <3>1. f \in Fields
      BY DEF Loosened
    <3>2. CASE f = "at" /\ x = b
      <4>1. 1 \in 1..Len(fs) /\ fs[1].id = x /\ f \in Sets(fs[1])
        BY <3>2 DEF Sets
      <4> QED
        BY <3>1, <4>1 DEF Open
    <3>3. CASE Slack(P, {}, x, f)
      <4>1. Slack(P, L, x, f)
        BY <3>3 DEF Slack
      <4> QED
        BY <3>1, <4>1 DEF Open
    <3> QED
      BY <3>2, <3>3 DEF Loosened
  <2> QED
    BY <2>1
<1>6. Standing(a, P, L, G, fs, 1)
  <2> SUFFICES ASSUME NEW x \in DOMAIN P.node
               PROVE  a.node[x].kind = P.node[x].kind /\ a.up[x] = P.up[x]
                      /\ Agree(a.node[x], P.node[x], Open(P, L, fs, 1, x))
    BY DEF Standing
  <2>1. Agree(a.node[x], P.node[x], Loosened(P, b, x)) /\ a.up = P.up
    BY DEF Slid
  <2>2. Agree(a.node[x], P.node[x], Open(P, L, fs, 1, x))
    BY <1>5, <2>1, AgreeMore
  <2> QED
    BY <2>1, <2>2 DEF Agree
<1>7. Hosts(a, P, G, fs)
  BY <1>1, NoHosts
<1>8. Mending(a, P, L, G, fs, 1)
  BY <1>4, <1>6, <1>7 DEF Mending
<1>9. Ends(fs, DOMAIN a.node, a.up)
  BY DEF Ends
<1> QED
  BY <1>3, <1>8, <1>9 DEF Reverts

\* What an edit's own page looks like before it.
LEMMA SlidUnnamed ==
  ASSUME NEW P, NEW a, DOMAIN a.node = DOMAIN P.node
  PROVE  Unnamed(a, P)
  BY DEF Unnamed

\* The commit of a drag that leaves the box where it hangs.
LEMMA StayUndoable ==
  ASSUME NEW pre, NEW live, NEW next, PageOK(pre, next), NEW b \in Ids(pre), pre.node[b].kind = "box",
         Tree(live), Ids(live) = Ids(pre), Slid(Outline(live), Outline(pre), b),
         SameLast(Outline(live), Outline(pre)), NEW at \in Int,
         NEW e, e = SetSmartTransform(b, at, pre.node[b].at), NEW r, r = Apply(live, e)
  PROVE  /\ r.ok /\ Undoable(live, pre, r.page, GenerateUndo(live, e), <<e>>, next)
         /\ Tree(r.page) /\ (Inked(Outline(pre)) => Inked(Outline(r.page)))
<1>1. PICK P, q, a, o1, inv : /\ P = Outline(pre) /\ q = Outline(live) /\ a = AfterTransform(q, e)
                              /\ o1 = AfterTransform(P, e) /\ inv = GenerateUndo(live, e)
  OBVIOUS
<1>2. Tree(pre) /\ Sound(P) /\ P.node = pre.node /\ DOMAIN P.node = Ids(pre) /\ Known(P, next) /\ Sound(q)
      /\ q.node = live.node
  BY <1>1, TreeIs DEF PageOK
<1>3. e.id = b /\ e.at = at /\ e.was = pre.node[b].at /\ e.kind = "set_smart_transform"
  BY DEF SetSmartTransform
<1>4. Slid(q, P, b) /\ b \in DOMAIN P.node /\ P.node[b].kind = "box" /\ SameLast(q, P)
  BY <1>1, <1>2
<1>5. q.node[b].kind = "box" /\ b \in DOMAIN q.node
  BY <1>2, <1>4, SlidIs DEF Slid
<1>6. Fits(q, e) /\ After(q, e) = a
  BY <1>1, <1>3, <1>5 DEF Fits, FitsTransform, Of, Has, Ids, After
<1>7. Fits(P, e) /\ After(P, e) = o1
  BY <1>1, <1>3, <1>4 DEF Fits, FitsTransform, Of, Has, Ids, After
<1>8. r.ok /\ Tree(r.page) /\ Outline(r.page) = a
  BY <1>1, <1>6, ApplyFits DEF Made
<1>9. Slid(a, P, b) /\ Close(o1, a, {})
  BY <1>1, <1>2, <1>3, <1>4, SetSlid
<1>10. inv = <<SetSmartTransform(b, pre.node[b].at, at)>>
  BY <1>1, <1>3 DEF GenerateUndo, UndoTransform
<1>11. Len(inv) = 1 /\ inv[1].kind = "set_smart_transform" /\ inv[1].id = b /\ inv[1].at = P.node[b].at
  BY <1>2, <1>10 DEF SetSmartTransform
<1>12. \A L : Reverts(inv, L, P, a)
  BY <1>2, <1>4, <1>9, <1>11, SetReverts
<1>13. Known(a, next) /\ Unnamed(a, P)
  BY <1>2, <1>9, SlidIs, SlidUnnamed DEF Slid
<1>14. Repeats(<<e>>, pre, a)
  <2>1. PICK o, es : o = [i \in 0..1 |-> IF i = 0 THEN P ELSE o1] /\ es = <<e>>
    OBVIOUS
  <2>2. o[0] = P /\ o[1] = o1 /\ Len(es) = 1 /\ es[1] = e
    BY <2>1
  <2>3. Traced(o, Outline(pre), es)
    BY <1>1, <1>7, <2>2 DEF Traced
  <2>4. Close(o[Len(es)], a, {})
    BY <1>9, <2>2
  <2>5. Len(es) \in Nat /\ Len(es) # 0
    BY <2>2
  <2>6. Repeats(es, pre, a)
    BY <2>3, <2>4, <2>5, TracedClose
  <2> QED
    BY <2>1, <2>6
<1>15. \A x \in Ids(pre) : live.node[x].last = pre.node[x].last
  BY <1>2, <1>4 DEF SameLast
<1>16. \A i \in DOMAIN <<e>> : <<e>>[i].kind \in CreateKinds => <<e>>[i].id \notin Ids(pre)
  BY <1>3 DEF CreateKinds
<1>17. Inked(P) => Inked(a)
  BY <1>2, <1>9, SlidInked
<1> QED
  BY <1>1, <1>8, <1>12, <1>13, <1>14, <1>15, <1>16, <1>17 DEF Undoable

-----------------------------------------------------------------------------
\* A box taken to another parent: where it stood, it comes back.
LEMMA ReparentReverts ==
  ASSUME NEW P, Sound(P), NEW b \in DOMAIN P.node, P.node[b].kind = "box", NEW q, Sound(q), Slid(q, P, b),
         NEW m, Slid(m, P, b), NEW parent \in (DOMAIN P.node \ Below(P.up, {b})) \cup {Root},
         NEW a, Rehung(a, m, b, parent),
         NEW fs, Len(fs) = 2, PutsBack(q, fs[1], b), fs[2].kind = "set_smart_transform", fs[2].id = b,
         fs[2].at = P.node[b].at, NEW L
  PROVE  Reverts(fs, L, P, a)
<1>1. PICK G : G = (DOMAIN P.node \ Below(P.up, {b})) \cup {Root}
  OBVIOUS
<1>2. Of(P, b, "box") /\ DOMAIN P.up = DOMAIN P.node /\ Root \notin DOMAIN P.node
  BY SoundIs DEF Of, Has, Ids
<1>3. q.up = P.up /\ m.up = P.up /\ DOMAIN q.node = DOMAIN P.node /\ DOMAIN m.node = DOMAIN P.node
  BY DEF Slid
<1>4. /\ DOMAIN a.node = DOMAIN P.node
      /\ \A x \in DOMAIN P.node : a.node[x] = m.node[x] /\ a.up[x] = IF x = b THEN parent ELSE P.up[x]
  BY <1>3 DEF Rehung
<1>5. fs[1].kind = "restore" /\ fs[1].id = b
  BY DEF PutsBack
<1>6. ASSUME NEW x \in DOMAIN P.node, NEW k \in 1..2 PROVE Loosened(P, b, x) \subseteq Open(P, L, fs, k, x)
  <2>1. ASSUME NEW f \in Loosened(P, b, x) PROVE f \in Open(P, L, fs, k, x)
    <3>1. f \in Fields
      BY DEF Loosened
    <3>2. CASE f = "at" /\ x = b
      <4>1. 2 \in k..Len(fs) /\ fs[2].id = x /\ f \in Sets(fs[2])
        BY <3>2 DEF Sets
      <4> QED
        BY <3>1, <4>1 DEF Open
    <3>3. CASE Slack(P, {}, x, f)
      <4>1. Slack(P, L, x, f)
        BY <3>3 DEF Slack
      <4> QED
        BY <3>1, <4>1 DEF Open
    <3> QED
      BY <3>2, <3>3 DEF Loosened
  <2> QED
    BY <2>1
<1>7. Undoes(P, L, fs, 1)
  <2>1. PICK u : u = fs[1]
    OBVIOUS
  <2>2. /\ u.kind = "restore" /\ u.id = b /\ BodyOK(u.body) /\ u.body.top = b
        /\ u.index \in Nat \ {0} /\ u.parent = P.up[b] /\ DOMAIN u.body.node = Below(P.up, {b})
        /\ Plan(u.body).up = Part(q, b).up
        /\ \A y \in DOMAIN u.body.node : u.body.node[y] = q.node[y]
    BY <1>3, <2>1 DEF PutsBack
  <2>3. Part(q, b).up = Part(P, b).up
    BY <1>3 DEF Part
  <2>4. ASSUME NEW x \in DOMAIN u.body.node PROVE Agree(u.body.node[x], P.node[x], Open(P, L, fs, 2, x))
    <3>1. x \in DOMAIN P.node
      BY <2>2, SoundIs
    <3>2. Agree(q.node[x], P.node[x], Loosened(P, b, x))
      BY <3>1 DEF Slid
    <3>3. Loosened(P, b, x) \subseteq Open(P, L, fs, 2, x)
      BY <1>6, <3>1
    <3>4. Agree(q.node[x], P.node[x], Open(P, L, fs, 2, x))
      BY <3>2, <3>3, AgreeMore
    <3> QED
      BY <2>2, <3>4
  <2>5. 1 + 1 = 2
    OBVIOUS
  <2> QED
    BY <2>1, <2>2, <2>3, <2>4, <2>5 DEF Undoes
<1>8. Undoes(P, L, fs, 2)
  BY <1>2 DEF Undoes
<1>9. UndoesAll(P, L, fs)
  BY <1>7, <1>8 DEF UndoesAll
<1>10. Lacking(a, P, fs, 1) /\ Strangers(a, P, fs, 1)
  BY <1>4 DEF Lacking, Strangers
<1>11. Covered(P, fs, 1, b)
  <2>1. b \in Below(P.up, {b})
    BY <1>2, BelowIs
  <2>2. 1 \in 1..Len(fs)
    OBVIOUS
  <2> QED
    BY <1>5, <2>1, <2>2 DEF Covered
<1>12. Standing(a, P, L, G, fs, 1)
  <2> SUFFICES ASSUME NEW x \in DOMAIN P.node
               PROVE  /\ a.node[x].kind = P.node[x].kind
                      /\ a.up[x] = P.up[x] \/ a.up[x] \in G
                      /\ \/ Covered(P, fs, 1, x)
                         \/ a.up[x] = P.up[x] /\ Agree(a.node[x], P.node[x], Open(P, L, fs, 1, x))
    BY DEF Standing
  <2>1. Agree(m.node[x], P.node[x], Loosened(P, b, x))
    BY DEF Slid
  <2>2. Loosened(P, b, x) \subseteq Open(P, L, fs, 1, x)
    BY <1>6
  <2>3. Agree(a.node[x], P.node[x], Open(P, L, fs, 1, x))
    BY <1>4, <2>1, <2>2, AgreeMore
  <2>4. a.node[x].kind = P.node[x].kind
    BY <2>3 DEF Agree
  <2> QED
    BY <1>1, <1>4, <1>11, <2>3, <2>4
<1>13. Hosts(a, P, G, fs)
  <2>1. ASSUME NEW z \in G \cap DOMAIN a.node PROVE a.up[z] \in G \cup {Root}
    <3>1. z \in DOMAIN P.node /\ z \notin Below(P.up, {b})
      BY <1>1, <1>2, <1>4, <2>1
    <3>2. z # b /\ P.up[z] \notin Below(P.up, {b})
      BY <1>2, <3>1, BelowIs
    <3>3. P.up[z] \in DOMAIN P.node \cup {Root}
      BY <3>1, SoundIs
    <3> QED
      BY <1>1, <1>4, <3>1, <3>2, <3>3
  <2>2. G \cap Below(P.up, {b}) = {}
    BY <1>1, <1>2, SoundIs
  <2>3. \A j \in 1..Len(fs) : fs[j].kind = "restore" => fs[j].id = b
    BY <1>5
  <2> QED
    BY <2>1, <2>2, <2>3 DEF Hosts
<1>14. Mending(a, P, L, G, fs, 1)
  BY <1>10, <1>12, <1>13 DEF Mending
<1>15. Ends(fs, DOMAIN a.node, a.up)
  BY DEF Ends
<1> QED
  BY <1>9, <1>14, <1>15 DEF Reverts

\* Two edits, run one after the other.
LEMMA TwoRun ==
  ASSUME NEW page, Tree(page), NEW e, NEW f, Fits(Outline(page), e), NEW m, m = After(Outline(page), e),
         Fits(m, f), NEW r, r = RunParts(page, <<e, f>>)
  PROVE  r.ok /\ Tree(r.page) /\ Outline(r.page) = After(m, f)
<1>1. PICK es : es = <<e, f>>
  OBVIOUS
<1>2. Len(es) = 2 /\ es[1] = e /\ es[2] = f
  BY <1>1
<1>3. PICK g : PartsGo(g, page, es)
  BY <1>2, RunPartsUnfold
<1>4. g[0] = Done(page) /\ g[0].ok /\ g[0].page = page
  BY <1>3 DEF PartsGo, Done
<1>5. /\ 1 \in 1..Len(es) /\ 2 \in 1..Len(es) /\ 1 - 1 = 0 /\ 2 - 1 = 1
  BY <1>2
<1>6. g[1] = Apply(page, e)
  BY <1>2, <1>3, <1>4, <1>5 DEF PartsGo
<1>7. g[1].ok /\ Tree(g[1].page) /\ Outline(g[1].page) = m
  BY <1>6, ApplyFits DEF Made
<1>8. g[2] = Apply(g[1].page, f)
  BY <1>2, <1>3, <1>5, <1>7 DEF PartsGo
<1>9. g[2].ok /\ Tree(g[2].page) /\ Outline(g[2].page) = After(m, f)
  BY <1>7, <1>8, ApplyFits DEF Made
<1>10. r = g[2]
  BY <1>1, <1>2, <1>3 DEF PartsGo
<1> QED
  BY <1>9, <1>10

\* The inverses of two edits that have one each.
LEMMA InversesTwo ==
  ASSUME NEW page, NEW es, Len(es) = 2, DOMAIN es = 1..2, NEW g,
         GenerateUndo(page, es[1]) = <<g[1]>>, GenerateUndo(page, es[2]) = <<g[2]>>,
         NEW fs, fs = Inverses(page, es)
  PROVE  Len(fs) = 2 /\ fs[2] = g[1] /\ fs[1] = g[2]
<1>1. PICK k : k = 2
  OBVIOUS
<1>2. k \in Nat /\ Len(es) = k /\ DOMAIN es = 1..k
  BY <1>1
<1>3. \A i \in 1..k : GenerateUndo(page, es[i]) = <<g[i]>>
  <2>1. \A i \in 1..k : i = 1 \/ i = 2
    BY <1>1
  <2> QED
    BY <2>1
<1>4. Singly(page, es, k, g)
  BY <1>2, <1>3 DEF Singly
<1>6. Backwards(fs, k, g)
  BY <1>4, InversesIs
<1>5. 1 \in 1..k /\ 2 \in 1..k /\ (k + 1) - 1 = 2 /\ (k + 1) - 2 = 1
  BY <1>1
<1> QED
  BY <1>1, <1>5, <1>6 DEF Backwards

\* The commit of a drag that takes the box to another parent.
LEMMA GoUndoable ==
  ASSUME NEW pre, NEW live, NEW next, PageOK(pre, next), NEW b \in Ids(pre), pre.node[b].kind = "box",
         Tree(live), Ids(live) = Ids(pre), Slid(Outline(live), Outline(pre), b),
         SameLast(Outline(live), Outline(pre)), NEW at \in Int,
         NEW parent \in (Ids(live) \ Below(Up(live), {b})) \cup {Root},
         parent # Root => live.node[parent].kind = "box",
         NEW es, es = <<SetSmartTransform(b, at, pre.node[b].at), Reparent(b, parent)>>,
         NEW r, r = RunParts(live, es)
  PROVE  /\ r.ok /\ Undoable(live, pre, r.page, Inverses(live, es), es, next)
         /\ Tree(r.page) /\ (Inked(Outline(pre)) => Inked(Outline(r.page)))
<1>1. PICK P, q, e, f, m, n, a, c, fs :
         /\ P = Outline(pre) /\ q = Outline(live) /\ e = SetSmartTransform(b, at, pre.node[b].at)
         /\ f = Reparent(b, parent) /\ m = AfterTransform(q, e) /\ n = AfterTransform(P, e)
         /\ a = AfterReparent(m, f) /\ c = AfterReparent(n, f) /\ fs = Inverses(live, es)
  OBVIOUS
<1>2. Tree(pre) /\ Sound(P) /\ P.node = pre.node /\ DOMAIN P.node = Ids(pre) /\ Known(P, next) /\ Sound(q)
      /\ q.node = live.node /\ q.up = Up(live)
  BY <1>1, TreeIs DEF PageOK
<1>3. /\ e.id = b /\ e.at = at /\ e.was = pre.node[b].at /\ e.kind = "set_smart_transform"
      /\ f.id = b /\ f.parent = parent /\ f.kind = "reparent" /\ es = <<e, f>>
  BY <1>1 DEF SetSmartTransform, Reparent
<1>4. Slid(q, P, b) /\ b \in DOMAIN P.node /\ P.node[b].kind = "box" /\ SameLast(q, P)
  BY <1>1, <1>2
<1>5. q.node[b].kind = "box" /\ b \in DOMAIN q.node /\ DOMAIN q.node = DOMAIN P.node /\ q.up = P.up
  BY <1>2, <1>4, SlidIs DEF Slid
<1>6. Fits(q, e) /\ After(q, e) = m
  BY <1>1, <1>3, <1>5 DEF Fits, FitsTransform, Of, Has, Ids, After
<1>7. Fits(P, e) /\ After(P, e) = n
  BY <1>1, <1>3, <1>4 DEF Fits, FitsTransform, Of, Has, Ids, After
<1>8. Slid(m, P, b) /\ Close(n, m, {})
  BY <1>1, <1>2, <1>3, <1>4, SetSlid
<1>9. Made(Apply(live, e), m) /\ Made(Apply(pre, e), n)
  BY <1>1, <1>2, <1>6, <1>7, ApplyFits
<1>10. Sound(m) /\ Sound(n)
  BY <1>9, TreeIs DEF Made
<1>11. DOMAIN m.node = DOMAIN P.node /\ m.up = P.up /\ DOMAIN n.node = DOMAIN P.node /\ n.up = P.up
  BY <1>8 DEF Slid, Close
<1>12. parent \in (DOMAIN P.node \ Below(P.up, {b})) \cup {Root} /\ (parent # Root => P.node[parent].kind = "box")
  <2>1. parent # Root => live.node[parent].kind = P.node[parent].kind
    BY <1>2, <1>4, <1>5, SlidIs
  <2> QED
    BY <1>2, <1>5, <2>1
<1>13. Fits(m, f) /\ After(m, f) = a
  <2>1. parent # Root => m.node[parent].kind = "box"
    BY <1>2, <1>8, <1>12, SlidIs
  <2> QED
    BY <1>1, <1>3, <1>4, <1>11, <1>12, <2>1 DEF Fits, FitsReparent, Has, Ids, After, Holds
<1>14. Fits(n, f) /\ After(n, f) = c
  <2>1. parent # Root => n.node[parent].kind = "box"
    <3>1. parent # Root => m.node[parent].kind = "box"
      BY <1>2, <1>8, <1>12, SlidIs
    <3>2. \A x \in DOMAIN m.node : n.node[x].kind = m.node[x].kind
      BY <1>8 DEF Close, Agree
    <3> QED
      BY <1>11, <1>12, <3>1, <3>2
  <2> QED
    BY <1>1, <1>3, <1>4, <1>11, <1>12, <2>1 DEF Fits, FitsReparent, Has, Ids, After, Holds
<1>15. r.ok /\ Tree(r.page) /\ Outline(r.page) = a
  BY <1>1, <1>3, <1>6, <1>13, TwoRun
<1>16. PICK s : s = RunParts(pre, es)
  OBVIOUS
<1>17. Tree(s.page) /\ Outline(s.page) = c
  BY <1>1, <1>2, <1>3, <1>7, <1>14, <1>16, TwoRun
<1>18. Sound(a) /\ Sound(c)
  BY <1>15, <1>17, TreeIs
<1>19. Rehung(a, m, b, parent) /\ Rehung(c, n, b, parent)
  BY <1>1, <1>3, <1>4, <1>10, <1>11, ReparentIs
<1>20. Close(c, a, {})
  BY <1>8, <1>18, <1>19, RehungClose
<1>21. /\ Len(es) = 2 /\ es[1] = e /\ es[2] = f /\ DOMAIN es = 1..2
  BY <1>3
<1>22. Repeats(es, pre, a)
  <2>1. PICK o : o = [i \in 0..2 |-> IF i = 0 THEN P ELSE IF i = 1 THEN n ELSE c]
    OBVIOUS
  <2>2. o[0] = P /\ o[1] = n /\ o[2] = c
    BY <2>1
  <2>3. Traced(o, P, es)
    <3>1. \A i \in 1..Len(es) : i = 1 \/ i = 2
      BY <1>21
    <3>2. 1 - 1 = 0 /\ 2 - 1 = 1
      OBVIOUS
    <3> QED
      BY <1>7, <1>14, <1>21, <2>2, <3>1, <3>2 DEF Traced
  <2>4. Close(o[Len(es)], a, {})
    BY <1>20, <1>21, <2>2
  <2>5. Len(es) \in Nat /\ Len(es) # 0
    BY <1>21
  <2> QED
    BY <1>1, <2>3, <2>4, <2>5, TracedClose
<1>23. PICK g : g = <<SetSmartTransform(b, pre.node[b].at, at), RestoreEdit(live, b)>>
  OBVIOUS
<1>24. GenerateUndo(live, e) = <<g[1]>> /\ GenerateUndo(live, f) = <<g[2]>>
  <2>1. Has(live, b)
    BY <1>2, <1>5 DEF Has, Ids
  <2> QED
    BY <1>3, <1>23, <2>1 DEF GenerateUndo, UndoTransform, UndoMove
<1>25. Len(fs) = 2 /\ fs[2] = g[1] /\ fs[1] = g[2]
  BY <1>1, <1>21, <1>24, InversesTwo
<1>26. PutsBack(q, fs[1], b)
  BY <1>1, <1>2, <1>23, <1>25, RestoreIs
<1>27. fs[2].kind = "set_smart_transform" /\ fs[2].id = b /\ fs[2].at = P.node[b].at
  BY <1>2, <1>23, <1>25 DEF SetSmartTransform
<1>28. \A L : Reverts(fs, L, P, a)
  BY <1>2, <1>4, <1>8, <1>12, <1>19, <1>25, <1>26, <1>27, ReparentReverts
<1>29. DOMAIN a.node = DOMAIN P.node
  BY <1>11, <1>19 DEF Rehung
<1>30. Known(a, next) /\ Unnamed(a, P)
  <2>1. Known(m, next)
    BY <1>2, <1>8, SlidIs
  <2>2. Known(a, next)
    BY <1>11, <1>19, <1>29, <2>1 DEF Known, Rehung
  <2> QED
    BY <1>29, <2>2, SlidUnnamed
<1>31. \A x \in Ids(pre) : live.node[x].last = pre.node[x].last
  BY <1>2, <1>4 DEF SameLast
<1>32. \A i \in DOMAIN es : es[i].kind \in CreateKinds => es[i].id \notin Ids(pre)
  BY <1>3, <1>21 DEF CreateKinds
<1>33. Inked(P) => Inked(a)
  <2>1. m.node[b].kind # "ink" /\ b \in DOMAIN m.node
    BY <1>2, <1>4, <1>8, <1>11, SlidIs
  <2>2. Inked(P) => Inked(m)
    BY <1>2, <1>8, SlidInked
  <2> QED
    BY <1>19, <2>1, <2>2, RehungInked
<1> QED
  BY <1>1, <1>15, <1>22, <1>28, <1>30, <1>31, <1>32, <1>33 DEF Undoable

-----------------------------------------------------------------------------
\* The drop of a dragged box, in its parent or into another.
LEMMA MoveSane ==
  ASSUME NEW d, DocOK(d), ~d.latched, NEW b \in Ids(d.page), d.page.node[b].kind = "box", NEW dx \in Int
  PROVE  Sane(MoveBox(d, b, dx)) /\ Fills(d, MoveBox(d, b, dx))
<1>1. PICK pre, lp, live, was, parent :
         /\ pre = d.page /\ lp = Dragged(pre, b, dx) /\ live = [d EXCEPT !.page = lp]
         /\ was = pre.node[b].at /\ parent = MoveParent(lp, b)
  OBVIOUS
<1>2. DocShape(d) /\ ~d.stuck /\ PageOK(pre, d.next) /\ Rings(d, pre) /\ Tree(pre)
  BY <1>1 DEF DocOK, PageOK
<1>3. /\ live.page = lp /\ live.undo = d.undo /\ live.redo = d.redo /\ live.next = d.next
      /\ live.op = d.op /\ live.stuck = d.stuck /\ live.latched = d.latched /\ DOMAIN live = DocFields
  BY <1>1, <1>2 DEF DocShape, DocFields
<1>4. DocShape(live) /\ ~live.stuck /\ Rings(live, pre) /\ ~live.latched
  BY <1>2, <1>3 DEF DocShape, Rings
<1>5. was \in Int
  BY <1>1, <1>2, TreeIs, NodeFields
<1>6. Tree(lp) /\ Ids(lp) = Ids(pre) /\ Slid(Outline(lp), Outline(pre), b) /\ SameLast(Outline(lp), Outline(pre))
  BY <1>1, <1>2, DraggedIs
<1>7. MoveBox(d, b, dx) = IF parent = ParentOf(lp, b)
          THEN CommitFrom(live, SetSmartTransform(b, was + dx, was), pre)
                          ELSE CommitPartsFrom(live, <<SetSmartTransform(b, Remapped(lp, b, parent), was),
                              Reparent(b, parent)>>, pre)
  <2>1. [d EXCEPT !.page = Dragged(@, b, dx)] = live
    BY <1>1, <1>2 DEF DocShape, DocFields
  <2> QED
    BY <1>1, <1>3, <2>1 DEF MoveBox
<1>8. b \in Ids(lp) /\ lp.node[b].kind = "box" /\ lp.node[b] \in Node /\ lp.node[b].at \in Int
  <2>1. Outline(lp).node = lp.node /\ Outline(pre).node = pre.node /\ Sound(Outline(pre))
            /\ DOMAIN pre.node = Ids(pre)
    BY <1>2, <1>6, TreeIs
  <2>2. lp.node[b].kind = pre.node[b].kind
    BY <1>1, <1>6, <2>1, SlidIs
  <2> QED
    BY <1>1, <1>6, <2>2, TreeIs, NodeFields
<1>9. ASSUME NEW run, Tree(run), Inked(Outline(pre)) => Inked(Outline(run)), NEW new, Followed(live, pre, run, new)
       PROVE  Fills(d, new)
  <2>1. SUFFICES ASSUME Filled(d) PROVE Filled(new)
    BY DEF Fills
  <2>2. live.undo \in Seq(Range(live.undo)) /\ Lined(live.undo) /\ Inked(Outline(pre))
    BY <1>1, <1>2, <1>3, <2>1 DEF Filled, Rings, Past
  <2>3. Sound(Outline(run)) /\ Inked(Outline(run))
    BY <1>9, <2>2, TreeIs
  <2> QED
    BY <1>9, <2>2, <2>3, FollowedFills
<1>10. CASE parent = ParentOf(lp, b)
  <2>1. PICK e, r, new : e = SetSmartTransform(b, was + dx, was) /\ r = Apply(lp, e)
                             /\ new = CommitFrom(live, e, pre)
    OBVIOUS
  <2>2. was + dx \in Int
    BY <1>5
  <2>3. /\ r.ok /\ Undoable(lp, pre, r.page, GenerateUndo(lp, e), <<e>>, d.next)
        /\ Tree(r.page) /\ (Inked(Outline(pre)) => Inked(Outline(r.page)))
    BY <1>1, <1>2, <1>6, <2>1, <2>2, StayUndoable
  <2>4. new = Recorded(live, r.page, GenerateUndo(lp, e), <<e>>, pre)
    BY <1>3, <2>1, <2>3 DEF CommitFrom, CommitApplied
  <2>5. DocOK(new) /\ ~new.latched /\ Followed(live, pre, r.page, new)
    BY <1>2, <1>3, <1>4, <2>3, <2>4, RecordedOK
  <2>6. Fills(d, new)
    BY <1>9, <2>3, <2>5
  <2> QED
    BY <1>7, <1>10, <2>1, <2>5, <2>6 DEF Sane
<1>11. CASE parent # ParentOf(lp, b)
  <2>1. parent \in (Ids(lp) \ Below(Up(lp), {b})) \cup {Root} /\ (parent # Root => lp.node[parent].kind = "box")
    BY <1>1, <1>6, <1>8, MoveParentIs
  <2>2. PICK at : at = Remapped(lp, b, parent)
    OBVIOUS
  <2>3. at \in Int
    <3>1. Ctx(lp, b) \in Int
      BY <1>6, <1>8, CtxIs
    <3>2. ContentCtx(lp, parent) \in Int
      <4>1. CASE parent = Root
        BY <4>1 DEF ContentCtx
      <4>2. CASE parent # Root
        BY <1>6, <2>1, <4>2, CtxIs
      <4> QED
        BY <4>1, <4>2
    <3> QED
      BY <1>8, <2>2, <3>1, <3>2 DEF Remapped
  <2>4. PICK es, r, new : es = <<SetSmartTransform(b, at, was), Reparent(b, parent)>> /\ r = RunParts(lp, es)
                          /\ new = CommitPartsFrom(live, es, pre)
    OBVIOUS
  <2>5. /\ r.ok /\ Undoable(lp, pre, r.page, Inverses(lp, es), es, d.next)
        /\ Tree(r.page) /\ (Inked(Outline(pre)) => Inked(Outline(r.page)))
    BY <1>1, <1>2, <1>6, <2>1, <2>3, <2>4, GoUndoable
  <2>6. es # << >>
    BY <2>4
  <2>7. new = Recorded(live, r.page, Inverses(lp, es), es, pre)
    BY <1>3, <2>4, <2>5, <2>6 DEF CommitPartsFrom, CommitRun
  <2>8. DocOK(new) /\ ~new.latched /\ Followed(live, pre, r.page, new)
    BY <1>2, <1>3, <1>4, <2>5, <2>7, RecordedOK
  <2>9. Fills(d, new)
    BY <1>9, <2>5, <2>8
  <2> QED
    BY <1>7, <1>11, <2>2, <2>4, <2>8, <2>9 DEF Sane
<1> QED
  BY <1>10, <1>11

-----------------------------------------------------------------------------
(***************************************************************************)
(* What a new box takes in.                                                *)
(***************************************************************************)
\* Root nodes have nothing below them in common.
LEMMA BelowApart ==
  ASSUME NEW a, Sound(a), NEW x \in DOMAIN a.node, NEW y \in DOMAIN a.node, a.up[x] = Root, a.up[y] = Root, x # y
  PROVE  Below(a.up, {x}) \cap Below(a.up, {y}) = {}
<1>1. PICK T, S : S = Below(a.up, {y}) /\ T = {z \in DOMAIN a.up : z \notin S}
  OBVIOUS
<1>2. DOMAIN a.up = DOMAIN a.node /\ Root \notin DOMAIN a.node /\ S \subseteq DOMAIN a.up
  BY <1>1, SoundIs
<1>3. x \notin S
  BY <1>1, BelowTop
<1>4. {x} \cap DOMAIN a.up \subseteq T
  BY <1>1, <1>2, <1>3
<1>5. ASSUME NEW z \in DOMAIN a.up, a.up[z] \in T PROVE z \in T
  <2>1. z # y
    BY <1>1, <1>2, <1>5
  <2>2. z \in S => a.up[z] \in S
    BY <1>1, <2>1, BelowIs
  <2> QED
    BY <1>1, <1>5, <2>2
<1>6. Below(a.up, {x}) \subseteq T
  BY <1>4, <1>5, BelowLeast
<1> QED
  BY <1>1, <1>6

\* Lists without repetition that share nothing.
LEMMA ConcatOnly ==
  ASSUME NEW T, NEW s \in Seq(T), NEW t \in Seq(T), OneOnly(s), OneOnly(t), Range(s) \cap Range(t) = {}
  PROVE  OneOnly(s \o t)
<1>1. PICK r : r = s \o t
  OBVIOUS
<1>2. /\ DOMAIN r = 1..(Len(s) + Len(t)) /\ Len(s) \in Nat /\ Len(t) \in Nat
      /\ \A i \in 1..(Len(s) + Len(t)) : r[i] = IF i <= Len(s) THEN s[i] ELSE t[i - Len(s)]
  BY <1>1, ConcatIs
<1>3. DOMAIN s = 1..Len(s) /\ DOMAIN t = 1..Len(t)
  OBVIOUS
<1>5. \A k \in DOMAIN s, l \in DOMAIN t : s[k] # t[l]
  BY DEF Range
<1>4. ASSUME NEW i \in DOMAIN r, NEW j \in DOMAIN r, r[i] = r[j] PROVE i = j
  <2>1. CASE i <= Len(s) /\ j <= Len(s)
    BY <1>2, <1>3, <1>4, <2>1 DEF OneOnly
  <2>2. CASE ~(i <= Len(s)) /\ ~(j <= Len(s))
    <3>1. i - Len(s) \in DOMAIN t /\ j - Len(s) \in DOMAIN t /\ t[i - Len(s)] = t[j - Len(s)]
      BY <1>2, <1>3, <1>4, <2>2
    <3>2. i - Len(s) = j - Len(s)
      BY <3>1 DEF OneOnly
    <3> QED
      BY <1>2, <3>2
  <2>3. CASE i <= Len(s) /\ ~(j <= Len(s))
    <3>1. i \in DOMAIN s /\ j - Len(s) \in DOMAIN t /\ s[i] = t[j - Len(s)]
      BY <1>2, <1>3, <1>4, <2>3
    <3> QED
      BY <1>5, <3>1
  <2>4. CASE ~(i <= Len(s)) /\ j <= Len(s)
    <3>1. j \in DOMAIN s /\ i - Len(s) \in DOMAIN t /\ s[j] = t[i - Len(s)]
      BY <1>2, <1>3, <1>4, <2>4
    <3> QED
      BY <1>5, <3>1
  <2> QED
    BY <2>1, <2>2, <2>3, <2>4
<1> QED
  BY <1>1, <1>4 DEF OneOnly

\* The ids that the bodies have are enough.
LEMMA LotsInto ==
  ASSUME NEW bs, NEW M, NEW N, Lots(bs, M), \A f \in Range(bs) : DOMAIN f.node \subseteq N
  PROVE  Lots(bs, N)
  BY DEF Lots, Range

-----------------------------------------------------------------------------
\* A body a new box can hold, its boxes inked when those of the page are.
Guest(f, P, ids, g, base, next) ==
    BodyOK(f) /\ Kin(f, P, ids, g, base, next) /\ (Inked(P) => Inked(Plan(f)))

\* Old ids are below the new one.
LEMMA KnownHere ==
  ASSUME NEW P, Sound(P), NEW g, NEW base, NEW next, NewId(P, g, base, next), NEW y \in DOMAIN P.node
  PROVE  y # g /\ 0 < y /\ y < base /\ y < next /\ Named(P.node[y], next)
<1>1. y \in 1..(base - 1) /\ base \in Nat /\ next \in Nat /\ g \in Nat /\ base <= g /\ g < next
  BY DEF NewId, Known
<1>2. P.node[y].kind = "conn" => P.node[y].from < base /\ P.node[y].to < base
  BY DEF NewId, Known
<1>3. P.node[y] \in Node
  BY SoundIs
<1>4. P.node[y].kind = "conn" => P.node[y].from \in Nat /\ P.node[y].to \in Nat
  BY <1>3, KindIs, ConnIs
<1> QED
  BY <1>1, <1>2, <1>4 DEF Named

\* A captured ink can be taken into the new box.
LEMMA ChipGuest ==
  ASSUME NEW P, Sound(P), NEW g, NEW base, NEW next, NewId(P, g, base, next), NEW ids, NEW f, NEW y, Chip(f, y),
         y \in Below(P.up, ids), P.node[y].kind = "ink"
  PROVE  Guest(f, P, ids, g, base, next)
<1>1. y \in DOMAIN P.node
  BY SoundIs
<1>2. BodyOK(f) /\ f.top = y /\ DOMAIN f.node = {y} /\ f.node[y] \in InkNode
  BY DEF Chip
<1>3. f.node[y].kind = "ink"
  BY <1>2, InkIs
<1>4. Plan(f).up[y] = Root
  BY <1>2, BodyIs
<1>5. y # g /\ 0 < y /\ y < next
  BY <1>1, KnownHere
<1>6. Named(f.node[y], next)
  BY <1>3 DEF Named
<1>7. Inked(Plan(f))
  BY ChipInked
<1> QED
  BY <1>1, <1>2, <1>3, <1>4, <1>5, <1>6, <1>7 DEF Guest, Kin

\* A box of P, with all in it, and set elsewhere.
Nests(f, P, b) ==
    /\ BodyOK(f) /\ DOMAIN f.node = Below(P.up, {b}) /\ Plan(f).up = Part(P, b).up
    /\ \A y \in DOMAIN f.node : /\ f.node[y].kind = P.node[y].kind
                                /\ P.node[y].kind = "conn" => f.node[y] = P.node[y]

\* A captured box with what is in it, in the new space.
LEMMA NestedIs ==
  ASSUME NEW page, Tree(page), NEW b \in Ids(page), page.node[b].kind = "box", NEW origin \in Int,
         NEW f, f = Nested(page, b, origin)
  PROVE  Nests(f, Outline(page), b)
<1>1. PICK body, rec, S : body = Body(page, b) /\ rec = [page.node[b] EXCEPT !.at = @ - origin]
                              /\ S = Below(Up(page), {b})
  OBVIOUS
<1>2. BodyOK(body) /\ body.top = b /\ Plan(body) = Part(Outline(page), b) /\ DOMAIN body.node = S
      /\ body.node = Restrict(page.node, S)
  BY <1>1, BodyTree
<1>3. \A y \in S : body.node[y] = page.node[y]
  BY <1>2 DEF Restrict
<1>4. body = [top |-> body.top, node |-> body.node, kids |-> body.kids] /\ (\A y \in S : body.node[y] \in Node)
          /\ b \in S
  BY <1>2, BodyNode
<1>5. page.node[b] \in BoxNode
  BY TreeIs, KindIs
<1>6. rec \in BoxNode /\ rec.kind = "box" /\ rec \in Node
  <2>1. page.node[b] \in [kind : {"box"}, at : Int, w : Int, last : Nat]
    BY <1>5 DEF BoxNode
  <2> QED
    BY <1>1, <2>1 DEF BoxNode, Node
<1>7. PICK node : node = [body.node EXCEPT ![b] = rec]
  OBVIOUS
<1>8. body.node = [y \in S |-> body.node[y]]
  BY <1>2 DEF Restrict
<1>9. /\ node \in [S -> Node] /\ DOMAIN node = S /\ node[b] = rec /\ \A y \in S : y # b => node[y] = page.node[y]
  BY <1>3, <1>4, <1>6, <1>7, <1>8
<1>10. \A y \in DOMAIN body.node : node[y].kind = body.node[y].kind
  BY <1>2, <1>3, <1>6, <1>9
<1>11. f = [top |-> body.top, node |-> node, kids |-> body.kids]
  <2>1. f = [body EXCEPT !.node[b].at = @ - origin]
    BY <1>1 DEF Nested
  <2>2. body.node[b] = page.node[b]
    BY <1>3, <1>4
  <2>3. [body EXCEPT !.node[b].at = @ - origin] = [body EXCEPT !.node = [body.node EXCEPT ![b] = [body.node[b] EXCEPT !.at = @ - origin]]]
    BY <1>4
  <2>4. [body EXCEPT !.node = node] = [top |-> body.top, node |-> node, kids |-> body.kids]
    BY <1>4
  <2> QED
    BY <1>1, <1>7, <2>1, <2>2, <2>3, <2>4
<1>12. BodyOK(f) /\ DOMAIN f.node = DOMAIN body.node /\ Plan(f).up = Plan(body).up
  BY <1>2, <1>9, <1>10, <1>11, BodyNodes
<1>13. f.node = node
  BY <1>11
<1>14. Outline(page).node = page.node /\ Outline(page).up = Up(page)
  BY TreeIs
<1>15. DOMAIN f.node = S /\ Plan(f).up = Part(Outline(page), b).up
  BY <1>2, <1>12
<1>16. \A y \in S : /\ f.node[y].kind = page.node[y].kind
                    /\ page.node[y].kind = "conn" => f.node[y] = page.node[y]
  BY <1>3, <1>4, <1>6, <1>9, <1>13
<1> QED
  BY <1>1, <1>12, <1>14, <1>15, <1>16 DEF Nests

\* It can be taken in too.
LEMMA NestedGuest ==
  ASSUME NEW page, Tree(page), NEW P, P = Outline(page), NEW g, NEW base, NEW next, NewId(P, g, base, next),
         NEW b \in Ids(page), page.node[b].kind = "box", NEW origin \in Int, NEW ids, b \in ids,
         NEW f, f = Nested(page, b, origin)
  PROVE  Guest(f, P, ids, g, base, next) /\ DOMAIN f.node = Below(Up(page), {b})
<1>1. Sound(P) /\ P.node = page.node /\ P.up = Up(page) /\ DOMAIN P.node = Ids(page) /\ DOMAIN P.up = Ids(page)
  BY TreeIs
<1>2. /\ BodyOK(f) /\ DOMAIN f.node = Below(P.up, {b}) /\ Plan(f).up = Part(P, b).up
      /\ \A y \in DOMAIN f.node : /\ f.node[y].kind = P.node[y].kind
                                  /\ P.node[y].kind = "conn" => f.node[y] = P.node[y]
  <2>1. Nests(f, P, b)
    BY NestedIs
  <2> QED
    BY <2>1 DEF Nests
<1>3. Below(P.up, {b}) \subseteq Below(P.up, ids)
  BY BelowSome
<1>4. ASSUME NEW y \in DOMAIN f.node
      PROVE  /\ y \in DOMAIN P.node /\ y # g /\ 0 < y /\ y < next /\ Named(f.node[y], next)
             /\ y \in Below(P.up, ids) /\ f.node[y].kind = P.node[y].kind
             /\ Plan(f).up[y] = Root \/ Plan(f).up[y] = P.up[y]
  <2>1. y \in DOMAIN P.node
    BY <1>1, <1>2, SoundIs
  <2>2. y # g /\ 0 < y /\ y < next /\ Named(P.node[y], next)
    BY <1>1, <2>1, KnownHere
  <2>3. Named(f.node[y], next)
    BY <1>2, <2>2 DEF Named
  <2>4. Plan(f).up[y] = Root \/ Plan(f).up[y] = P.up[y]
    BY <1>2 DEF Part
  <2> QED
    BY <1>2, <1>3, <2>1, <2>2, <2>3, <2>4
<1>5. Kin(f, P, ids, g, base, next)
  BY <1>1, <1>2, <1>4 DEF Kin
<1>6. Inked(P) => Inked(Plan(f))
  <2>1. PICK p : p = Plan(f)
    OBVIOUS
  <2>2. p.node = f.node /\ p.up = Part(P, b).up
    BY <1>2, <2>1, BodyIs
  <2>3. b \in DOMAIN P.node /\ DOMAIN p.node = Below(P.up, {b})
        /\ \A y \in Below(P.up, {b}) : p.node[y].kind = P.node[y].kind
    BY <1>1, <1>2, <2>2
  <2>4. Inked(P) => Inked(p)
    BY <1>1, <2>2, <2>3, PartInked
  <2> QED
    BY <2>1, <2>4
<1> QED
  BY <1>1, <1>2, <1>5, <1>6 DEF Guest

-----------------------------------------------------------------------------
Guests(bs, M, P, ids, g, base, next) == Lots(bs, M) /\ \A f \in Range(bs) : Guest(f, P, ids, g, base, next)
\* Root nodes of a kind, each once.
RootSeq(page, s, kind) ==
    /\ s \in Seq(Ids(page)) /\ OneOnly(s)
    /\ \A x \in Range(s) : Up(page)[x] = Root /\ page.node[x].kind = kind

\* And so can the inks an empty box dissolves into.
LEMMA CaptureIs ==
  ASSUME NEW page, Tree(page), NEW P, P = Outline(page), NEW g, NEW base, NEW next, NewId(P, g, base, next),
         NEW b \in Ids(page), page.node[b].kind = "box", NEW origin \in Int, NEW ids, b \in ids,
         NEW bs, bs = CaptureSmartGroup(page, b, origin)
  PROVE  Guests(bs, Below(P.up, {b}), P, ids, g, base, next)
<1>1. Sound(P) /\ P.node = page.node /\ P.up = Up(page) /\ DOMAIN P.node = Ids(page) /\ DOMAIN P.up = Ids(page)
  BY TreeIs
<1>2. b \in Below(P.up, {b}) /\ Below(P.up, {b}) \subseteq Below(P.up, ids)
  BY <1>1, BelowIs, BelowSome
<1>3. CASE IsEmptySmartGroup(page, b)
  <2>1. bs = FlattenToInks(page, b, origin)
    BY <1>3 DEF CaptureSmartGroup
  <2>2. /\ Lots(bs, Ids(page))
        /\ \A f \in Range(bs) : \E x \in Ids(page) : Chip(f, x) /\ page.node[x].kind = "ink" /\ Up(page)[x] = b
    BY <2>1, FlattenInks
  <2>3. ASSUME NEW f \in Range(bs) PROVE DOMAIN f.node \subseteq Below(P.up, {b}) /\ Guest(f, P, ids, g, base, next)
    <3>1. PICK x \in Ids(page) : Chip(f, x) /\ page.node[x].kind = "ink" /\ Up(page)[x] = b
      BY <2>2
    <3>2. x \in Below(P.up, {b})
      BY <1>1, <1>2, <3>1, BelowIs
    <3>3. x \in Below(P.up, ids) /\ P.node[x].kind = "ink"
      BY <1>1, <1>2, <3>1, <3>2
    <3>4. Guest(f, P, ids, g, base, next)
      BY <1>1, <3>1, <3>3, ChipGuest
    <3> QED
      BY <3>1, <3>2, <3>4 DEF Chip
  <2>4. Lots(bs, Below(P.up, {b}))
    BY <2>2, <2>3, LotsInto
  <2> QED
    BY <2>3, <2>4 DEF Guests
<1>4. CASE ~IsEmptySmartGroup(page, b)
  <2>1. PICK f : f = Nested(page, b, origin)
    OBVIOUS
  <2>2. bs = <<f>>
    BY <1>4, <2>1 DEF CaptureSmartGroup
  <2>3. Guest(f, P, ids, g, base, next) /\ DOMAIN f.node = Below(P.up, {b})
    BY <1>1, <2>1, NestedGuest
  <2>4. Lots(bs, Below(P.up, {b})) /\ Range(bs) = {f}
    BY <2>2, <2>3, LotsOne
  <2> QED
    BY <2>3, <2>4 DEF Guests
<1> QED
  BY <1>3, <1>4

\* All captured inks.
LEMMA InksGuests ==
  ASSUME NEW page, Tree(page), NEW P, P = Outline(page), NEW g, NEW base, NEW next, NewId(P, g, base, next),
         NEW inks, RootSeq(page, inks, "ink"), NEW origin \in Int, NEW ids, Range(inks) \subseteq ids,
         NEW bs, bs = [i \in DOMAIN inks |-> Content(page, inks[i], origin)]
  PROVE  Guests(bs, Range(inks), P, ids, g, base, next)
<1>1. Sound(P) /\ P.node = page.node /\ P.up = Up(page) /\ DOMAIN P.node = Ids(page) /\ DOMAIN P.up = Ids(page)
  BY TreeIs
<1>2. PICK T : T = Range(inks)
  OBVIOUS
<1>3. inks \in Seq(Ids(page)) /\ OneOnly(inks) /\ \A x \in T : Up(page)[x] = Root /\ page.node[x].kind = "ink"
  BY <1>2 DEF RootSeq
<1>4. inks \in Seq(T) /\ T \subseteq Ids(page)
  <2>1. T \subseteq Ids(page)
    BY <1>2, <1>3 DEF Range
  <2> QED
    BY <1>2, <1>3, <2>1, SeqInto
<1>5. Lots(bs, T) /\ \A f \in Range(bs) : \E x \in Range(inks) : Chip(f, x)
  BY <1>3, <1>4, ContentList
<1>6. ASSUME NEW f \in Range(bs) PROVE Guest(f, P, ids, g, base, next)
  <2>1. PICK x \in Range(inks) : Chip(f, x)
    BY <1>5
  <2>2. x \in ids \cap DOMAIN P.up /\ P.node[x].kind = "ink"
    BY <1>1, <1>2, <1>3, <1>4, <2>1
  <2>3. x \in Below(P.up, ids)
    BY <2>2, BelowIs
  <2> QED
    BY <1>1, <2>1, <2>2, <2>3, ChipGuest
<1> QED
  BY <1>2, <1>5, <1>6 DEF Guests

\* All captured boxes.
LEMMA BoxesGuests ==
  ASSUME NEW page, Tree(page), NEW P, P = Outline(page), NEW g, NEW base, NEW next, NewId(P, g, base, next),
         NEW boxes, RootSeq(page, boxes, "box"), NEW origin \in Int, NEW ids, Range(boxes) \subseteq ids,
         NEW ss, ss = [i \in DOMAIN boxes |-> CaptureSmartGroup(page, boxes[i], origin)]
  PROVE  Guests(FlattenSeq(ss), Below(P.up, Range(boxes)), P, ids, g, base, next)
<1>1. Sound(P) /\ P.node = page.node /\ P.up = Up(page) /\ DOMAIN P.node = Ids(page) /\ DOMAIN P.up = Ids(page)
  BY TreeIs
<1>2. PICK n, M, N : n = Len(boxes) /\ M = [i \in 1..n |-> Below(P.up, {boxes[i]})] /\ N = Below(P.up, Range(boxes))
  OBVIOUS
<1>3. boxes \in Seq(Ids(page)) /\ OneOnly(boxes) /\ \A x \in Range(boxes) : Up(page)[x] = Root
          /\ page.node[x].kind = "box"
  BY DEF RootSeq
<1>4. n \in Nat /\ DOMAIN boxes = 1..n /\ \A i \in 1..n : /\ boxes[i] \in Ids(page) /\ boxes[i] \in Range(boxes)
                                                         /\ P.up[boxes[i]] = Root
                                                                /\ page.node[boxes[i]].kind = "box"
  <2>1. n \in Nat /\ DOMAIN boxes = 1..n /\ \A i \in 1..n : boxes[i] \in Ids(page)
    BY <1>2, <1>3
  <2>2. \A i \in 1..n : boxes[i] \in Range(boxes)
    BY <2>1 DEF Range
  <2> QED
    BY <1>1, <1>3, <2>1, <2>2
<1>5. DOMAIN ss = 1..n /\ \A i \in 1..n : ss[i] = CaptureSmartGroup(page, boxes[i], origin)
  BY <1>4
<1>6. ASSUME NEW i \in 1..n PROVE Guests(ss[i], M[i], P, ids, g, base, next)
  <2>1. boxes[i] \in Ids(page) /\ page.node[boxes[i]].kind = "box" /\ boxes[i] \in ids
    BY <1>4
  <2>2. PICK bs, b : bs = ss[i] /\ b = boxes[i]
    OBVIOUS
  <2>3. b \in Ids(page) /\ page.node[b].kind = "box" /\ b \in ids /\ bs = CaptureSmartGroup(page, b, origin)
    BY <1>5, <2>1, <2>2
  <2>4. Guests(bs, Below(P.up, {b}), P, ids, g, base, next)
    BY <2>3, CaptureIs
  <2> QED
    BY <1>2, <2>2, <2>4
<1>7. \A i \in 1..n : Lots(ss[i], M[i])
  BY <1>6 DEF Guests
<1>8. ASSUME NEW i \in 1..n, NEW j \in 1..n, i # j PROVE M[i] \cap M[j] = {}
  <2>1. boxes[i] # boxes[j]
    BY <1>3, <1>4, <1>8 DEF OneOnly
  <2> QED
    BY <1>1, <1>2, <1>4, <2>1, BelowApart
<1>9. ASSUME NEW i \in 1..n PROVE M[i] \subseteq N
  <2>1. {boxes[i]} \subseteq Range(boxes)
    BY <1>4
  <2> QED
    BY <1>2, <2>1, BelowSome
<1>10. Len(ss) = n /\ ss \in Seq(Range(ss))
  <2>1. ss = [i \in 1..n |-> ss[i]]
    BY <1>4
  <2> QED
    BY <1>4, <1>5, <2>1, ListIs
<1>11. Lots(FlattenSeq(ss), N) /\ \A f \in Range(FlattenSeq(ss)) : \E i \in 1..n : f \in Range(ss[i])
  BY <1>4, <1>5, <1>7, <1>8, <1>9, <1>10, LotsFlatten
<1> QED
  BY <1>2, <1>6, <1>11 DEF Guests

\* Everything captured can go into the new box.
LEMMA CapturedGuests ==
  ASSUME NEW page, Tree(page), NEW P, P = Outline(page), NEW g, NEW base, NEW next, NewId(P, g, base, next),
         NEW inks, RootSeq(page, inks, "ink"), NEW boxes, RootSeq(page, boxes, "box"), NEW origin \in Int,
         NEW ids, Range(inks) \subseteq ids, Range(boxes) \subseteq ids,
         NEW bs, bs = Captured(page, inks, boxes, origin)
  PROVE  Guests(bs, Range(inks) \cup Below(P.up, Range(boxes)), P, ids, g, base, next)
<1>1. Sound(P) /\ P.node = page.node /\ P.up = Up(page) /\ DOMAIN P.node = Ids(page) /\ DOMAIN P.up = Ids(page)
  BY TreeIs
<1>2. PICK s, ss, t : /\ s = [i \in DOMAIN inks |-> Content(page, inks[i], origin)]
                      /\ ss = [i \in DOMAIN boxes |-> CaptureSmartGroup(page, boxes[i], origin)]
                      /\ t = FlattenSeq(ss)
  OBVIOUS
<1>3. bs = s \o t
  BY <1>2 DEF Captured
<1>4. Guests(s, Range(inks), P, ids, g, base, next)
  BY <1>2, InksGuests
<1>5. Guests(t, Below(P.up, Range(boxes)), P, ids, g, base, next)
  BY <1>2, BoxesGuests
<1>6. Range(inks) \cap Below(P.up, Range(boxes)) = {}
  <2>1. ASSUME NEW x \in Range(inks) PROVE x \notin Below(P.up, Range(boxes))
    <3>1. x \in DOMAIN P.node /\ P.up[x] = Root /\ P.node[x].kind = "ink"
      BY <1>1 DEF RootSeq, Range
    <3>2. x \notin Range(boxes)
      BY <1>1, <3>1 DEF RootSeq
    <3> QED
      BY <1>1, <3>1, <3>2, BelowTop
  <2> QED
    BY <2>1
<1>7. Lots(bs, Range(inks) \cup Below(P.up, Range(boxes))) /\ Range(bs) = Range(s) \cup Range(t)
  <2>1. PICK M, N : M = Range(inks) /\ N = Below(P.up, Range(boxes))
    OBVIOUS
  <2>2. Lots(s, M) /\ Lots(t, N) /\ M \cap N = {}
    BY <1>4, <1>5, <1>6, <2>1 DEF Guests
  <2>3. Lots(s \o t, M \cup N) /\ Range(s \o t) = Range(s) \cup Range(t)
    BY <2>2, LotsConcat
  <2> QED
    BY <1>3, <2>1, <2>3
<1> QED
  BY <1>4, <1>5, <1>7 DEF Guests

Tops(page, inks, boxes, ids) ==
    AtTop(Outline(page), ids) /\ Range(ids) = Range(inks) \cup Range(boxes)
\* What is captured are different root nodes.
LEMMA CapturedTop ==
  ASSUME NEW page, Tree(page), NEW inks, RootSeq(page, inks, "ink"), NEW boxes, RootSeq(page, boxes, "box"),
         NEW ids, ids = inks \o boxes
  PROVE  Tops(page, inks, boxes, ids)
<1>1. inks \in Seq(Ids(page)) /\ boxes \in Seq(Ids(page)) /\ OneOnly(inks) /\ OneOnly(boxes)
      /\ (\A x \in Range(inks) : Up(page)[x] = Root /\ page.node[x].kind = "ink")
      /\ (\A x \in Range(boxes) : Up(page)[x] = Root /\ page.node[x].kind = "box")
  BY DEF RootSeq
<1>2. ids \in Seq(Ids(page)) /\ Range(ids) = Range(inks) \cup Range(boxes)
  BY <1>1, ConcatIs
<1>3. Range(inks) \cap Range(boxes) = {}
  BY <1>1
<1>4. OneOnly(ids)
  BY <1>1, <1>3, ConcatOnly
<1>5. \A i \in DOMAIN ids : Up(page)[ids[i]] = Root
  <2>1. \A i \in DOMAIN ids : ids[i] \in Range(ids)
    BY DEF Range
  <2> QED
    BY <1>1, <1>2, <2>1
<1> QED
  BY <1>2, <1>4, <1>5, TreeIs DEF AtTop, Tops

\* A new box around its guests, undone by taking it away and putting back
\* what it captured.  With a stroke for its edge it is inked.
LEMMA GuestsReverted ==
  ASSUME NEW page, Tree(page), NEW P, P = Outline(page), NEW g, NEW base, NEW next, NewId(P, g, base, next),
         NEW rec \in BoxNode, NEW captured, AtTop(P, captured), NEW bodies, NEW M,
         Guests(bodies, M, P, Range(captured), g, base, next),
         NEW edge \in Range(bodies), edge.node[edge.top].kind = "ink",
         NEW e, e = CreateSmartGroup(g, rec, bodies, captured)
  PROVE  Reverted(page, e, next) /\ (Inked(P) => Inked(After(P, e)))
<1>1. \A i \in DOMAIN bodies : bodies[i] \in Range(bodies)
  BY DEF Range
<1>2. \A i \in DOMAIN bodies : BodyOK(bodies[i]) /\ Kin(bodies[i], P, Range(captured), g, base, next)
  BY <1>1 DEF Guests, Guest
<1>3. Bundle(bodies)
  BY <1>2 DEF Guests, Lots, Bundle
<1>4. Reverted(page, e, next)
  BY <1>2, <1>3, GroupReverted
<1>5. Inked(P) => Inked(After(P, e))
  <2>1. SUFFICES ASSUME Inked(P) PROVE Inked(After(P, e))
    OBVIOUS
  <2>2. \A f \in Range(bodies) : Inked(Plan(f))
    BY <2>1 DEF Guests, Guest
  <2>3. Fits(P, e) /\ Sound(P)
    BY <1>4, TreeIs DEF Reverted
  <2>4. PICK a : a = After(P, e)
    OBVIOUS
  <2>5. Inked(a)
    BY <2>1, <2>2, <2>3, <2>4, GroupInked
  <2> QED
    BY <2>4, <2>5
<1> QED
  BY <1>4, <1>5

-----------------------------------------------------------------------------
\* Bodies to take in, put together.
LEMMA GuestsConcat ==
  ASSUME NEW P, NEW ids, NEW g, NEW base, NEW next, NEW s, NEW M, Guests(s, M, P, ids, g, base, next),
         NEW t, NEW N, Guests(t, N, P, ids, g, base, next), M \cap N = {}
  PROVE  Guests(s \o t, M \cup N, P, ids, g, base, next)
<1>1. Lots(s \o t, M \cup N) /\ Range(s \o t) = Range(s) \cup Range(t)
  BY LotsConcat DEF Guests
<1> QED
  BY <1>1 DEF Guests

\* One body to take in.
LEMMA GuestsOne ==
  ASSUME NEW P, NEW ids, NEW g, NEW base, NEW next, NEW f, Guest(f, P, ids, g, base, next)
  PROVE  Guests(<<f>>, DOMAIN f.node, P, ids, g, base, next)
<1>1. Lots(<<f>>, DOMAIN f.node) /\ Range(<<f>>) = {f}
  BY LotsOne
<1> QED
  BY <1>1 DEF Guests

\* Some of a list of root nodes.
LEMMA KeptRoots ==
  ASSUME NEW page, Tree(page), NEW ids \in Seq(Ids(page)), OneOnly(ids), \A x \in Range(ids) : Up(page)[x] = Root,
         NEW S, NEW kind, \A x \in S \cap Range(ids) : page.node[x].kind = kind, NEW s, s = Kept(ids, S)
  PROVE  RootSeq(page, s, kind) /\ Range(s) = Range(ids) \cap S
<1>1. s \in Seq(Ids(page)) /\ Range(s) = Range(ids) \cap S /\ OneOnly(s)
  BY KeptIs
<1> QED
  BY <1>1 DEF RootSeq

\* The root nodes of a kind.
LEMMA KidsRoots ==
  ASSUME NEW page, Tree(page), NEW kind, NEW s, s = Kids(page, Root, kind)
  PROVE  RootSeq(page, s, kind)
<1>1. /\ s \in Seq(Ids(page)) /\ OneOnly(s)
      /\ \A x : x \in Range(s) <=> x \in Ids(page) /\ Up(page)[x] = Root /\ page.node[x].kind = kind
  BY KidsOf
<1> QED
  BY <1>1 DEF RootSeq

\* Some of them.
LEMMA SomeRoots ==
  ASSUME NEW page, Tree(page), NEW kind, NEW s, RootSeq(page, s, kind), NEW S, NEW t, t = Kept(s, S)
  PROVE  RootSeq(page, t, kind) /\ Range(t) = Range(s) \cap S
<1>1. s \in Seq(Ids(page)) /\ OneOnly(s) /\ (\A x \in Range(s) : Up(page)[x] = Root /\ page.node[x].kind = kind)
  BY DEF RootSeq
<1>2. t \in Seq(Ids(page)) /\ Range(t) = Range(s) \cap S /\ OneOnly(t)
  BY <1>1, KeptIs
<1> QED
  BY <1>1, <1>2 DEF RootSeq

\* A new box is a node.
LEMMA BoxNodeIs ==
  ASSUME NEW at \in Int, NEW w \in Int
  PROVE  Box(at, w) \in BoxNode
  BY DEF Box, BoxNode

\* A new stroke is a node.
LEMMA InkNodeIs ==
  ASSUME NEW lo \in Int, NEW hi \in Int, lo <= hi, NEW loop \in BOOLEAN,
             NEW role \in {"none", "boundary", "content"}
  PROVE  Ink(lo, hi, loop, role) \in InkNode /\ Ink(lo, hi, loop, role).kind = "ink"
  BY DEF Ink, InkNode

\* The boundary a selected ink becomes.
LEMMA BoundaryIs ==
  ASSUME NEW page, Tree(page), NEW x \in Ids(page), page.node[x].kind = "ink", NEW at \in Int,
         NEW f, f = Rim(page, x, at)
  PROVE  Chip(f, x)
<1>1. PICK n, m, r : n = page.node[x] /\ m = Localized(n, at) /\ r = [m EXCEPT !.role = "boundary"]
  OBVIOUS
<1>2. n \in InkNode /\ x \in Nat \ {0}
  BY <1>1, TreeIs, KindIs DEF Root
<1>3. m \in InkNode
  BY <1>1, <1>2, LocalizedIs
<1>4. m \in [kind : {"ink"}, lo : Int, hi : Int, loop : BOOLEAN, role : {"none", "boundary", "content"}, last : Nat]
      /\ m.lo <= m.hi
  BY <1>3 DEF InkNode
<1>5. r \in InkNode
  BY <1>1, <1>4 DEF InkNode
<1>6. Content(page, x, at) = [top |-> x, node |-> [y \in {x} |-> m], kids |-> [y \in {x} |-> << >>]]
  BY <1>1 DEF Content, Leaf
<1>7. f = [top |-> x, node |-> [[y \in {x} |-> m] EXCEPT ![x] = r], kids |-> [y \in {x} |-> << >>]]
  <2>1. PICK c : c = Content(page, x, at)
    OBVIOUS
  <2>2. f = [c EXCEPT !.node[x].role = "boundary"]
    BY <2>1 DEF Rim
  <2>3. c.node = [y \in {x} |-> m] /\ c = [top |-> x, node |-> c.node, kids |-> [y \in {x} |-> << >>]]
    BY <1>6, <2>1
  <2>4. c.node[x] = m
    BY <2>3
  <2>5. f = [c EXCEPT !.node = [c.node EXCEPT ![x] = [c.node[x] EXCEPT !.role = "boundary"]]]
    BY <2>2, <2>3
  <2>6. f = [c EXCEPT !.node = [c.node EXCEPT ![x] = r]]
    BY <1>1, <2>4, <2>5
  <2> QED
    BY <2>3, <2>6
<1>8. [[y \in {x} |-> m] EXCEPT ![x] = r] = [y \in {x} |-> r]
  OBVIOUS
<1>9. f = Leaf(x, r)
  BY <1>7, <1>8 DEF Leaf
<1>10. r \in Node
  BY <1>5 DEF Node
<1>11. BodyOK(f) /\ f.top = x /\ DOMAIN f.node = {x} /\ f.node[f.top] = r
  BY <1>2, <1>9, <1>10, LeafIs
<1> QED
  BY <1>5, <1>11 DEF Chip

-----------------------------------------------------------------------------
\* createSmartGroupFromSelection.
LEMMA GroupSane ==
  ASSUME NEW d, DocOK(d), ~d.latched, NEW ids \in Seq(Ids(d.page)), OneOnly(ids),
         \A i \in DOMAIN ids : Up(d.page)[ids[i]] = Root
  PROVE  Sane(GroupSelection(d, ids)) /\ Fills(d, GroupSelection(d, ids))
<1>1. PICK page, P, inks, boxes, fit, rim : /\ page = d.page /\ P = Outline(page)
         /\ inks = Picked(page, ids, "ink") /\ boxes = Picked(page, ids, "box")
         /\ fit = Rims(page, inks) /\ rim = Last(fit)
  OBVIOUS
<1>2. PICK at, boundary, others, bodies, rec, e, c :
         /\ at = page.node[rim].lo
         /\ boundary = Rim(page, rim, at)
         /\ others = Kept(inks, Range(inks) \ {rim})
         /\ bodies = <<boundary>> \o Captured(page, others, boxes, at)
         /\ rec = Box(at, page.node[rim].hi - at) /\ c = WithIds(d, 1)
         /\ e = CreateSmartGroup(d.next, rec, bodies, inks \o boxes)
  OBVIOUS
<1>3. d.next \in Nat \ {0} /\ Tree(page) /\ Known(P, d.next)
  BY <1>1, DocIs
<1>4. GroupSelection(d, ids) = IF inks = << >> \/ (Len(inks) < 2 /\ boxes = << >>) \/ fit = << >> THEN d
          ELSE Commit(c, e)
  BY <1>1, <1>2 DEF GroupSelection
<1>5. \A x \in Range(ids) : Up(page)[x] = Root
  BY <1>1 DEF Range
<1>6. RootSeq(page, inks, "ink") /\ RootSeq(page, boxes, "box")
  <2>1. PICK S, T : S = {x \in Ids(page) : page.node[x].kind = "ink"}
                        /\ T = {x \in Ids(page) : page.node[x].kind = "box"}
    OBVIOUS
  <2>2. inks = Kept(ids, S) /\ boxes = Kept(ids, T)
    BY <1>1, <2>1 DEF Picked
  <2>3. (\A x \in S \cap Range(ids) : page.node[x].kind = "ink")
            /\ (\A x \in T \cap Range(ids) : page.node[x].kind = "box")
    BY <2>1
  <2>4. ids \in Seq(Ids(page))
    BY <1>1
  <2>5. RootSeq(page, inks, "ink")
    BY <1>3, <1>5, <2>2, <2>3, <2>4, KeptRoots
  <2>6. RootSeq(page, boxes, "box")
    BY <1>3, <1>5, <2>2, <2>3, <2>4, KeptRoots
  <2> QED
    BY <2>5, <2>6
<1>7. DocOK(c) /\ c.page = page /\ c.next = d.next + 1 /\ c.latched = d.latched
  <2>1. 1 \in Nat
    OBVIOUS
  <2> QED
    BY <1>1, <1>2, <2>1, NextMore
<1>8. CASE ~(inks = << >> \/ (Len(inks) < 2 /\ boxes = << >>) \/ fit = << >>)
  <2>1. rim \in Range(inks) /\ rim \in Ids(page) /\ page.node[rim].kind = "ink" /\ Up(page)[rim] = Root
    <3>1. PICK S : S = {x \in Range(inks) : Surrounds(page, x, inks)}
      OBVIOUS
    <3>2. inks \in Seq(Ids(page))
      BY <1>6 DEF RootSeq
    <3>3. fit \in Seq(Ids(page)) /\ \A i \in DOMAIN fit : fit[i] \in S /\ fit[i] \in Ids(page)
              /\ fit[i] \in Range(inks)
      <4>1. fit = Kept(inks, S)
        BY <1>1, <3>1 DEF Rims
      <4> QED
        BY <3>2, <4>1, KeptOf
    <3>4. Len(fit) \in DOMAIN fit /\ rim = fit[Len(fit)]
      <4>1. fit # << >> /\ rim = Last(fit)
        BY <1>1, <1>8
      <4> QED
        BY <3>3, <4>1 DEF Last
    <3> QED
      BY <1>6, <3>3, <3>4 DEF RootSeq
  <2>2. page.node[rim] \in InkNode
    BY <1>3, <2>1, TreeIs, KindIs
  <2>3. at \in Int /\ page.node[rim].hi \in Int
    BY <1>2, <2>2, InkIs
  <2>4. rec \in BoxNode
    BY <1>2, <2>3, BoxNodeIs
  <2>5. PICK g, next, captured, K : g = d.next /\ next = d.next + 1 /\ captured = inks \o boxes
                                        /\ K = Range(captured)
    OBVIOUS
  <2>6. NewId(P, g, g, next)
    BY <1>3, <2>5 DEF NewId
  <2>7. AtTop(P, captured) /\ K = Range(inks) \cup Range(boxes)
    <3>1. captured = inks \o boxes /\ K = Range(captured) /\ P = Outline(page)
      BY <1>1, <2>5
    <3>2. AtTop(Outline(page), inks \o boxes) /\ Range(inks \o boxes) = Range(inks) \cup Range(boxes)
      <4>1. PICK all : all = inks \o boxes
        OBVIOUS
      <4>2. Tree(page) /\ RootSeq(page, inks, "ink") /\ RootSeq(page, boxes, "box")
        BY <1>3, <1>6
      <4>3. Tops(page, inks, boxes, all)
        BY <4>1, <4>2, CapturedTop
      <4> QED
        BY <4>1, <4>3 DEF Tops
    <3> QED
      BY <3>1, <3>2
  <2>8. Sound(P) /\ P.node = page.node /\ P.up = Up(page) /\ DOMAIN P.node = Ids(page) /\ DOMAIN P.up = Ids(page)
    BY <1>1, <1>3, TreeIs
  <2>9. Chip(boundary, rim)
    BY <1>2, <1>3, <2>1, <2>3, BoundaryIs
  <2>10. Guest(boundary, P, K, g, g, next) /\ DOMAIN boundary.node = {rim}
    <3>1. rim \in K \cap DOMAIN P.up /\ P.node[rim].kind = "ink"
      BY <2>1, <2>7, <2>8
    <3>2. rim \in Below(P.up, K)
      BY <3>1, BelowIs
    <3> QED
      BY <2>6, <2>8, <2>9, <3>1, <3>2, ChipGuest DEF Chip
  <2>11. Guests(<<boundary>>, {rim}, P, K, g, g, next)
    BY <2>10, GuestsOne
  <2>12. RootSeq(page, others, "ink") /\ Range(others) = Range(inks) \ {rim}
    <3>1. PICK S : S = Range(inks) \ {rim}
      OBVIOUS
    <3>2. others = Kept(inks, S)
      BY <1>2, <3>1
    <3>3. RootSeq(page, others, "ink") /\ Range(others) = Range(inks) \cap S
      BY <1>3, <1>6, <3>2, SomeRoots
    <3> QED
      BY <3>1, <3>3
  <2>13. PICK t, N : t = Captured(page, others, boxes, at) /\ N = Range(others) \cup Below(P.up, Range(boxes))
    OBVIOUS
  <2>14. Guests(t, N, P, K, g, g, next)
    <3>1. Range(others) \subseteq K /\ Range(boxes) \subseteq K
      BY <2>7, <2>12
    <3> QED
      BY <1>1, <1>3, <1>6, <2>3, <2>6, <2>12, <2>13, <3>1, CapturedGuests
  <2>15. {rim} \cap N = {}
    <3>1. rim \notin Range(boxes)
      BY <1>6, <2>1 DEF RootSeq
    <3>2. rim \notin Below(P.up, Range(boxes))
      BY <2>1, <2>8, <3>1, BelowTop
    <3> QED
      BY <2>12, <2>13, <3>2
  <2>16. Guests(bodies, {rim} \cup N, P, K, g, g, next)
    <3>1. bodies = <<boundary>> \o t
      BY <1>2, <2>13
    <3> QED
      BY <2>11, <2>14, <2>15, <3>1, GuestsConcat
  <2>17. Reverted(page, e, next) /\ (Inked(P) => Inked(After(P, e)))
    <3>1. PICK M : M = {rim} \cup N
      OBVIOUS
    <3>2. Guests(bodies, M, P, Range(captured), g, g, next)
      BY <2>5, <2>16, <3>1
    <3>3. e = CreateSmartGroup(g, rec, bodies, captured)
      BY <1>2, <2>5
    <3>4. boundary \in Range(bodies)
      <4>1. Range(bodies) = Range(<<boundary>>) \cup Range(t)
        BY <1>2, <2>11, <2>13, <2>14, <2>15, LotsConcat DEF Guests
      <4> QED
        BY <4>1, LotsOne, <2>10 DEF Guest
    <3>5. boundary.node[boundary.top].kind = "ink"
      BY <2>9, InkIs DEF Chip
    <3> QED
      BY <1>1, <1>3, <2>4, <2>6, <2>7, <3>2, <3>3, <3>4, <3>5, GuestsReverted
  <2>18. PICK new : new = Commit(c, e)
    OBVIOUS
  <2>19. Lands(c, After(Outline(c.page), e), new)
    BY <1>7, <2>5, <2>17, <2>18, CommitFits
  <2>20. Fills(d, new)
    <3>1. SUFFICES ASSUME Filled(d) PROVE Filled(new)
      BY DEF Fills
    <3>2. Filled(c) /\ Inked(P)
      <4>1. DOMAIN d = DocFields
        BY DEF DocOK, DocShape
      <4> QED
        BY <1>1, <1>2, <3>1, <4>1, FilledMore DEF Filled
    <3>3. PICK a : a = After(Outline(c.page), e)
      OBVIOUS
    <3>4. Inked(a)
      BY <1>1, <1>7, <2>17, <3>2, <3>3
    <3> QED
      BY <1>7, <2>19, <3>2, <3>3, <3>4, LandsFills
  <2> QED
    BY <1>4, <1>8, <2>18, <2>19, <2>20 DEF Lands, Sane
<1> QED
  BY <1>4, <1>8 DEF Sane, Fills

-----------------------------------------------------------------------------
(***************************************************************************)
(* Pen-up.                                                                 *)
(***************************************************************************)
LEMMA EnclosedRoots ==
  ASSUME NEW page, Tree(page), NEW s
  PROVE  RootSeq(page, EnclosedInks(page, s), "ink") /\ RootSeq(page, EnclosedBoxes(page, s), "box")
<1>1. PICK inks, boxes : inks = Kids(page, Root, "ink") /\ boxes = Kids(page, Root, "box")
  OBVIOUS
<1>2. PICK S, T : /\ S = {y \in Range(inks) : MostlyIn(Cells(page.node[y]), Cells(s))}
                  /\ T = {b \in Range(boxes) : MostlyIn(Bounds(page, b), Cells(s))}
  OBVIOUS
<1>3. EnclosedInks(page, s) = Kept(inks, S)
  BY <1>1, <1>2 DEF EnclosedInks
<1>4. EnclosedBoxes(page, s) = Kept(boxes, T)
  BY <1>1, <1>2 DEF EnclosedBoxes
<1>5. RootSeq(page, inks, "ink")
  BY <1>1, KidsRoots
<1>6. RootSeq(page, boxes, "box")
  BY <1>1, KidsRoots
<1>7. RootSeq(page, EnclosedInks(page, s), "ink")
  BY <1>3, <1>5, SomeRoots
<1>8. RootSeq(page, EnclosedBoxes(page, s), "box")
  BY <1>4, <1>6, SomeRoots
<1> QED
  BY <1>7, <1>8

\* commitStrokeWithEncloseRecognition: an ink, or a box around what it captured.
LEMMA EncloseLands ==
  ASSUME NEW d, DocOK(d), NEW x \in Nat \ {0}, Known(Outline(d.page), x), d.next = x + 2,
         NEW s, StrokeOK(s), NEW new, new = Enclose(d, x, s)
  PROVE  \E a : Lands(d, a, new) /\ (Inked(Outline(d.page)) => Inked(a))
<1>1. PICK page, P, inks, boxes, w : /\ page = d.page /\ P = Outline(page) /\ w = s.hi - s.lo
         /\ inks = EnclosedInks(page, s) /\ boxes = EnclosedBoxes(page, s)
  OBVIOUS
<1>2. PICK rec, edge, t, e, f : /\ rec = Ink(0, w, TRUE, "boundary") /\ edge = Leaf(x, rec)
         /\ t = Captured(page, inks, boxes, s.lo)
         /\ e = AppendInk(x, Ink(s.lo, s.hi, s.loop, "none"), Root, Root)
         /\ f = CreateSmartGroup(x + 1, Box(s.lo, w), <<edge>> \o t, inks \o boxes)
  OBVIOUS
<1>3. Tree(page) /\ Known(P, x) /\ Sound(P) /\ P.node = page.node /\ P.up = Up(page)
      /\ DOMAIN P.node = Ids(page) /\ DOMAIN P.up = Ids(page)
  <2>1. Tree(page)
    BY <1>1, DocIs
  <2> QED
    BY <1>1, <2>1, TreeIs
<1>4. new = Commit(d, e) \/ new = Commit(d, f)
  BY <1>1, <1>2 DEF Enclose
<1>5. s.lo \in Int /\ s.hi \in Int /\ s.lo <= s.hi /\ s.loop \in BOOLEAN /\ w \in Int /\ 0 <= w
  BY <1>1 DEF StrokeOK
<1>6. CASE new = Commit(d, e)
  <2>1. PICK n, next : n = Ink(s.lo, s.hi, s.loop, "none") /\ next = x + 2
    OBVIOUS
  <2>2. n \in InkNode
    BY <1>5, <2>1, InkNodeIs
  <2>3. next \in Nat /\ x < next
    BY <2>1
  <2>4. e = AppendInk(x, n, Root, Root)
    BY <1>2, <2>1
  <2>5. Reverted(page, e, next)
    BY <1>1, <1>3, <2>2, <2>3, <2>4, StrokeReverted
  <2>6. PICK a : a = After(P, e)
    OBVIOUS
  <2>7. Lands(d, a, new)
    BY <1>1, <1>6, <2>1, <2>5, <2>6, CommitFits
  <2>8. x \notin DOMAIN P.node
    <3>1. DOMAIN P.node \subseteq 1..(x - 1)
      BY <1>3 DEF Known
    <3> QED
      BY <3>1
  <2>9. Inked(P) => Inked(a)
    BY <2>2, <2>4, <2>6, <2>8, AppendInked
  <2> QED
    BY <1>1, <2>7, <2>9
<1>7. CASE new = Commit(d, f)
  <2>1. PICK g, next, captured, K : g = x + 1 /\ next = x + 2 /\ captured = inks \o boxes /\ K = Range(captured)
    OBVIOUS
  <2>2. NewId(P, g, x, next)
    BY <1>3, <2>1 DEF NewId
  <2>3. RootSeq(page, inks, "ink") /\ RootSeq(page, boxes, "box")
    BY <1>1, <1>3, EnclosedRoots
  <2>4. AtTop(P, captured) /\ K = Range(inks) \cup Range(boxes)
    <3>1. Tops(page, inks, boxes, captured)
      BY <1>3, <2>1, <2>3, CapturedTop
    <3> QED
      BY <1>1, <2>1, <3>1 DEF Tops
  <2>5. PICK N : N = Range(inks) \cup Below(P.up, Range(boxes))
    OBVIOUS
  <2>6. Guests(t, N, P, K, g, x, next)
    <3>1. Range(inks) \subseteq K /\ Range(boxes) \subseteq K
      BY <2>4
    <3> QED
      BY <1>1, <1>2, <1>3, <1>5, <2>2, <2>3, <2>5, <3>1, CapturedGuests
  <2>7. Guest(edge, P, K, g, x, next) /\ DOMAIN edge.node = {x}
    <3>1. rec \in InkNode /\ rec.kind = "ink"
      <4>1. 0 \in Int /\ TRUE \in BOOLEAN /\ "boundary" \in {"none", "boundary", "content"}
        OBVIOUS
      <4> QED
        BY <1>2, <1>5, <4>1, InkNodeIs
    <3>2. rec \in Node
      BY <3>1 DEF Node
    <3>3. BodyOK(edge) /\ DOMAIN edge.node = {x} /\ edge.node[edge.top] = rec /\ edge.top = x
      BY <1>2, <3>2, LeafIs
    <3>4. x \notin DOMAIN P.node
      <4>1. DOMAIN P.node \subseteq 1..(x - 1)
        BY <1>3 DEF Known
      <4> QED
        BY <4>1
    <3>5. edge.node[x].kind = "ink"
      BY <3>1, <3>3
    <3>6. Kin(edge, P, K, g, x, next)
      <4>1. x # g /\ 0 < x /\ x < next /\ x <= x
        BY <2>1
      <4>2. Named(edge.node[x], next)
        BY <3>5 DEF Named
      <4> QED
        BY <3>3, <3>4, <4>1, <4>2 DEF Kin
    <3>7. Chip(edge, x)
      BY <3>1, <3>3 DEF Chip
    <3> QED
      BY <3>3, <3>6, <3>7, ChipInked DEF Guest
  <2>8. Guests(<<edge>>, {x}, P, K, g, x, next)
    BY <2>7, GuestsOne
  <2>9. {x} \cap N = {}
    <3>1. Range(inks) \subseteq Ids(page)
      <4>1. inks \in Seq(Ids(page))
        BY <2>3 DEF RootSeq
      <4> QED
        BY <4>1 DEF Range
    <3>2. Below(P.up, Range(boxes)) \subseteq Ids(page)
      BY <1>3, BelowIs
    <3>3. Ids(page) \subseteq 1..(x - 1)
      BY <1>3 DEF Known
    <3> QED
      BY <2>5, <3>1, <3>2, <3>3
  <2>10. PICK bodies, M : bodies = <<edge>> \o t /\ M = {x} \cup N
    OBVIOUS
  <2>11. Guests(bodies, M, P, Range(captured), g, x, next)
    <3>1. Guests(<<edge>> \o t, {x} \cup N, P, K, g, x, next)
      BY <2>6, <2>8, <2>9, GuestsConcat
    <3> QED
      BY <2>1, <2>10, <3>1
  <2>12. PICK box : box = Box(s.lo, w)
    OBVIOUS
  <2>13. box \in BoxNode
    BY <1>5, <2>12, BoxNodeIs
  <2>14. f = CreateSmartGroup(g, box, bodies, captured)
    BY <1>2, <2>1, <2>10, <2>12
  <2>15. edge \in Range(bodies)
    <3>1. Range(bodies) = Range(<<edge>>) \cup Range(t)
      BY <2>6, <2>8, <2>9, <2>10, LotsConcat DEF Guests
    <3> QED
      BY <3>1, <2>7, LotsOne DEF Guest
  <2>16. edge.node[edge.top].kind = "ink"
    <3>1. 0 \in Int /\ TRUE \in BOOLEAN /\ "boundary" \in {"none", "boundary", "content"}
      OBVIOUS
    <3>2. rec \in InkNode /\ rec.kind = "ink"
      BY <1>2, <1>5, <3>1, InkNodeIs
    <3>3. rec \in Node
      BY <3>2 DEF Node
    <3>4. edge.node[edge.top] = rec
      BY <1>2, <3>3, LeafIs
    <3> QED
      BY <3>2, <3>4
  <2>17. Reverted(page, f, next) /\ (Inked(P) => Inked(After(P, f)))
    BY <1>1, <1>3, <2>2, <2>4, <2>11, <2>13, <2>14, <2>15, <2>16, GuestsReverted
  <2>18. PICK a : a = After(P, f)
    OBVIOUS
  <2>19. Lands(d, a, new)
    BY <1>1, <1>7, <2>1, <2>17, <2>18, CommitFits
  <2> QED
    BY <1>1, <2>17, <2>18, <2>19
<1> QED
  BY <1>4, <1>6, <1>7

-----------------------------------------------------------------------------
(***************************************************************************)
(* Connectors.                                                             *)
(***************************************************************************)
\* The nearest of several, the first of those.
LEMMA ClosestOf ==
  ASSUME NEW near, near \subseteq Nat, near # {}, NEW dist, \A i \in near : dist[i] \in Nat
  PROVE  \E i \in near : \A j \in near \ {i} : dist[i] < dist[j] \/ (dist[i] = dist[j] /\ i < j)
<1>1. PICK D : D = {dist[i] : i \in near}
  OBVIOUS
<1>2. D \subseteq Nat /\ D # {} /\ (\A i \in near : dist[i] \in D) /\ \A m \in D : \E i \in near : dist[i] = m
  BY <1>1
<1>3. PICK m \in D : \A k \in D : m <= k
  BY <1>2, SmallestOf
<1>4. PICK T : T = {i \in near : dist[i] = m}
  OBVIOUS
<1>5. T \subseteq Nat /\ T # {}
  BY <1>2, <1>3, <1>4
<1>6. PICK i \in T : \A j \in T : i <= j
  BY <1>5, SmallestOf
<1>7. ASSUME NEW j \in near \ {i}
      PROVE  dist[i] < dist[j] \/ (dist[i] = dist[j] /\ i < j)
  <2>1. i \in near /\ dist[i] = m /\ m <= dist[j] /\ dist[j] \in Nat /\ m \in Nat /\ i \in Nat /\ j \in Nat
    BY <1>2, <1>3, <1>4, <1>6, <1>7
  <2>2. dist[j] = m => i <= j
    BY <1>4, <1>6, <1>7
  <2> QED
    BY <1>7, <2>1, <2>2
<1> QED
  BY <1>4, <1>6, <1>7

\* A set of numbers that ends has a greatest member.
LEMMA GreatestOf ==
  ASSUME NEW n \in Nat, NEW T, T \subseteq 1..n, T # {}
  PROVE  \E x \in T : \A y \in T : y <= x
<1>1. PICK S : S = {m \in Nat : \A y \in T : y <= m}
  OBVIOUS
<1>2. S \subseteq Nat /\ n \in S
  BY <1>1
<1>3. PICK m \in S : \A k \in S : m <= k
  BY <1>2, SmallestOf
<1>4. m \in T
  <2>1. SUFFICES ASSUME m \notin T PROVE FALSE
    OBVIOUS
  <2>2. m # 0
    <3>1. PICK y \in T : TRUE
      OBVIOUS
    <3>2. 1 <= y /\ y <= m /\ y \in Nat /\ m \in Nat
      BY <1>1, <1>3, <3>1
    <3> QED
      BY <3>2
  <2>3. m - 1 \in Nat /\ \A y \in T : y <= m - 1
    BY <1>1, <1>3, <2>1, <2>2
  <2>4. m - 1 \in S
    BY <1>1, <2>3
  <2> QED
    BY <1>1, <1>3, <2>4
<1> QED
  BY <1>1, <1>3, <1>4

\* nearestSnapGroup finds a box or nothing.
LEMMA NearestIs ==
  ASSUME NEW page, Tree(page), NEW c, NEW exclude, NEW q, q = Nearest(page, c, exclude)
  PROVE  q # Root => q \in Ids(page) /\ page.node[q].kind = "box"
<1>1. PICK boxes : boxes = Kids(page, Root, "box")
  OBVIOUS
<1>2. PICK near : near = InReach(page, boxes, c, exclude)
  OBVIOUS
<1>3. PICK dist : dist = [i \in near |-> Min(Reach(page, boxes[i], c))]
  OBVIOUS
<1>4. q = IF near = {} THEN Root
          ELSE boxes[CHOOSE i \in near : \A j \in near \ {i} :
                      dist[i] < dist[j] \/ (dist[i] = dist[j] /\ i < j)]
  BY <1>1, <1>2, <1>3 DEF Nearest
<1>5. boxes \in Seq(Ids(page)) /\ \A x \in Range(boxes) : page.node[x].kind = "box"
  BY <1>1, KidsOf
<1>6. near \subseteq DOMAIN boxes /\ near \subseteq Nat
  BY <1>2, <1>5 DEF InReach
<1>7. ASSUME NEW i \in near
      PROVE  dist[i] \in Nat
  <2>1. PICK R : R = Reach(page, boxes[i], c)
    OBVIOUS
  <2>2. R \subseteq Nat
    BY <2>1, SizesAssumption DEF Reach
  <2>3. R # {}
    BY <1>2, <2>1 DEF InReach
  <2>4. \E x \in R : \A y \in R : x <= y
    BY <2>2, <2>3, SmallestOf
  <2>5. Min(R) \in R
    BY <2>4 DEF Min
  <2> QED
    BY <1>3, <2>1, <2>2, <2>5
<1>8. CASE near # {}
  <2>1. PICK k : k = CHOOSE i \in near : \A j \in near \ {i} :
                      dist[i] < dist[j] \/ (dist[i] = dist[j] /\ i < j)
    OBVIOUS
  <2>2. \E i \in near : \A j \in near \ {i} : dist[i] < dist[j] \/ (dist[i] = dist[j] /\ i < j)
    BY <1>6, <1>7, <1>8, ClosestOf
  <2>3. k \in near
    BY <2>1, <2>2
  <2>4. q = boxes[k] /\ k \in DOMAIN boxes
    BY <1>4, <1>6, <1>8, <2>1, <2>3
  <2> QED
    BY <1>5, <2>4 DEF Range
<1> QED
  BY <1>4, <1>8

-----------------------------------------------------------------------------
\* The last of a list of root nodes.
LEMMA SubRoots ==
  ASSUME NEW page, NEW kind, NEW s, RootSeq(page, s, kind), NEW k \in Nat \ {0}, k <= Len(s) + 1,
         NEW t, t = SubSeq(s, k, Len(s))
  PROVE  RootSeq(page, t, kind)
<1>1. PICK D, n : D = Ids(page) /\ n = Len(s)
  OBVIOUS
<1>2. s \in Seq(D) /\ n \in Nat /\ DOMAIN s = 1..n /\ (\A i \in 1..n : s[i] \in D) /\ OneOnly(s)
      /\ \A x \in Range(s) : Up(page)[x] = Root /\ page.node[x].kind = kind
  BY <1>1 DEF RootSeq
<1>3. k \in 1..(n + 1) /\ n \in (k - 1)..n /\ n - k + 1 \in Nat
  BY <1>1, <1>2
<1>4. t = SubSeq(s, k, n)
  BY <1>1
<1>5. t \in Seq(D) /\ Len(t) = n - k + 1 /\ \A i \in 1..(n - k + 1) : t[i] = s[k + i - 1]
  BY <1>1, <1>2, <1>3, <1>4, SubSeqProperties
<1>6. DOMAIN t = 1..(n - k + 1) /\ \A i \in 1..(n - k + 1) : k + i - 1 \in 1..n /\ t[i] = s[k + i - 1]
  BY <1>2, <1>3, <1>5
<1>7. OneOnly(t)
  <2>1. SUFFICES ASSUME NEW i \in DOMAIN t, NEW j \in DOMAIN t, t[i] = t[j] PROVE i = j
    BY DEF OneOnly
  <2>2. k + i - 1 \in DOMAIN s /\ k + j - 1 \in DOMAIN s /\ s[k + i - 1] = s[k + j - 1]
    BY <1>2, <1>6, <2>1
  <2>3. k + i - 1 = k + j - 1
    BY <1>2, <2>2 DEF OneOnly
  <2>4. i \in Int /\ j \in Int
    BY <1>3, <1>6, <2>1
  <2> QED
    BY <2>3, <2>4
<1>8. Range(t) \subseteq Range(s)
  BY <1>2, <1>6 DEF Range
<1> QED
  BY <1>1, <1>2, <1>5, <1>7, <1>8 DEF RootSeq

\* lastFreeInks are root inks.
LEMMA FreeInks ==
  ASSUME NEW page, Tree(page), NEW free, free = LastFreeInks(page)
  PROVE  RootSeq(page, free, "ink")
<1>1. PICK inks : inks = Kids(page, Root, "ink")
  OBVIOUS
<1>2. RootSeq(page, inks, "ink")
  BY <1>1, KidsRoots
<1>3. Len(inks) \in Nat
  BY <1>2 DEF RootSeq
<1>4. PICK k : k = IF Len(inks) > 3 THEN Len(inks) - 2 ELSE 1
  OBVIOUS
<1>5. k \in Nat \ {0} /\ k <= Len(inks) + 1
  <2>1. PICK n : n = Len(inks)
    OBVIOUS
  <2>2. n \in Nat /\ k = IF n > 3 THEN n - 2 ELSE 1
    BY <1>3, <1>4, <2>1
  <2>3. k \in Nat \ {0} /\ k <= n + 1
    BY <2>2
  <2> QED
    BY <2>1, <2>3
<1>6. free = SubSeq(inks, k, Len(inks))
  BY <1>1, <1>4 DEF LastFreeInks
<1> QED
  BY <1>2, <1>5, <1>6, SubRoots

RootInk(page, x) == x \in Ids(page) /\ Up(page)[x] = Root /\ page.node[x].kind = "ink"
\* Three different root inks.
LEMMA RootThree ==
  ASSUME NEW page, NEW a, NEW b, NEW c, RootInk(page, a), RootInk(page, b), RootInk(page, c),
         a # b, b # c, a # c, NEW s, s = <<a, b, c>>
  PROVE  RootSeq(page, s, "ink") /\ Len(s) # 0
<1>1. PICK D : D = Ids(page)
  OBVIOUS
<1>2. a \in D /\ b \in D /\ c \in D
  BY <1>1 DEF RootInk
<1>3. s \in Seq(D) /\ Len(s) = 3 /\ DOMAIN s = {1, 2, 3} /\ s[1] = a /\ s[2] = b /\ s[3] = c
  BY <1>2
<1>4. OneOnly(s)
  BY <1>3 DEF OneOnly
<1>5. Range(s) = {a, b, c}
  BY <1>3 DEF Range
<1> QED
  BY <1>1, <1>3, <1>4, <1>5 DEF RootSeq, RootInk

\* Two.
LEMMA RootTwo ==
  ASSUME NEW page, NEW a, NEW b, RootInk(page, a), RootInk(page, b), a # b, NEW s, s = <<a, b>>
  PROVE  RootSeq(page, s, "ink") /\ Len(s) # 0
<1>1. PICK D : D = Ids(page)
  OBVIOUS
<1>2. a \in D /\ b \in D
  BY <1>1 DEF RootInk
<1>3. s \in Seq(D) /\ Len(s) = 2 /\ DOMAIN s = {1, 2} /\ s[1] = a /\ s[2] = b
  BY <1>2
<1>4. OneOnly(s)
  BY <1>3 DEF OneOnly
<1>5. Range(s) = {a, b}
  BY <1>3 DEF Range
<1> QED
  BY <1>1, <1>3, <1>4, <1>5 DEF RootSeq, RootInk

\* One.
LEMMA RootOne ==
  ASSUME NEW page, NEW a, RootInk(page, a), NEW s, s = <<a>>
  PROVE  RootSeq(page, s, "ink") /\ Len(s) # 0
<1>1. PICK D : D = Ids(page)
  OBVIOUS
<1>2. a \in D
  BY <1>1 DEF RootInk
<1>3. s \in Seq(D) /\ Len(s) = 1 /\ DOMAIN s = {1} /\ s[1] = a
  BY <1>2
<1>4. OneOnly(s)
  BY <1>3 DEF OneOnly
<1>5. Range(s) = {a}
  BY <1>3 DEF Range
<1> QED
  BY <1>1, <1>3, <1>4, <1>5 DEF RootSeq, RootInk

\* The pieces of a chain are root inks.
LEMMA ChainsIs ==
  ASSUME NEW page, NEW free, RootSeq(page, free, "ink"), NEW x, RootInk(page, x),
         NEW s, s = Chains(page, free, x)
  PROVE  RootSeq(page, s, "ink") /\ Len(s) # 0
<1>1. PICK three, two : three = Middles(page, free) /\ two = Joining(page, free, x)
  OBVIOUS
<1>2. s = Assembled(free, x, three, two)
  BY <1>1 DEF Chains
<1>3. PICK n : n = Len(free)
  OBVIOUS
<1>4. n \in Nat /\ DOMAIN free = 1..n /\ (\A i \in 1..n : RootInk(page, free[i]))
      /\ \A i, j \in 1..n : free[i] = free[j] => i = j
  BY <1>3 DEF RootSeq, RootInk, Range, OneOnly
<1>5. CASE three # {}
  <2>1. PICK t : t = CHOOSE u \in three : TRUE
    OBVIOUS
  <2>2. t \in three
    BY <1>5, <2>1
  <2>3. /\ t[1] \in DOMAIN free /\ t[2] \in DOMAIN free /\ t[3] \in DOMAIN free
        /\ t[1] < t[3] /\ t[2] # t[1] /\ t[2] # t[3]
    BY <1>1, <2>2 DEF Middles
  <2>4. s = <<free[t[1]], free[t[2]], free[t[3]]>>
    BY <1>2, <1>5, <2>1 DEF Assembled
  <2>5. PICK a, b, c : a = free[t[1]] /\ b = free[t[2]] /\ c = free[t[3]]
    OBVIOUS
  <2>6. RootInk(page, a) /\ RootInk(page, b) /\ RootInk(page, c) /\ a # b /\ b # c /\ a # c
    BY <1>4, <2>3, <2>5
  <2> QED
    BY <2>4, <2>5, <2>6, RootThree
<1>6. CASE three = {} /\ two # {}
  <2>1. PICK k : k = CHOOSE j \in two : \A i \in two : i <= j
    OBVIOUS
  <2>2. two \subseteq 1..n /\ \A j \in two : free[j] # x
    BY <1>1, <1>4 DEF Joining
  <2>3. \E j \in two : \A i \in two : i <= j
    BY <1>4, <1>6, <2>2, GreatestOf
  <2>4. k \in two
    BY <2>1, <2>3
  <2>5. s = <<free[k], x>>
    BY <1>2, <1>6, <2>1 DEF Assembled
  <2>6. PICK a : a = free[k]
    OBVIOUS
  <2>7. RootInk(page, a) /\ a # x
    BY <1>4, <2>2, <2>4, <2>6
  <2> QED
    BY <2>5, <2>6, <2>7, RootTwo
<1>7. CASE three = {} /\ two = {}
  <2>1. s = <<x>>
    BY <1>2, <1>7 DEF Assembled
  <2> QED
    BY <2>1, RootOne
<1> QED
  BY <1>5, <1>6, <1>7

-----------------------------------------------------------------------------
\* The path of a chain has two ends.
LEMMA PathIs ==
  ASSUME NEW a \in InkNode, NEW b \in InkNode
  PROVE  Path(a, b).front \in Int /\ Path(a, b).back \in Int
<1>1. a.lo \in Int /\ a.hi \in Int /\ b.lo \in Int /\ b.hi \in Int
  BY InkIs
<1> QED
  BY <1>1 DEF Path

\* The record of a new connector.
ConnRec(page, path, from, to) ==
    [kind |-> "conn", from |-> from, to |-> to,
     fromAt |-> Anchor(page, from, path.front), toAt |-> Anchor(page, to, path.back),
     p |-> path.front, q |-> path.back, fromInk |-> << >>, toInk |-> << >>, last |-> 0]
\* A recognised connector is a node bound to two boxes.
LEMMA ConnRecIs ==
  ASSUME NEW page, Tree(page), NEW path, path.front \in Int, path.back \in Int,
         NEW from \in Ids(page), page.node[from].kind = "box", NEW to \in Ids(page), page.node[to].kind = "box",
         NEW rec, rec = ConnRec(page, path, from, to)
  PROVE  rec \in ConnNode /\ rec.from = from /\ rec.to = to
<1>1. from \in Nat /\ to \in Nat /\ page.node[from] \in BoxNode /\ page.node[to] \in BoxNode
  BY TreeIs, KindIs
<1>2. page.node[from].at \in Int /\ page.node[to].at \in Int
  BY <1>1, BoxIs
<1>3. Anchor(page, from, path.front) \in Int /\ Anchor(page, to, path.back) \in Int
  BY <1>2 DEF Anchor
<1>4. << >> \in Seq(Interval)
  OBVIOUS
<1>5. PICK m, n, none : m = Anchor(page, from, path.front) /\ n = Anchor(page, to, path.back) /\ none = << >>
  OBVIOUS
<1>6. rec = [kind |-> "conn", from |-> from, to |-> to, fromAt |-> m, toAt |-> n,
             p |-> path.front, q |-> path.back, fromInk |-> none, toInk |-> none, last |-> 0]
  BY <1>5 DEF ConnRec
<1>7. none \in Seq(Interval) /\ m \in Int /\ n \in Int
  BY <1>3, <1>4, <1>5
<1> QED
  BY <1>1, <1>6, <1>7 DEF ConnNode

\* tryRecognizeConnector, in a document that has the stroke.
LEMMA ConnectorSane ==
  ASSUME NEW c, DocOK(c), ~c.latched, NEW x \in Nat \ {0}, RootInk(c.page, x),
         Known(Outline(c.page), x + 1), c.next = x + 2, NEW new, new = RecognizeConnector(c, x)
  PROVE  Sane(new) /\ Fills(c, new)
<1>1. PICK page, P, free : page = c.page /\ P = Outline(page) /\ free = LastFreeInks(page)
  OBVIOUS
<1>2. PICK chain : chain = Chains(page, free, x)
  OBVIOUS
<1>3. PICK a, b : a = page.node[Head(chain)] /\ b = page.node[Last(chain)]
  OBVIOUS
<1>4. PICK path : path = Path(a, b)
  OBVIOUS
<1>5. PICK from : from = Nearest(page, path.front, Root)
  OBVIOUS
<1>6. PICK to : to = Nearest(page, path.back, from)
  OBVIOUS
<1>7. PICK rec : rec = ConnRec(page, path, from, to)
  OBVIOUS
<1>8. PICK e : e = CreateConnector(x + 1, rec, chain)
  OBVIOUS
<1>9. Tree(page) /\ Known(P, x + 1)
  BY <1>1, DocIs
<1>10. P.node = page.node /\ P.up = Up(page) /\ DOMAIN P.node = Ids(page)
  BY <1>1, <1>9, TreeIs
<1>11. RootSeq(page, free, "ink")
  BY <1>1, <1>9, FreeInks
<1>12. RootSeq(page, chain, "ink") /\ Len(chain) # 0
  BY <1>1, <1>2, <1>11, ChainsIs
<1>13. PICK D, n : D = Ids(page) /\ n = Len(chain)
  OBVIOUS
<1>14. chain \in Seq(D) /\ n \in Nat /\ n # 0 /\ DOMAIN chain = 1..n /\ OneOnly(chain)
  BY <1>12, <1>13 DEF RootSeq
<1>15. \A i \in 1..n : chain[i] \in D /\ Up(page)[chain[i]] = Root /\ page.node[chain[i]].kind = "ink"
  <2>1. \A i \in 1..n : chain[i] \in Range(chain)
    BY <1>14 DEF Range
  <2> QED
    BY <1>12, <1>14, <2>1 DEF RootSeq
<1>16. Head(chain) = chain[1] /\ Last(chain) = chain[n] /\ 1 \in 1..n /\ n \in 1..n
  BY <1>13, <1>14 DEF Last
<1>17. a \in InkNode /\ b \in InkNode
  BY <1>3, <1>9, <1>13, <1>15, <1>16, TreeIs, KindIs
<1>18. path.front \in Int /\ path.back \in Int
  BY <1>4, <1>17, PathIs
<1>19. new = c \/ (from # Root /\ to # Root /\ new = Commit(c, e))
  <2>1. ConnectorOf(c, x, chain) = ConnectorAlong(c, x, chain, path)
    BY <1>1, <1>3, <1>4 DEF ConnectorOf
  <2>2. ConnectorAlong(c, x, chain, path) = ConnectorFrom(c, x, chain, path, from)
    BY <1>1, <1>5 DEF ConnectorAlong
  <2>3. ConnectorFrom(c, x, chain, path, from) = ConnectorBetween(c, x, chain, path, from, to)
    BY <1>1, <1>6 DEF ConnectorFrom
  <2>4. new = ConnectorOf(c, x, chain)
    BY <1>1, <1>2 DEF RecognizeConnector
  <2>5. new = ConnectorBetween(c, x, chain, path, from, to)
    BY <2>1, <2>2, <2>3, <2>4
  <2> QED
    BY <1>1, <1>7, <1>8, <2>5 DEF ConnectorBetween, ConnRec
<1>20. CASE from # Root /\ to # Root /\ new = Commit(c, e)
  <2>1. from \in Ids(page) /\ page.node[from].kind = "box"
    BY <1>5, <1>9, <1>20, NearestIs
  <2>2. to \in Ids(page) /\ page.node[to].kind = "box"
    BY <1>6, <1>9, <1>20, NearestIs
  <2>3. rec \in ConnNode /\ rec.from = from /\ rec.to = to
    BY <1>7, <1>9, <1>18, <2>1, <2>2, ConnRecIs
  <2>4. PICK g, next : g = x + 1 /\ next = x + 2
    OBVIOUS
  <2>5. NewId(P, g, g, next)
    BY <1>9, <2>4 DEF NewId
  <2>6. Named(rec, next)
    <3>1. from < x + 1 /\ to < x + 1
      BY <1>9, <1>10, <2>1, <2>2 DEF Known
    <3>2. from \in Nat /\ to \in Nat
      BY <1>9, <2>1, <2>2, TreeIs
    <3> QED
      BY <2>3, <2>4, <3>1, <3>2 DEF Named
  <2>7. AtTop(P, chain)
    BY <1>10, <1>13, <1>14, <1>15 DEF AtTop
  <2>8. \A i \in DOMAIN chain : P.node[chain[i]].kind = "ink"
    BY <1>10, <1>14, <1>15
  <2>9. e = CreateConnector(g, rec, chain)
    BY <1>8, <2>4
  <2>10. Reverted(page, e, next)
    BY <1>1, <1>9, <2>3, <2>5, <2>6, <2>7, <2>8, <2>9, ConnectorReverted
  <2>11. PICK f : f = After(P, e)
    OBVIOUS
  <2>12. Lands(c, f, new)
    BY <1>1, <1>20, <2>4, <2>10, <2>11, CommitFits
  <2>13. Inked(P) => Inked(f)
    BY <1>1, <1>9, <2>9, <2>10, <2>11, TreeIs, ConnectorInked DEF Reverted
  <2>14. Fills(c, new)
    BY <1>1, <2>12, <2>13, LandsFills DEF Fills, Filled
  <2> QED
    BY <2>12, <2>14 DEF Lands, Sane
<1>21. CASE new = c
  BY <1>21 DEF Sane, Fills
<1> QED
  BY <1>19, <1>20, <1>21

-----------------------------------------------------------------------------
\* tryBindEndpointInk: a gesture of its own.
LEMMA BindSane ==
  ASSUME NEW c, DocOK(c), ~c.latched, NEW x \in Ids(c.page), c.page.node[x].kind = "ink", Up(c.page)[x] = Root,
         NEW h, h[1] \in Ids(c.page), c.page.node[h[1]].kind = "conn", h[2] \in BOOLEAN,
         NEW new, new = BindEndpointInk(c, x, h)
  PROVE  Sane(new) /\ Fills(c, new)
<1>1. PICK page, k, fromEnd, n : page = c.page /\ k = h[1] /\ fromEnd = h[2] /\ n = page.node[x]
  OBVIOUS
<1>2. PICK r : r = page.node[k]
  OBVIOUS
<1>3. PICK piece, had : /\ piece = ToFace(IF fromEnd THEN r.p ELSE r.q, n)
                        /\ had = IF fromEnd THEN r.fromInk ELSE r.toInk
  OBVIOUS
<1>4. PICK strokes : strokes = Append(had, piece)
  OBVIOUS
<1>5. new = CommitParts(c, <<SetEndpointInk(k, fromEnd, strokes), RemoveNode(x)>>)
  BY <1>1, <1>2, <1>3, <1>4 DEF BindEndpointInk
<1>6. Tree(page)
  BY <1>1, DocIs
<1>7. n \in InkNode /\ r \in ConnNode
  BY <1>1, <1>2, <1>6, TreeIs, KindIs
<1>8. n.lo \in Int /\ n.hi \in Int /\ n.lo <= n.hi
  BY <1>7, InkIs
<1>9. r.p \in Int /\ r.q \in Int /\ r.fromInk \in Seq(Interval) /\ r.toInk \in Seq(Interval)
  BY <1>7, ConnIs
<1>10. PICK end : end = IF fromEnd THEN r.p ELSE r.q
  OBVIOUS
<1>11. end \in Int
  BY <1>9, <1>10
<1>12. piece \in Interval
  BY <1>3, <1>8, <1>10, <1>11 DEF ToFace, Interval
<1>13. had \in Seq(Interval)
  BY <1>3, <1>9
<1>14. strokes \in Seq(Interval)
  BY <1>4, <1>12, <1>13
<1>15. Bits(Outline(page), <<SetEndpointInk(k, fromEnd, strokes), RemoveNode(x)>>, {})
  BY <1>1, <1>6, <1>14, BindBits
<1>16. PICK set, take, es : set = SetEndpointInk(k, fromEnd, strokes) /\ take = RemoveNode(x) /\ es = <<set, take>>
  OBVIOUS
<1>17. Sane(new) /\ (Spares(Outline(page), Removed(es)) => Fills(c, new))
  BY <1>1, <1>5, <1>15, <1>16, BitsHere
<1>18. Removed(es) \subseteq {x}
  <2>1. \A i \in 1..Len(es) : es[i] = set \/ es[i] = take
    BY <1>16
  <2>2. set.kind = "set_endpoint_ink" /\ take.id = x
    BY <1>16 DEF SetEndpointInk, RemoveNode
  <2> QED
    BY <2>1, <2>2 DEF Removed, Takes
<1>19. Inked(Outline(page)) => Spares(Outline(page), Removed(es))
  BY <1>1, <1>6, <1>18, SparesWhole
<1> QED
  BY <1>1, <1>17, <1>19 DEF Fills, Filled

\* joinSmartGroup, when a stroke is drawn into a box.
LEMMA JoinSane ==
  ASSUME NEW c, DocOK(c), ~c.latched, NEW x \in Ids(c.page), c.page.node[x].kind = "ink", Up(c.page)[x] = Root,
         NEW b \in Ids(c.page), c.page.node[b].kind = "box", Up(c.page)[b] = Root,
         NEW new, new = Commit(c, JoinSmartGroup(x, b))
  PROVE  Sane(new) /\ Fills(c, new)
<1>1. PICK e, next : e = JoinSmartGroup(x, b) /\ next = c.next
  OBVIOUS
<1>2. Tree(c.page) /\ Known(Outline(c.page), next) /\ next \in Nat
  BY <1>1, DocIs
<1>3. Reverted(c.page, e, next)
  BY <1>1, <1>2, JoinReverted
<1>4. PICK P, a : P = Outline(c.page) /\ a = After(P, e)
  OBVIOUS
<1>5. Lands(c, a, new)
  BY <1>1, <1>3, <1>4, CommitFits
<1>6. Inked(P) => Inked(a)
  <2>1. Sound(P) /\ x \in DOMAIN P.node /\ P.node[x].kind = "ink" /\ P.up[x] = Root
        /\ b \in DOMAIN P.node /\ P.node[b].kind = "box"
    BY <1>2, <1>4, TreeIs
  <2> QED
    BY <1>1, <1>4, <2>1, JoinInked
<1>7. Fills(c, new)
  BY <1>4, <1>5, <1>6, LandsFills DEF Fills, Filled
<1> QED
  BY <1>5, <1>7 DEF Lands, Sane

-----------------------------------------------------------------------------
\* What a pen-up leaves: with an undo latched, all as it was.
AsBefore(d, new) == DocOK(new) /\ Outline(new.page) = Outline(d.page) /\ new.undo = d.undo
Dealt(d, new) == Sane(new) /\ (d.latched => AsBefore(d, new))
\* A commit that lands has dealt with a latched undo.
LEMMA LandsDealt ==
  ASSUME NEW d, DocOK(d), NEW a, NEW new, Lands(d, a, new), Inked(Outline(d.page)) => Inked(a)
  PROVE  Dealt(d, new) /\ Fills(d, new)
<1>1. Dealt(d, new)
  BY DEF Lands, Dealt, Sane, AsBefore
<1> QED
  BY <1>1, LandsFills DEF Fills, Filled

\* The box a stroke is drawn into is a root box.
LEMMA HoldersIs ==
  ASSUME NEW page, Tree(page), NEW s, NEW boxes, boxes = Holders(page, s), boxes # << >>, NEW b, b = Last(boxes)
  PROVE  b \in Ids(page) /\ Up(page)[b] = Root /\ page.node[b].kind = "box"
<1>1. PICK all : all = Kids(page, Root, "box")
  OBVIOUS
<1>2. RootSeq(page, all, "box")
  BY <1>1, KidsRoots
<1>3. PICK S : S = {x \in Range(all) : MostlyIn(Cells(s), Boundary(page, x))}
  OBVIOUS
<1>4. boxes = Kept(all, S)
  BY <1>1, <1>3 DEF Holders
<1>5. RootSeq(page, boxes, "box")
  BY <1>2, <1>4, SomeRoots
<1>6. PICK D, n : D = Ids(page) /\ n = Len(boxes)
  OBVIOUS
<1>7. boxes \in Seq(D) /\ n \in Nat /\ n # 0 /\ DOMAIN boxes = 1..n /\ b = boxes[n] /\ n \in 1..n
  BY <1>5, <1>6 DEF RootSeq, Last
<1>8. b \in Range(boxes) /\ b \in D
  BY <1>7 DEF Range
<1> QED
  BY <1>5, <1>6, <1>8 DEF RootSeq

\* What dispatchPenUp may end in: every recogniser but enclosing, which
\* commits the stroke itself, needs it on the page.
Binds(inked, x, steals, new) ==
    Cardinality(steals) = 1 /\ Has(inked.page, x) /\ new = BindEndpointInk(inked, x, CHOOSE h \in steals : TRUE)
Joins(inked, x, holders, new) ==
    holders # << >> /\ Has(inked.page, x) /\ new = Commit(inked, JoinSmartGroup(x, Last(holders)))
LEMMA DispatchCases ==
  ASSUME NEW d, NEW x, NEW s, NEW inked, NEW steals, NEW holders,
         NEW new, new = Dispatched(d, x, s, inked, steals, holders)
  PROVE  \/ Binds(inked, x, steals, new) \/ Joins(inked, x, holders, new)
         \/ new = inked
         \/ new = Enclose(d, x, s)
         \/ Has(inked.page, x) /\ new = RecognizeConnector(inked, x)
  BY DEF Dispatched, Binds, Joins

\* dispatchPenUp, with an undo latched or not.
LEMMA DispatchDealt ==
  ASSUME NEW d, DocOK(d), NEW x \in Nat \ {0}, Known(Outline(d.page), x), d.next = x + 2,
         NEW s, StrokeOK(s), NEW new, new = DispatchFor(d, x, s)
  PROVE  Dealt(d, new) /\ Fills(d, new)
<1>1. PICK page, n, next : page = d.page /\ n = Ink(s.lo, s.hi, s.loop, "none") /\ next = x + 2
  OBVIOUS
<1>2. PICK e : e = AppendInk(x, n, Root, Root)
  OBVIOUS
<1>3. PICK inked, a : inked = Commit(d, e) /\ a = After(Outline(page), e)
  OBVIOUS
<1>4. PICK steals, holders : steals = Steals(page, s) /\ holders = Holders(page, s)
  OBVIOUS
<1>5. new = Dispatched(d, x, s, inked, steals, holders)
  BY <1>1, <1>2, <1>3, <1>4 DEF DispatchFor
<1>6. Tree(page) /\ Known(Outline(page), x)
  BY <1>1, DocIs
<1>7. DOMAIN Outline(page).node = Ids(page) /\ Outline(page).node = page.node /\ Outline(page).up = Up(page)
      /\ DOMAIN Up(page) = Ids(page) /\ x \notin Ids(page)
  BY <1>6, TreeIs DEF Known
<1>8. n \in InkNode
  BY <1>1, InkNodeIs DEF StrokeOK
<1>9. /\ Reverted(page, e, next)
      /\ Grown(Outline(page), a) /\ DOMAIN a.node = Ids(page) \cup {x}
      /\ a.node[x].kind = "ink" /\ a.up[x] = Root /\ Known(a, x + 1)
  <2>1. next \in Nat /\ x < next
    BY <1>1
  <2> QED
    BY <1>2, <1>3, <1>6, <1>8, <2>1, StrokeReverted
<1>10. Lands(d, a, inked) /\ (Inked(Outline(d.page)) => Inked(a))
  <2>1. Lands(d, a, inked)
    BY <1>1, <1>3, <1>9, CommitFits
  <2>2. Inked(Outline(page)) => Inked(a)
    BY <1>2, <1>3, <1>7, <1>8, AppendInked
  <2> QED
    BY <1>1, <2>1, <2>2
<1>11. CASE new = inked
  BY <1>10, <1>11, LandsDealt
<1>12. CASE new = Enclose(d, x, s)
  BY <1>12, EncloseLands, LandsDealt
<1>13. DocOK(inked) /\ ~inked.latched /\ inked.next = x + 2 /\ Tree(inked.page)
  BY <1>10, DocIs DEF Lands
<1>14. DOMAIN Outline(inked.page).node = Ids(inked.page) /\ Outline(inked.page).node = inked.page.node
       /\ Outline(inked.page).up = Up(inked.page)
  BY <1>13, TreeIs
<1>15. Has(inked.page, x) => ~d.latched
  <2>1. ASSUME d.latched
        PROVE  ~Has(inked.page, x)
    <3>1. Outline(inked.page) = Outline(page)
      BY <1>1, <1>10, <2>1 DEF Lands
    <3> QED
      BY <1>7, <1>14, <3>1 DEF Has
  <2> QED
    BY <2>1
<1>16. ASSUME Has(inked.page, x), Sane(new) /\ Fills(inked, new)
       PROVE  Dealt(d, new) /\ Fills(d, new)
  <2>1. Fills(d, inked) /\ ~inked.stuck
    BY <1>10, <1>13, LandsDealt DEF DocOK
  <2> QED
    BY <1>15, <1>16, <2>1 DEF Dealt, Fills
<1>17. ASSUME Has(inked.page, x)
       PROVE  /\ RootInk(inked.page, x) /\ Known(Outline(inked.page), x + 1)
              /\ \A y \in Ids(page) : /\ y \in Ids(inked.page)
                                      /\ inked.page.node[y].kind = page.node[y].kind
                                      /\ Up(inked.page)[y] = Up(page)[y]
  <2>1. Alike(Outline(inked.page), a)
    BY <1>10, <1>15, <1>17 DEF Lands
  <2>2. /\ DOMAIN Outline(inked.page).node = DOMAIN a.node /\ Outline(inked.page).up = a.up
        /\ \A y \in DOMAIN a.node : Outline(inked.page).node[y].kind = a.node[y].kind
        /\ \A base \in Nat : Known(a, base) => Known(Outline(inked.page), base)
    BY <2>1 DEF Alike
  <2>3. x + 1 \in Nat
    OBVIOUS
  <2>4. Known(Outline(inked.page), x + 1)
    BY <1>9, <2>2, <2>3
  <2>5. RootInk(inked.page, x)
    BY <1>9, <1>14, <2>2 DEF RootInk
  <2>6. ASSUME NEW y \in Ids(page)
        PROVE  /\ y \in Ids(inked.page)
               /\ inked.page.node[y].kind = page.node[y].kind
               /\ Up(inked.page)[y] = Up(page)[y]
    <3>1. y \in DOMAIN a.node /\ a.node[y] = page.node[y] /\ a.up[y] = Up(page)[y]
      BY <1>7, <1>9, <2>6 DEF Grown
    <3> QED
      BY <1>14, <2>2, <3>1
  <2> QED
    BY <2>4, <2>5, <2>6
<1>18. CASE Has(inked.page, x) /\ Binds(inked, x, steals, new)
  <2>1. PICK h : h = CHOOSE y \in steals : TRUE
    OBVIOUS
  <2>2. steals # {}
    BY <1>18, FS_EmptySet DEF Binds
  <2>3. h \in steals
    BY <2>1, <2>2
  <2>4. h[1] \in Connectors(page) /\ h[2] \in BOOLEAN
    BY <1>4, <2>3 DEF Steals
  <2>5. h[1] \in Ids(page) /\ page.node[h[1]].kind = "conn"
    BY <2>4 DEF Connectors
  <2>6. h[1] \in Ids(inked.page) /\ inked.page.node[h[1]].kind = "conn"
    BY <1>17, <1>18, <2>5
  <2>7. x \in Ids(inked.page) /\ inked.page.node[x].kind = "ink"
    BY <1>17, <1>18 DEF RootInk
  <2>8. Up(inked.page)[x] = Root
    BY <1>17, <1>18 DEF RootInk
  <2>9. new = BindEndpointInk(inked, x, h)
    BY <1>18, <2>1 DEF Binds
  <2>10. Sane(new) /\ Fills(inked, new)
    BY <1>13, <2>4, <2>6, <2>7, <2>8, <2>9, BindSane
  <2> QED
    BY <1>16, <1>18, <2>10
<1>19. CASE Has(inked.page, x) /\ Joins(inked, x, holders, new)
  <2>1. PICK b : b = Last(holders)
    OBVIOUS
  <2>2. b \in Ids(page) /\ Up(page)[b] = Root /\ page.node[b].kind = "box"
    BY <1>4, <1>6, <1>19, <2>1, HoldersIs DEF Joins
  <2>3. b \in Ids(inked.page) /\ Up(inked.page)[b] = Root /\ inked.page.node[b].kind = "box"
    BY <1>17, <1>19, <2>2
  <2>4. x \in Ids(inked.page) /\ inked.page.node[x].kind = "ink" /\ Up(inked.page)[x] = Root
    BY <1>17, <1>19 DEF RootInk
  <2>5. new = Commit(inked, JoinSmartGroup(x, b))
    BY <1>19, <2>1 DEF Joins
  <2>6. Sane(new) /\ Fills(inked, new)
    BY <1>13, <2>3, <2>4, <2>5, JoinSane
  <2> QED
    BY <1>16, <1>19, <2>6
<1>20. CASE Has(inked.page, x) /\ new = RecognizeConnector(inked, x)
  <2>1. RootInk(inked.page, x) /\ Known(Outline(inked.page), x + 1)
    BY <1>17, <1>20
  <2>2. Sane(new) /\ Fills(inked, new)
    BY <1>13, <1>20, <2>1, ConnectorSane
  <2> QED
    BY <1>16, <1>20, <2>2
<1>21. \/ Binds(inked, x, steals, new) \/ Joins(inked, x, holders, new)
       \/ new = inked
       \/ new = Enclose(d, x, s)
       \/ Has(inked.page, x) /\ new = RecognizeConnector(inked, x)
  BY <1>5, DispatchCases
<1>22. Binds(inked, x, steals, new) \/ Joins(inked, x, holders, new) => Has(inked.page, x)
  BY DEF Binds, Joins
<1> QED
  BY <1>11, <1>12, <1>18, <1>19, <1>20, <1>21, <1>22

\* The whole pen-up.
LEMMA PenUpDealt ==
  ASSUME NEW d, DocOK(d), NEW s, StrokeOK(s), NEW new, new = DispatchPenUp(d, s)
  PROVE  Dealt(d, new) /\ Fills(d, new)
<1>1. PICK c, x : c = WithIds(d, 2) /\ x = d.next
  OBVIOUS
<1>2. DocOK(c) /\ c.page = d.page /\ c.next = d.next + 2 /\ c.latched = d.latched /\ c.undo = d.undo
  <2>1. 2 \in Nat
    OBVIOUS
  <2>2. DocOK(c) /\ c.page = d.page /\ c.next = d.next + 2 /\ c.latched = d.latched
    BY <1>1, <2>1, NextMore
  <2>3. c.undo = d.undo
    BY <1>1 DEF WithIds
  <2> QED
    BY <2>2, <2>3
<1>3. x \in Nat \ {0} /\ Known(Outline(d.page), x)
  BY <1>1, DocIs
<1>4. new = DispatchFor(c, x, s)
  BY <1>1 DEF DispatchPenUp, WithIds
<1>5. Dealt(c, new) /\ Fills(c, new)
  BY <1>1, <1>2, <1>3, <1>4, DispatchDealt
<1>6. Fills(d, new)
  <2>1. DOMAIN d = DocFields
    BY DEF DocOK, DocShape
  <2> QED
    BY <1>1, <1>5, <2>1, FilledMore DEF Fills
<1> QED
  BY <1>2, <1>5, <1>6 DEF Dealt, AsBefore

-----------------------------------------------------------------------------
(***************************************************************************)
(* Ids are handed out and never taken back.                                *)
(***************************************************************************)
Keeps(d, new) == DOMAIN new = DocFields /\ new.next = d.next
\* An undo or a redo hands out no id.
LEMMA ReplayedKeeps ==
  ASSUME NEW d, DOMAIN d = DocFields, NEW e, NEW isUndo, NEW run, NEW new, new = Replayed(d, e, isUndo, run)
  PROVE  Keeps(d, new)
<1>1. PICK marks, other : /\ marks = IF isUndo THEN e.last ELSE [x \in DOMAIN e.last |-> e.op]
                          /\ other = [e EXCEPT !.inv = e.fwd, !.fwd = e.inv]
  OBVIOUS
<1>2. PICK page : page = Refresh(Stamp(run.page, marks))
  OBVIOUS
<1>3. PICK c : c = [d EXCEPT !.page = page]
  OBVIOUS
<1>4. PICK undo, redo : /\ undo = IF isUndo THEN c.undo ELSE Append(c.undo, other)
                        /\ redo = IF isUndo THEN Append(c.redo, other) ELSE c.redo
  OBVIOUS
<1>5. new = d \/ new = [c EXCEPT !.undo = undo, !.redo = redo]
  BY <1>1, <1>2, <1>3, <1>4 DEF Replayed
<1>6. DOMAIN c = DocFields /\ c.next = d.next
  BY <1>3 DEF DocFields
<1> QED
  BY <1>5, <1>6 DEF Keeps, DocFields

\* Undo.
LEMMA UndoKeeps ==
  ASSUME NEW d, DOMAIN d = DocFields, NEW new, new = UndoNow(d)
  PROVE  Keeps(d, new)
<1>1. PICK c, e : c = [d EXCEPT !.undo = Front(d.undo)] /\ e = Last(d.undo)
  OBVIOUS
<1>2. PICK run : run = Replay(c.page, e.inv)
  OBVIOUS
<1>3. new = d \/ new = Replayed(c, e, TRUE, run)
  BY <1>1, <1>2 DEF UndoNow, History
<1>4. DOMAIN c = DocFields /\ c.next = d.next
  BY <1>1 DEF DocFields
<1>5. new = Replayed(c, e, TRUE, run) => Keeps(c, new)
  BY <1>4, ReplayedKeeps
<1> QED
  BY <1>3, <1>4, <1>5 DEF Keeps

\* Redo.
LEMMA RedoKeeps ==
  ASSUME NEW d, DOMAIN d = DocFields, NEW new, new = RedoNow(d)
  PROVE  Keeps(d, new)
<1>1. PICK c, e : c = [d EXCEPT !.redo = Front(d.redo)] /\ e = Last(d.redo)
  OBVIOUS
<1>2. PICK run : run = Replay(c.page, e.inv)
  OBVIOUS
<1>3. new = d \/ new = Replayed(c, e, FALSE, run)
  BY <1>1, <1>2 DEF RedoNow, History
<1>4. DOMAIN c = DocFields /\ c.next = d.next
  BY <1>1 DEF DocFields
<1>5. new = Replayed(c, e, FALSE, run) => Keeps(c, new)
  BY <1>4, ReplayedKeeps
<1> QED
  BY <1>3, <1>4, <1>5 DEF Keeps

\* Nor does recording an entry, with the latched undo it runs,
LEMMA RecordedKeeps ==
  ASSUME NEW d, DOMAIN d = DocFields, NEW page, NEW inv, NEW edits, NEW pre,
         NEW new, new = Recorded(d, page, inv, edits, pre)
  PROVE  Keeps(d, new)
<1>1. PICK op, marks : op = d.op + 1 /\ marks = Targets(d.page, edits)
  OBVIOUS
<1>2. PICK done : done = Refresh(Stamp(page, [x \in DOMAIN marks |-> op]))
  OBVIOUS
<1>3. PICK undo : undo = Append(d.undo, Entry(op, inv, edits, marks, pre, done))
  OBVIOUS
<1>4. PICK c : c = [d EXCEPT !.page = done, !.op = op, !.redo = << >>, !.undo = undo]
  OBVIOUS
<1>5. new = RunLatched(c)
  BY <1>1, <1>2, <1>3, <1>4 DEF Recorded
<1>6. DOMAIN c = DocFields /\ c.next = d.next
  BY <1>4 DEF DocFields
<1>7. PICK b : b = [c EXCEPT !.latched = FALSE]
  OBVIOUS
<1>8. DOMAIN b = DocFields /\ b.next = d.next
  BY <1>6, <1>7 DEF DocFields
<1>9. new = c \/ new = UndoNow(b)
  BY <1>5, <1>7 DEF RunLatched
<1>10. new = UndoNow(b) => Keeps(b, new)
  BY <1>8, UndoKeeps
<1> QED
  BY <1>6, <1>8, <1>9, <1>10 DEF Keeps

\* a commit,
LEMMA CommitKeeps ==
  ASSUME NEW d, DOMAIN d = DocFields, NEW e, NEW pre, NEW new, new = CommitFrom(d, e, pre)
  PROVE  Keeps(d, new)
<1>1. PICK r, inv, edits : r = Apply(d.page, e) /\ inv = GenerateUndo(d.page, e) /\ edits = <<e>>
  OBVIOUS
<1>2. PICK page : page = r.page
  OBVIOUS
<1>3. new = Recorded(d, page, inv, edits, pre) \/ new = [d EXCEPT !.page = page, !.stuck = TRUE]
  BY <1>1, <1>2 DEF CommitFrom, CommitApplied
<1>4. new = Recorded(d, page, inv, edits, pre) => Keeps(d, new)
  BY RecordedKeeps
<1> QED
  BY <1>3, <1>4 DEF Keeps, DocFields

\* or a commit of parts.
LEMMA PartsKeep ==
  ASSUME NEW d, DOMAIN d = DocFields, NEW es, NEW pre, NEW new, new = CommitPartsFrom(d, es, pre)
  PROVE  Keeps(d, new)
<1>1. PICK r, inv : r = RunParts(d.page, es) /\ inv = Inverses(d.page, es)
  OBVIOUS
<1>2. PICK page : page = r.page
  OBVIOUS
<1>3. new = d \/ new = Recorded(d, page, inv, es, pre) \/ new = [d EXCEPT !.stuck = TRUE]
  BY <1>1, <1>2 DEF CommitPartsFrom, CommitRun
<1>4. new = Recorded(d, page, inv, es, pre) => Keeps(d, new)
  BY RecordedKeeps
<1> QED
  BY <1>3, <1>4 DEF Keeps, DocFields

\* A commit from the page there is.
LEMMA CommitHere ==
  ASSUME NEW d, DOMAIN d = DocFields, NEW e, NEW new, new = Commit(d, e)
  PROVE  Keeps(d, new)
<1>1. PICK pre : pre = d.page
  OBVIOUS
<1>2. new = CommitFrom(d, e, pre)
  BY <1>1 DEF Commit
<1> QED
  BY <1>2, CommitKeeps

\* The same with parts.
LEMMA PartsHere ==
  ASSUME NEW d, DOMAIN d = DocFields, NEW es, NEW new, new = CommitParts(d, es)
  PROVE  Keeps(d, new)
<1>1. PICK pre : pre = d.page
  OBVIOUS
<1>2. new = CommitPartsFrom(d, es, pre)
  BY <1>1 DEF CommitParts
<1> QED
  BY <1>2, PartsKeep

-----------------------------------------------------------------------------
Grows(d, new) == new.next \in Nat /\ d.next <= new.next
\* The next fresh id stays.
LEMMA KeepsGrows ==
  ASSUME NEW d, d.next \in Nat, NEW new, Keeps(d, new)
  PROVE  Grows(d, new)
  BY DEF Keeps, Grows

\* A gesture that takes ids and then commits only moves it on.
LEMMA MoreKeeps ==
  ASSUME NEW d, DOMAIN d = DocFields, d.next \in Nat, NEW k \in Nat, NEW c, c = WithIds(d, k),
         NEW new, Keeps(c, new)
  PROVE  Grows(d, new) /\ DOMAIN c = DocFields
<1>1. c.next = d.next + k
  BY DEF WithIds, DocFields
<1> QED
  BY <1>1 DEF Keeps, Grows, WithIds

\* Taking ids keeps the fields of the document.
LEMMA WithShape ==
  ASSUME NEW d, DOMAIN d = DocFields, NEW k, NEW c, c = WithIds(d, k)
  PROVE  DOMAIN c = DocFields
  BY DEF WithIds

\* No gesture moves the next fresh id back: the brush,
LEMMA BrushGrows ==
  ASSUME NEW d, DOMAIN d = DocFields, d.next \in Nat, Tree(d.page), NEW R, NEW rev, NEW new,
             new = EraseBrush(d, R, rev)
  PROVE  Grows(d, new)
<1>1. PICK hits, es, k, none : /\ none = {} /\ hits = HitInks(d.page, R, none) /\ k = Len(hits)
                         /\ es = PlanErase(d.page, R, none, d.next, rev)
  OBVIOUS
<1>2. k \in Nat
  BY <1>1, HitIs
<1>3. PICK c : c = WithIds(d, k)
  OBVIOUS
<1>4. new = CommitParts(c, es)
  BY <1>1, <1>3 DEF EraseBrush
<1> QED
  BY <1>2, <1>3, <1>4, WithShape, PartsHere, MoreKeeps

\* the area eraser,
LEMMA AreaGrows ==
  ASSUME NEW d, DOMAIN d = DocFields, d.next \in Nat, Tree(d.page), NEW R, NEW rev, NEW new,
             new = EraseArea(d, R, rev)
  PROVE  Grows(d, new)
<1>1. PICK S : S = {x \in Roots(d.page) : FullyInside(d.page, x, R)}
  OBVIOUS
<1>2. PICK out : out = Among(d.page, S)
  OBVIOUS
<1>3. PICK skip : skip = Range(out)
  OBVIOUS
<1>4. PICK hits, es, k : /\ hits = HitInks(d.page, R, skip) /\ k = Len(hits)
                         /\ es = Removes(out) \o PlanErase(d.page, R, skip, d.next, rev)
  OBVIOUS
<1>5. k \in Nat
  BY <1>4, HitIs
<1>6. PICK c : c = WithIds(d, k)
  OBVIOUS
<1>7. new = CommitParts(c, es)
  BY <1>1, <1>2, <1>3, <1>4, <1>6 DEF EraseArea
<1> QED
  BY <1>5, <1>6, <1>7, WithShape, PartsHere, MoreKeeps

\* the object eraser,
LEMMA ObjectGrows ==
  ASSUME NEW d, DOMAIN d = DocFields, d.next \in Nat, NEW R, NEW new, new = EraseObject(d, R)
  PROVE  Grows(d, new)
<1>1. \E es : new = CommitParts(d, es)
  BY DEF EraseObject
<1> QED
  BY <1>1, PartsHere, KeepsGrows

\* a cut,
LEMMA CutGrows ==
  ASSUME NEW d, DOMAIN d = DocFields, d.next \in Nat, NEW ids, NEW new, new = CutSelection(d, ids)
  PROVE  Grows(d, new)
<1>1. \E es : new = CommitParts(d, es)
  BY DEF CutSelection
<1> QED
  BY <1>1, PartsHere, KeepsGrows

\* grouping,
LEMMA GroupGrows ==
  ASSUME NEW d, DOMAIN d = DocFields, d.next \in Nat, NEW ids, NEW new, new = GroupSelection(d, ids)
  PROVE  Grows(d, new)
<1>1. PICK c, k : k = 1 /\ c = WithIds(d, k)
  OBVIOUS
<1>2. new = d \/ \E e : new = Commit(c, e)
  BY <1>1 DEF GroupSelection
<1>3. k \in Nat /\ DOMAIN c = DocFields
  BY <1>1, WithShape
<1>4. (\E e : new = Commit(c, e)) => Grows(d, new)
  BY <1>1, <1>3, CommitHere, MoreKeeps
<1> QED
  BY <1>2, <1>4 DEF Grows

\* a drag,
LEMMA MoveGrows ==
  ASSUME NEW d, DOMAIN d = DocFields, d.next \in Nat, NEW b, NEW dx, NEW new, new = MoveBox(d, b, dx)
  PROVE  Grows(d, new)
<1>1. PICK page : page = Dragged(d.page, b, dx)
  OBVIOUS
<1>2. PICK live : live = [d EXCEPT !.page = page]
  OBVIOUS
<1>3. DOMAIN live = DocFields /\ live.next = d.next
  BY <1>2 DEF DocFields
<1>4. \E pre, e, es : new = CommitFrom(live, e, pre) \/ new = CommitPartsFrom(live, es, pre)
  BY <1>1, <1>2 DEF MoveBox
<1>5. Keeps(live, new)
  BY <1>3, <1>4, CommitKeeps, PartsKeep
<1> QED
  BY <1>3, <1>5 DEF Keeps, Grows

\* a paste,
LEMMA PasteGrows ==
  ASSUME NEW d, DOMAIN d = DocFields, d.next \in Nat, NEW copied, Cardinality(Sources(copied)) \in Nat,
         NEW x, NEW new, new = Paste(d, copied, x)
  PROVE  Grows(d, new)
<1>1. PICK c, k : k = Cardinality(Sources(copied)) /\ c = WithIds(d, k)
  OBVIOUS
<1>2. new = d \/ \E es : new = CommitParts(c, es)
  BY <1>1 DEF Paste
<1>3. k \in Nat /\ DOMAIN c = DocFields
  BY <1>1, WithShape
<1>4. (\E es : new = CommitParts(c, es)) => Grows(d, new)
  BY <1>1, <1>3, PartsHere, MoreKeeps
<1> QED
  BY <1>2, <1>4 DEF Grows

-----------------------------------------------------------------------------
\* and a stroke.
LEMMA PenUpGrows ==
  ASSUME NEW d, DOMAIN d = DocFields, d.next \in Nat, NEW s, NEW new, new = DispatchPenUp(d, s)
  PROVE  Grows(d, new)
<1>1. PICK c, x, k : k = 2 /\ c = WithIds(d, k) /\ x = d.next
  OBVIOUS
<1>2. k \in Nat /\ DOMAIN c = DocFields
  BY <1>1, WithShape
<1>3. PICK e : e = AppendInk(x, Ink(s.lo, s.hi, s.loop, "none"), Root, Root)
  OBVIOUS
<1>4. PICK inked, steals, holders : inked = Commit(c, e) /\ steals = Steals(c.page, s)
                                        /\ holders = Holders(c.page, s)
  OBVIOUS
<1>5. new = Dispatched(c, x, s, inked, steals, holders)
  BY <1>1, <1>3, <1>4 DEF DispatchPenUp, DispatchFor, WithIds
<1>6. Keeps(c, inked)
  BY <1>2, <1>4, CommitHere
<1>7. DOMAIN inked = DocFields /\ inked.next = c.next
  BY <1>6 DEF Keeps
<1>8. PICK h : h = CHOOSE y \in steals : TRUE
  OBVIOUS
<1>9. PICK f : f = JoinSmartGroup(x, Last(holders))
  OBVIOUS
<1>10. \/ new = BindEndpointInk(inked, x, h) \/ new = Commit(inked, f) \/ new = inked
       \/ new = Enclose(c, x, s) \/ new = RecognizeConnector(inked, x)
  BY <1>5, <1>8, <1>9, DispatchCases DEF Binds, Joins
<1>11. new = BindEndpointInk(inked, x, h) => \E es : new = CommitParts(inked, es)
  BY DEF BindEndpointInk
<1>12. new = Enclose(c, x, s) => \E g : new = Commit(c, g)
  BY DEF Enclose
<1>13. new = RecognizeConnector(inked, x) => new = inked \/ \E g : new = Commit(inked, g)
  BY DEF RecognizeConnector, ConnectorOf, ConnectorAlong, ConnectorFrom, ConnectorBetween
<1>14. (\E es : new = CommitParts(inked, es)) => Keeps(inked, new)
  BY <1>7, PartsHere
<1>15. (\E g : new = Commit(inked, g)) => Keeps(inked, new)
  BY <1>7, CommitHere
<1>16. (\E g : new = Commit(c, g)) => Keeps(c, new)
  BY <1>2, CommitHere
<1>17. Keeps(c, new)
  BY <1>6, <1>7, <1>10, <1>11, <1>12, <1>13, <1>14, <1>15, <1>16 DEF Keeps
<1> QED
  BY <1>1, <1>2, <1>17, MoreKeeps

-----------------------------------------------------------------------------
\* What TappedBox goes through.
TappedRun(f, page, c) ==
    /\ f[0] = Root
    /\ \A i \in 1..Cardinality(Ids(page)) : f[i] = Deeper(page, f[i - 1], c)
    /\ TappedBox(page, c) = f[Cardinality(Ids(page))]

\* The recursion of TappedBox, step by step.
LEMMA TappedUnfold ==
  ASSUME NEW page, NEW c, Cardinality(Ids(page)) \in Nat
  PROVE  \E f : TappedRun(f, page, c)
<1> DEFINE n == Cardinality(Ids(page))
           Eq(f, m) == f = [i \in 0..m |-> IF i = 0 THEN Root ELSE Deeper(page, f[i - 1], c)]
           Reached == {m \in Nat : \E f : Eq(f, m)}
<1>1. 0 \in Reached
  <2>1. Eq([i \in 0..0 |-> Root], 0)
    OBVIOUS
  <2> HIDE DEF Eq
  <2> QED
    BY <2>1
<1>2. ASSUME NEW m \in Nat, m \in Reached PROVE m + 1 \in Reached
  <2>1. PICK f : Eq(f, m)
    BY <1>2
  <2> DEFINE g == [i \in 0..(m + 1) |-> IF i = m + 1 THEN Deeper(page, f[m], c) ELSE f[i]]
             w == [i \in 0..(m + 1) |-> IF i = 0 THEN Root ELSE Deeper(page, g[i - 1], c)]
  <2>2. \A i \in 0..(m + 1) : g[i] = w[i]
    <3> TAKE i \in 0..(m + 1)
    <3>1. CASE i = 0
      BY <2>1, <3>1
    <3>2. CASE i = m + 1
      <4>1. g[i] = Deeper(page, f[m], c) /\ i - 1 = m /\ i # 0 /\ m \in 0..(m + 1) /\ m # m + 1
        BY <3>2
      <4>2. g[m] = f[m]
        BY <4>1
      <4> QED
        BY <3>2, <4>1, <4>2
    <3>3. CASE i \in 1..m
      <4>1. i \in 0..m /\ i # 0 /\ i # m + 1 /\ i - 1 \in 0..m /\ i - 1 # m + 1 /\ i - 1 \in 0..(m + 1)
        BY <3>3
      <4>2. g[i] = f[i] /\ g[i - 1] = f[i - 1]
        BY <4>1
      <4>3. f[i] = Deeper(page, f[i - 1], c)
        BY <2>1, <4>1
      <4> QED
        BY <4>1, <4>2, <4>3
    <3> QED
      BY <3>1, <3>2, <3>3
  <2>3. g = w
    BY <2>2
  <2> HIDE DEF g
  <2>4. Eq(g, m + 1)
    BY <2>3
  <2> HIDE DEF Eq
  <2> QED
    BY <2>4
<1> HIDE DEF Reached
<1>3. n \in Reached
  BY <1>1, <1>2, InductionSet
<1>4. PICK f : Eq(f, n)
  BY <1>3 DEF Reached
<1> DEFINE a == CHOOSE h : Eq(h, n)
<1>5. Eq(a, n)
  <2> HIDE DEF Eq
  <2> QED
    BY <1>4
<1>6. TappedBox(page, c) = a[n]
  BY DEF TappedBox
<1> HIDE DEF a
<1>7. a[0] = Root /\ \A i \in 1..n : a[i] = Deeper(page, a[i - 1], c)
  <2>1. a = [i \in 0..n |-> IF i = 0 THEN Root ELSE Deeper(page, a[i - 1], c)]
    BY <1>5
  <2>2. 0 \in 0..n /\ \A i \in 1..n : i \in 0..n /\ i # 0
    OBVIOUS
  <2>3. a[0] = Root
    BY <2>1, <2>2
  <2>4. ASSUME NEW i \in 1..n PROVE a[i] = Deeper(page, a[i - 1], c)
    <3>1. PICK v : v = Deeper(page, a[i - 1], c)
      OBVIOUS
    <3>2. i \in 0..n /\ i # 0
      BY <2>2
    <3> HIDE DEF n
    <3>3. a[i] = v
      BY <2>1, <3>1, <3>2
    <3> QED
      BY <3>1, <3>3
  <2> QED
    BY <2>3, <2>4
<1> QED
  BY <1>6, <1>7 DEF TappedRun

\* The last of a list is one of it.
LEMMA LastOfSome ==
  ASSUME NEW T, NEW s \in Seq(T), s # << >>, NEW x, x = Last(s)
  PROVE  x \in T /\ x \in Range(s)
<1>1. PICK n : n = Len(s)
  OBVIOUS
<1>2. n \in Nat /\ n # 0 /\ DOMAIN s = 1..n /\ x = s[n] /\ n \in 1..n
  BY <1>1 DEF Last
<1> QED
  BY <1>2 DEF Range

BoxOf(page, q) == q = Root \/ (q \in Ids(page) /\ page.node[q].kind = "box")
\* A tap looks in boxes only.
LEMMA DeeperIs ==
  ASSUME NEW page, Tree(page), NEW b, BoxOf(page, b), NEW c, NEW q, q = Deeper(page, b, c)
  PROVE  BoxOf(page, q)
<1>1. PICK boxes : boxes = Kids(page, b, "box")
  OBVIOUS
<1>2. PICK S : S = {y \in Range(boxes) : c \in ComposedBounds(page, y)}
  OBVIOUS
<1>3. PICK some : some = Kept(boxes, S)
  OBVIOUS
<1>4. q = IF some = << >> THEN b ELSE Last(some)
  BY <1>1, <1>2, <1>3 DEF Deeper, BoxesAt
<1>5. b \in Ids(page) \cup {Root}
  BY DEF BoxOf
<1>6. boxes \in Seq(Ids(page)) /\ \A x \in Range(boxes) : page.node[x].kind = "box"
  BY <1>1, <1>5, KidsOf
<1>7. some \in Seq(Ids(page)) /\ Range(some) = Range(boxes) \cap S
  BY <1>3, <1>6, KeptIs
<1>8. some # << >> => q \in Ids(page) /\ q \in Range(some)
  BY <1>4, <1>7, LastOfSome
<1> QED
  BY <1>4, <1>6, <1>7, <1>8 DEF BoxOf

\* A tap finds a box or the page.
LEMMA TappedBoxIs ==
  ASSUME NEW page, Tree(page), NEW c, NEW q, q = TappedBox(page, c)
  PROVE  BoxOf(page, q)
<1>1. PICK n : n = Cardinality(Ids(page))
  OBVIOUS
<1>2. n \in Nat
  BY <1>1, TreeIs, FS_CardinalityType DEF Sound
<1>3. PICK f : TappedRun(f, page, c)
  BY <1>1, <1>2, TappedUnfold
<1>4. f[0] = Root /\ (\A i \in 1..n : f[i] = Deeper(page, f[i - 1], c)) /\ q = f[n]
  BY <1>1, <1>3 DEF TappedRun
<1>5. PICK S : S = {i \in Nat : i <= n => BoxOf(page, f[i])}
  OBVIOUS
<1>6. 0 \in S
  BY <1>4, <1>5 DEF BoxOf
<1>7. ASSUME NEW i \in Nat, i \in S PROVE i + 1 \in S
  <2>1. CASE i + 1 <= n
    <3>1. i + 1 \in 1..n /\ (i + 1) - 1 = i /\ i <= n
      BY <1>2, <2>1
    <3>2. f[i + 1] = Deeper(page, f[i], c) /\ BoxOf(page, f[i])
      BY <1>4, <1>5, <1>7, <3>1
    <3>3. BoxOf(page, f[i + 1])
      BY <3>2, DeeperIs
    <3> QED
      BY <1>5, <3>3
  <2> QED
    BY <1>5, <2>1
<1>8. n \in S
  BY <1>2, <1>6, <1>7, InductionSet
<1> QED
  BY <1>2, <1>4, <1>5, <1>8

\* What a tap selects is on the page.
LEMMA TappedIs ==
  ASSUME NEW page, Tree(page), NEW c, NEW q, q = Tapped(page, c), q # Root
  PROVE  q \in Ids(page) /\ (page.node[q].kind # "ink" \/ Up(page)[q] = Root)
<1>1. PICK all, root : all = Kids(page, Root, "conn") /\ root = Kids(page, Root, "ink")
  OBVIOUS
<1>2. PICK S, T : S = {x \in Connectors(page) : c \in Run(page.node[x])}
                      /\ T = {x \in Range(root) : c \in Cells(page.node[x])}
  OBVIOUS
<1>3. PICK conns, inks, b : conns = Kept(all, S) /\ inks = Kept(root, T) /\ b = TappedBox(page, c)
  OBVIOUS
<1>4. q = IF b # Root THEN b ELSE IF conns # << >> THEN Last(conns)
          ELSE IF inks # << >> THEN Last(inks) ELSE Root
  BY <1>1, <1>2, <1>3 DEF Tapped
<1>5. /\ all \in Seq(Ids(page)) /\ root \in Seq(Ids(page))
      /\ \A x : x \in Range(all) \/ x \in Range(root) => Up(page)[x] = Root
  BY <1>1, KidsOf
<1>6. /\ conns \in Seq(Ids(page)) /\ inks \in Seq(Ids(page))
      /\ Range(conns) \subseteq Range(all) /\ Range(inks) \subseteq Range(root)
  BY <1>3, <1>5, KeptIs
<1>7. b # Root => b \in Ids(page) /\ page.node[b].kind = "box"
  BY <1>3, TappedBoxIs DEF BoxOf
<1>8. conns # << >> => Last(conns) \in Ids(page) /\ Last(conns) \in Range(conns)
  BY <1>6, LastOfSome
<1>9. inks # << >> => Last(inks) \in Ids(page) /\ Last(inks) \in Range(inks)
  BY <1>6, LastOfSome
<1>10. /\ conns # << >> => Last(conns) \in Ids(page) /\ Up(page)[Last(conns)] = Root
       /\ inks # << >> => Last(inks) \in Ids(page) /\ Up(page)[Last(inks)] = Root
  BY <1>5, <1>6, <1>8, <1>9
<1> QED
  BY <1>4, <1>7, <1>10

-----------------------------------------------------------------------------
(***************************************************************************)
(* The clipboard.                                                          *)
(***************************************************************************)
LEMMA SlotMore ==
  ASSUME NEW copied, NEW m \in Nat, SlotOK(copied, m), NEW n \in Nat, m <= n
  PROVE  SlotOK(copied, n)
<1>1. Lots(copied, 1..(m - 1)) /\ \A f \in Range(copied) : Fine(f, m)
  BY DEF SlotOK, FineLot
<1>2. 1..(m - 1) \subseteq 1..(n - 1)
  OBVIOUS
<1>3. Lots(copied, 1..(n - 1))
  BY <1>1, <1>2, LotsMore
<1>4. ASSUME NEW f \in Range(copied) PROVE Fine(f, n)
  <2>1. BodyOK(f) /\ \A x \in DOMAIN f.node : Named(f.node[x], m)
    BY <1>1 DEF Fine
  <2>2. ASSUME NEW x \in DOMAIN f.node PROVE Named(f.node[x], n)
    <3>1. f.node[x] \in Node /\ Named(f.node[x], m)
      BY <2>1, BodyNode
    <3>2. f.node[x].kind = "conn" => f.node[x].from \in Nat /\ f.node[x].to \in Nat
      BY <3>1, KindIs, ConnIs
    <3> QED
      BY <3>1, <3>2 DEF Named
  <2> QED
    BY <2>1, <2>2 DEF Fine
<1> QED
  BY <1>3, <1>4 DEF SlotOK, FineLot

\* The empty clipboard.
LEMMA NothingCopied ==
  ASSUME NEW next
  PROVE  SlotOK(<< >>, next)
<1>1. Lots(<< >>, 1..(next - 1)) /\ Range(<< >>) = {}
  BY LotsNone
<1> QED
  BY <1>1 DEF SlotOK, FineLot

\* The clipboard has finitely many sources.
LEMMA SourcesCount ==
  ASSUME NEW copied, NEW next \in Nat, SlotOK(copied, next)
  PROVE  Cardinality(Sources(copied)) \in Nat
<1>1. \A i \in DOMAIN copied : DOMAIN copied[i].node \subseteq 1..(next - 1)
  BY DEF SlotOK, FineLot, Lots
<1>2. PICK S : S = Sources(copied)
  OBVIOUS
<1>3. S \subseteq 1..(next - 1)
  BY <1>1, <1>2 DEF Sources
<1>4. IsFiniteSet(1..(next - 1))
  BY FS_Interval
<1> QED
  BY <1>2, <1>3, <1>4, FS_Subset, FS_CardinalityType

-----------------------------------------------------------------------------
\* A copy forgets its lastOpId.
LEMMA UnmarkedIs ==
  ASSUME NEW n \in Node, NEW m, m = [n EXCEPT !.last = 0]
  PROVE  m \in Node /\ m.kind = n.kind /\ \A next : Named(n, next) => Named(m, next)
<1>1. PICK marks : marks = [x \in {1} |-> 0]
  OBVIOUS
<1>2. 1 \in DOMAIN marks /\ marks[1] = 0
  BY <1>1
<1>3. m = Marked(n, 1, marks)
  BY <1>2 DEF Marked
<1>4. m \in Node /\ m.kind = n.kind /\ \A f \in DOMAIN n : f # "last" => m[f] = n[f]
  BY <1>2, <1>3, MarkedIs
<1>5. n.kind = "conn" => "from" \in DOMAIN n /\ "to" \in DOMAIN n
  BY KindIs, ConnIs DEF Record, ConnFields
<1>6. n.kind = "conn" => m.from = n.from /\ m.to = n.to
  BY <1>4, <1>5
<1> QED
  BY <1>4, <1>6 DEF Named

\* Root nodes, or one node that is no ink of a box.
Selected(page, ids) ==
    /\ ids \in Seq(Ids(page)) /\ OneOnly(ids)
    /\ Len(ids) = 1 \/ \A i \in DOMAIN ids : Up(page)[ids[i]] = Root
    /\ \A i \in DOMAIN ids : page.node[ids[i]].kind # "ink" \/ Up(page)[ids[i]] = Root

\* A page whose nodes forgot theirs is the same tree.
LEMMA BareIs ==
  ASSUME NEW page, Tree(page), NEW new,
         new = [page EXCEPT !.node = [x \in DOMAIN @ |-> [@[x] EXCEPT !.last = 0]]]
  PROVE  /\ Tree(new) /\ Ids(new) = Ids(page) /\ Up(new) = Up(page)
         /\ \A next : \A x \in Ids(page) : Named(page.node[x], next) => Named(new.node[x], next)
         /\ \A x \in Ids(page) : new.node[x].kind = page.node[x].kind
<1>1. page = [node |-> page.node, kids |-> page.kids] /\ DOMAIN page.node = Ids(page)
  BY TreeIs
<1>2. PICK node : node = [x \in Ids(page) |-> [page.node[x] EXCEPT !.last = 0]]
  OBVIOUS
<1>3. new = [node |-> node, kids |-> page.kids]
  BY <1>1, <1>2
<1>4. \A x \in Ids(page) : page.node[x] \in Node /\ node[x] = [page.node[x] EXCEPT !.last = 0]
  BY <1>2, TreeIs
<1>5. \A x \in Ids(page) : /\ node[x] \in Node /\ node[x].kind = page.node[x].kind
                           /\ \A next : Named(page.node[x], next) => Named(node[x], next)
  BY <1>4, UnmarkedIs
<1>6. node \in [Ids(page) -> Node]
  <2>1. DOMAIN node = Ids(page) /\ node = [x \in Ids(page) |-> node[x]]
    BY <1>2
  <2> QED
    BY <1>5, <2>1
<1>7. Tree(new) /\ Outline(new) = [node |-> node, up |-> Up(page)] /\ Ids(new) = Ids(page)
  BY <1>3, <1>5, <1>6, NewNodes
<1>8. Outline(new).node = new.node /\ Outline(new).up = Up(new)
  BY <1>7, TreeIs
<1>9. Up(new) = Up(page) /\ new.node = node
  BY <1>7, <1>8
<1> QED
  BY <1>5, <1>7, <1>9

\* copyToSlot: the clipboard has bodies of known ids.
LEMMA CopiesOK ==
  ASSUME NEW page, Tree(page), NEW next \in Nat, Known(Outline(page), next), NEW ids, Selected(page, ids),
         NEW copied, copied = CopyToSlot(page, ids)
  PROVE  SlotOK(copied, next) /\ (Inked(Outline(page)) => SlotInked(copied))
<1>1. PICK bare : bare = [page EXCEPT !.node = [x \in DOMAIN @ |-> [@[x] EXCEPT !.last = 0]]]
  OBVIOUS
<1>2. /\ Tree(bare) /\ Ids(bare) = Ids(page) /\ Up(bare) = Up(page)
      /\ \A n : \A x \in Ids(page) : Named(page.node[x], n) => Named(bare.node[x], n)
      /\ \A x \in Ids(page) : bare.node[x].kind = page.node[x].kind
  BY <1>1, BareIs
<1>3. copied = [i \in DOMAIN ids |-> Body(bare, ids[i])]
  BY <1>1 DEF CopyToSlot
<1>4. ids \in Seq(Ids(page)) /\ OneOnly(ids) /\ (Len(ids) = 1 \/ \A i \in DOMAIN ids : Up(page)[ids[i]] = Root)
  BY DEF Selected
<1>5. PICK n : n = Len(ids) /\ n \in Nat /\ DOMAIN ids = 1..n
  BY <1>4
<1>6. \A i \in 1..n : ids[i] \in Ids(page)
  BY <1>4, <1>5
<1>7. DOMAIN copied = 1..n /\ copied = [i \in 1..n |-> copied[i]] /\ \A i \in 1..n : copied[i] = Body(bare, ids[i])
  BY <1>3, <1>5, Zenon
<1>8. \A i \in 1..n : ids[i] \in Ids(bare)
  BY <1>2, <1>6
<1>9. \A i \in 1..n : /\ BodyOK(copied[i]) /\ DOMAIN copied[i].node = Below(Up(page), {ids[i]})
                      /\ copied[i].node = Restrict(bare.node, Below(Up(page), {ids[i]}))
  BY <1>2, <1>7, <1>8, BodyTree
<1>10. DOMAIN Up(page) = Ids(page) /\ Ids(page) \subseteq Nat /\ Root \notin Ids(page)
  BY TreeIs
<1>11. \A x \in Ids(page) : x \in 1..(next - 1) /\ Named(page.node[x], next)
  <2>1. (\A x \in Ids(page) : x < next) /\ (\A x \in Ids(page) : Named(page.node[x], next))
    BY KnownIs
  <2> QED
    BY <1>10, <2>1 DEF Root
<1>12. \A i \in 1..n : DOMAIN copied[i].node \subseteq Ids(page)
  BY <1>9, <1>10, BelowIs
<1>13. \A i \in 1..n : Fine(copied[i], next)
  <2> SUFFICES ASSUME NEW i \in 1..n PROVE Fine(copied[i], next)
    OBVIOUS
  <2>1. ASSUME NEW x \in DOMAIN copied[i].node PROVE Named(copied[i].node[x], next)
    <3>1. x \in Ids(page) /\ x \in Below(Up(page), {ids[i]})
      BY <1>9, <1>12
    <3>2. copied[i].node[x] = bare.node[x]
      BY <1>9, <3>1 DEF Restrict
    <3> QED
      BY <1>2, <1>11, <3>1, <3>2
  <2> QED
    BY <1>9, <2>1 DEF Fine
<1>14. ASSUME NEW i \in 1..n, NEW j \in 1..n, i # j PROVE DOMAIN copied[i].node \cap DOMAIN copied[j].node = {}
  <2>1. n # 1
    BY <1>14
  <2>2. Up(page)[ids[i]] = Root /\ Up(page)[ids[j]] = Root
    BY <1>4, <1>5, <2>1
  <2>3. ids[i] # ids[j]
    BY <1>4, <1>5, <1>14 DEF OneOnly
  <2>4. PICK a : a = Outline(page)
    OBVIOUS
  <2>5. Sound(a) /\ a.up = Up(page) /\ DOMAIN a.node = Ids(page)
    BY <2>4, TreeIs
  <2>6. Below(a.up, {ids[i]}) \cap Below(a.up, {ids[j]}) = {}
    BY <1>6, <2>2, <2>3, <2>5, BelowApart
  <2> QED
    BY <1>9, <2>5, <2>6
<1>15. copied \in Seq(Range(copied))
  BY <1>5, <1>7, ListIs
<1>16. Lots(copied, 1..(next - 1))
  <2>1. \A i \in 1..n : DOMAIN copied[i].node \subseteq 1..(next - 1)
    BY <1>11, <1>12
  <2> QED
    BY <1>7, <1>14, <1>15, <2>1 DEF Lots
<1>17. \A f \in Range(copied) : Fine(f, next)
  BY <1>7, <1>13 DEF Range
<1>18. PICK a : a = Outline(bare)
  OBVIOUS
<1>19. /\ Sound(a) /\ a.node = bare.node /\ a.up = Up(page) /\ DOMAIN a.node = Ids(page)
       /\ Outline(page).node = page.node /\ Outline(page).up = Up(page) /\ DOMAIN page.node = Ids(page)
  BY <1>2, <1>18, TreeIs
<1>20. Inked(Outline(page)) => Inked(a)
  <2>1. DOMAIN a.node = DOMAIN Outline(page).node /\ a.up = Outline(page).up
    BY <1>19
  <2>2. \A x \in DOMAIN Outline(page).node : a.node[x].kind = Outline(page).node[x].kind
    BY <1>2, <1>19
  <2> QED
    BY <2>1, <2>2, SameInked
<1>21. ASSUME Inked(a), NEW i \in 1..n PROVE Inked(Plan(copied[i]))
  <2>1. PICK x, p : x = ids[i] /\ p = Plan(copied[i])
    OBVIOUS
  <2>2. x \in DOMAIN a.node /\ p = Part(a, x)
    <3>1. x \in Ids(bare)
      BY <1>8, <2>1
    <3>2. Tree(bare) /\ Ids(bare) = Ids(page)
      BY <1>2
    <3>3. Plan(Body(bare, x)) = Part(Outline(bare), x)
      BY <3>1, <3>2, BodyTree
    <3>4. copied[i] = Body(bare, x)
      BY <1>7, <2>1
    <3> QED
      BY <1>18, <1>19, <2>1, <3>1, <3>2, <3>3, <3>4
  <2>3. p.node = copied[i].node /\ DOMAIN p.node = Below(a.up, {x})
    BY <1>9, <1>13, <1>19, <2>1, BodyIs
  <2>4. \A y \in Below(a.up, {x}) : p.node[y].kind = a.node[y].kind
    <3>1. copied[i].node = Restrict(bare.node, Below(Up(page), {x}))
      BY <1>9, <2>1
    <3>2. \A y \in Below(Up(page), {x}) : copied[i].node[y] = bare.node[y]
      BY <3>1 DEF Restrict
    <3> QED
      BY <1>19, <2>3, <3>2
  <2>5. p.up = Part(a, x).up
    BY <2>2
  <2>6. Sound(a) /\ Inked(a) /\ x \in DOMAIN a.node
    BY <1>19, <1>21, <2>2
  <2>7. Inked(p)
    BY <2>3, <2>4, <2>5, <2>6, PartInked
  <2> QED
    BY <2>1, <2>7
<1>22. Inked(Outline(page)) => SlotInked(copied)
  BY <1>7, <1>20, <1>21 DEF SlotInked, Range
<1> QED
  BY <1>16, <1>17, <1>22 DEF SlotOK, FineLot

\* What copy and cut act on.
LEMMA SelectionIs ==
  ASSUME Tree(doc.page), NEW ids \in Selections
  PROVE  Selected(doc.page, ids)
<1>1. CASE \E R \in Marquees : ids = Lassoed(doc.page, R)
  <2>1. PICK R \in Marquees : ids = Lassoed(doc.page, R)
    BY <1>1
  <2>2. PICK S : ids = Among(doc.page, S)
    BY <2>1 DEF Lassoed
  <2>3. ids \in Seq(Ids(doc.page)) /\ OneOnly(ids) /\ \A i \in DOMAIN ids : Up(doc.page)[ids[i]] = Root
    BY <2>2, AmongIs
  <2> QED
    BY <2>3 DEF Selected
<1>2. CASE \E c : ids = <<Tapped(doc.page, c)>> /\ Tapped(doc.page, c) # Root
  <2>1. PICK c : ids = <<Tapped(doc.page, c)>> /\ Tapped(doc.page, c) # Root
    BY <1>2
  <2>2. PICK x : x = Tapped(doc.page, c)
    OBVIOUS
  <2>3. x \in Ids(doc.page) /\ (doc.page.node[x].kind # "ink" \/ Up(doc.page)[x] = Root)
    BY <2>1, <2>2, TappedIs
  <2>4. ids = <<x>>
    BY <2>1, <2>2
  <2>5. ids \in Seq(Ids(doc.page)) /\ Len(ids) = 1 /\ OneOnly(ids)
    BY <2>3, <2>4 DEF OneOnly
  <2>6. \A i \in DOMAIN ids : ids[i] = x
    BY <2>4
  <2> QED
    BY <2>3, <2>5, <2>6 DEF Selected
<1> QED
  BY <1>1, <1>2 DEF Selections

-----------------------------------------------------------------------------
(***************************************************************************)
(* The invariant.                                                          *)
(***************************************************************************)
Inv == Sane(doc) /\ SlotOK(slot, doc.next)

\* What every document has, refused commit or not.
LEMMA SaneIs ==
  ASSUME NEW d, Sane(d)
  PROVE  /\ DOMAIN d = DocFields /\ d.next \in Nat \ {0} /\ Tree(d.page) /\ Known(Outline(d.page), d.next)
         /\ ~d.stuck => DocOK(d) /\ ~d.latched
<1>1. CASE DocOK(d) /\ ~d.latched
  BY <1>1, DocIs DEF DocOK, DocShape
<1>2. CASE Broken(d)
  BY <1>2 DEF Broken, DocShape
<1> QED
  BY <1>1, <1>2 DEF Sane

\* A document just loaded.
LEMMA NewDocOK ==
  ASSUME NEW page, NEW next \in Nat \ {0}, PageOK(page, next), NEW d, d = NewDoc(page, next)
  PROVE  DocOK(d) /\ ~d.latched /\ d.next = next
<1>1. /\ d.page = page /\ d.undo = << >> /\ d.redo = << >> /\ d.next = next /\ d.op = 0
      /\ d.stuck = FALSE /\ d.latched = FALSE /\ DOMAIN d = DocFields
  BY DEF NewDoc, DocFields
<1>2. DocShape(d)
  <2>1. d.op \in Nat /\ d.next \in Nat \ {0}
    <3>1. d.op = 0 /\ d.next = next
      BY <1>1
    <3> QED
      BY <3>1
  <2>2. d.latched \in BOOLEAN
    <3>1. d.latched = FALSE
      BY <1>1
    <3> QED
      BY <3>1, Zenon
  <2> QED
    BY <1>1, <2>1, <2>2, Zenon DEF DocShape
<1>3. << >> \in Seq(Range(<< >>)) /\ Len(<< >>) = 0
  OBVIOUS
<1>4. Past(d.undo, page, next)
  BY <1>1, <1>3 DEF Past
<1>5. Future(d.redo, page, next)
  BY <1>1, <1>3 DEF Future
<1> QED
  BY <1>1, <1>2, <1>4, <1>5 DEF DocOK, Rings

\* The invariant holds of every document doc_load may bring.
LEMMA InitInv ==
  ASSUME Init
  PROVE  Inv
<1>1. PICK p \in Pages : doc = NewDoc(p.page, p.next)
  BY DEF Init
<1>2. p.next \in Nat \ {0} /\ PageOK(p.page, p.next)
  BY <1>1, PagesAssumption
<1>3. DocOK(doc) /\ ~doc.latched
  BY <1>1, <1>2, NewDocOK
<1>4. SlotOK(slot, doc.next)
  BY NothingCopied DEF Init
<1> QED
  BY <1>3, <1>4 DEF Inv, Sane

\* A step of the document that leaves it sane, and the slot alone.
LEMMA StepInv ==
  ASSUME Inv, NEW new, Sane(new), Grows(doc, new), doc' = new, slot' = slot
  PROVE  Inv'
<1>1. doc.next \in Nat /\ new.next \in Nat /\ doc.next <= new.next /\ SlotOK(slot, doc.next)
  BY SaneIs DEF Inv, Grows
<1>2. SlotOK(slot, new.next)
  BY <1>1, SlotMore
<1> QED
  BY <1>2 DEF Inv

\* Latching an undo changes nothing else.
LEMMA LatchIs ==
  ASSUME NEW d, DocOK(d), NEW b \in BOOLEAN, NEW c, c = [d EXCEPT !.latched = b]
  PROVE  /\ DocOK(c) /\ c.latched = b /\ c.next = d.next /\ c.page = d.page /\ c.undo = d.undo
         /\ c.redo = d.redo /\ DOMAIN c = DocFields
<1>1. DOMAIN d = DocFields /\ d.next \in Nat \ {0} /\ d.op \in Nat
  BY DEF DocOK, DocShape
<1>2. /\ c.latched = b /\ c.next = d.next /\ c.page = d.page /\ c.undo = d.undo /\ c.redo = d.redo
      /\ c.op = d.op /\ c.stuck = d.stuck /\ DOMAIN c = DocFields
  BY <1>1 DEF DocFields
<1>3. DocShape(c)
  BY <1>1, <1>2 DEF DocShape
<1>4. ~d.stuck /\ PageOK(d.page, d.next) /\ Rings(d, d.page)
  BY DEF DocOK
<1>5. Rings(c, c.page)
  BY <1>2, <1>4 DEF Rings
<1> QED
  BY <1>2, <1>3, <1>4, <1>5 DEF DocOK

\* What the invariant says when no gesture was refused.
LEMMA ReadyIs ==
  ASSUME Inv, Ready
  PROVE  /\ DocOK(doc) /\ ~doc.latched /\ DOMAIN doc = DocFields /\ doc.next \in Nat /\ Tree(doc.page)
         /\ Known(Outline(doc.page), doc.next)
<1>1. Sane(doc) /\ ~doc.stuck
  BY DEF Inv, Ready
<1>2. /\ DOMAIN doc = DocFields /\ doc.next \in Nat \ {0} /\ Tree(doc.page)
      /\ Known(Outline(doc.page), doc.next) /\ DocOK(doc) /\ ~doc.latched
  BY <1>1, SaneIs
<1> QED
  BY <1>2

\* Each action keeps the invariant: a stroke,
LEMMA PenInv ==
  ASSUME Inv, NEW s \in Strokes, NEW latched \in BOOLEAN, PenUp(s, latched)
  PROVE  Inv'
<1>1. DocOK(doc) /\ StrokeOK(s)
  BY ReadyIs, GesturesAssumption DEF PenUp, More
<1>2. PICK d : d = [doc EXCEPT !.latched = latched]
  OBVIOUS
<1>3. DocOK(d) /\ d.next = doc.next /\ DOMAIN d = DocFields
  BY <1>1, <1>2, LatchIs
<1>4. PICK new : new = DispatchPenUp(d, s)
  OBVIOUS
<1>5. doc' = new /\ slot' = slot
  BY <1>2, <1>4 DEF PenUp, Did
<1>6. Sane(new)
  BY <1>1, <1>3, <1>4, PenUpDealt DEF Dealt
<1>7. Grows(d, new)
  <2>1. d.next \in Nat
    BY <1>3, DocIs
  <2> QED
    BY <1>3, <1>4, <2>1, PenUpGrows
<1>8. Grows(doc, new)
  BY <1>3, <1>7 DEF Grows
<1> QED
  BY <1>5, <1>6, <1>8, StepInv

\* the brush,
LEMMA BrushInv ==
  ASSUME Inv, NEW R \in Regions, NEW rev \in BOOLEAN, Brush(R, rev)
  PROVE  Inv'
<1>1. DocOK(doc) /\ ~doc.latched /\ DOMAIN doc = DocFields /\ doc.next \in Nat /\ Tree(doc.page) /\ Sweep(R)
  BY ReadyIs, GesturesAssumption DEF Brush, More
<1>2. PICK new : new = EraseBrush(doc, R, rev)
  OBVIOUS
<1>3. Sane(new) /\ Grows(doc, new)
  BY <1>1, <1>2, BrushSane, BrushGrows
<1> QED
  BY <1>2, <1>3, StepInv DEF Brush, Did

\* the area eraser,
LEMMA AreaInv ==
  ASSUME Inv, NEW R \in Regions, NEW rev \in BOOLEAN, Area(R, rev)
  PROVE  Inv'
<1>1. DocOK(doc) /\ ~doc.latched /\ DOMAIN doc = DocFields /\ doc.next \in Nat /\ Tree(doc.page) /\ Sweep(R)
  BY ReadyIs, GesturesAssumption DEF Area, More
<1>2. PICK new : new = EraseArea(doc, R, rev)
  OBVIOUS
<1>3. Sane(new) /\ Grows(doc, new)
  BY <1>1, <1>2, AreaSane, AreaGrows
<1> QED
  BY <1>2, <1>3, StepInv DEF Area, Did

\* the object eraser,
LEMMA ObjectInv ==
  ASSUME Inv, NEW R \in Regions, Object(R)
  PROVE  Inv'
<1>1. DocOK(doc) /\ ~doc.latched /\ DOMAIN doc = DocFields /\ doc.next \in Nat /\ Sweep(R)
  BY ReadyIs, GesturesAssumption DEF Object, More
<1>2. PICK new : new = EraseObject(doc, R)
  OBVIOUS
<1>3. Sane(new) /\ Grows(doc, new)
  BY <1>1, <1>2, ObjectSane, ObjectGrows
<1> QED
  BY <1>2, <1>3, StepInv DEF Object, Did

\* grouping a lasso,
LEMMA GroupInv ==
  ASSUME Inv, NEW R \in Regions, Group(R)
  PROVE  Inv'
<1>1. DocOK(doc) /\ ~doc.latched /\ DOMAIN doc = DocFields /\ doc.next \in Nat /\ Tree(doc.page)
  BY ReadyIs DEF Group, More
<1>2. PICK ids : ids = Lassoed(doc.page, R)
  OBVIOUS
<1>3. PICK S : ids = Among(doc.page, S)
  BY <1>2 DEF Lassoed
<1>4. ids \in Seq(Ids(doc.page)) /\ OneOnly(ids) /\ \A i \in DOMAIN ids : Up(doc.page)[ids[i]] = Root
  BY <1>1, <1>3, AmongIs
<1>5. PICK new : new = GroupSelection(doc, ids)
  OBVIOUS
<1>6. Sane(new) /\ Grows(doc, new)
  BY <1>1, <1>4, <1>5, GroupSane, GroupGrows
<1> QED
  BY <1>2, <1>5, <1>6, StepInv DEF Group, Did

\* dragging a box,
LEMMA DragInv ==
  ASSUME Inv, NEW c \in Points, NEW dx \in Shifts, Drag(c, dx)
  PROVE  Inv'
<1>1. DocOK(doc) /\ ~doc.latched /\ DOMAIN doc = DocFields /\ doc.next \in Nat /\ Tree(doc.page) /\ dx \in Int
  BY ReadyIs, GesturesAssumption DEF Drag, More
<1>2. PICK b : b = TappedBox(doc.page, c)
  OBVIOUS
<1>3. b # Root
  BY <1>2 DEF Drag
<1>4. b \in Ids(doc.page) /\ doc.page.node[b].kind = "box"
  BY <1>1, <1>2, <1>3, TappedBoxIs DEF BoxOf
<1>5. PICK new : new = MoveBox(doc, b, dx)
  OBVIOUS
<1>6. Sane(new) /\ Grows(doc, new)
  BY <1>1, <1>4, <1>5, MoveSane, MoveGrows
<1> QED
  BY <1>2, <1>5, <1>6, StepInv DEF Drag, Did

\* copying,
LEMMA CopyInv ==
  ASSUME Inv, NEW ids \in Selections, Copy(ids)
  PROVE  Inv'
<1>1. /\ Tree(doc.page) /\ Known(Outline(doc.page), doc.next) /\ doc.next \in Nat
  BY ReadyIs DEF Copy
<1>2. Selected(doc.page, ids)
  BY <1>1, SelectionIs
<1>3. slot' = CopyToSlot(doc.page, ids) /\ doc' = doc
  BY DEF Copy
<1>4. SlotOK(slot', doc.next)
  BY <1>1, <1>2, <1>3, CopiesOK
<1> QED
  BY <1>3, <1>4 DEF Inv

\* cutting,
LEMMA CutInv ==
  ASSUME Inv, NEW ids \in Selections, Cut(ids)
  PROVE  Inv'
<1>1. /\ Tree(doc.page) /\ Known(Outline(doc.page), doc.next) /\ doc.next \in Nat
      /\ DocOK(doc) /\ ~doc.latched /\ DOMAIN doc = DocFields
  BY ReadyIs DEF Cut, More
<1>2. Selected(doc.page, ids)
  BY <1>1, SelectionIs
<1>3. PICK new : new = CutSelection(doc, ids)
  OBVIOUS
<1>4. doc' = new /\ slot' = CopyToSlot(doc.page, ids)
  BY <1>3 DEF Cut, Did
<1>5. ids \in Seq(Ids(doc.page)) /\ \A i \in DOMAIN ids : doc.page.node[ids[i]].kind # "ink" \/ Up(doc.page)[ids[i]] = Root
  BY <1>2 DEF Selected
<1>6. Sane(new) /\ Grows(doc, new)
  BY <1>1, <1>3, <1>5, CutSane, CutGrows
<1>7. SlotOK(slot', doc.next)
  BY <1>1, <1>2, <1>4, CopiesOK
<1>8. SlotOK(slot', new.next)
  BY <1>1, <1>6, <1>7, SlotMore DEF Grows
<1> QED
  BY <1>4, <1>6, <1>8 DEF Inv

\* pasting,
LEMMA PasteInv ==
  ASSUME Inv, NEW c \in Points, PasteAt(c)
  PROVE  Inv'
<1>1. DocOK(doc) /\ ~doc.latched /\ DOMAIN doc = DocFields /\ doc.next \in Nat /\ c \in Int
  BY ReadyIs, GesturesAssumption DEF PasteAt, More
<1>2. SlotOK(slot, doc.next) /\ slot # << >>
  BY DEF Inv, PasteAt
<1>3. PICK new : new = Paste(doc, slot, c)
  OBVIOUS
<1>4. Cardinality(Sources(slot)) \in Nat
  BY <1>1, <1>2, SourcesCount
<1>5. Sane(new) /\ Grows(doc, new)
  BY <1>1, <1>2, <1>3, <1>4, PasteSane, PasteGrows
<1> QED
  BY <1>3, <1>5, StepInv DEF PasteAt, Did

\* undo
LEMMA UndoInv ==
  ASSUME Inv, Undo
  PROVE  Inv'
<1>1. DocOK(doc) /\ ~doc.latched /\ doc.next \in Nat
  BY ReadyIs DEF Undo
<1>2. PICK new : new = UndoNow(doc)
  OBVIOUS
<1>3. DocOK(new) /\ new.latched = doc.latched /\ new.next = doc.next
  BY <1>1, <1>2, UndoIs
<1>4. Sane(new) /\ Grows(doc, new)
  BY <1>1, <1>3 DEF Sane, Grows
<1> QED
  BY <1>2, <1>4, StepInv DEF Undo, Did

\* and redo.
LEMMA RedoInv ==
  ASSUME Inv, Redo
  PROVE  Inv'
<1>1. DocOK(doc) /\ ~doc.latched /\ doc.next \in Nat
  BY ReadyIs DEF Redo
<1>2. PICK new : new = RedoNow(doc)
  OBVIOUS
<1>3. DocOK(new) /\ new.latched = doc.latched /\ new.next = doc.next
  BY <1>1, <1>2, RedoIs
<1>4. Sane(new) /\ Grows(doc, new)
  BY <1>1, <1>3 DEF Sane, Grows
<1> QED
  BY <1>2, <1>4, StepInv DEF Redo, Did

\* So does every step.
LEMMA NextInv ==
  ASSUME Inv, [Next]_vars
  PROVE  Inv'
<1>1. CASE UNCHANGED vars
  BY <1>1 DEF vars, Inv
<1>2. CASE Next
  <2>1. CASE \E s \in Strokes, latched \in BOOLEAN : PenUp(s, latched)
    BY <2>1, PenInv
  <2>2. CASE \E R \in Regions, rev \in BOOLEAN : Brush(R, rev)
    BY <2>2, BrushInv
  <2>3. CASE \E R \in Regions, rev \in BOOLEAN : Area(R, rev)
    BY <2>3, AreaInv
  <2>4. CASE \E R \in Regions : Object(R)
    BY <2>4, ObjectInv
  <2>5. CASE \E R \in Regions : Group(R)
    BY <2>5, GroupInv
  <2>6. CASE \E c \in Points, dx \in Shifts : Drag(c, dx)
    BY <2>6, DragInv
  <2>7. CASE \E ids \in Selections : Copy(ids)
    BY <2>7, CopyInv
  <2>8. CASE \E ids \in Selections : Cut(ids)
    BY <2>8, CutInv
  <2>9. CASE \E c \in Points : PasteAt(c)
    BY <2>9, PasteInv
  <2>10. CASE Undo
    BY <2>10, UndoInv
  <2>11. CASE Redo
    BY <2>11, RedoInv
  <2> QED
    BY <1>2, <2>1, <2>2, <2>3, <2>4, <2>5, <2>6, <2>7, <2>8, <2>9, <2>10, <2>11 DEF Next
<1> QED
  BY <1>1, <1>2

\* Until a gesture is refused the page is a sound tree whose connectors are
\* where their boxes are, the entries of both rings lead from page to page,
\* and ids in use are below the next fresh one; the clipboard has bodies.
\* This is commitEdit, commitParts, undo and redo of device_document.hpp
\* under every gesture of Page.
THEOREM Invariance == Spec => []Inv
<1>1. Init => Inv
  BY InitInv
<1>2. Inv /\ [Next]_vars => Inv'
  BY NextInv
<1> QED
  BY <1>1, <1>2, PTL DEF Spec

-----------------------------------------------------------------------------
(***************************************************************************)
(* What the invariant says of the page.                                    *)
(***************************************************************************)
LEMMA PlacesOf ==
  ASSUME NEW page, Tree(page), NEW x \in Ids(page)
  PROVE  Cardinality(Places(page, x)) = 1
<1>1. PICK n : n = Cardinality(Ids(page))
  OBVIOUS
<1>2. n \in Nat /\ IsFiniteSet(Ids(page)) /\ Placed(page) /\ DOMAIN page.kids = Ids(page) \cup {Root}
  BY <1>1, TreeIs, FS_CardinalityType DEF Sound
<1>3. PICK q : q = ParentOf(page, x)
  OBVIOUS
<1>4. /\ q \in Ids(page) \cup {Root} /\ x \in Range(page.kids[q])
      /\ \A r \in Ids(page) \cup {Root} : x \in Range(page.kids[r]) => r = q
  BY <1>2, <1>3, PlaceOf
<1>5. PICK s : s = page.kids[q]
  OBVIOUS
<1>6. s \in Seq(Ids(page)) /\ OneOnly(s)
  BY <1>2, <1>4, <1>5, KidsUp
<1>7. PICK m : m = Len(s) /\ m \in Nat /\ DOMAIN s = 1..m
  BY <1>6
<1>8. PICK i \in 1..m : s[i] = x
  BY <1>4, <1>5, <1>7 DEF Range
<1>9. m <= n
  <2> SUFFICES ASSUME n < m PROVE FALSE
    BY <1>2, <1>7
  <2>1. s \in [1..m -> Ids(page)]
    BY <1>6, <1>7
  <2>2. \E j, k \in 1..m : j < k /\ s[j] = s[k]
    BY <1>1, <1>2, <1>7, <2>1, Pigeons
  <2> QED
    BY <1>6, <1>7, <2>2 DEF OneOnly
<1>10. PICK S : S = {at \in (DOMAIN page.kids) \X (1..n) : at[2] \in DOMAIN page.kids[at[1]]
                    /\ page.kids[at[1]][at[2]] = x}
  OBVIOUS
<1>11. <<q, i>> \in S
  <2>1. q \in DOMAIN page.kids /\ i \in 1..n
    BY <1>2, <1>4, <1>7, <1>8, <1>9
  <2>2. i \in DOMAIN page.kids[q] /\ page.kids[q][i] = x
    BY <1>5, <1>7, <1>8
  <2> QED
    BY <1>10, <2>1, <2>2
<1>12. ASSUME NEW at \in S PROVE at = <<q, i>>
  <2>1. PICK r \in DOMAIN page.kids, j \in 1..n : at = <<r, j>>
    BY <1>10
  <2>2. j \in DOMAIN page.kids[r] /\ page.kids[r][j] = x
    BY <1>10, <2>1
  <2>3. x \in Range(page.kids[r])
    BY <2>2 DEF Range
  <2>4. r = q
    BY <1>2, <1>4, <2>1, <2>3
  <2>5. j \in DOMAIN s /\ i \in DOMAIN s /\ s[j] = s[i]
    BY <1>5, <1>7, <1>8, <2>2, <2>4
  <2>6. j = i
    BY <1>6, <2>5 DEF OneOnly
  <2> QED
    BY <2>1, <2>4, <2>6
<1>13. S = {<<q, i>>}
  BY <1>11, <1>12
<1>14. Cardinality(S) = 1
  BY <1>13, FS_Singleton
<1> QED
  BY <1>1, <1>10, <1>14 DEF Places

\* An ink holds nothing, a connector only ink.
LEMMA HoldsIs ==
  ASSUME NEW page, Tree(page), NEW x \in Ids(page)
  PROVE  /\ page.node[x].kind = "ink" => page.kids[x] = << >> /\ Cells(page.node[x]) # {}
         /\ page.node[x].kind = "conn" => Kids(page, x, "ink") = page.kids[x]
<1>1. /\ Placed(page) /\ Sound(Outline(page)) /\ Outline(page).node = page.node /\ Outline(page).up = Up(page)
      /\ DOMAIN page.node = Ids(page) /\ Root \notin Ids(page) /\ page.node[x] \in Node
  BY TreeIs
<1>2. PICK s : s = page.kids[x]
  OBVIOUS
<1>3. s \in Seq(Ids(page)) /\ Range(s) = {y \in Ids(page) : Up(page)[y] = x}
  BY <1>1, <1>2, KidsUp
<1>4. \A y \in Ids(page) : Up(page)[y] # Root => Holds(page.node[Up(page)[y]].kind, page.node[y].kind)
  BY <1>1 DEF Sound
<1>5. \A y \in Range(s) : y \in Ids(page) /\ Holds(page.node[x].kind, page.node[y].kind)
  BY <1>1, <1>3, <1>4
<1>6. ASSUME page.node[x].kind = "ink" PROVE s = << >> /\ Cells(page.node[x]) # {}
  <2>1. Range(s) = {}
    BY <1>5, <1>6 DEF Holds
  <2>2. s = << >>
    <3>1. \A i \in DOMAIN s : s[i] \in Range(s)
      BY DEF Range
    <3>2. DOMAIN s = {}
      BY <2>1, <3>1
    <3> QED
      BY <1>3, <3>2
  <2>3. page.node[x].lo \in Int /\ page.node[x].hi \in Int /\ page.node[x].lo <= page.node[x].hi
    BY <1>1, <1>6, KindIs, InkIs
  <2>4. page.node[x].lo \in Cells(page.node[x])
    BY <2>3 DEF Cells
  <2> QED
    BY <2>2, <2>4
<1>7. ASSUME page.node[x].kind = "conn" PROVE Kids(page, x, "ink") = s
  <2>1. PICK S : S = {y \in Range(page.kids[x]) : page.node[y].kind = "ink"}
    OBVIOUS
  <2>2. Range(s) \subseteq S
    BY <1>2, <1>5, <1>7, <2>1 DEF Holds
  <2>3. Kept(s, S) = s
    BY <1>3, <2>2, KeptIs
  <2> QED
    BY <1>2, <2>1, <2>3 DEF Kids
<1> QED
  BY <1>2, <1>6, <1>7

\* The invariant says that the page is a tree.
LEMMA TreeShown ==
  ASSUME Inv
  PROVE  PageIsTree
<1>1. Tree(doc.page) /\ Known(Outline(doc.page), doc.next)
  BY SaneIs DEF Inv
<1>2. DOMAIN doc.page.kids = Ids(doc.page) \cup {Root} /\ Outline(doc.page).node = doc.page.node
          /\ DOMAIN doc.page.node = Ids(doc.page)
  BY <1>1, TreeIs
<1>3. Ids(doc.page) \subseteq 1..doc.next - 1
  BY <1>1, <1>2 DEF Known
<1>4. ASSUME NEW x \in Ids(doc.page) PROVE Last(Chain(doc.page, x)) = Root
  <2>1. PICK c : c = Chain(doc.page, x)
    OBVIOUS
  <2>2. c \in Seq(Ids(doc.page) \cup {Root}) /\ Len(c) > 1 /\ c[Len(c)] = Root
    BY <1>1, <2>1, ChainIs DEF WayUp
  <2> QED
    BY <2>1, <2>2 DEF Last
<1>5. \A x \in Ids(doc.page) : Cardinality(Places(doc.page, x)) = 1
  BY <1>1, PlacesOf
<1>6. \A x \in Ids(doc.page) :
                        /\ doc.page.node[x].kind = "ink" => doc.page.kids[x] = << >> /\ Cells(doc.page.node[x]) # {}
                        /\ doc.page.node[x].kind = "conn" => Kids(doc.page, x, "ink") = doc.page.kids[x]
  BY <1>1, HoldsIs
<1>7. \A x \in Ids(doc.page) : InPlace(doc.page, x)
  BY <1>4, <1>5, <1>6, Zenon DEF InPlace
<1> QED
  BY <1>2, <1>3, <1>7 DEF PageIsTree

\* Pages of one outline have the same contents.
LEMMA SameContents ==
  ASSUME NEW p, Tree(p), NEW q, Tree(q), Outline(p) = Outline(q)
  PROVE  Contents(p) = Contents(q)
<1>1. /\ p.node = q.node /\ Up(p) = Up(q) /\ Ids(p) = DOMAIN p.node /\ Ids(q) = DOMAIN q.node
      /\ DOMAIN p.kids = Ids(p) \cup {Root} /\ DOMAIN q.kids = Ids(q) \cup {Root}
      /\ Placed(p) /\ Placed(q)
  BY TreeIs
<1>2. Ids(p) = Ids(q)
  BY <1>1
<1>3. \A r \in Ids(p) \cup {Root} : Range(p.kids[r]) = {x \in Ids(p) : Up(p)[x] = r}
  BY <1>1, KidsUp
<1>4. \A r \in Ids(p) \cup {Root} : Range(q.kids[r]) = {x \in Ids(p) : Up(p)[x] = r}
  BY <1>1, <1>2, KidsUp
<1>5. \A r \in Ids(p) \cup {Root} : Range(p.kids[r]) = Range(q.kids[r])
  BY <1>3, <1>4
<1>6. [r \in DOMAIN p.kids |-> Range(p.kids[r])] = [r \in DOMAIN q.kids |-> Range(q.kids[r])]
  <2>1. DOMAIN p.kids = DOMAIN q.kids /\ \A r \in DOMAIN p.kids : Range(p.kids[r]) = Range(q.kids[r])
    BY <1>1, <1>2, <1>5
  <2> QED
    BY <2>1
<1> QED
  BY <1>1, <1>6 DEF Contents

\* The invariant says where the newest entries end and begin.
LEMMA HistoryShown ==
  ASSUME Inv
  PROVE  HistoryReturns
<1> SUFFICES ASSUME Ready
             PROVE  /\ doc.undo # << >> => Contents(Last(doc.undo).post) = Contents(doc.page)
                    /\ doc.redo # << >> => Contents(Last(doc.redo).pre) = Contents(doc.page)
  BY DEF HistoryReturns
<1>1. DocOK(doc) /\ Tree(doc.page)
  BY ReadyIs
<1>2. Past(doc.undo, doc.page, doc.next) /\ Future(doc.redo, doc.page, doc.next)
  BY <1>1 DEF DocOK, Rings
<1>3. ASSUME doc.undo # << >> PROVE Contents(Last(doc.undo).post) = Contents(doc.page)
  <2>1. PICK s : s = doc.undo
    OBVIOUS
  <2>2. s \in Seq(Range(s)) /\ s # << >>
    BY <1>2, <1>3, <2>1 DEF Past
  <2>3. Len(s) # 0 /\ Len(s) \in 1..Len(s) /\ Last(s) = s[Len(s)]
    BY <2>2, FrontIs
  <2>4. Behind(s[Len(s)], doc.next) /\ Outline(s[Len(s)].post) = Outline(doc.page)
    BY <1>2, <2>1, <2>3 DEF Past
  <2>5. Tree(s[Len(s)].post)
    BY <2>4 DEF Behind, Good, PageOK
  <2>6. Contents(s[Len(s)].post) = Contents(doc.page)
    BY <1>1, <2>4, <2>5, SameContents
  <2> QED
    BY <2>1, <2>3, <2>6
<1>4. ASSUME doc.redo # << >> PROVE Contents(Last(doc.redo).pre) = Contents(doc.page)
  <2>1. PICK s : s = doc.redo
    OBVIOUS
  <2>2. s \in Seq(Range(s)) /\ s # << >>
    BY <1>2, <1>4, <2>1 DEF Future
  <2>3. Len(s) # 0 /\ Len(s) \in 1..Len(s) /\ Last(s) = s[Len(s)]
    BY <2>2, FrontIs
  <2>4. Ahead(s[Len(s)], doc.next) /\ Outline(s[Len(s)].pre) = Outline(doc.page)
    BY <1>2, <2>1, <2>3 DEF Future
  <2>5. Tree(s[Len(s)].pre)
    BY <2>4 DEF Ahead, Good, PageOK
  <2>6. Contents(s[Len(s)].pre) = Contents(doc.page)
    BY <1>1, <2>4, <2>5, SameContents
  <2> QED
    BY <2>1, <2>3, <2>6
<1> QED
  BY <1>3, <1>4

\* A step whose gesture had an undo latched.
LatchedStep ==
    last'.kind = "latched" /\ doc' # doc =>
        /\ Contents(doc'.page) = Contents(doc.page)
        /\ doc'.undo = doc.undo

\* A stroke with an undo latched leaves page and undo ring as they were.
LEMMA LatchedShown ==
  ASSUME Inv, Next
  PROVE  LatchedStep
<1> SUFFICES ASSUME last'.kind = "latched", doc' # doc
             PROVE  Contents(doc'.page) = Contents(doc.page) /\ doc'.undo = doc.undo
  BY DEF LatchedStep
<1>1. PICK s \in Strokes, latched \in BOOLEAN : PenUp(s, latched)
  <2>1. \A kind, with, next : Did(kind, with, next) => last'.kind = kind
    BY DEF Did
  <2>2. \A R, rev : Brush(R, rev) => last'.kind = "brush"
    BY <2>1 DEF Brush
  <2>3. \A R, rev : Area(R, rev) => last'.kind = "area"
    BY <2>1 DEF Area
  <2>4. \A R : Object(R) => last'.kind = "object"
    BY <2>1 DEF Object
  <2>5. \A R : Group(R) => last'.kind = "group"
    BY <2>1 DEF Group
  <2>6. \A c, dx : Drag(c, dx) => last'.kind = "move"
    BY <2>1 DEF Drag
  <2>7. \A ids : Copy(ids) => last'.kind = "copy"
    BY DEF Copy
  <2>8. \A ids : Cut(ids) => last'.kind = "cut"
    BY <2>1 DEF Cut
  <2>9. \A c : PasteAt(c) => last'.kind = "paste"
    BY <2>1 DEF PasteAt
  <2>10. (Undo => last'.kind = "undo") /\ (Redo => last'.kind = "redo")
    BY <2>1 DEF Undo, Redo
  <2> QED
    BY <2>2, <2>3, <2>4, <2>5, <2>6, <2>7, <2>8, <2>9, <2>10 DEF Next
<1>2. latched = TRUE
  <2>1. last'.kind = IF latched THEN "latched" ELSE "pen"
    BY <1>1 DEF PenUp, Did
  <2> QED
    BY <2>1
<1>3. DocOK(doc) /\ Tree(doc.page) /\ StrokeOK(s)
  BY <1>1, ReadyIs, GesturesAssumption DEF PenUp, More
<1>4. PICK d : d = [doc EXCEPT !.latched = latched]
  OBVIOUS
<1>5. DocOK(d) /\ d.latched = latched /\ d.page = doc.page /\ d.undo = doc.undo
  BY <1>3, <1>4, LatchIs
<1>6. PICK new : new = DispatchPenUp(d, s)
  OBVIOUS
<1>7. doc' = new
  BY <1>1, <1>4, <1>6 DEF PenUp, Did
<1>8. AsBefore(d, new)
  BY <1>2, <1>3, <1>5, <1>6, PenUpDealt DEF Dealt
<1>9. Tree(new.page) /\ Outline(new.page) = Outline(doc.page) /\ new.undo = doc.undo
  BY <1>5, <1>8, DocIs DEF AsBefore
<1>10. Contents(new.page) = Contents(doc.page)
  BY <1>3, <1>9, SameContents
<1> QED
  BY <1>7, <1>9, <1>10

\* No gesture, undo or redo gives a node two places or none, makes a cycle,
\* puts a node into ink, or leaves an ink without samples: insertAt and
\* detachAny of device_document.hpp under every edit of operations/.
THEOREM PageStaysTree == Spec => []PageIsTree
  BY Invariance, TreeShown, PTL

\* The newest undo entry ends at the page there is, the newest redo entry
\* begins there, lastOpIds included: so applyHistoryEntry never finds an
\* entry stale (device_document.hpp).
THEOREM HistoryStays == Spec => []HistoryReturns
  BY Invariance, HistoryShown, PTL

\* An undo pressed while the pen was down takes the whole stroke back,
\* though runLatchedHistory runs inside the first of its commits
\* (device_document.hpp, recognizer_dispatch.hpp).
THEOREM LatchedUndoTakesAllHolds == Spec => LatchedUndoTakesAll
<1>1. Inv /\ [Next]_vars => [LatchedStep]_vars
  BY LatchedShown
<1>2. Spec => [][LatchedStep]_vars
  BY <1>1, Invariance, PTL DEF Spec
<1> QED
  BY <1>2 DEF LatchedUndoTakesAll, LatchedStep
-----------------------------------------------------------------------------
(***************************************************************************)
(* No box without an ink, on the page, on what undo and redo go to, and in *)
(* the clipboard.                                                          *)
(***************************************************************************)
Fill == (Ready => Filled(doc)) /\ SlotInked(slot)

\* A page of it has none.
LEMMA InkedShown ==
  ASSUME NEW page, Tree(page)
  PROVE  Inked(Outline(page)) <=>
           \A b \in Ids(page) : page.node[b].kind = "box" => Kids(page, b, "ink") # << >>
<1>1. /\ DOMAIN Outline(page).node = Ids(page) /\ Outline(page).node = page.node /\ Outline(page).up = Up(page)
      /\ DOMAIN page.node = Ids(page)
  BY TreeIs
<1>2. ASSUME NEW b \in Ids(page)
      PROVE  Kids(page, b, "ink") # << >> <=> \E x \in Ids(page) : page.node[x].kind = "ink" /\ Up(page)[x] = b
  <2>1. PICK s : s = Kids(page, b, "ink")
    OBVIOUS
  <2>2. /\ s \in Seq(Ids(page))
        /\ \A x : x \in Range(s) <=> x \in Ids(page) /\ Up(page)[x] = b /\ page.node[x].kind = "ink"
    BY <2>1, KidsOf
  <2>3. s # << >> => 1 \in DOMAIN s
    BY <2>2
  <2>4. s = << >> => DOMAIN s = {}
    OBVIOUS
  <2>5. s # << >> <=> \E x : x \in Range(s)
    BY <2>3, <2>4 DEF Range
  <2> QED
    BY <2>1, <2>2, <2>5
<1> QED
  BY <1>1, <1>2 DEF Inked

\* A document just loaded has a page and nothing else.
LEMMA InitFill ==
  ASSUME Init, NoGhostBox
  PROVE  Fill
<1>1. PICK p \in Pages : doc = NewDoc(p.page, p.next)
  BY DEF Init
<1>2. doc.undo = << >> /\ doc.redo = << >>
  BY <1>1 DEF NewDoc
<1>3. Lined(doc.undo) /\ Lined(doc.redo)
  BY <1>2 DEF Lined
<1>4. Ready => Inked(Outline(doc.page))
  BY InitInv, ReadyIs, InkedShown DEF NoGhostBox
<1>5. SlotInked(slot)
  BY DEF Init, SlotInked, Range
<1> QED
  BY <1>3, <1>4, <1>5 DEF Fill, Filled

\* A step of the document that fills it, and leaves the slot alone.
LEMMA StepFill ==
  ASSUME Fill, Ready, NEW new, Fills(doc, new), doc' = new, slot' = slot
  PROVE  Fill'
<1>1. Filled(doc) /\ SlotInked(slot)
  BY DEF Fill
<1>2. ~new.stuck => Filled(new)
  BY <1>1 DEF Fills
<1> QED
  BY <1>1, <1>2 DEF Fill, Ready

\* Each action keeps it: a stroke,
LEMMA PenFill ==
  ASSUME Inv, Fill, NEW s \in Strokes, NEW latched \in BOOLEAN, PenUp(s, latched)
  PROVE  Fill'
<1>1. DocOK(doc) /\ StrokeOK(s) /\ Ready
  BY ReadyIs, GesturesAssumption DEF PenUp, More
<1>2. PICK d : d = [doc EXCEPT !.latched = latched]
  OBVIOUS
<1>3. DocOK(d) /\ d.page = doc.page /\ d.undo = doc.undo /\ d.redo = doc.redo
  BY <1>1, <1>2, LatchIs
<1>4. PICK new : new = DispatchPenUp(d, s)
  OBVIOUS
<1>5. doc' = new /\ slot' = slot
  BY <1>2, <1>4 DEF PenUp, Did
<1>6. Fills(d, new)
  BY <1>1, <1>3, <1>4, PenUpDealt
<1>7. Fills(doc, new)
  BY <1>3, <1>6 DEF Fills, Filled
<1> QED
  BY <1>1, <1>5, <1>7, StepFill

\* the brush,
LEMMA BrushFill ==
  ASSUME Inv, Fill, NEW R \in Regions, NEW rev \in BOOLEAN, Brush(R, rev)
  PROVE  Fill'
<1>1. DocOK(doc) /\ ~doc.latched /\ Sweep(R) /\ Ready
  BY ReadyIs, GesturesAssumption DEF Brush, More
<1>2. PICK new : new = EraseBrush(doc, R, rev)
  OBVIOUS
<1>3. Fills(doc, new)
  BY <1>1, <1>2, BrushSane
<1> QED
  BY <1>1, <1>2, <1>3, StepFill DEF Brush, Did

\* the area eraser,
LEMMA AreaFill ==
  ASSUME Inv, Fill, NEW R \in Regions, NEW rev \in BOOLEAN, Area(R, rev)
  PROVE  Fill'
<1>1. DocOK(doc) /\ ~doc.latched /\ Sweep(R) /\ Ready
  BY ReadyIs, GesturesAssumption DEF Area, More
<1>2. PICK new : new = EraseArea(doc, R, rev)
  OBVIOUS
<1>3. Fills(doc, new)
  BY <1>1, <1>2, AreaSane
<1> QED
  BY <1>1, <1>2, <1>3, StepFill DEF Area, Did

\* the object eraser,
LEMMA ObjectFill ==
  ASSUME Inv, Fill, NEW R \in Regions, Object(R)
  PROVE  Fill'
<1>1. DocOK(doc) /\ ~doc.latched /\ Sweep(R) /\ Ready
  BY ReadyIs, GesturesAssumption DEF Object, More
<1>2. PICK new : new = EraseObject(doc, R)
  OBVIOUS
<1>3. Fills(doc, new)
  BY <1>1, <1>2, ObjectSane
<1> QED
  BY <1>1, <1>2, <1>3, StepFill DEF Object, Did

\* grouping a lasso,
LEMMA GroupFill ==
  ASSUME Inv, Fill, NEW R \in Regions, Group(R)
  PROVE  Fill'
<1>1. DocOK(doc) /\ ~doc.latched /\ Tree(doc.page) /\ Ready
  BY ReadyIs DEF Group, More
<1>2. PICK ids : ids = Lassoed(doc.page, R)
  OBVIOUS
<1>3. PICK S : ids = Among(doc.page, S)
  BY <1>2 DEF Lassoed
<1>4. ids \in Seq(Ids(doc.page)) /\ OneOnly(ids) /\ \A i \in DOMAIN ids : Up(doc.page)[ids[i]] = Root
  BY <1>1, <1>3, AmongIs
<1>5. PICK new : new = GroupSelection(doc, ids)
  OBVIOUS
<1>6. Fills(doc, new)
  BY <1>1, <1>4, <1>5, GroupSane
<1> QED
  BY <1>1, <1>2, <1>5, <1>6, StepFill DEF Group, Did

\* dragging a box,
LEMMA DragFill ==
  ASSUME Inv, Fill, NEW c \in Points, NEW dx \in Shifts, Drag(c, dx)
  PROVE  Fill'
<1>1. DocOK(doc) /\ ~doc.latched /\ Tree(doc.page) /\ dx \in Int /\ Ready
  BY ReadyIs, GesturesAssumption DEF Drag, More
<1>2. PICK b : b = TappedBox(doc.page, c)
  OBVIOUS
<1>3. b # Root
  BY <1>2 DEF Drag
<1>4. b \in Ids(doc.page) /\ doc.page.node[b].kind = "box"
  BY <1>1, <1>2, <1>3, TappedBoxIs DEF BoxOf
<1>5. PICK new : new = MoveBox(doc, b, dx)
  OBVIOUS
<1>6. Fills(doc, new)
  BY <1>1, <1>4, <1>5, MoveSane
<1> QED
  BY <1>1, <1>2, <1>5, <1>6, StepFill DEF Drag, Did

\* copying,
LEMMA CopyFill ==
  ASSUME Inv, Fill, NEW ids \in Selections, Copy(ids)
  PROVE  Fill'
<1>1. Tree(doc.page) /\ Known(Outline(doc.page), doc.next) /\ doc.next \in Nat /\ Ready
  BY ReadyIs DEF Copy
<1>2. Selected(doc.page, ids)
  BY <1>1, SelectionIs
<1>3. slot' = CopyToSlot(doc.page, ids) /\ doc' = doc
  BY DEF Copy
<1>4. Filled(doc)
  BY <1>1 DEF Fill
<1>5. SlotInked(slot')
  BY <1>1, <1>2, <1>3, <1>4, CopiesOK DEF Filled
<1> QED
  BY <1>3, <1>4, <1>5 DEF Fill

\* cutting,
LEMMA CutFill ==
  ASSUME Inv, Fill, NEW ids \in Selections, Cut(ids)
  PROVE  Fill'
<1>1. /\ Tree(doc.page) /\ Known(Outline(doc.page), doc.next) /\ doc.next \in Nat
      /\ DocOK(doc) /\ ~doc.latched /\ Ready
  BY ReadyIs DEF Cut, More
<1>2. Selected(doc.page, ids)
  BY <1>1, SelectionIs
<1>3. PICK new : new = CutSelection(doc, ids)
  OBVIOUS
<1>4. doc' = new /\ slot' = CopyToSlot(doc.page, ids)
  BY <1>3 DEF Cut, Did
<1>5. ids \in Seq(Ids(doc.page)) /\ \A i \in DOMAIN ids : doc.page.node[ids[i]].kind # "ink" \/ Up(doc.page)[ids[i]] = Root
  BY <1>2 DEF Selected
<1>6. Filled(doc)
  BY <1>1 DEF Fill
<1>7. ~new.stuck => Filled(new)
  BY <1>1, <1>3, <1>5, <1>6, CutSane DEF Fills
<1>8. SlotInked(slot')
  BY <1>1, <1>2, <1>4, <1>6, CopiesOK DEF Filled
<1> QED
  BY <1>4, <1>7, <1>8 DEF Fill, Ready

\* pasting,
LEMMA PasteFill ==
  ASSUME Inv, Fill, NEW c \in Points, PasteAt(c)
  PROVE  Fill'
<1>1. DocOK(doc) /\ ~doc.latched /\ c \in Int /\ Ready
  BY ReadyIs, GesturesAssumption DEF PasteAt, More
<1>2. SlotOK(slot, doc.next) /\ slot # << >> /\ SlotInked(slot)
  BY DEF Inv, Fill, PasteAt
<1>3. PICK new : new = Paste(doc, slot, c)
  OBVIOUS
<1>4. Fills(doc, new)
  BY <1>1, <1>2, <1>3, PasteSane
<1> QED
  BY <1>1, <1>3, <1>4, StepFill DEF PasteAt, Did

\* undo
LEMMA UndoFill ==
  ASSUME Inv, Fill, Undo
  PROVE  Fill'
<1>1. DocOK(doc) /\ Ready
  BY ReadyIs DEF Undo
<1>2. PICK new : new = UndoNow(doc)
  OBVIOUS
<1>3. Fills(doc, new)
  BY <1>1, <1>2, UndoFills DEF Fills
<1> QED
  BY <1>1, <1>2, <1>3, StepFill DEF Undo, Did

\* and redo.
LEMMA RedoFill ==
  ASSUME Inv, Fill, Redo
  PROVE  Fill'
<1>1. DocOK(doc) /\ Ready
  BY ReadyIs DEF Redo
<1>2. PICK new : new = RedoNow(doc)
  OBVIOUS
<1>3. Fills(doc, new)
  BY <1>1, <1>2, RedoFills DEF Fills
<1> QED
  BY <1>1, <1>2, <1>3, StepFill DEF Redo, Did

\* So does every step.
LEMMA NextFill ==
  ASSUME Inv, Fill, [Next]_vars
  PROVE  Fill'
<1>1. CASE UNCHANGED vars
  BY <1>1 DEF vars, Fill, Ready
<1>2. CASE Next
  <2>1. CASE \E s \in Strokes, latched \in BOOLEAN : PenUp(s, latched)
    BY <2>1, PenFill
  <2>2. CASE \E R \in Regions, rev \in BOOLEAN : Brush(R, rev)
    BY <2>2, BrushFill
  <2>3. CASE \E R \in Regions, rev \in BOOLEAN : Area(R, rev)
    BY <2>3, AreaFill
  <2>4. CASE \E R \in Regions : Object(R)
    BY <2>4, ObjectFill
  <2>5. CASE \E R \in Regions : Group(R)
    BY <2>5, GroupFill
  <2>6. CASE \E c \in Points, dx \in Shifts : Drag(c, dx)
    BY <2>6, DragFill
  <2>7. CASE \E ids \in Selections : Copy(ids)
    BY <2>7, CopyFill
  <2>8. CASE \E ids \in Selections : Cut(ids)
    BY <2>8, CutFill
  <2>9. CASE \E c \in Points : PasteAt(c)
    BY <2>9, PasteFill
  <2>10. CASE Undo
    BY <2>10, UndoFill
  <2>11. CASE Redo
    BY <2>11, RedoFill
  <2> QED
    BY <1>2, <2>1, <2>2, <2>3, <2>4, <2>5, <2>6, <2>7, <2>8, <2>9, <2>10, <2>11 DEF Next
<1> QED
  BY <1>1, <1>2

\* A document loaded without a box that has no ink of its own never gets
\* one: the recognisers and gatherings put an ink into the box they make,
\* an eraser that takes the last ink of a box takes the box, no drag or paste
\* moves an ink out of a box that stays, and undo, redo and the clipboard hold
\* pages and bodies that were so (device_document.hpp, erase_commit.hpp,
\* operations/).
THEOREM NoGhostBoxStays == Spec /\ NoGhostBox => []NoGhostBox
<1>1. Init /\ NoGhostBox => Inv /\ Fill
  BY InitInv, InitFill
<1>2. Inv /\ Fill /\ [Next]_vars => (Inv /\ Fill)'
  BY NextInv, NextFill
<1>3. Inv /\ Fill => NoGhostBox
  BY ReadyIs, InkedShown DEF Fill, Filled, NoGhostBox
<1> QED
  BY <1>1, <1>2, <1>3, PTL DEF Spec
=============================================================================
