----------------------------- MODULE PageShape -----------------------------
(***************************************************************************)
(* What a page, a stroke and a sweep of the eraser are.                    *)
(*                                                                         *)
(* The outline of a page is the page without the order of siblings: the    *)
(* nodes (document/doc_model.hpp), and for every id its parent.            *)
(***************************************************************************)
EXTENDS PageTree

Interval == {n \in [lo : Int, hi : Int] : n.lo <= n.hi}
InkNode == {n \in [kind : {"ink"}, lo : Int, hi : Int, loop : BOOLEAN,
                   role : {"none", "boundary", "content"}, last : Nat] : n.lo <= n.hi}
BoxNode == [kind : {"box"}, at : Int, w : Int, last : Nat]
ConnNode == [kind : {"conn"}, from : Nat, to : Nat, fromAt : Int, toAt : Int, p : Int, q : Int,
             fromInk : Seq(Interval), toInk : Seq(Interval), last : Nat]
Node == InkNode \cup BoxNode \cup ConnNode

Up(page) == [x \in Ids(page) |-> ParentOf(page, x)]
Outline(page) == [node |-> page.node, up |-> Up(page)]

\* Every id has one place.
OneOnly(s) == \A i, j \in DOMAIN s : s[i] = s[j] => i = j
Placed(page) ==
    /\ page = [node |-> page.node, kids |-> page.kids]
    /\ DOMAIN page.kids = Ids(page) \cup {Root}
    /\ \A q \in DOMAIN page.kids : page.kids[q] \in Seq(Ids(page)) /\ OneOnly(page.kids[q])
    /\ \A x \in Ids(page) : \E q \in DOMAIN page.kids : x \in Range(page.kids[q])
    /\ \A q, r \in DOMAIN page.kids :
          Range(page.kids[q]) \cap Range(page.kids[r]) # {} => q = r

\* Every set of ids has one whose parent is outside it: no cycles.
Founded(up) == \A S \in SUBSET DOMAIN up : S # {} => \E x \in S : up[x] \notin S
\* Boxes hold anything, connectors their body inks.
Holds(outer, inner) == outer = "box" \/ (outer = "conn" /\ inner = "ink")

Sound(a) ==
    /\ a = [node |-> a.node, up |-> a.up]
    /\ IsFiniteSet(DOMAIN a.node) /\ DOMAIN a.node \subseteq Nat \ {Root}
    /\ a.node \in [DOMAIN a.node -> Node]
    /\ a.up \in [DOMAIN a.node -> DOMAIN a.node \cup {Root}]
    /\ Founded(a.up)
    /\ \A x \in DOMAIN a.node :
          a.up[x] # Root => Holds(a.node[a.up[x]].kind, a.node[x].kind)

Tree(page) == Placed(page) /\ Sound(Outline(page))

\* Ids below the next fresh one, those that connectors name as well.
Known(a, next) ==
    /\ DOMAIN a.node \subseteq 1..(next - 1)
    /\ \A x \in DOMAIN a.node : a.node[x].kind = "conn" => a.node[x].from < next /\ a.node[x].to < next
\* A page as the panel shows it: its connectors are where their boxes are.
PageOK(page, next) ==
    Tree(page) /\ Refresh(Outline(page)) = Outline(page) /\ Known(Outline(page), next)

StrokeOK(s) == s.lo \in Int /\ s.hi \in Int /\ s.lo <= s.hi /\ s.loop \in BOOLEAN
\* A region swept is an interval, and not empty.
Sweep(R) == R \subseteq Int /\ \E a, b \in R : R = a..b

=============================================================================
