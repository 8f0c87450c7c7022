----------------------------- MODULE NodeStore -----------------------------
(***************************************************************************)
(* The node store of the rewritten document (epaper/src/doc): a table of   *)
(* slots that never move, handles (slot, generation) that tell one         *)
(* occupancy of a slot from the next, and the writer's operations on it.   *)
(*                                                                         *)
(* The calls are the public ones, in any order the document edits allow.   *)
(* retire() recurses; it is taken one visited link and one retired node at *)
(* a time, because a node can be linked twice and is then met twice, the   *)
(* second time after the first visit has retired it.  `walk' is the call   *)
(* stack.  A call is over when `walk' and `retired' are empty.             *)
(***************************************************************************)
EXTENDS Integers, Sequences

CONSTANTS
    NodeIds,    \* the ids of document objects
    NodeTypes,  \* the types of node
    Bare,       \* the types without a payload: Document and Frame
    TypeOf,     \* the type of the object an id names
    MaxSlots,   \* bound: slots used at once
    MaxLinks,   \* bound: links of one node
    ChunkSize,  \* kChunkSize
    Capacity,   \* the initial chunkCapacity
    MaxGen,     \* UINT32_MAX
    Keys,       \* order keys
    Invalid     \* the slot of kNoParent

ASSUME StoreAssumption ==
    /\ MaxSlots \in Nat /\ MaxLinks \in Nat /\ MaxGen \in Nat
    /\ ChunkSize \in Nat \ {0} /\ Capacity \in Nat \ {0}
    /\ Keys \subseteq Nat /\ Invalid \in Nat /\ Invalid >= MaxSlots + ChunkSize
    /\ Bare \subseteq NodeTypes /\ TypeOf \in [NodeIds -> NodeTypes]
    /\ "none" \notin NodeTypes

VARIABLES
    gen, state,     \* of each slot
    nodeId, parent, \* of the node in it; its type is that of its id
    children,       \* the links of its Children; empty for a null pointer
    payload,        \* the type its payload was made for, or "none"
    nextUnused, freeList, retired, chunkCount, chunkCapacity,   \* SlotTable
    ids,            \* the NodeStore's map from ids to handles
    walk,           \* the frames of a running retire()
    issued          \* history: every handle allocate has returned

tableVars == <<nextUnused, freeList, chunkCount, chunkCapacity>>
vars == <<gen, state, nodeId, parent, children, payload, tableVars, retired, ids, walk, issued>>

SlotNo == 0..(MaxSlots - 1)
Handle == [slot : Nat, gen : Nat]
NoParent == [slot |-> Invalid, gen |-> 0]
HandleOf(s) == [slot |-> s, gen |-> gen[s]]

\* SlotTable::resolve finds a node.
Resolves(h) ==
    /\ h.slot < chunkCount * ChunkSize
    /\ gen[h.slot] = h.gen
    /\ state[h.slot] = "Live"

Init ==
    /\ gen = [s \in SlotNo |-> 0]
    /\ state = [s \in SlotNo |-> "Free"]
    /\ nodeId = [s \in SlotNo |-> "none"]
    /\ parent = [s \in SlotNo |-> NoParent]
    /\ children = [s \in SlotNo |-> <<>>]
    /\ payload = [s \in SlotNo |-> "none"]
    /\ nextUnused = 0 /\ freeList = <<>> /\ retired = <<>>
    /\ chunkCount = 1 /\ chunkCapacity = Capacity
    /\ ids = [n \in NodeIds |-> NoParent]
    /\ walk = <<>>
    /\ issued = {}

\* Only the writer calls, one call at a time.
Idle == walk = <<>> /\ retired = <<>>

-----------------------------------------------------------------------------
(* allocate *)

CreatePayload(type) == IF type \in Bare THEN "none" ELSE type

\* grow: one more chunk, and a directory twice as long when it is full.
Grow ==
    /\ chunkCount' = chunkCount + 1
    /\ chunkCapacity' = IF chunkCount >= chunkCapacity THEN 2 * chunkCapacity
                        ELSE chunkCapacity

\* SlotTable::claim: the slot freed last, or else one that was never used.
Claim(s) ==
    \/ /\ freeList # <<>>
       /\ s = freeList[Len(freeList)]
       /\ freeList' = SubSeq(freeList, 1, Len(freeList) - 1)
       /\ UNCHANGED <<nextUnused, chunkCount, chunkCapacity>>
    \/ /\ freeList = <<>>
       /\ s = nextUnused
       /\ nextUnused' = nextUnused + 1
       /\ IF s = chunkCount * ChunkSize THEN Grow
          ELSE UNCHANGED <<chunkCount, chunkCapacity>>
       /\ UNCHANGED freeList

\* The document gives an id to one node at a time: an undone removal brings the
\* same id back, into whatever slot is next.
Allocate(n) ==
    /\ Idle /\ ids[n] = NoParent
    /\ \E s \in SlotNo :
          /\ Claim(s)
          /\ nodeId' = [nodeId EXCEPT ![s] = n]
          /\ parent' = [parent EXCEPT ![s] = NoParent]
          /\ children' = [children EXCEPT ![s] = <<>>]
          /\ payload' = [payload EXCEPT ![s] = CreatePayload(TypeOf[n])]
          /\ state' = [state EXCEPT ![s] = "Live"]
          /\ ids' = [ids EXCEPT ![n] = HandleOf(s)]
          /\ issued' = issued \union {HandleOf(s)}
    /\ UNCHANGED <<gen, retired, walk>>

-----------------------------------------------------------------------------
(* link and unlink *)

\* s's list names the node that lives in t.
Edges == {e \in SlotNo \X SlotNo :
            /\ state[e[2]] = "Live"
            /\ \E i \in DOMAIN children[e[1]] : children[e[1]][i].node = HandleOf(e[2])}

\* What can be reached from s along E, s included.
Closed(E, S) == \A e \in E : e[1] \in S => e[2] \in S
Under(E, s) == {t \in SlotNo : \A S \in SUBSET SlotNo : s \in S /\ Closed(E, S) => t \in S}

\* std::lower_bound, and insert before it.
IsLowerBound(links, k, p) ==
    /\ \A i \in 1..(p - 1) : links[i].orderKey < k
    /\ p <= Len(links) => links[p].orderKey >= k
Inserted(links, p, e) ==
    [i \in 1..(Len(links) + 1) |-> IF i < p THEN links[i] ELSE IF i = p THEN e ELSE links[i - 1]]
Removed(links, p) ==
    [i \in 1..(Len(links) - 1) |-> IF i < p THEN links[i] ELSE links[i + 1]]

\* The same child, and the same key, may be there already.  The document never
\* puts a container into what it contains; link does not look.
Link(P, h, k) ==
    /\ Idle
    /\ Resolves(h) /\ Resolves(P)
    /\ P.slot \notin Under(Edges, h.slot)
    /\ Len(children[P.slot]) < MaxLinks
    /\ parent' = [parent EXCEPT ![h.slot] = P]
    /\ \E p \in 1..(Len(children[P.slot]) + 1) :
          /\ IsLowerBound(children[P.slot], k, p)
          /\ children' = [children EXCEPT ![P.slot] =
                            Inserted(children[P.slot], p, [node |-> h, orderKey |-> k])]
    /\ UNCHANGED <<gen, state, nodeId, payload, tableVars, retired, ids, walk, issued>>

\* The first link that names h goes; the child keeps its parent field.
Unlink(P, h) ==
    /\ Idle
    /\ Resolves(P)
    /\ \E p \in DOMAIN children[P.slot] :
          /\ children[P.slot][p].node = h
          /\ \A q \in 1..(p - 1) : children[P.slot][q].node # h
          /\ children' = [children EXCEPT ![P.slot] = Removed(children[P.slot], p)]
    /\ UNCHANGED <<gen, state, nodeId, parent, payload, tableVars, retired, ids, walk, issued>>

-----------------------------------------------------------------------------
(* retire *)

\* Mutant: the generation of the link is not compared.
EntersLive(h) == state[h.slot] = "Live"

\* The checks on entry: neither an older occupancy nor a node already retired.
Enters(h) == gen[h.slot] = h.gen /\ state[h.slot] = "Live"

Frame(s) == [slot |-> s, next |-> 1]

Retire(h) ==
    /\ Idle
    /\ Enters(h)
    /\ walk' = <<Frame(h.slot)>>
    /\ UNCHANGED <<gen, state, nodeId, parent, children, payload, tableVars, retired, ids, issued>>

\* The loop over the links: retire(childLink.node, false).
VisitChild ==
    /\ walk # <<>>
    /\ LET k == Len(walk)
           links == children[walk[k].slot]
           after == [walk EXCEPT ![k] = [slot |-> walk[k].slot, next |-> walk[k].next + 1]]
       IN  /\ walk[k].next <= Len(links)
           /\ LET h == links[walk[k].next].node
              IN  walk' = IF Enters(h) THEN Append(after, Frame(h.slot)) ELSE after
    /\ UNCHANGED <<gen, state, nodeId, parent, children, payload, tableVars, retired, ids, issued>>

\* Mutant: the id stays in the map.
LeaveKeepsId ==
    /\ walk # <<>>
    /\ LET k == Len(walk)
           s == walk[k].slot
       IN  /\ walk[k].next > Len(children[s])
           /\ state' = [state EXCEPT ![s] = "Retired"]
           /\ retired' = Append(retired, s)
           /\ walk' = SubSeq(walk, 1, k - 1)
    /\ UNCHANGED <<gen, nodeId, parent, children, payload, tableVars, ids, issued>>

\* The rest of the call, after its children's.
LeaveNode ==
    /\ walk # <<>>
    /\ LET k == Len(walk)
           s == walk[k].slot
       IN  /\ walk[k].next > Len(children[s])
           /\ state' = [state EXCEPT ![s] = "Retired"]
           /\ ids' = [ids EXCEPT ![nodeId[s]] = NoParent]
           /\ retired' = Append(retired, s)
           /\ walk' = SubSeq(walk, 1, k - 1)
    /\ UNCHANGED <<gen, nodeId, parent, children, payload, tableVars, issued>>

\* Mutant: a slot whose generation is used up goes back on the free list.
FreeWornSlot ==
    /\ walk = <<>> /\ retired # <<>>
    /\ LET s == retired[1]
       IN  /\ payload' = [payload EXCEPT ![s] = "none"]
           /\ children' = [children EXCEPT ![s] = <<>>]
           /\ state' = [state EXCEPT ![s] = "Free"]
           /\ gen' = [gen EXCEPT ![s] = (@ + 1) % (MaxGen + 1)]
           /\ freeList' = Append(freeList, s)
    /\ retired' = SubSeq(retired, 2, Len(retired))
    /\ UNCHANGED <<nodeId, parent, nextUnused, chunkCount, chunkCapacity, ids, walk, issued>>

\* SlotTable::free, for the next retired slot; ready() is always true.  A slot
\* whose generation is used up stays out of the free list.
FreeSlot ==
    /\ walk = <<>> /\ retired # <<>>
    /\ LET s == retired[1]
       IN  /\ payload' = [payload EXCEPT ![s] = "none"]
           /\ children' = [children EXCEPT ![s] = <<>>]
           /\ state' = [state EXCEPT ![s] = "Free"]
           /\ IF gen[s] = MaxGen THEN UNCHANGED <<gen, freeList>>
              ELSE /\ gen' = [gen EXCEPT ![s] = @ + 1]
                   /\ freeList' = Append(freeList, s)
    /\ retired' = SubSeq(retired, 2, Len(retired))
    /\ UNCHANGED <<nodeId, parent, nextUnused, chunkCount, chunkCapacity, ids, walk, issued>>

Next ==
    \/ \E n \in NodeIds : Allocate(n)
    \/ \E P, h \in issued, k \in Keys : Link(P, h, k)
    \/ \E P, h \in issued : Unlink(P, h)
    \/ \E h \in issued : Retire(h)
    \/ VisitChild \/ LeaveNode \/ FreeSlot

Spec == Init /\ [][Next]_vars

-----------------------------------------------------------------------------
(* Properties. *)

InFreeList(s) == \E i \in DOMAIN freeList : freeList[i] = s
InRetired(s) == \E i \in DOMAIN retired : retired[i] = s
Distinct(q) == \A i, j \in DOMAIN q : q[i] = q[j] => i = j

\* Every slot is in one place: never used, on the free list once, live, waiting
\* in `retired' once, or worn out for good; and the directory has room for the
\* chunks of all that were used.  A slot freed twice would be given to two nodes.
SlotsAccounted ==
    /\ Distinct(freeList) /\ Distinct(retired)
    /\ nextUnused <= chunkCount * ChunkSize /\ chunkCount <= chunkCapacity
    /\ \A s \in SlotNo :
          /\ s >= nextUnused => state[s] = "Free" /\ ~InFreeList(s)
          /\ InFreeList(s) => state[s] = "Free"
          /\ InRetired(s) <=> state[s] = "Retired"
          /\ s < nextUnused /\ state[s] = "Free" /\ ~InFreeList(s) => gen[s] = MaxGen
          /\ payload[s] = IF state[s] = "Free" THEN "none" ELSE CreatePayload(TypeOf[nodeId[s]])

\* The id map and the live slots are each other's inverse, at every moment of a
\* recursive retire: an id is found exactly while its node resolves.
IdsTrue ==
    /\ \A n \in NodeIds :
          ids[n] # NoParent => Resolves(ids[n]) /\ nodeId[ids[n].slot] = n
    /\ \A s \in SlotNo :
          state[s] = "Live" => nodeId[s] \in NodeIds /\ ids[nodeId[s]] = HandleOf(s)

\* Once retire has passed a node, no handle in its child list resolves, however
\* often a child is linked.
SubtreeGone ==
    \A s \in SlotNo : state[s] = "Retired" =>
        \A i \in DOMAIN children[s] : ~Resolves(children[s][i].node)

\* Each frame of retire above the first is for the occupancy named by the link
\* just visited below it, never for a successor in the slot of a child that went
\* earlier.
OnlyTheLinked ==
    \A k \in DOMAIN walk : k + 1 \in DOMAIN walk =>
        children[walk[k].slot][walk[k].next - 1].node = HandleOf(walk[k + 1].slot)

\* A node takes what it holds with it, and nothing else: neither does a child that
\* is linked twice outlive it, nor does a node go that was put where a child was.
RetireTakesSubtree == SubtreeGone /\ OnlyTheLinked

\* Children are in paint order after any links and unlinks.
LinksSorted ==
    \A s \in SlotNo : \A i, j \in DOMAIN children[s] :
        i <= j => children[s][i].orderKey <= children[s][j].orderKey

\* A handle that no longer resolves never does again, whatever its slot is
\* reused for (the ABA problem handles are there to solve).
GoneForGood == [][\A h \in issued : ~Resolves(h) => ~Resolves(h)']_vars

=============================================================================
