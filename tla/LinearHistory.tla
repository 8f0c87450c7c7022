--------------------------- MODULE LinearHistory ---------------------------
(***************************************************************************)
(* What an undo history promises: a linear past of whole documents, the    *)
(* oldest dropped at Depth, and a future that a new commit clears.  An     *)
(* undo shows exactly the document before the commit it takes back, and a  *)
(* redo exactly the document after it.                                     *)
(***************************************************************************)
EXTENDS Integers, Sequences

CONSTANT Depth

VARIABLES content, past, future

vars == <<content, past, future>>

Push(ring, x) == Append(IF Len(ring) = Depth THEN Tail(ring) ELSE ring, x)
Newest(ring) == ring[Len(ring)]
Older(ring) == SubSeq(ring, 1, Len(ring) - 1)

Commit ==
    /\ past' = Push(past, content)
    /\ future' = <<>>

\* A commit that ends a gesture during which an undo was asked for.
CommitThenUndo ==
    /\ past' = Older(Push(past, content))
    /\ Len(future') = 1
    /\ content' = content

Undo ==
    /\ past # <<>>
    /\ content' = Newest(past)
    /\ past' = Older(past)
    /\ future' = Push(future, content)

Redo ==
    /\ future # <<>>
    /\ content' = Newest(future)
    /\ future' = Older(future)
    /\ past' = Push(past, content)

\* Another document replaces this one; history cannot reach back over it.
Load == past' = <<>> /\ future' = <<>>

Next == Commit \/ CommitThenUndo \/ Undo \/ Redo \/ Load

Spec == past = <<>> /\ future = <<>> /\ [][Next]_vars
=============================================================================
