--------------------------- MODULE MCUndoHistory ---------------------------
(* Small instances of UndoHistory: the gestures a run may make. *)
EXTENDS UndoHistory

IdSymmetry == Permutations(Ids)

\* One edit of each kind, and pairs that remove at most one node.  The part
\* of a pair that may be refused follows one that moves no node.
Gestures == {<<"create">>, <<"remove">>, <<"paste">>, <<"set">>,
             <<"remove", "create">>, <<"set", "remove">>}
=============================================================================
