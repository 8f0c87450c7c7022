----------------------------- MODULE ReplicaLog -----------------------------
(***************************************************************************)
(* What the one-way sync promises, without links, handshakes or sequence   *)
(* numbers: the tablet draws, and the mirror shows every edit, once, in    *)
(* the order it was drawn.  pending holds the edits drawn and not yet      *)
(* shown.  An edit is never dropped, reordered or shown twice, and nothing *)
(* but the creator changes the tablet's document.                          *)
(***************************************************************************)
EXTENDS DeviceSync

VARIABLES doc, mirror, pending

Init == doc = {} /\ mirror = {} /\ pending = <<>>

Draw(edit) ==
    /\ Applies(doc, edit)
    /\ doc' = ApplyEdit(doc, edit)
    /\ pending' = Append(pending, edit)
    /\ UNCHANGED mirror

Show ==
    /\ pending # <<>>
    /\ mirror' = ApplyEdit(mirror, Head(pending))
    /\ pending' = Tail(pending)
    /\ UNCHANGED doc

Next == Show \/ \E edit \in Edits : Draw(edit)

Spec == Init /\ [][Next]_<<doc, mirror, pending>>
=============================================================================
