--------------------------- MODULE MCEraseOverlay ---------------------------
(* Instances of EraseOverlay for TLC; the cfg file gives the bounds. *)
EXTENDS EraseOverlay
=============================================================================
