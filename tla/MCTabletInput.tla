--------------------------- MODULE MCTabletInput ---------------------------
(* The box lies in the left half of the panel.  Three cameras in a row:    *)
(* the first and the last show nothing in common.                          *)
EXTENDS TabletInput

MCCams == {"home", "near", "far"}
MCOverlaps(a, b) == {a, b} # {"home", "far"}
=============================================================================
