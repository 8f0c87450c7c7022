---------------------------- MODULE MCTabletLink ----------------------------
(* Instances of TabletLink for TLC; the cfg file gives the bounds. *)
EXTENDS TabletLink
=============================================================================
