---------------------------- MODULE MCNodeStore ----------------------------
(* Instances of NodeStore for TLC; the cfg file gives the bounds. *)
EXTENDS NodeStore

CONSTANTS a, b

\* a frame, which has no payload, and a stroke
Types == [n \in NodeIds |-> IF n = a THEN "Frame" ELSE "Ink"]
=============================================================================
