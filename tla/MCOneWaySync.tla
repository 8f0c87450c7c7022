---------------------------- MODULE MCOneWaySync ----------------------------
(* Instances of OneWaySync for TLC; the cfg files give the bounds.          *)
EXTENDS OneWaySync, TLC

NodeSymmetry == Permutations(Node)
=============================================================================
