---------------------------- MODULE MCDriverApp ----------------------------
(* An instance of DriverApp for TLC. *)
EXTENDS DriverApp

CONSTANT t1
OneTablet == {t1}
=============================================================================
