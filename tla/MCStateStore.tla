---------------------------- MODULE MCStateStore ----------------------------
(***************************************************************************)
(* An instance of StateStore for TLC: one subscriber of each kind, blocks  *)
(* of two message ids out of five.                                         *)
(***************************************************************************)
EXTENDS StateStore

CONSTANTS rf, gps
=============================================================================
