----------------------------- MODULE MCISClient -----------------------------
(***************************************************************************)
(* An instance of ISClient for TLC: two servers the operator may choose,   *)
(* or none.                                                                *)
(***************************************************************************)
EXTENDS ISClient

CONSTANTS s1, s2
=============================================================================
