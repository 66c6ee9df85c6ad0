------------------------------ MODULE MCRFLink ------------------------------
(***************************************************************************)
(* An instance of RFLink for TLC: one TNC that may be configured or not,   *)
(* and room for two sessions to overlap.                                   *)
(***************************************************************************)
EXTENDS RFLink

CONSTANTS tnc, s1, s2
=============================================================================
