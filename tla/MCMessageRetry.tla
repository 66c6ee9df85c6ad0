--------------------------- MODULE MCMessageRetry ---------------------------
(***************************************************************************)
(* An instance of MessageRetry and its contract for TLC: one message that  *)
(* two requests send, cancel and re-send, and two retry entries.           *)
(***************************************************************************)
EXTENDS MessageRetryContract

CONSTANTS m1, h1, h2, e1, e2, rf
=============================================================================
