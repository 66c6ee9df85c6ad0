----------------------------- MODULE MCProcess ------------------------------
(***************************************************************************)
(* An instance of Process: two processes one after the other, three        *)
(* frames and one panic between them.                                      *)
(***************************************************************************)
EXTENDS Process
=============================================================================
