------------------------------ MODULE MCInbox -------------------------------
(***************************************************************************)
(* An instance of Inbox for TLC.  One station's message comes as it was    *)
(* sent, with its id counted up, and relayed in small letters; the same    *)
(* text also goes out as a bulletin, and the station sends a far position. *)
(***************************************************************************)
EXTENDS Inbox

CONSTANTS me, a, relay, bln, none

Message(src, orig, to, id, capitals) ==
  [src |-> src, orig |-> orig, to |-> to, body |-> "text", id |-> id,
   kind |-> "message", capitals |-> capitals]

AirPackets ==
  {Message(a, none, me, "1", TRUE), Message(a, none, me, "2", TRUE),
   Message(relay, a, me, "1", FALSE), Message(a, none, bln, none, TRUE),
   [Message(a, none, none, none, TRUE) EXCEPT !.kind = "far"]}
BulletinNames == {bln}
=============================================================================
