------------------------------ MODULE MCBeacon ------------------------------
(***************************************************************************)
(* An instance of Beacon: a station that changes between one receiver or   *)
(* another and none.                                                       *)
(***************************************************************************)
EXTENDS Beacon

CONSTANTS a, b, position

Station(interval, source, fallback) ==
  [tx |-> TRUE, tnc |-> TRUE, placed |-> TRUE, source |-> source, fallback |-> fallback,
   listed |-> {position}, every |-> [n \in Names |-> interval]]

\* Long and short intervals, receivers and none, a beacon that is removed, one that is
\* disabled, and a station told not to transmit.
MCSettings ==
  {Station(4, a, "last"), Station(2, b, "skip"), Station(0, a, "fixed"),
   [Station(4, Off, "fixed") EXCEPT !.listed = {}],
   [Station(2, Off, "skip") EXCEPT !.tx = FALSE]}
=============================================================================
