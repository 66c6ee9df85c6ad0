------------------------------ MODULE MCRFPath ------------------------------
(***************************************************************************)
(* An instance of RFPath for TLC: a tracker's position frame, a message and  *)
(* a beacon of the station's own, and a full digipeater as the neighbour.  *)
(***************************************************************************)
EXTENDS RFPath

CONSTANTS N, X, Call2, position, message, beacon

Settings(tx, viscous) ==
  [tx |-> tx, wide1 |-> TRUE, wide2 |-> TRUE, preempt |-> FALSE, aliases |-> {},
   viscous |-> viscous]

MCSource   == [c \in Contents |-> IF c = position THEN X ELSE IF c = beacon THEN Call2 ELSE Me]
MCSentPath == [c \in Contents |-> IF c = message THEN <<Hop(Wide, 1, 1)>>
                                  ELSE <<Hop(Wide, 1, 1), Hop(Wide, 2, 1)>>]
MCNeighbourRole == Settings(TRUE, FALSE)
MCRoles    == {Settings(TRUE, TRUE), Settings(FALSE, TRUE)}
=============================================================================
