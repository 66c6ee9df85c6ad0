------------------------------ MODULE SendQueue ------------------------------
(***************************************************************************)
(* What both links promise of the queue in front of them, whatever their   *)
(* sessions do.  Something offered is taken or refused at once, and only a *)
(* closed or a full queue refuses.  What was taken stays, in its turn,     *)
(* until it is delivered or lost; only the first of what waits is ever     *)
(* lost, and after a loss nothing moves before a new session.              *)
(***************************************************************************)
EXTENDS Naturals, Sequences

CONSTANT Depth  \* what the queue holds, besides the one in hand

VARIABLES
  open,       \* the queue takes what is offered
  offered,    \* how many were offered, the number of the latest
  pending,    \* those taken and neither delivered nor lost
  delivered,  \* the one delivered last
  spent       \* the session in progress has lost one

qvars == <<open, offered, pending, delivered, spent>>

Init ==
  /\ open \in BOOLEAN /\ offered = 0 /\ pending = << >> /\ delivered = 0 /\ spent = FALSE

Accept ==
  /\ open /\ Len(pending) <= Depth
  /\ offered' = offered + 1 /\ pending' = Append(pending, offered')
  /\ UNCHANGED <<open, delivered, spent>>

Refuse ==
  /\ ~open \/ Len(pending) >= Depth
  /\ offered' = offered + 1
  /\ UNCHANGED <<open, pending, delivered, spent>>

Deliver ==
  /\ pending # << >> /\ ~spent
  /\ delivered' = Head(pending) /\ pending' = Tail(pending)
  /\ UNCHANGED <<open, offered, spent>>

Lose ==
  /\ pending # << >> /\ ~spent
  /\ spent' = TRUE /\ pending' = Tail(pending)
  /\ UNCHANGED <<open, offered, delivered>>

NewSession ==
  /\ spent /\ spent' = FALSE
  /\ UNCHANGED <<open, offered, pending, delivered>>

Switch ==
  /\ open' = ~open
  /\ UNCHANGED <<offered, pending, delivered, spent>>

Next == Accept \/ Refuse \/ Deliver \/ Lose \/ NewSession \/ Switch

Spec == Init /\ [][Next]_qvars
=============================================================================
