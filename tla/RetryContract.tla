---------------------------- MODULE RetryContract ----------------------------
(***************************************************************************)
(* What the retry queue promises of every enrolment, the accepted request  *)
(* to see a message through: it gets a budget of retransmissions, spends   *)
(* at most that budget, and once it is closed never transmits again.  How  *)
(* and why it closes (answer, cancel, a newer enrolment of the same row,   *)
(* exhaustion, a restart) is the implementation's business.                *)
(***************************************************************************)
EXTENDS Naturals

CONSTANTS Enrolments, MaxAttempts

VARIABLES
  phase,  \* "new", "open" or "closed", per enrolment
  left    \* retransmissions the enrolment may still make

cvars == <<phase, left>>

\* The original transmission has been made when the enrolment is accepted.
Budget == MaxAttempts - 1

Open == {e \in Enrolments : phase[e] = "open"}

\* The enrolments of S end, with nothing left to transmit.
PhaseAfter(S) == [e \in Enrolments |-> IF e \in S THEN "closed" ELSE phase[e]]
LeftAfter(S)  == [e \in Enrolments |-> IF e \in S THEN 0 ELSE left[e]]

Init ==
  /\ phase = [e \in Enrolments |-> "new"]
  /\ left = [e \in Enrolments |-> Budget]

\* A new enrolment may displace open ones.
Accept(e) ==
  /\ phase[e] = "new"
  /\ \E S \in SUBSET Open :
       /\ phase' = [PhaseAfter(S) EXCEPT ![e] = "open"]
       /\ left' = LeftAfter(S)

Retransmit(e) ==
  /\ phase[e] = "open"
  /\ left[e] > 0
  /\ left' = [left EXCEPT ![e] = @ - 1]
  /\ UNCHANGED phase

Close ==
  \E S \in SUBSET Open : phase' = PhaseAfter(S) /\ left' = LeftAfter(S)

Next == (\E e \in Enrolments : Accept(e) \/ Retransmit(e)) \/ Close

Spec == Init /\ [][Next]_cvars

\* No enrolment stays open for ever.
Ends == \A e \in Enrolments : phase[e] = "open" ~> phase[e] = "closed"
=============================================================================
