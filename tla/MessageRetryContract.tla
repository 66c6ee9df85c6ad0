------------------------ MODULE MessageRetryContract ------------------------
(***************************************************************************)
(* MessageRetry implements RetryContract.  An enrolment is open while some *)
(* part of the server can still reach its entry: the queue, the current    *)
(* sweep, or fireRetry.  Its budget is what the entry's Attempts leaves,   *)
(* less the round that fireRetry has transmitted and not yet counted.      *)
(***************************************************************************)
EXTENDS MessageRetry

Reachable(e) == e \in Queued \cup sweep \/ fire.entry = e

Phase(e) ==
  IF heap[e] = Fresh THEN "new"
  ELSE IF Reachable(e) THEN "open" ELSE "closed"

Left(e) ==
  CASE Phase(e) = "new"    -> MaxAttempts - 1
    [] Phase(e) = "open"   -> MaxAttempts - heap[e].attempts
                              - (IF fire = [entry |-> e, step |-> "sent"] THEN 1 ELSE 0)
    [] Phase(e) = "closed" -> 0

Contract == INSTANCE RetryContract WITH
  phase <- [e \in Enrolments |-> Phase(e)],
  left  <- [e \in Enrolments |-> Left(e)]

\* The queue, its worker, the handlers and parseLoop together keep the
\* contract: no interleaving transmits an enrolment more often than its
\* budget, or transmits one that was closed.
ImplementsContract == Contract!Spec

\* Every enrolment ends: it is answered, cancelled, replaced, spent or lost
\* with the process, whatever the peer and the operator do.
EnrolmentEnds == Contract!Ends
=============================================================================
