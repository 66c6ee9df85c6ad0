---------------------------- MODULE MessageRetry ----------------------------
(***************************************************************************)
(* Outbound APRS messages: the send, cancel and retry HTTP handlers, the   *)
(* retry queue with its single worker, the answers (ack, rej, piggyback    *)
(* ack) that parseLoop takes from the air, and the messages table.         *)
(*                                                                         *)
(* Every store call and every queue call of the program runs under a       *)
(* mutex of its own, so each is one atomic step here; a handler is the     *)
(* sequence of those steps, and the steps of different handlers, of the    *)
(* worker and of parseLoop interleave.  A transmission and the read before *)
(* it commute with every other actor's steps and share one step.           *)
(*                                                                         *)
(* Time is abstract: a queued entry may be due at any sweep, and the       *)
(* entries of one sweep fire in any order (the code sorts them by due time *)
(* for the operator's eye; entries of different messages share no state).  *)
(***************************************************************************)
EXTENDS Naturals, FiniteSets

CONSTANTS
  Msgs,          \* outbound messages; also their row ids, once logged
  Media,         \* transports a message can be sent on
  Handlers,      \* HTTP request goroutines
  Enrolments,    \* retryEntry objects ever allocated; bounds the run
  MaxAttempts,   \* retryMaxAttempts
  StoreMayFail,  \* whether a database write may return an error
  None           \* no message, no entry, and the row id 0 of a failed insert

ASSUME RetryAssumption ==
  /\ None \notin Msgs \cup Enrolments
  /\ MaxAttempts \in Nat \ {0, 1}
  /\ StoreMayFail \in BOOLEAN

VARIABLES
  row,     \* messages table: state, attempts and acked columns per row
  legs,    \* via_rf / via_is of a message: the media that accepted its first TX
  heap,    \* retryEntry objects: message, row id, Attempts
  queue,   \* retryQueue.entries: row id -> entry
  req,     \* per handler: the step it stands at and its locals
  sweep,   \* due(): entries the worker still has to fire in this sweep
  fire,    \* the entry inside fireRetry and the step it stands at
  heard,   \* row id parseLoop has marked answered but not yet dequeued
  sent     \* history: rounds of TX calls made for a message, up to MaxAttempts

vars == <<row, legs, heap, queue, req, sweep, fire, heard, sent>>

Keys == Msgs \cup {None}
RowStates == {"pending", "acked", "rejected", "failed", "cancelled"}

Rows     == [state: RowStates \cup {"absent"}, attempts: 0..MaxAttempts, acked: BOOLEAN]
Entries  == [msg: Keys, key: Keys, attempts: 0..MaxAttempts]
Requests == [step: {"idle", "log", "enqueue", "remove", "cancel", "reset"},
             msg: Keys, key: Keys, attempts: 0..MaxAttempts]
Firings  == [entry: Enrolments \cup {None}, step: {"idle", "sent", "spent"}]

Absent == [state |-> "absent", attempts |-> 0, acked |-> FALSE]
Fresh  == [msg |-> None, key |-> None, attempts |-> 0]
At(s, m, k, n) == [step |-> s, msg |-> m, key |-> k, attempts |-> n]
Idle   == At("idle", None, None, 0)
NoFire == [entry |-> None, step |-> "idle"]

HasRow(k) == k \in Msgs /\ row[k].state # "absent"

-----------------------------------------------------------------------------
(* The store and the queue, one operator per locked call.                  *)

\* An UPDATE on a row that is gone changes nothing; the callers drop errors.
SetMessageState(k, s, n) ==
  \/ /\ HasRow(k)
     /\ row' = [row EXCEPT ![k] = [state |-> s, attempts |-> n,
                                   acked |-> s = "acked"]]
  \/ /\ ~HasRow(k) \/ StoreMayFail
     /\ UNCHANGED row

\* The rows an ack or rej may flip.
AnswerableTwice(m) == row[m].state \in {"pending", "acked"}
Answerable(m) == row[m].state \in {"pending", "acked"} /\ ~row[m].acked

MarkAck(m) == row' = [row EXCEPT ![m].state = "acked", ![m].acked = TRUE]
MarkRej(m) == row' = [row EXCEPT ![m].state = "rejected", ![m].acked = TRUE]

\* enqueueRetry: a new entry at attempt 1 replaces whatever the key held.
EnqueueCountingAhead(e, m, k) ==
  /\ heap[e] = Fresh
  /\ heap' = [heap EXCEPT ![e] = [msg |-> m, key |-> k, attempts |-> 2]]
  /\ queue' = [queue EXCEPT ![k] = e]

Enqueue(e, m, k) ==
  /\ heap[e] = Fresh
  /\ heap' = [heap EXCEPT ![e] = [msg |-> m, key |-> k, attempts |-> 1]]
  /\ queue' = [queue EXCEPT ![k] = e]

Remove(k) == queue' = [queue EXCEPT ![k] = None]

\* One round of TX calls on the media recorded for the message; the code
\* drops their errors, so a refused round counts like any other.  The count
\* saturates at MaxAttempts: no property looks further.
Transmit(m) ==
  sent' = IF legs[m] = {} \/ sent[m] = MaxAttempts THEN sent
          ELSE [sent EXCEPT ![m] = @ + 1]

Queued == {queue[k] : k \in Keys} \ {None}

-----------------------------------------------------------------------------
(* handleMessageSend                                                       *)

Goto(h, s) == req' = [req EXCEPT ![h].step = s]
Return(h)  == req' = [req EXCEPT ![h] = Idle]

\* The first transmission: each requested medium accepts the frame or not.
SendTransmit(h, m) ==
  /\ req[h] = Idle
  /\ sent[m] = 0
  /\ sent' = [sent EXCEPT ![m] = 1]
  /\ \E accepted \in SUBSET Media : legs' = [legs EXCEPT ![m] = accepted]
  /\ req' = [req EXCEPT ![h] = At("log", m, None, 0)]
  /\ UNCHANGED <<row, heap, queue, sweep, fire, heard>>

\* LogMessage; when the insert fails the handler goes on with row id 0.
SendLog(h) ==
  LET m     == req[h].msg
      state == IF legs[m] = {} THEN "failed" ELSE "pending"
      After(k) == IF state = "pending" THEN At("enqueue", m, k, 1) ELSE Idle
  IN  /\ req[h].step = "log"
      /\ \/ /\ row' = [row EXCEPT ![m] = [state |-> state, attempts |-> 1,
                                          acked |-> FALSE]]
            /\ req' = [req EXCEPT ![h] = After(m)]
         \/ /\ StoreMayFail
            /\ req' = [req EXCEPT ![h] = After(None)]
            /\ UNCHANGED row
      /\ UNCHANGED <<legs, heap, queue, sweep, fire, heard, sent>>

\* The enqueueRetry that ends both the send and the retry handler.
HandlerEnqueue(h) ==
  /\ req[h].step = "enqueue"
  /\ \E e \in Enrolments : Enqueue(e, req[h].msg, req[h].key)
  /\ Return(h)
  /\ UNCHANGED <<row, legs, sweep, fire, heard, sent>>

(* handleMessageCancel                                                     *)

\* GetMessage; anything but a pending row ends the request.
CancelRead(h, m) ==
  /\ req[h] = Idle
  /\ row[m].state = "pending"
  /\ req' = [req EXCEPT ![h] = At("remove", m, m, row[m].attempts)]
  /\ UNCHANGED <<row, legs, heap, queue, sweep, fire, heard, sent>>

CancelRemove(h) ==
  /\ req[h].step = "remove"
  /\ Remove(req[h].key)
  /\ Goto(h, "cancel")
  /\ UNCHANGED <<row, legs, heap, sweep, fire, heard, sent>>

CancelWrite(h) ==
  /\ req[h].step = "cancel"
  /\ SetMessageState(req[h].key, "cancelled", req[h].attempts)
  /\ Return(h)
  /\ UNCHANGED <<legs, heap, queue, sweep, fire, heard, sent>>

(* handleMessageRetry                                                      *)

\* GetMessage, then the transmission on the media the row records.
RetryTransmit(h, m) ==
  /\ req[h] = Idle
  /\ row[m].state \in {"failed", "cancelled"}
  /\ Transmit(m)
  /\ req' = [req EXCEPT ![h] = At("reset", m, m, 1)]
  /\ UNCHANGED <<row, legs, heap, queue, sweep, fire, heard>>

RetryWrite(h) ==
  /\ req[h].step = "reset"
  /\ SetMessageState(req[h].key, "pending", 1)
  /\ Goto(h, "enqueue")
  /\ UNCHANGED <<legs, heap, queue, sweep, fire, heard, sent>>

-----------------------------------------------------------------------------
(* runRetryWorker and fireRetry                                            *)

\* due: pointers to some of the queued entries, copied under the queue lock.
Sweep(due) ==
  /\ sweep = {} /\ fire = NoFire
  /\ due # {} /\ due \subseteq Queued
  /\ sweep' = due
  /\ UNCHANGED <<row, legs, heap, queue, req, fire, heard, sent>>

\* The entry fires whether or not it is still in the queue.
FireTransmit(e) ==
  /\ fire = NoFire
  /\ e \in sweep
  /\ sweep' = sweep \ {e}
  /\ fire' = [entry |-> e, step |-> "sent"]
  /\ Transmit(heap[e].msg)
  /\ UNCHANGED <<row, legs, heap, queue, req, heard>>

\* Attempts++.
Uncounted(e) == heap[e].attempts
Counted(e)   == heap[e].attempts + 1

ExhaustedEarly(n) == n >= MaxAttempts - 1
ExhaustedLate(n)  == n > MaxAttempts
Exhausted(n)      == n >= MaxAttempts

\* The new count and the row update that goes with it.
FireRecord ==
  LET e == fire.entry
      n == Counted(e)
  IN  /\ fire.step = "sent"
      /\ heap' = [heap EXCEPT ![e].attempts = n]
      /\ IF Exhausted(n)
         THEN /\ SetMessageState(heap[e].key, "failed", n)
              /\ fire' = [fire EXCEPT !.step = "spent"]
         ELSE /\ SetMessageState(heap[e].key, "pending", n)
              /\ fire' = NoFire
      /\ UNCHANGED <<legs, queue, req, sweep, heard, sent>>

\* An exhausted entry takes whatever its key now holds out of the queue.
FireRemove ==
  /\ fire.step = "spent"
  /\ Remove(heap[fire.entry].key)
  /\ fire' = NoFire
  /\ UNCHANGED <<row, legs, heap, req, sweep, heard, sent>>

-----------------------------------------------------------------------------
(* parseLoop: the answers of the peer                                      *)

\* An ack, rej or piggyback ack of a message some medium has carried.
AnswerMark(m) ==
  /\ heard = None
  /\ legs[m] # {}
  /\ Answerable(m)
  /\ MarkAck(m) \/ MarkRej(m)
  /\ heard' = m
  /\ UNCHANGED <<legs, heap, queue, req, sweep, fire, sent>>

AnswerRemove ==
  /\ heard # None
  /\ Remove(heard)
  /\ heard' = None
  /\ UNCHANGED <<row, legs, heap, req, sweep, fire, sent>>

-----------------------------------------------------------------------------
(* runPruner, and the process going down and coming up again               *)

\* Days separate a row's timestamp from its pruning, so the first retry
\* window of a message is over; a window the operator reopened may not be.
InFirstWindow(m) ==
  \/ \E h \in Handlers : req[h].msg = m /\ req[h].step \in {"log", "enqueue"}
  \/ \E e \in Queued \cup sweep \cup {fire.entry} :
       /\ e # None /\ heap[e].msg = m
       /\ \A f \in Enrolments \ {e} : heap[f].msg # m

Prune(m) ==
  /\ HasRow(m)
  /\ ~InFirstWindow(m)
  /\ row' = [row EXCEPT ![m] = Absent]
  /\ UNCHANGED <<legs, heap, queue, req, sweep, fire, heard, sent>>

\* Only the database survives; newRetryQueue starts empty.
Restart ==
  /\ queue' = [k \in Keys |-> None]
  /\ req' = [h \in Handlers |-> Idle]
  /\ sweep' = {}
  /\ fire' = NoFire
  /\ heard' = None
  /\ UNCHANGED <<row, legs, heap, sent>>

-----------------------------------------------------------------------------
Init ==
  /\ row = [m \in Msgs |-> Absent]
  /\ legs = [m \in Msgs |-> {}]
  /\ heap = [e \in Enrolments |-> Fresh]
  /\ queue = [k \in Keys |-> None]
  /\ req = [h \in Handlers |-> Idle]
  /\ sweep = {}
  /\ fire = NoFire
  /\ heard = None
  /\ sent = [m \in Msgs |-> 0]

Send(h)   == (\E m \in Msgs : SendTransmit(h, m)) \/ SendLog(h)
Cancel(h) == (\E m \in Msgs : CancelRead(h, m)) \/ CancelRemove(h) \/ CancelWrite(h)
Retry(h)  == (\E m \in Msgs : RetryTransmit(h, m)) \/ RetryWrite(h)
Handle(h) == Send(h) \/ Cancel(h) \/ Retry(h) \/ HandlerEnqueue(h)

Fire   == (\E e \in Enrolments : FireTransmit(e)) \/ FireRecord \/ FireRemove
Worker == (\E due \in SUBSET Enrolments : Sweep(due)) \/ Fire
Answer == (\E m \in Msgs : AnswerMark(m)) \/ AnswerRemove

Next ==
  \/ \E h \in Handlers : Handle(h)
  \/ Worker
  \/ Answer
  \/ \E m \in Msgs : Prune(m)
  \/ Restart

Spec == Init /\ [][Next]_vars

\* The steps a running handler, the worker and parseLoop owe: nothing in
\* them waits for another actor.  A sweep comes every five seconds and takes
\* every entry whose interval is over, so no queued entry is passed over for
\* ever.  Requests, answers, pruning and restarts owe nothing.
Fairness ==
  /\ \A h \in Handlers :
       WF_vars(SendLog(h) \/ CancelRemove(h) \/ CancelWrite(h)
               \/ RetryWrite(h) \/ HandlerEnqueue(h))
  /\ \A e \in Enrolments :
       SF_vars(\E due \in SUBSET Enrolments : e \in due /\ Sweep(due))
  /\ WF_vars(Fire)
  /\ WF_vars(AnswerRemove)

FairSpec == Spec /\ Fairness

-----------------------------------------------------------------------------
TypeOK ==
  /\ row \in [Msgs -> Rows]
  /\ legs \in [Msgs -> SUBSET Media]
  /\ heap \in [Enrolments -> Entries]
  /\ queue \in [Keys -> Enrolments \cup {None}]
  /\ req \in [Handlers -> Requests]
  /\ sweep \in SUBSET Enrolments
  /\ fire \in Firings
  /\ heard \in Keys
  /\ sent \in [Msgs -> 0..MaxAttempts]

\* The worker is alone with an entry: one that sits in the queue or waits in
\* the sweep has attempts left, unless fireRetry is about to remove it.  So
\* due() never hands out a spent entry and no enrolment is transmitted more
\* than retryMaxAttempts times, whatever handlers and parseLoop do meanwhile.
SpentIsGone ==
  \A e \in Queued \cup sweep :
    heap[e].attempts < MaxAttempts \/ fire = [entry |-> e, step |-> "spent"]

\* A message is shown as failed only when no medium took its first round or
\* when retryMaxAttempts rounds were made on its media: no interleaving of
\* sends, cancels, re-sends, answers and restarts makes the worker give up on
\* a message that was not tried that often.
FailedMeansSpent ==
  \A m \in Msgs :
    row[m].state = "failed" => legs[m] = {} \/ sent[m] >= MaxAttempts

\* "retry n/5" in the conversation never claims more rounds than were made on
\* the message's media, through every interleaving of the writers of the
\* attempts column (the send, retry and cancel handlers and the worker).
AttemptsHonest ==
  \A m \in Msgs : legs[m] # {} => row[m].attempts <= sent[m]

\* The peer's verdict stands against everything that starts after it: once a
\* message is answered no second ack or rej changes its row, and only two
\* kinds of writer can still take the row back, the entry inside fireRetry
\* and a cancel or retry request that had read the row before.
OnlyStaleWritersReopen ==
  [][\A m \in Msgs :
       row[m].acked /\ row'[m] # row[m] =>
         \/ row'[m].state = "absent"
         \/ /\ row'[m].state \in {"pending", "failed"}
            /\ fire.step = "sent" /\ heap[fire.entry].key = m
         \/ \E h \in Handlers :
              /\ req[h].key = m
              /\ \/ req[h].step = "cancel" /\ row'[m].state = "cancelled"
                 \/ req[h].step = "reset" /\ row'[m].state = "pending"]_vars
=============================================================================
