------------------------- MODULE MessageRetryProofs -------------------------
(***************************************************************************)
(* Theorems about MessageRetry, for any set of messages, handlers and      *)
(* enrolments and any MaxAttempts.                                         *)
(***************************************************************************)
EXTENDS MessageRetryContract, TLAPS

(***************************************************************************)
(* Type correctness of every behaviour: in particular no row and no entry  *)
(* ever counts beyond retryMaxAttempts, which is not inductive by itself   *)
(* (an entry at the limit must not fire), so EntryBound goes with it.      *)
(***************************************************************************)
Live(e) == e \in Enrolments /\ heap[e].attempts \in 1..MaxAttempts

EntryBound ==
  /\ \A k \in Keys : queue[k] # None =>
       /\ Live(queue[k])
       /\ heap[queue[k]].key = k
       /\ \/ heap[queue[k]].attempts < MaxAttempts
          \/ fire.entry = queue[k] /\ fire.step = "spent"
  /\ \A e \in sweep : Live(e) /\ heap[e].attempts < MaxAttempts /\ e # fire.entry
  /\ fire.step = "idle" <=> fire.entry = None
  /\ fire.entry # None => Live(fire.entry)
  /\ fire.step = "sent" => heap[fire.entry].attempts < MaxAttempts

TInv == TypeOK /\ EntryBound

LEMMA RecordTypes ==
  /\ Absent \in Rows
  /\ Fresh \in Entries
  /\ Idle \in Requests
  /\ NoFire \in Firings
  /\ \A s \in {"idle", "log", "enqueue", "remove", "cancel", "reset"},
        m, k \in Keys, n \in 0..MaxAttempts : At(s, m, k, n) \in Requests
<1> USE RetryAssumption
<1>1. Absent \in Rows
  BY DEF Absent, Rows
<1>2. Fresh \in Entries
  BY DEF Fresh, Entries, Keys
<1>3. Idle \in Requests
  BY DEF Idle, At, Requests, Keys
<1>4. NoFire \in Firings
  BY DEF NoFire, Firings
<1>5. QED
  BY <1>1, <1>2, <1>3, <1>4 DEF At, Requests

\* A handler that moves on keeps the rest of its locals.
LEMMA GotoType ==
  ASSUME req \in [Handlers -> Requests], NEW h \in Handlers,
         NEW s \in {"cancel", "enqueue"}, Goto(h, s)
  PROVE  req' \in [Handlers -> Requests]
<1>1. [req[h] EXCEPT !.step = s] \in Requests
  BY DEF Requests
<1>2. QED
  BY <1>1 DEF Goto

LEMMA TransmitType ==
  ASSUME RetryAssumption, sent \in [Msgs -> 0..MaxAttempts], NEW m \in Keys, Transmit(m)
  PROVE  sent' \in [Msgs -> 0..MaxAttempts]
<1>1. CASE m \in Msgs
  <2>1. sent[m] \in 0..MaxAttempts
    BY <1>1
  <2>2. sent[m] # MaxAttempts => sent[m] + 1 \in 0..MaxAttempts
    BY <2>1 DEF RetryAssumption
  <2>3. QED
    BY <2>2 DEF Transmit
<1>2. CASE m \notin Msgs
  BY <1>2 DEF Transmit
<1>3. QED
  BY <1>1, <1>2

\* What the two updates of the messages table write is a row.
LEMMA SetMessageStateType ==
  ASSUME row \in [Msgs -> Rows], NEW k, NEW s \in RowStates, NEW n \in 0..MaxAttempts,
         SetMessageState(k, s, n)
  PROVE  row' \in [Msgs -> Rows]
<1>1. [state |-> s, attempts |-> n, acked |-> s = "acked"] \in Rows
  BY DEF Rows, RowStates
<1>2. QED
  BY <1>1 DEF SetMessageState, HasRow

\* EntryBound is about the queue, its entries and the worker only.
LEMMA EntryBoundFrame ==
  ASSUME EntryBound, UNCHANGED <<heap, queue, sweep, fire>>
  PROVE  EntryBound'
BY DEF EntryBound, Live

\* Taking a key out of the queue can only help.
LEMMA RemoveKeepsBound ==
  ASSUME TypeOK, EntryBound, NEW k, Remove(k), UNCHANGED <<heap, sweep, fire>>
  PROVE  EntryBound'
<1>1. \A j \in Keys : queue'[j] = queue[j] \/ queue'[j] = None
  BY DEF Remove, TypeOK
<1>2. QED
  BY <1>1 DEF EntryBound, Live

LEMMA TInvInit == Init => TInv
<1> SUFFICES ASSUME Init PROVE TInv
  OBVIOUS
<1>1. TypeOK
  <2>1. 0 \in 0..MaxAttempts
    BY RetryAssumption
  <2>2. None \in Keys
    BY DEF Keys
  <2>3. QED
    BY <2>1, <2>2, RecordTypes DEF Init, TypeOK
<1>2. EntryBound
  BY DEF Init, EntryBound, NoFire
<1>3. QED
  BY <1>1, <1>2 DEF TInv

LEMMA TInvNext == TInv /\ [Next]_vars => TInv'
<1> SUFFICES ASSUME TypeOK, EntryBound, [Next]_vars PROVE TypeOK' /\ EntryBound'
  BY DEF TInv
<1> USE RetryAssumption
<1>1. ASSUME NEW h \in Handlers, NEW m \in Msgs, SendTransmit(h, m)
      PROVE  TypeOK' /\ EntryBound'
  <2>1. [sent EXCEPT ![m] = 1] \in [Msgs -> 0..MaxAttempts]
    BY DEF TypeOK
  <2>2. legs' \in [Msgs -> SUBSET Media]
    BY <1>1 DEF SendTransmit, TypeOK
  <2>3. req' \in [Handlers -> Requests]
    <3>1. At("log", m, None, 0) \in Requests
      BY RecordTypes DEF Keys
    <3>2. QED
      BY <1>1, <3>1 DEF SendTransmit, TypeOK
  <2>4. QED
    BY <1>1, <2>1, <2>2, <2>3, EntryBoundFrame DEF SendTransmit, TypeOK
<1>2. ASSUME NEW h \in Handlers, SendLog(h) PROVE TypeOK' /\ EntryBound'
  <2>1. req[h].msg \in Keys /\ None \in Keys
    BY DEF TypeOK, Requests, Keys
  <2>2. row' \in [Msgs -> Rows]
    <3>1. \A s \in {"failed", "pending"} :
            [state |-> s, attempts |-> 1, acked |-> FALSE] \in Rows
      BY DEF Rows, RowStates
    <3>2. QED
      BY <1>2, <3>1 DEF SendLog, TypeOK
  <2>3. req' \in [Handlers -> Requests]
    <3>1. \A k \in Keys : At("enqueue", req[h].msg, k, 1) \in Requests
      BY <2>1, RecordTypes
    <3>2. QED
      BY <1>2, <2>1, <3>1, RecordTypes DEF SendLog, TypeOK
  <2>4. QED
    BY <1>2, <2>2, <2>3, EntryBoundFrame DEF SendLog, TypeOK
<1>3. ASSUME NEW h \in Handlers, HandlerEnqueue(h) PROVE TypeOK' /\ EntryBound'
  <2>1. PICK e \in Enrolments : Enqueue(e, req[h].msg, req[h].key)
    BY <1>3 DEF HandlerEnqueue
  <2>2. req[h].msg \in Keys /\ req[h].key \in Keys
    BY DEF TypeOK, Requests
  <2>3. [msg |-> req[h].msg, key |-> req[h].key, attempts |-> 1] \in Entries
    BY <2>2 DEF Entries
  <2>4. TypeOK'
    BY <1>3, <2>1, <2>2, <2>3, RecordTypes DEF HandlerEnqueue, Enqueue, Return, TypeOK
  <2>5. e # None /\ 1 < MaxAttempts
    OBVIOUS
  <2>6. \A f \in Enrolments \ {e} : heap'[f] = heap[f]
    BY <2>1 DEF Enqueue, TypeOK
  <2>7. heap'[e] = [msg |-> req[h].msg, key |-> req[h].key, attempts |-> 1]
    BY <2>1 DEF Enqueue, TypeOK
  <2>8. \A k \in Keys : queue'[k] = IF k = req[h].key THEN e ELSE queue[k]
    BY <2>1, <2>2 DEF Enqueue, TypeOK
  <2>9. fire' = fire /\ sweep' = sweep
    BY <1>3 DEF HandlerEnqueue
  <2>10. fire.entry \in Enrolments \cup {None}
    BY DEF TypeOK, Firings
  <2>11. \A k \in Keys : queue[k] \in Enrolments \cup {None}
    BY DEF TypeOK
  <2>12. sweep \subseteq Enrolments
    BY DEF TypeOK
  <2>13. fire.step = "sent" => fire.entry \in Enrolments
    BY <2>10 DEF EntryBound
  <2>14. \A k \in Keys : queue'[k] # None =>
           /\ queue'[k] \in Enrolments /\ heap'[queue'[k]].attempts \in 1..MaxAttempts
           /\ heap'[queue'[k]].key = k
           /\ \/ heap'[queue'[k]].attempts < MaxAttempts
              \/ fire'.entry = queue'[k] /\ fire'.step = "spent"
    <3>1. TAKE k \in Keys
    <3>2. CASE queue'[k] = e
      <4>1. k = req[h].key \/ queue[k] = e
        BY <2>8, <3>2
      <4>2. heap[e].attempts = 0
        BY <2>1 DEF Enqueue, Fresh
      <4>3. k = req[h].key
        BY <4>1, <4>2, <2>5, <2>8, <3>2 DEF EntryBound, Live
      <4>4. QED
        BY <4>3, <3>2, <2>5, <2>7 DEF Live
    <3>3. CASE queue'[k] # e
      BY <3>3, <2>6, <2>8, <2>9, <2>11 DEF EntryBound, Live
    <3>4. QED
      BY <3>2, <3>3
  <2>15. heap[e].attempts = 0
    BY <2>1 DEF Enqueue, Fresh
  <2>16. e \notin sweep /\ e # fire.entry
    BY <2>5, <2>15 DEF EntryBound, Live
  <2>17. QED
    BY <2>4, <2>6, <2>9, <2>10, <2>12, <2>14, <2>16 DEF EntryBound, Live
<1>4. ASSUME NEW h \in Handlers, NEW m \in Msgs, CancelRead(h, m) PROVE TypeOK' /\ EntryBound'
  <2>1. row[m].attempts \in 0..MaxAttempts
    BY DEF TypeOK, Rows
  <2>2. At("remove", m, m, row[m].attempts) \in Requests
    BY <2>1, RecordTypes DEF Keys
  <2>3. QED
    BY <1>4, <2>2, EntryBoundFrame DEF CancelRead, TypeOK
<1>5. ASSUME NEW h \in Handlers, CancelRemove(h) PROVE TypeOK' /\ EntryBound'
  <2>1. TypeOK'
    BY <1>5, GotoType DEF CancelRemove, Remove, TypeOK
  <2>2. QED
    BY <1>5, <2>1, RemoveKeepsBound DEF CancelRemove
<1>6. ASSUME NEW h \in Handlers, CancelWrite(h) PROVE TypeOK' /\ EntryBound'
  <2>1. req[h].attempts \in 0..MaxAttempts
    BY DEF TypeOK, Requests
  <2>2. row' \in [Msgs -> Rows]
    BY <1>6, <2>1, SetMessageStateType DEF CancelWrite, TypeOK, RowStates
  <2>3. QED
    BY <1>6, <2>2, RecordTypes, EntryBoundFrame DEF CancelWrite, Return, TypeOK
<1>7. ASSUME NEW h \in Handlers, NEW m \in Msgs, RetryTransmit(h, m) PROVE TypeOK' /\ EntryBound'
  <2>1. sent' \in [Msgs -> 0..MaxAttempts]
    BY <1>7, TransmitType DEF RetryTransmit, TypeOK, Keys
  <2>2. At("reset", m, m, 1) \in Requests
    BY RecordTypes DEF Keys
  <2>3. QED
    BY <1>7, <2>1, <2>2, EntryBoundFrame DEF RetryTransmit, TypeOK
<1>8. ASSUME NEW h \in Handlers, RetryWrite(h) PROVE TypeOK' /\ EntryBound'
  <2>1. 1 \in 0..MaxAttempts
    OBVIOUS
  <2>2. row' \in [Msgs -> Rows]
    BY <1>8, <2>1, SetMessageStateType DEF RetryWrite, TypeOK, RowStates
  <2>3. QED
    BY <1>8, <2>2, GotoType, EntryBoundFrame DEF RetryWrite, TypeOK
<1>9. ASSUME NEW due, Sweep(due) PROVE TypeOK' /\ EntryBound'
  <2>1. due \subseteq {queue[k] : k \in Keys} \ {None} /\ sweep' = due /\ fire = NoFire
        /\ UNCHANGED <<row, legs, heap, queue, req, fire, heard, sent>>
    BY <1>9 DEF Sweep, Queued
  <2>2. TypeOK'
    BY <2>1 DEF TypeOK
  <2>3. fire.step = "idle" /\ fire.entry = None
    BY <2>1 DEF NoFire
  <2>4. \A e \in due : Live(e) /\ heap[e].attempts < MaxAttempts /\ e # fire.entry
    BY <2>1, <2>3 DEF EntryBound
  <2>5. QED
    BY <2>1, <2>2, <2>4 DEF EntryBound, Live
<1>10. ASSUME NEW e \in Enrolments, FireTransmit(e) PROVE TypeOK' /\ EntryBound'
  <2>1. heap[e].msg \in Keys
    BY DEF TypeOK, Entries
  <2>2. sent' \in [Msgs -> 0..MaxAttempts]
    BY <1>10, <2>1, TransmitType DEF FireTransmit, TypeOK
  <2>3. [entry |-> e, step |-> "sent"] \in Firings
    BY DEF Firings
  <2>4. TypeOK'
    BY <1>10, <2>2, <2>3 DEF FireTransmit, TypeOK
  <2>5. fire.step = "idle" /\ fire' = [entry |-> e, step |-> "sent"] /\ e \in sweep
        /\ sweep' = sweep \ {e} /\ UNCHANGED <<heap, queue>>
    BY <1>10 DEF FireTransmit, NoFire
  <2>6. QED
    BY <2>4, <2>5 DEF EntryBound, Live
<1>11. ASSUME FireRecord PROVE TypeOK' /\ EntryBound'
  <2> DEFINE e == fire.entry
             n == heap[e].attempts + 1
  <2>1. e \in Enrolments /\ e # None
    BY <1>11 DEF FireRecord, EntryBound, TypeOK, Firings
  <2>2. heap[e].attempts \in 0..MaxAttempts /\ heap[e].attempts < MaxAttempts
    BY <1>11, <2>1 DEF FireRecord, EntryBound, TypeOK, Entries
  <2>3. n \in 0..MaxAttempts /\ (n >= MaxAttempts => n = MaxAttempts)
    BY <2>2
  <2>4. row' \in [Msgs -> Rows]
    BY <1>11, <2>3, SetMessageStateType DEF FireRecord, Counted, TypeOK, RowStates
  <2>5. [heap[e] EXCEPT !.attempts = n] \in Entries
    BY <2>1, <2>3 DEF TypeOK, Entries
  <2>6. heap' = [heap EXCEPT ![e] = [heap[e] EXCEPT !.attempts = n]]
    BY <1>11 DEF FireRecord, Counted
  <2>7. fire' = IF n >= MaxAttempts THEN [entry |-> e, step |-> "spent"] ELSE NoFire
    BY <1>11 DEF FireRecord, Counted, Exhausted, TypeOK, Firings
  <2>8. fire' \in Firings
    BY <2>1, <2>7, RecordTypes DEF Firings
  <2>9. UNCHANGED <<legs, queue, req, sweep, heard, sent>>
    BY <1>11 DEF FireRecord
  <2>10. TypeOK'
    BY <2>4, <2>5, <2>6, <2>8, <2>9 DEF TypeOK
  <2>11. \A f \in Enrolments \ {e} : heap'[f] = heap[f]
    BY <2>6 DEF TypeOK
  <2>12. heap'[e].key = heap[e].key /\ heap'[e].attempts = n
    BY <2>1, <2>6 DEF TypeOK, Entries
  <2>13. fire.step = "sent"
    BY <1>11 DEF FireRecord
  <2>14. \A k \in Keys : queue[k] \in Enrolments \cup {None}
    BY DEF TypeOK
  <2>15. \A k \in Keys : queue[k] # None =>
           /\ queue[k] \in Enrolments /\ heap'[queue[k]].attempts \in 1..MaxAttempts
           /\ heap'[queue[k]].key = k
           /\ \/ heap'[queue[k]].attempts < MaxAttempts
              \/ fire'.entry = queue[k] /\ fire'.step = "spent"
    <3>1. TAKE k \in Keys
    <3>2. CASE queue[k] = e
      BY <3>2, <2>1, <2>2, <2>3, <2>7, <2>12 DEF EntryBound, Live
    <3>3. CASE queue[k] # e
      BY <3>3, <2>11, <2>13, <2>14 DEF EntryBound, Live
    <3>4. QED
      BY <3>2, <3>3
  <2>16. \A f \in sweep : Live(f)' /\ heap'[f].attempts < MaxAttempts /\ f # fire'.entry
    <3>1. TAKE f \in sweep
    <3>2. f \in Enrolments /\ f # e /\ f # None /\ heap[f].attempts < MaxAttempts /\ Live(f)
      BY DEF TypeOK, EntryBound
    <3>3. QED
      BY <3>2, <2>7, <2>11 DEF NoFire, Live
  <2>17. /\ fire'.step = "idle" <=> fire'.entry = None
         /\ fire'.step # "sent"
         /\ fire'.entry # None =>
              fire'.entry \in Enrolments /\ heap'[fire'.entry].attempts \in 1..MaxAttempts
    BY <2>1, <2>3, <2>7, <2>12 DEF NoFire, Live
  <2>18. QED
    BY <2>9, <2>10, <2>15, <2>16, <2>17 DEF EntryBound, Live
<1>12. ASSUME FireRemove PROVE TypeOK' /\ EntryBound'
  <2> DEFINE e == fire.entry
             k0 == heap[e].key
  <2>1. e \in Enrolments /\ fire.step = "spent" /\ k0 \in Keys
    BY <1>12 DEF FireRemove, EntryBound, TypeOK, Firings, Entries
  <2>2. queue' = [queue EXCEPT ![k0] = None] /\ fire' = NoFire
        /\ UNCHANGED <<row, legs, heap, req, sweep, heard, sent>>
    BY <1>12 DEF FireRemove, Remove
  <2>3. TypeOK'
    BY <2>2, RecordTypes DEF TypeOK
  <2>4. \A k \in Keys : queue'[k] = IF k = k0 THEN None ELSE queue[k]
    BY <2>2 DEF TypeOK
  <2>5. \A k \in Keys : queue'[k] # None => queue'[k] # e
    BY <2>4 DEF EntryBound
  <2>6. \A f \in sweep : f # None
    BY RetryAssumption DEF TypeOK
  <2>7. \A k \in Keys : queue'[k] # None =>
          Live(queue'[k]) /\ heap[queue'[k]].key = k /\ heap[queue'[k]].attempts < MaxAttempts
    BY <2>4, <2>5 DEF EntryBound
  <2>8. QED
    BY <2>2, <2>3, <2>6, <2>7 DEF EntryBound, NoFire, Live
<1>13. ASSUME NEW m \in Msgs, AnswerMark(m) PROVE TypeOK' /\ EntryBound'
  <2>1. row' \in [Msgs -> Rows]
    <3>1. \A s \in {"acked", "rejected"} :
            [row[m] EXCEPT !.state = s, !.acked = TRUE] \in Rows
      BY DEF TypeOK, Rows, RowStates
    <3>2. \E s \in {"acked", "rejected"} :
            row' = [row EXCEPT ![m] = [row[m] EXCEPT !.state = s, !.acked = TRUE]]
      BY <1>13 DEF AnswerMark, MarkAck, MarkRej, TypeOK, Rows
    <3>3. QED
      BY <3>1, <3>2 DEF TypeOK
  <2>2. QED
    BY <1>13, <2>1, EntryBoundFrame DEF AnswerMark, TypeOK, Keys
<1>14. ASSUME AnswerRemove PROVE TypeOK' /\ EntryBound'
  <2>1. TypeOK'
    BY <1>14 DEF AnswerRemove, Remove, TypeOK, Keys
  <2>2. QED
    BY <1>14, <2>1, RemoveKeepsBound DEF AnswerRemove
<1>15. ASSUME NEW m \in Msgs, Prune(m) PROVE TypeOK' /\ EntryBound'
  <2>1. TypeOK'
    BY <1>15, RecordTypes DEF Prune, TypeOK
  <2>2. QED
    BY <1>15, <2>1, EntryBoundFrame DEF Prune
<1>16. ASSUME Restart PROVE TypeOK' /\ EntryBound'
  <2>1. TypeOK'
    BY <1>16, RecordTypes DEF Restart, TypeOK, Keys
  <2>2. EntryBound'
    BY <1>16 DEF Restart, EntryBound, NoFire
  <2>3. QED
    BY <2>1, <2>2
<1>17. CASE UNCHANGED vars
  BY <1>17, EntryBoundFrame DEF vars, TypeOK
<1>18. QED
  BY <1>1, <1>2, <1>3, <1>4, <1>5, <1>6, <1>7, <1>8, <1>9, <1>10, <1>11, <1>12,
     <1>13, <1>14, <1>15, <1>16, <1>17
     DEF Next, Handle, Send, Cancel, Retry, Worker, Fire, Answer

THEOREM TInvHolds == Spec => []TInv
<1>1. QED
  BY TInvInit, TInvNext, PTL DEF Spec

\* Every variable keeps its type; the attempts columns stay within the limit.
THEOREM TypeCorrect == Spec => []TypeOK
<1>1. TInv => TypeOK
  BY DEF TInv
<1>2. QED
  BY <1>1, TInvHolds, PTL

\* The worker's loop invariant: due() never meets a spent entry.
THEOREM SpentIsGoneHolds == Spec => []SpentIsGone
<1>1. TInv => SpentIsGone
  <2> SUFFICES ASSUME TInv, NEW e \in Queued \cup sweep, ~(heap[e].attempts < MaxAttempts)
               PROVE  fire = [entry |-> e, step |-> "spent"]
    BY DEF SpentIsGone
  <2>1. fire.entry = e /\ fire.step = "spent"
    BY DEF TInv, EntryBound, Queued
  <2>2. QED
    BY <2>1 DEF TInv, TypeOK, Firings
<1>2. QED
  BY <1>1, TInvHolds, PTL

-----------------------------------------------------------------------------
(***************************************************************************)
(* The attempts columns are honest.  Whatever carries a count of attempts  *)
(* (the row, the entry, the locals of a request) is covered by rounds that *)
(* really went out; the round of the entry inside fireRetry is transmitted *)
(* before it is counted.  A message without media counts nothing.          *)
(***************************************************************************)
Covered(m, n) == sent[m] >= 1 /\ (legs[m] # {} => n <= sent[m])

Owed(e) == heap[e].attempts + (IF fire.entry = e /\ fire.step = "sent" THEN 1 ELSE 0)

EntryCovered(e) ==
  heap[e].attempts # 0 =>
    /\ heap[e].msg \in Msgs
    /\ heap[e].key \in {heap[e].msg, None}
    /\ Covered(heap[e].msg, Owed(e))

RequestCovered(h) ==
  req[h].step # "idle" =>
    /\ req[h].msg \in Msgs
    /\ req[h].key \in {req[h].msg, None}
    /\ Covered(req[h].msg, req[h].attempts)

RowCovered(m) ==
  /\ row[m].state = "absent" => row[m].attempts = 0
  /\ row[m].state # "absent" => Covered(m, row[m].attempts)
  /\ row[m].state = "failed" => legs[m] = {} \/ sent[m] >= MaxAttempts

HInv ==
  /\ \A e \in Enrolments : EntryCovered(e)
  /\ \A h \in Handlers : RequestCovered(h)
  /\ \A m \in Msgs : RowCovered(m)

\* Rounds are never forgotten, and the media of a message that has been
\* transmitted are settled.
HistoryKept ==
  \A m \in Msgs : sent[m] >= 1 => sent'[m] >= sent[m] /\ legs'[m] = legs[m]

LEMMA HistoryKeptNext == TypeOK /\ [Next]_vars => HistoryKept
<1> SUFFICES ASSUME TypeOK, [Next]_vars, NEW k \in Msgs, sent[k] >= 1
             PROVE  sent'[k] >= sent[k] /\ legs'[k] = legs[k]
  BY DEF HistoryKept
<1>1. \A m \in Msgs : sent[m] \in Nat
  BY RetryAssumption DEF TypeOK
<1>2. ASSUME NEW h \in Handlers, NEW m \in Msgs, SendTransmit(h, m)
      PROVE  sent'[k] = sent[k] /\ legs'[k] = legs[k]
  <2>1. k # m
    BY <1>2 DEF SendTransmit
  <2>2. QED
    BY <1>2, <2>1 DEF SendTransmit, TypeOK
<1>3. ASSUME NEW m, Transmit(m), UNCHANGED legs
      PROVE  sent'[k] >= sent[k] /\ legs'[k] = legs[k]
  BY <1>1, <1>3 DEF Transmit, TypeOK
<1>4. CASE UNCHANGED <<sent, legs>>
  BY <1>1, <1>4
<1>5. \/ \E h \in Handlers, m \in Msgs : SendTransmit(h, m)
      \/ \E m : Transmit(m) /\ UNCHANGED legs
      \/ UNCHANGED <<sent, legs>>
  BY DEF Next, vars, Handle, Send, Cancel, Retry, Worker, Fire, Answer, SendLog,
         HandlerEnqueue, CancelRead, CancelRemove, CancelWrite, RetryTransmit, RetryWrite,
         Sweep, FireTransmit, FireRecord, FireRemove, AnswerMark, AnswerRemove, Prune, Restart
<1>6. QED
  BY <1>1, <1>2, <1>3, <1>4, <1>5

\* What was covered stays covered, by a state that counts no more than it did.
LEMMA CoveredStays ==
  ASSUME TypeOK, TypeOK', HistoryKept, NEW m \in Msgs, NEW n \in Nat, Covered(m, n)
  PROVE  sent'[m] >= 1 /\ (legs'[m] # {} => n <= sent'[m])
<1>1. sent[m] \in Nat /\ sent'[m] \in Nat
  BY RetryAssumption DEF TypeOK
<1>2. QED
  BY <1>1 DEF HistoryKept, Covered

LEMMA EntryFrame ==
  ASSUME TypeOK, TypeOK', HistoryKept, NEW e \in Enrolments, EntryCovered(e),
         heap'[e] = heap[e], Owed(e)' = Owed(e)
  PROVE  EntryCovered(e)'
<1>1. Owed(e) \in Nat
  BY RetryAssumption DEF Owed, TypeOK, Entries
<1>2. QED
  BY <1>1, CoveredStays DEF EntryCovered, Covered

LEMMA RequestFrame ==
  ASSUME TypeOK, TypeOK', HistoryKept, NEW h \in Handlers, RequestCovered(h), req'[h] = req[h]
  PROVE  RequestCovered(h)'
<1>1. req[h].attempts \in Nat
  BY RetryAssumption DEF TypeOK, Requests
<1>2. QED
  BY <1>1, CoveredStays DEF RequestCovered, Covered

LEMMA RowFrame ==
  ASSUME TypeOK, TypeOK', HistoryKept, NEW m \in Msgs, RowCovered(m), row'[m] = row[m]
  PROVE  RowCovered(m)'
<1>1. row[m].attempts \in Nat /\ sent[m] \in Nat /\ sent'[m] \in Nat
  BY RetryAssumption DEF TypeOK, Rows
<1>2. CASE row[m].state = "absent"
  BY <1>2 DEF RowCovered
<1>3. CASE row[m].state # "absent"
  <2>1. sent'[m] >= 1 /\ (legs'[m] # {} => row[m].attempts <= sent'[m])
    BY <1>1, <1>3, CoveredStays DEF RowCovered
  <2>2. row[m].state = "failed" => legs'[m] = {} \/ sent'[m] >= MaxAttempts
    BY <1>1, <1>3, RetryAssumption DEF RowCovered, Covered, HistoryKept
  <2>3. QED
    BY <2>1, <2>2 DEF RowCovered, Covered
<1>4. QED
  BY <1>2, <1>3

LEMMA EntriesFrame ==
  ASSUME TypeOK, TypeOK', HistoryKept, HInv, UNCHANGED <<heap, fire>>
  PROVE  \A e \in Enrolments : EntryCovered(e)'
<1> SUFFICES ASSUME NEW e \in Enrolments PROVE EntryCovered(e)'
  OBVIOUS
<1>1. Owed(e)' = Owed(e)
  BY DEF Owed
<1>2. QED
  BY <1>1, EntryFrame DEF HInv

\* A step of handler h that leaves it covered leaves every request covered.
LEMMA RequestsFrame ==
  ASSUME TypeOK, TypeOK', HistoryKept, HInv, NEW h \in Handlers, RequestCovered(h)',
         NEW r, req' = [req EXCEPT ![h] = r]
  PROVE  \A g \in Handlers : RequestCovered(g)'
<1> SUFFICES ASSUME NEW g \in Handlers PROVE RequestCovered(g)'
  OBVIOUS
<1>1. CASE g = h
  BY <1>1
<1>2. CASE g # h
  <2>1. req'[g] = req[g]
    BY <1>2 DEF TypeOK
  <2>2. QED
    BY <2>1, RequestFrame DEF HInv
<1>3. QED
  BY <1>1, <1>2

LEMMA RequestsSame ==
  ASSUME TypeOK, TypeOK', HistoryKept, HInv, UNCHANGED req
  PROVE  \A h \in Handlers : RequestCovered(h)'
BY RequestFrame DEF HInv

LEMMA RowsSame ==
  ASSUME TypeOK, TypeOK', HistoryKept, HInv, UNCHANGED row
  PROVE  \A m \in Msgs : RowCovered(m)'
BY RowFrame DEF HInv

\* A write to one row that leaves it covered leaves every row covered.
LEMMA RowsFrame ==
  ASSUME TypeOK, TypeOK', HistoryKept, HInv, NEW m \in Msgs, RowCovered(m)',
         NEW r, row' = [row EXCEPT ![m] = r]
  PROVE  \A k \in Msgs : RowCovered(k)'
<1> SUFFICES ASSUME NEW k \in Msgs PROVE RowCovered(k)'
  OBVIOUS
<1>1. CASE k = m
  BY <1>1
<1>2. CASE k # m
  <2>1. row'[k] = row[k]
    BY <1>2 DEF TypeOK
  <2>2. QED
    BY <2>1, RowFrame DEF HInv
<1>3. QED
  BY <1>1, <1>2

\* SetMessageState by a writer whose count is covered.
LEMMA SetMessageStateCovered ==
  ASSUME TypeOK, TypeOK', HistoryKept, HInv,
         NEW k \in Keys, NEW s \in RowStates, NEW n \in 0..MaxAttempts,
         k # None => Covered(k, n),
         s = "failed" => n = MaxAttempts,
         SetMessageState(k, s, n)
  PROVE  \A m \in Msgs : RowCovered(m)'
<1>1. CASE UNCHANGED row
  BY <1>1, RowsSame
<1>2. CASE /\ HasRow(k)
           /\ row' = [row EXCEPT ![k] = [state |-> s, attempts |-> n, acked |-> s = "acked"]]
  <2>1. k \in Msgs /\ k # None
    BY <1>2, RetryAssumption DEF HasRow
  <2>2. row'[k].state = s /\ row'[k].attempts = n /\ s # "absent"
    BY <1>2, <2>1 DEF TypeOK, RowStates
  <2>3. n \in Nat
    BY RetryAssumption
  <2>4. sent'[k] >= 1 /\ (legs'[k] # {} => n <= sent'[k])
    BY <2>1, <2>3, CoveredStays
  <2>5. s = "failed" => legs'[k] = {} \/ sent'[k] >= MaxAttempts
    BY <2>4
  <2>6. RowCovered(k)'
    BY <2>2, <2>4, <2>5 DEF RowCovered, Covered
  <2>7. QED
    BY <1>2, <2>1, <2>6, RowsFrame
<1>3. QED
  BY <1>1, <1>2 DEF SetMessageState

LEMMA HInvInit == Init => HInv
BY RetryAssumption
   DEF Init, HInv, EntryCovered, RequestCovered, RowCovered, Fresh, Idle, At, Absent

LEMMA HInvNext == TInv /\ HInv /\ [Next]_vars => HInv'
<1> SUFFICES ASSUME TInv, HInv, [Next]_vars PROVE HInv'
  OBVIOUS
<1> USE RetryAssumption
<1>a. TypeOK /\ TypeOK' /\ EntryBound /\ HistoryKept
  BY TInvNext, HistoryKeptNext DEF TInv
<1>b. \A m \in Msgs : sent[m] \in Nat /\ sent'[m] \in Nat
  BY <1>a DEF TypeOK
<1>1. ASSUME NEW h \in Handlers, NEW m \in Msgs, SendTransmit(h, m) PROVE HInv'
  <2>1. req' = [req EXCEPT ![h] = At("log", m, None, 0)] /\ sent'[m] = 1
        /\ UNCHANGED <<row, heap, fire>>
    BY <1>1, <1>a DEF SendTransmit, TypeOK
  <2>2. RequestCovered(h)'
    BY <2>1, <1>a DEF RequestCovered, Covered, At, TypeOK
  <2>3. QED
    BY <2>1, <2>2, <1>a, EntriesFrame, RequestsFrame, RowsSame DEF HInv
<1>2. ASSUME NEW h \in Handlers, SendLog(h) PROVE HInv'
  <2>0. PICK m \in Msgs : m = req[h].msg
    BY <1>2 DEF SendLog, HInv, RequestCovered
  <2>1. sent[m] >= 1 /\ UNCHANGED <<legs, sent, heap, fire>>
    BY <1>2, <1>a, <2>0 DEF SendLog, HInv, RequestCovered, Covered
  <2>2. \E k \in {m, None} :
          \/ req' = [req EXCEPT ![h] = At("enqueue", m, k, 1)]
          \/ req' = [req EXCEPT ![h] = Idle]
    BY <1>2, <2>0 DEF SendLog
  <2>3. RequestCovered(h)'
    <3>1. \/ req'[h] = Idle
          \/ \E k \in {m, None} : req'[h] = At("enqueue", m, k, 1)
      BY <2>2, <1>a DEF TypeOK
    <3>2. QED
      BY <3>1, <2>1, <1>b DEF RequestCovered, Covered, At, Idle
  <2>4. \A g \in Handlers : RequestCovered(g)'
    BY <2>2, <2>3, <1>a, RequestsFrame
  <2>5. \A k \in Msgs : RowCovered(k)'
    <3>1. CASE UNCHANGED row
      BY <3>1, <1>a, RowsSame
    <3>2. CASE row' = [row EXCEPT ![m] =
                [state |-> IF legs[m] = {} THEN "failed" ELSE "pending",
                 attempts |-> 1, acked |-> FALSE]]
      <4>1. RowCovered(m)'
        BY <3>2, <2>1, <1>a, <1>b DEF RowCovered, Covered, TypeOK
      <4>2. QED
        BY <3>2, <4>1, <2>1, <1>a, RowsFrame
    <3>3. QED
      BY <1>2, <2>0, <3>1, <3>2 DEF SendLog
  <2>6. QED
    BY <2>1, <2>4, <2>5, <1>a, EntriesFrame DEF HInv
<1>3. ASSUME NEW h \in Handlers, HandlerEnqueue(h) PROVE HInv'
  <2> DEFINE m == req[h].msg
             k == req[h].key
  <2>1. PICK e \in Enrolments : Enqueue(e, m, k)
    BY <1>3 DEF HandlerEnqueue
  <2>2. m \in Msgs /\ k \in {m, None} /\ sent[m] >= 1
    BY <1>3 DEF HandlerEnqueue, HInv, RequestCovered, Covered
  <2>3. heap' = [heap EXCEPT ![e] = [msg |-> m, key |-> k, attempts |-> 1]]
        /\ req' = [req EXCEPT ![h] = Idle] /\ UNCHANGED <<row, legs, fire, sent>>
    BY <1>3, <2>1 DEF HandlerEnqueue, Enqueue, Return
  <2>4. fire.step = "sent" => fire.entry # e
    BY <2>1, <1>a DEF Enqueue, Fresh, EntryBound, Live
  <2>5. EntryCovered(e)'
    BY <2>2, <2>3, <2>4, <1>a, <1>b DEF EntryCovered, Covered, Owed, TypeOK
  <2>6. ASSUME NEW f \in Enrolments, f # e PROVE EntryCovered(f)'
    <3>1. heap'[f] = heap[f] /\ Owed(f)' = Owed(f)
      BY <2>3, <2>6, <1>a DEF Owed, TypeOK
    <3>2. QED
      BY <3>1, <1>a, EntryFrame DEF HInv
  <2>7. RequestCovered(h)'
    BY <2>3, <1>a DEF RequestCovered, Idle, At, TypeOK
  <2>8. \A g \in Handlers : RequestCovered(g)'
    BY <2>3, <2>7, <1>a, RequestsFrame
  <2>9. QED
    BY <2>3, <2>5, <2>6, <2>8, <1>a, RowsSame DEF HInv
<1>4. ASSUME NEW h \in Handlers, NEW m \in Msgs, CancelRead(h, m) PROVE HInv'
  <2>1. req' = [req EXCEPT ![h] = At("remove", m, m, row[m].attempts)]
        /\ Covered(m, row[m].attempts) /\ UNCHANGED <<row, legs, heap, fire, sent>>
    BY <1>4 DEF CancelRead, HInv, RowCovered
  <2>2. RequestCovered(h)'
    BY <2>1, <1>a DEF RequestCovered, Covered, At, TypeOK
  <2>3. QED
    BY <2>1, <2>2, <1>a, EntriesFrame, RequestsFrame, RowsSame DEF HInv
<1>5. ASSUME NEW h \in Handlers, NEW s \in {"cancel", "enqueue"}, Goto(h, s),
             req[h].step # "idle", UNCHANGED <<sent, legs>>
      PROVE  \A g \in Handlers : RequestCovered(g)'
  <2>1. req' = [req EXCEPT ![h] = [req[h] EXCEPT !.step = s]]
    BY <1>5 DEF Goto
  <2>2. /\ req'[h].msg = req[h].msg /\ req'[h].key = req[h].key
        /\ req'[h].attempts = req[h].attempts
    BY <2>1, <1>a DEF TypeOK, Requests
  <2>3. RequestCovered(h)'
    BY <1>5, <2>2 DEF RequestCovered, Covered, HInv
  <2>4. QED
    BY <2>1, <2>3, <1>a, RequestsFrame
<1>6. ASSUME NEW h \in Handlers, Return(h)
      PROVE  \A g \in Handlers : RequestCovered(g)'
  <2>1. req' = [req EXCEPT ![h] = Idle]
    BY <1>6 DEF Return
  <2>2. RequestCovered(h)'
    BY <2>1, <1>a DEF RequestCovered, Idle, At, TypeOK
  <2>3. QED
    BY <2>1, <2>2, <1>a, RequestsFrame
<1>7. ASSUME NEW h \in Handlers, CancelRemove(h) PROVE HInv'
  BY <1>5, <1>7, <1>a, EntriesFrame, RowsSame DEF CancelRemove, HInv
<1>8. ASSUME NEW h \in Handlers, CancelWrite(h) PROVE HInv'
  <2>1. req[h].key \in Keys /\ req[h].attempts \in 0..MaxAttempts
    BY <1>a DEF TypeOK, Requests
  <2>2. req[h].key # None => Covered(req[h].key, req[h].attempts)
    BY <1>8 DEF CancelWrite, HInv, RequestCovered
  <2>3. \A m \in Msgs : RowCovered(m)'
    BY <1>8, <2>1, <2>2, <1>a, SetMessageStateCovered DEF CancelWrite, RowStates
  <2>4. QED
    BY <1>6, <1>8, <2>3, <1>a, EntriesFrame DEF CancelWrite, HInv
<1>9. ASSUME NEW h \in Handlers, NEW m \in Msgs, RetryTransmit(h, m) PROVE HInv'
  <2>1. req' = [req EXCEPT ![h] = At("reset", m, m, 1)] /\ UNCHANGED <<row, heap, fire>>
    BY <1>9 DEF RetryTransmit
  <2>2. sent[m] >= 1
    BY <1>9 DEF RetryTransmit, HInv, RowCovered, Covered
  <2>3. sent'[m] >= 1
    BY <2>2, <1>a, <1>b DEF HistoryKept
  <2>4. RequestCovered(h)'
    BY <2>1, <2>3, <1>a, <1>b DEF RequestCovered, Covered, At, TypeOK
  <2>5. QED
    BY <2>1, <2>4, <1>a, EntriesFrame, RequestsFrame, RowsSame DEF HInv
<1>10. ASSUME NEW h \in Handlers, RetryWrite(h) PROVE HInv'
  <2>1. req[h].key \in Keys /\ 1 \in 0..MaxAttempts
    BY <1>a DEF TypeOK, Requests
  <2>2. req[h].key # None => Covered(req[h].key, 1)
    BY <1>10, <1>b DEF RetryWrite, HInv, RequestCovered, Covered
  <2>3. \A m \in Msgs : RowCovered(m)'
    BY <1>10, <2>1, <2>2, <1>a, SetMessageStateCovered DEF RetryWrite, RowStates
  <2>4. QED
    BY <1>5, <1>10, <2>3, <1>a, EntriesFrame DEF RetryWrite, HInv
<1>11. ASSUME NEW e \in Enrolments, FireTransmit(e) PROVE HInv'
  <2> DEFINE m == heap[e].msg
  <2>1. /\ fire = NoFire /\ e \in sweep /\ Transmit(m)
        /\ fire' = [entry |-> e, step |-> "sent"] /\ UNCHANGED <<row, legs, heap, req>>
    BY <1>11 DEF FireTransmit
  <2>2. heap[e].attempts \in Nat /\ heap[e].attempts # 0 /\ heap[e].attempts < MaxAttempts
    BY <2>1, <1>a DEF EntryBound, Live
  <2>3. m \in Msgs /\ heap[e].key \in {m, None} /\ Covered(m, heap[e].attempts)
    BY <2>1, <2>2 DEF HInv, EntryCovered, Owed, NoFire
  <2>4. sent'[m] >= 1 /\ (legs[m] # {} => heap[e].attempts + 1 <= sent'[m])
    BY <2>1, <2>2, <2>3, <1>a, <1>b DEF Transmit, Covered, TypeOK
  <2>5. EntryCovered(e)'
    BY <2>1, <2>3, <2>4 DEF EntryCovered, Covered, Owed
  <2>6. ASSUME NEW f \in Enrolments, f # e PROVE EntryCovered(f)'
    <3>1. heap'[f] = heap[f] /\ Owed(f)' = Owed(f)
      BY <2>1, <2>6 DEF Owed, NoFire
    <3>2. QED
      BY <3>1, <1>a, EntryFrame DEF HInv
  <2>7. QED
    BY <2>1, <2>5, <2>6, <1>a, RequestsSame, RowsSame DEF HInv
<1>12. ASSUME FireRecord PROVE HInv'
  <2>0. PICK e \in Enrolments : e = fire.entry
    BY <1>12, <1>a DEF FireRecord, EntryBound, Live, TypeOK, Firings
  <2>k. PICK m, k, n : m = heap[e].msg /\ k = heap[e].key /\ n = heap[e].attempts + 1
    OBVIOUS
  <2>1. fire.step = "sent" /\ heap[e].attempts \in 1..MaxAttempts
        /\ heap[e].attempts < MaxAttempts
    BY <1>12, <1>a, <2>0 DEF FireRecord, EntryBound, Live, TypeOK, Firings
  <2>2. n \in 0..MaxAttempts /\ n \in Nat /\ (n >= MaxAttempts => n = MaxAttempts)
    BY <2>1, <2>k
  <2>3. m \in Msgs /\ k \in {m, None} /\ k \in Keys /\ Covered(m, n)
    BY <2>0, <2>k, <2>1 DEF HInv, EntryCovered, Owed, Keys
  <2>4. \E s \in {"failed", "pending"} :
          SetMessageState(k, s, n) /\ (s = "failed" => n = MaxAttempts)
    BY <1>12, <2>0, <2>k, <2>2 DEF FireRecord, Counted, Exhausted
  <2>5. \A j \in Msgs : RowCovered(j)'
    BY <2>2, <2>3, <2>4, <1>a, SetMessageStateCovered DEF RowStates
  <2>6. heap' = [heap EXCEPT ![e] = [heap[e] EXCEPT !.attempts = n]]
        /\ UNCHANGED <<legs, req, sent>>
    BY <1>12, <2>0, <2>k DEF FireRecord, Counted
  <2>7. fire'.step # "sent"
    BY <1>12, <1>a DEF FireRecord, NoFire, TypeOK, Firings
  <2>8. heap'[e].msg = m /\ heap'[e].key = k /\ heap'[e].attempts = n
    BY <2>k, <2>1, <2>6, <1>a DEF TypeOK, Entries
  <2>9. EntryCovered(e)'
    <3>1. Owed(e)' = n
      BY <2>2, <2>7, <2>8 DEF Owed
    <3>2. QED
      BY <2>3, <2>6, <2>8, <3>1 DEF EntryCovered, Covered
  <2>10. ASSUME NEW f \in Enrolments, f # e PROVE EntryCovered(f)'
    <3>1. heap'[f] = heap[f]
      BY <2>6, <2>10, <1>a DEF TypeOK
    <3>2. Owed(f)' = Owed(f)
      BY <3>1, <2>0, <2>1, <2>7, <2>10 DEF Owed
    <3>3. QED
      BY <3>1, <3>2, <1>a, EntryFrame DEF HInv
  <2>11. QED
    BY <2>5, <2>6, <2>9, <2>10, <1>a, RequestsSame DEF HInv
<1>13. CASE FireRemove
  <2>1. \A e \in Enrolments : heap'[e] = heap[e] /\ Owed(e)' = Owed(e)
    BY <1>13 DEF FireRemove, Owed, NoFire
  <2>2. QED
    BY <1>13, <2>1, <1>a, EntryFrame, RequestsSame, RowsSame DEF FireRemove, HInv
<1>14. ASSUME NEW m \in Msgs, AnswerMark(m) PROVE HInv'
  <2>1. \E s \in {"acked", "rejected"} :
          row' = [row EXCEPT ![m] = [row[m] EXCEPT !.state = s, !.acked = TRUE]]
    BY <1>14, <1>a DEF AnswerMark, MarkAck, MarkRej, TypeOK, Rows
  <2>2. row[m].state # "absent" /\ UNCHANGED <<legs, sent, heap, req, fire>>
    BY <1>14 DEF AnswerMark, Answerable
  <2>3. row'[m].state \in {"acked", "rejected"} /\ row'[m].attempts = row[m].attempts
    BY <2>1, <1>a DEF TypeOK, Rows
  <2>4. RowCovered(m)'
    BY <2>2, <2>3 DEF RowCovered, Covered, HInv
  <2>5. QED
    BY <2>1, <2>2, <2>4, <1>a, RowsFrame, EntriesFrame, RequestsSame DEF HInv
<1>15. ASSUME NEW m \in Msgs, Prune(m) PROVE HInv'
  <2>1. row' = [row EXCEPT ![m] = Absent] /\ UNCHANGED <<heap, fire, req>>
    BY <1>15 DEF Prune
  <2>2. RowCovered(m)'
    BY <2>1, <1>a DEF RowCovered, Absent, TypeOK
  <2>3. QED
    BY <2>1, <2>2, <1>a, RowsFrame, EntriesFrame, RequestsSame DEF HInv
<1>16. CASE Restart
  <2>1. \A e \in Enrolments : EntryCovered(e)'
    <3> SUFFICES ASSUME NEW e \in Enrolments PROVE EntryCovered(e)'
      OBVIOUS
    <3>1. heap' = heap /\ legs' = legs /\ sent' = sent /\ fire' = NoFire
      BY <1>16 DEF Restart
    <3>2. Owed(e)' <= Owed(e) /\ Owed(e) \in Nat /\ Owed(e)' \in Nat
      BY <3>1, <1>a DEF Owed, NoFire, TypeOK, Entries
    <3>3. QED
      BY <3>1, <3>2, <1>b DEF EntryCovered, Covered, HInv
  <2>2. \A h \in Handlers : RequestCovered(h)'
    BY <1>16 DEF Restart, RequestCovered, Idle, At
  <2>3. QED
    BY <1>16, <2>1, <2>2, <1>a, RowsSame DEF Restart, HInv
<1>17. CASE UNCHANGED <<row, heap, fire, req>>
  BY <1>17, <1>a, EntriesFrame, RequestsSame, RowsSame DEF HInv
<1>18. \A due : Sweep(due) => UNCHANGED <<row, heap, fire, req>>
  BY DEF Sweep
<1>19. AnswerRemove \/ UNCHANGED vars => UNCHANGED <<row, heap, fire, req>>
  BY DEF AnswerRemove, vars
<1>20. QED
  BY <1>1, <1>2, <1>3, <1>4, <1>7, <1>8, <1>9, <1>10, <1>11, <1>12, <1>13, <1>14,
     <1>15, <1>16, <1>17, <1>18, <1>19
     DEF Next, Handle, Send, Cancel, Retry, Worker, Fire, Answer

\* "failed" in the conversation is earned, for any number of messages,
\* handlers and enrolments and any limit.
THEOREM FailedMeansSpentHolds == Spec => []FailedMeansSpent
<1>1. HInv => FailedMeansSpent
  BY DEF HInv, RowCovered, FailedMeansSpent
<1>2. QED
  BY <1>1, TInvInit, TInvNext, HInvInit, HInvNext, PTL DEF Spec

\* "retry n/5" is earned likewise.
THEOREM AttemptsHonestHolds == Spec => []AttemptsHonest
<1>1. TInv /\ HInv => AttemptsHonest
  <2> SUFFICES ASSUME TInv, HInv, NEW m \in Msgs, legs[m] # {} PROVE row[m].attempts <= sent[m]
    BY DEF AttemptsHonest
  <2>1. sent[m] \in Nat
    BY RetryAssumption DEF TInv, TypeOK
  <2>2. QED
    BY <2>1 DEF HInv, RowCovered, Covered
<1>2. QED
  BY <1>1, TInvInit, TInvNext, HInvInit, HInvNext, PTL DEF Spec

-----------------------------------------------------------------------------
(***************************************************************************)
(* The peer's verdict.  The only writer that does not find the row it      *)
(* writes is handleMessageSend, so its row must still be absent: a request *)
(* about to log is alone with its message.                                 *)
(***************************************************************************)
LoggingAlone ==
  /\ \A m \in Msgs : row[m].state = "absent" => ~row[m].acked
  /\ \A h \in Handlers : req[h].step = "log" => row[req[h].msg].state = "absent"
  /\ \A g, h \in Handlers :
       req[g].step = "log" /\ req[h].step = "log" /\ req[g].msg = req[h].msg => g = h

\* Every step but SendLog leaves absent rows as they are.
LEMMA AbsentRowsKept ==
  ASSUME TypeOK, [Next]_vars, \A h \in Handlers : ~SendLog(h)
  PROVE  \A m \in Msgs : /\ row[m].state = "absent" => row'[m] = row[m]
                         /\ row'[m].state = "absent" => row'[m] = row[m] \/ row'[m] = Absent
<1> SUFFICES ASSUME NEW m \in Msgs
             PROVE  /\ row[m].state = "absent" => row'[m] = row[m]
                    /\ row'[m].state = "absent" => row'[m] = row[m] \/ row'[m] = Absent
  OBVIOUS
<1>1. ASSUME NEW k, NEW s \in RowStates, NEW n, SetMessageState(k, s, n)
      PROVE  /\ row[m].state = "absent" => row'[m] = row[m]
             /\ row'[m].state = "absent" => row'[m] = row[m]
  <2>1. CASE UNCHANGED row
    BY <2>1
  <2>2. CASE /\ HasRow(k)
             /\ row' = [row EXCEPT ![k] = [state |-> s, attempts |-> n, acked |-> s = "acked"]]
    BY <2>2 DEF HasRow, TypeOK, RowStates
  <2>3. QED
    BY <1>1, <2>1, <2>2 DEF SetMessageState
<1>2. ASSUME NEW k \in Msgs, AnswerMark(k)
      PROVE  /\ row[m].state = "absent" => row'[m] = row[m]
             /\ row'[m].state = "absent" => row'[m] = row[m]
  <2>1. row'[k].state # "absent" /\ row[k].state # "absent"
    BY <1>2 DEF AnswerMark, Answerable, MarkAck, MarkRej, TypeOK, Rows
  <2>2. m # k => row'[m] = row[m]
    BY <1>2 DEF AnswerMark, MarkAck, MarkRej, TypeOK
  <2>3. QED
    BY <2>1, <2>2
<1>3. ASSUME NEW k \in Msgs, Prune(k)
      PROVE  /\ row[m].state = "absent" => row'[m] = row[m]
             /\ row'[m] = row[m] \/ row'[m] = Absent
  BY <1>3 DEF Prune, HasRow, TypeOK
<1>4. \/ \E k, n : \E s \in RowStates : SetMessageState(k, s, n)
      \/ \E k \in Msgs : AnswerMark(k) \/ Prune(k)
      \/ UNCHANGED row
  BY DEF RowStates, Next, vars, Handle, Send, Cancel, Retry, Worker, Fire, Answer, SendTransmit,
         HandlerEnqueue, CancelRead, CancelRemove, CancelWrite, RetryTransmit, RetryWrite,
         Sweep, FireTransmit, FireRecord, FireRemove, AnswerRemove, Restart
<1>5. QED
  BY <1>1, <1>2, <1>3, <1>4

\* Every step but SendTransmit leaves the requests that are about to log.
LEMMA LoggersKept ==
  ASSUME TypeOK, [Next]_vars, \A h \in Handlers, m \in Msgs : ~SendTransmit(h, m)
  PROVE  \A h \in Handlers : req'[h].step = "log" => req'[h] = req[h]
<1> SUFFICES ASSUME NEW h \in Handlers, req'[h] # req[h] PROVE req'[h].step # "log"
  OBVIOUS
<1>1. ASSUME NEW g \in Handlers, NEW s, Goto(g, s), s # "log" PROVE req'[h].step # "log"
  <2>1. req' = [req EXCEPT ![g] = [req[g] EXCEPT !.step = s]]
    BY <1>1 DEF Goto
  <2>2. g = h
    BY <2>1 DEF TypeOK
  <2>3. QED
    BY <1>1, <2>1, <2>2 DEF TypeOK, Requests
<1>2. ASSUME NEW g \in Handlers, NEW r, req' = [req EXCEPT ![g] = r], r.step # "log"
      PROVE  req'[h].step # "log"
  BY <1>2 DEF TypeOK
<1>3. ASSUME NEW g \in Handlers, SendLog(g) PROVE req'[h].step # "log"
  <2>1. \/ req' = [req EXCEPT ![g] = Idle]
        \/ \E k \in {req[g].msg, None} : req' = [req EXCEPT ![g] = At("enqueue", req[g].msg, k, 1)]
    BY <1>3 DEF SendLog
  <2>2. \A k : At("enqueue", req[g].msg, k, 1).step # "log" /\ Idle.step # "log"
    BY DEF At, Idle
  <2>3. QED
    BY <1>2, <2>1, <2>2
<1>4. ASSUME NEW g \in Handlers, NEW m \in Msgs, CancelRead(g, m) \/ RetryTransmit(g, m)
      PROVE  req'[h].step # "log"
  <2>1. \/ req' = [req EXCEPT ![g] = At("remove", m, m, row[m].attempts)]
        \/ req' = [req EXCEPT ![g] = At("reset", m, m, 1)]
    BY <1>4 DEF CancelRead, RetryTransmit
  <2>2. /\ At("remove", m, m, row[m].attempts).step # "log"
        /\ At("reset", m, m, 1).step # "log"
    BY DEF At
  <2>3. QED
    BY <1>2, <2>1, <2>2
<1>5. ASSUME NEW g \in Handlers, Return(g) PROVE req'[h].step # "log"
  BY <1>2, <1>5 DEF Return, Idle, At
<1>6. ASSUME NEW g \in Handlers, CancelRemove(g) \/ RetryWrite(g) PROVE req'[h].step # "log"
  BY <1>1, <1>6 DEF CancelRemove, RetryWrite
<1>7. ASSUME NEW g \in Handlers, HandlerEnqueue(g) \/ CancelWrite(g) PROVE req'[h].step # "log"
  BY <1>5, <1>7 DEF HandlerEnqueue, CancelWrite
<1>8. Restart => req'[h].step # "log"
  BY DEF Restart, Idle, At
<1>9. UNCHANGED req \/ Restart
      \/ \E g \in Handlers : \/ SendLog(g) \/ CancelRemove(g) \/ RetryWrite(g)
                             \/ HandlerEnqueue(g) \/ CancelWrite(g)
                            \/ \E m \in Msgs : CancelRead(g, m) \/ RetryTransmit(g, m)
  BY DEF Next, vars, Handle, Send, Cancel, Retry, Worker, Fire, Answer, Sweep, FireTransmit,
         FireRecord, FireRemove, AnswerMark, AnswerRemove, Prune
<1>10. QED
  BY <1>3, <1>4, <1>6, <1>7, <1>8, <1>9

LEMMA LoggingAloneInit == Init => LoggingAlone
BY DEF Init, LoggingAlone, Absent, Idle, At

LEMMA LoggingAloneNext == TInv /\ HInv /\ LoggingAlone /\ [Next]_vars => LoggingAlone'
<1> SUFFICES ASSUME TypeOK, HInv, LoggingAlone, [Next]_vars PROVE LoggingAlone'
  BY DEF TInv
<1>1. ASSUME NEW h \in Handlers, NEW m \in Msgs, SendTransmit(h, m) PROVE LoggingAlone'
  <2>1. req' = [req EXCEPT ![h] = At("log", m, None, 0)] /\ row' = row /\ sent[m] = 0
    BY <1>1 DEF SendTransmit
  <2>2. row[m].state = "absent"
    BY <2>1 DEF HInv, RowCovered, Covered
  <2>3. \A g \in Handlers : req[g].step = "log" => req[g].msg # m
    BY <2>1 DEF HInv, RequestCovered, Covered
  <2>4. \A g \in Handlers : IF g = h THEN req'[g].step = "log" /\ req'[g].msg = m
                           ELSE req'[g] = req[g]
    BY <2>1 DEF TypeOK, At
  <2>5. QED
    BY <2>1, <2>2, <2>3, <2>4 DEF LoggingAlone
<1>2. ASSUME NEW h \in Handlers, SendLog(h) PROVE LoggingAlone'
  <2>1. PICK m \in Msgs : m = req[h].msg
    BY <1>2 DEF SendLog, HInv, RequestCovered
  <2>2. req[h].step = "log"
    BY <1>2 DEF SendLog
  <2>3. req'[h].step # "log" /\ \A g \in Handlers \ {h} : req'[g] = req[g]
    BY <1>2 DEF SendLog, At, Idle, TypeOK
  <2>4. \/ row' = row
        \/ \E s \in {"failed", "pending"} :
             row' = [row EXCEPT ![m] = [state |-> s, attempts |-> 1, acked |-> FALSE]]
    BY <1>2, <2>1 DEF SendLog
  <2>5. \A k \in Msgs \ {m} : row'[k] = row[k]
    BY <2>4 DEF TypeOK
  <2>6. row'[m] = row[m] \/ row'[m].state # "absent"
    BY <2>4 DEF TypeOK
  <2>7. \A g \in Handlers : req'[g].step = "log" =>
          g # h /\ req'[g] = req[g] /\ req[g].msg \in Msgs \ {m}
    BY <2>1, <2>2, <2>3 DEF LoggingAlone, HInv, RequestCovered
  <2>8. \A g \in Handlers : req'[g].step = "log" => row'[req'[g].msg].state = "absent"
    BY <2>5, <2>7 DEF LoggingAlone
  <2>9. \A k \in Msgs : row'[k].state = "absent" => ~row'[k].acked
    BY <2>5, <2>6 DEF LoggingAlone
  <2>10. \A f, g \in Handlers :
           req'[f].step = "log" /\ req'[g].step = "log" /\ req'[f].msg = req'[g].msg => f = g
    BY <2>7 DEF LoggingAlone
  <2>11. QED
    BY <2>8, <2>9, <2>10 DEF LoggingAlone
<1>3. CASE /\ \A h \in Handlers : ~SendLog(h)
           /\ \A h \in Handlers, m \in Msgs : ~SendTransmit(h, m)
  <2>1. \A h \in Handlers : req'[h].step = "log" => req'[h] = req[h] /\ req[h].msg \in Msgs
    BY <1>3, LoggersKept DEF HInv, RequestCovered
  <2>2. \A m \in Msgs : /\ row[m].state = "absent" => row'[m] = row[m]
                        /\ row'[m].state = "absent" => ~row'[m].acked
    BY <1>3, AbsentRowsKept DEF LoggingAlone, Absent
  <2>3. QED
    BY <2>1, <2>2 DEF LoggingAlone
<1>4. QED
  BY <1>1, <1>2, <1>3

\* Only fireRetry and a request that read the row before the answer may
\* overwrite the peer's verdict, for any number of writers.
THEOREM OnlyStaleWritersReopenHolds == Spec => OnlyStaleWritersReopen
<1> DEFINE Allowed(m) ==
      \/ row'[m].state = "absent"
      \/ /\ row'[m].state \in {"pending", "failed"}
         /\ fire.step = "sent" /\ heap[fire.entry].key = m
      \/ \E h \in Handlers :
           /\ req[h].key = m
           /\ \/ req[h].step = "cancel" /\ row'[m].state = "cancelled"
              \/ req[h].step = "reset" /\ row'[m].state = "pending"
<1>1. ASSUME TypeOK, HInv, LoggingAlone, Next, NEW m \in Msgs, row[m].acked, row'[m] # row[m]
      PROVE  Allowed(m)
  <2>1. ASSUME NEW k, NEW s, NEW n, SetMessageState(k, s, n) PROVE k = m /\ row'[m].state = s
    <3>1. row' = [row EXCEPT ![k] = [state |-> s, attempts |-> n, acked |-> s = "acked"]]
      BY <1>1, <2>1 DEF SetMessageState
    <3>2. k = m
      BY <1>1, <3>1 DEF TypeOK
    <3>3. QED
      BY <1>1, <3>1, <3>2 DEF TypeOK
  <2>2. ASSUME NEW h \in Handlers, SendLog(h) PROVE FALSE
    <3>1. \E r : row' = [row EXCEPT ![req[h].msg] = r]
      BY <1>1, <2>2 DEF SendLog
    <3>2. req[h].msg = m
      BY <1>1, <3>1 DEF TypeOK
    <3>3. QED
      BY <1>1, <2>2, <3>2 DEF SendLog, LoggingAlone
  <2>3. ASSUME FireRecord PROVE Allowed(m)
    <3>1. \E s \in {"pending", "failed"} :
            \E n : SetMessageState(heap[fire.entry].key, s, n)
      BY <2>3 DEF FireRecord
    <3>2. QED
      BY <2>1, <2>3, <3>1 DEF FireRecord
  <2>4. ASSUME NEW h \in Handlers, CancelWrite(h) PROVE Allowed(m)
    BY <2>1, <2>4 DEF CancelWrite
  <2>5. ASSUME NEW h \in Handlers, RetryWrite(h) PROVE Allowed(m)
    BY <2>1, <2>5 DEF RetryWrite
  <2>6. ASSUME NEW k \in Msgs, AnswerMark(k) PROVE FALSE
    <3>1. k = m
      BY <1>1, <2>6 DEF AnswerMark, MarkAck, MarkRej, TypeOK
    <3>2. QED
      BY <1>1, <2>6, <3>1 DEF AnswerMark, Answerable
  <2>7. ASSUME NEW k \in Msgs, Prune(k) PROVE Allowed(m)
    <3>1. row'[m] = Absent
      BY <1>1, <2>7 DEF Prune, TypeOK
    <3>2. QED
      BY <3>1 DEF Absent
  <2>8. \/ \E h \in Handlers : SendLog(h) \/ CancelWrite(h) \/ RetryWrite(h)
        \/ FireRecord
        \/ \E k \in Msgs : AnswerMark(k) \/ Prune(k)
    BY <1>1 DEF Next, Handle, Send, Cancel, Retry, Worker, Fire, Answer, SendTransmit,
           HandlerEnqueue, CancelRead, CancelRemove, RetryTransmit, Sweep, FireTransmit,
           FireRemove, AnswerRemove, Restart
  <2>9. QED
    BY <2>2, <2>3, <2>4, <2>5, <2>6, <2>7, <2>8
<1>2. TInv /\ HInv /\ LoggingAlone /\ [Next]_vars
        => [\A m \in Msgs : row[m].acked /\ row'[m] # row[m] => Allowed(m)]_vars
  BY <1>1 DEF TInv
<1>3. QED
  BY <1>2, TInvInit, TInvNext, HInvInit, HInvNext, LoggingAloneInit, LoggingAloneNext, PTL
     DEF Spec, OnlyStaleWritersReopen

-----------------------------------------------------------------------------
(***************************************************************************)
(* Refinement: every step of the server is a step of RetryContract, or     *)
(* stutters.  TInv is what the step simulation needs: an entry that is     *)
(* enrolled has a positive count, and one that fires has budget left.      *)
(***************************************************************************)

\* A step in which each enrolment either stays as it is or closes.
LEMMA Closing ==
  ASSUME \A e \in Enrolments :
           \/ Phase(e)' = Phase(e) /\ Left(e)' = Left(e)
           \/ Phase(e) = "open" /\ Phase(e)' = "closed"
  PROVE  Contract!Close
<1> DEFINE S == {e \in Enrolments : Phase(e) = "open" /\ Phase(e)' = "closed"}
<1>1. S \in SUBSET Contract!Open
  BY DEF Contract!Open
<1>2. \A e \in Enrolments : Phase(e)' = IF e \in S THEN "closed" ELSE Phase(e)
  OBVIOUS
<1>3. \A e \in Enrolments : Left(e)' = IF e \in S THEN 0 ELSE Left(e)
  <2> SUFFICES ASSUME NEW e \in Enrolments PROVE Left(e)' = IF e \in S THEN 0 ELSE Left(e)
    OBVIOUS
  <2>1. Phase(e)' = "closed" => Left(e)' = 0
    BY DEF Left
  <2>2. QED
    BY <2>1
<1>4. [e \in Enrolments |-> Phase(e)]' = Contract!PhaseAfter(S)
  BY <1>2 DEF Contract!PhaseAfter
<1>5. [e \in Enrolments |-> Left(e)]' = Contract!LeftAfter(S)
  BY <1>3 DEF Contract!LeftAfter
<1>6. QED
  BY <1>1, <1>4, <1>5 DEF Contract!Close

\* Taking entries out of reach, with everything else about them unchanged.
LEMMA LosingReach ==
  ASSUME UNCHANGED heap,
         \A e \in Enrolments : Reachable(e)' => Reachable(e),
         \A e \in Enrolments : Reachable(e)' =>
           (fire' = [entry |-> e, step |-> "sent"] <=> fire = [entry |-> e, step |-> "sent"])
  PROVE  Contract!Close
<1>1. ASSUME NEW e \in Enrolments
      PROVE  \/ Phase(e)' = Phase(e) /\ Left(e)' = Left(e)
             \/ Phase(e) = "open" /\ Phase(e)' = "closed"
  <2>1. CASE heap[e] = Fresh
    BY <2>1 DEF Phase, Left
  <2>2. CASE heap[e] # Fresh /\ Reachable(e)'
    BY <2>2 DEF Phase, Left
  <2>3. CASE heap[e] # Fresh /\ ~Reachable(e)'
    BY <2>3 DEF Phase, Left
  <2>4. QED
    BY <2>1, <2>2, <2>3
<1>2. QED
  BY <1>1, Closing

LEMMA ContractFrame ==
  ASSUME UNCHANGED <<heap, queue, sweep, fire>>
  PROVE  UNCHANGED Contract!cvars
BY DEF Contract!cvars, Phase, Left, Reachable, Queued

LEMMA ContractInit == Init => Contract!Init
<1> SUFFICES ASSUME Init PROVE Contract!Init
  OBVIOUS
<1>1. \A e \in Enrolments : Phase(e) = "new"
  BY DEF Init, Phase
<1>2. \A e \in Enrolments : Left(e) = MaxAttempts - 1
  BY <1>1 DEF Left
<1>3. QED
  BY <1>1, <1>2 DEF Contract!Init, Contract!Budget

LEMMA ContractNext == TInv /\ [Next]_vars => [Contract!Next]_(Contract!cvars)
<1> SUFFICES ASSUME TypeOK, EntryBound, [Next]_vars
             PROVE  Contract!Next \/ UNCHANGED Contract!cvars
  BY DEF TInv
<1> USE RetryAssumption
<1>1. ASSUME NEW h \in Handlers, HandlerEnqueue(h) PROVE Contract!Next
  <2>0. PICK k : k = req[h].key
    OBVIOUS
  <2>m. PICK m : m = req[h].msg
    OBVIOUS
  <2>1. PICK e \in Enrolments : Enqueue(e, m, k)
    BY <1>1, <2>0, <2>m DEF HandlerEnqueue
  <2>2. k \in Keys
    BY <2>0 DEF TypeOK, Requests
  <2>3. heap[e] = Fresh /\ heap'[e].attempts = 1 /\ UNCHANGED <<sweep, fire>>
    BY <1>1, <2>1 DEF HandlerEnqueue, Enqueue, TypeOK
  <2>4. \A f \in Enrolments \ {e} : heap'[f] = heap[f]
    BY <2>1 DEF Enqueue, TypeOK
  <2>5. queue'[k] = e /\ \A j \in Keys \ {k} : queue'[j] = queue[j]
    BY <2>1, <2>2 DEF Enqueue, TypeOK
  <2>6. fire.entry # e
    BY <2>3 DEF EntryBound, Live, Fresh
  <2>7. Phase(e) = "new" /\ Left(e) = MaxAttempts - 1
    BY <2>3 DEF Phase, Left
  <2>8. Phase(e)' = "open"
    <3>1. heap'[e] # Fresh
      BY <2>3 DEF Fresh
    <3>2. Reachable(e)'
      BY <2>2, <2>5 DEF Reachable, Queued
    <3>3. QED
      BY <3>1, <3>2 DEF Phase
  <2>9. Left(e)' = MaxAttempts - 1
    BY <2>3, <2>6, <2>8 DEF Left
  <2> DEFINE S == {f \in Enrolments \ {e} : Phase(f) = "open" /\ Phase(f)' = "closed"}
  <2>10. ASSUME NEW f \in Enrolments, f # e
         PROVE  IF f \in S THEN Phase(f)' = "closed" /\ Left(f)' = 0
                ELSE Phase(f)' = Phase(f) /\ Left(f)' = Left(f)
    <3>1. Reachable(f)' => Reachable(f)
      BY <2>3, <2>5, <2>10 DEF Reachable, Queued
    <3>2. heap'[f] = heap[f] /\ fire' = fire
      BY <2>3, <2>4, <2>10
    <3>3. CASE heap[f] = Fresh
      BY <3>2, <3>3 DEF Phase, Left
    <3>4. CASE heap[f] # Fresh /\ Reachable(f)'
      BY <3>1, <3>2, <3>4 DEF Phase, Left
    <3>5. CASE heap[f] # Fresh /\ ~Reachable(f)'
      BY <3>2, <3>5, <2>10 DEF Phase, Left
    <3>6. QED
      BY <3>3, <3>4, <3>5
  <2>11. S \in SUBSET Contract!Open /\ e \notin S
    BY DEF Contract!Open
  <2>12. [f \in Enrolments |-> Phase(f)]' = [Contract!PhaseAfter(S) EXCEPT ![e] = "open"]
    BY <2>8, <2>10 DEF Contract!PhaseAfter
  <2>13. [f \in Enrolments |-> Left(f)]' = Contract!LeftAfter(S)
    BY <2>7, <2>9, <2>10, <2>11 DEF Contract!LeftAfter
  <2>14. Contract!Accept(e)
    BY <2>7, <2>11, <2>12, <2>13 DEF Contract!Accept
  <2>15. QED
    BY <2>14 DEF Contract!Next
<1>2. ASSUME NEW k, Remove(k), UNCHANGED <<heap, sweep, fire>> PROVE Contract!Next
  <2>1. \A e \in Enrolments : Reachable(e)' => Reachable(e)
    BY <1>2 DEF Remove, Reachable, Queued, TypeOK
  <2>2. QED
    BY <1>2, <2>1, LosingReach DEF Contract!Next
<1>3. CASE FireRemove
  <2>1. \A e \in Enrolments : Reachable(e)' => Reachable(e)
    BY <1>3 DEF FireRemove, Remove, Reachable, Queued, NoFire, TypeOK
  <2>2. fire.step # "sent" /\ fire'.step # "sent" /\ heap' = heap
    BY <1>3 DEF FireRemove, NoFire
  <2>3. QED
    BY <2>1, <2>2, LosingReach DEF Contract!Next
<1>4. CASE Restart
  <2>1. \A e \in Enrolments : ~Reachable(e)'
    BY <1>4 DEF Restart, Reachable, Queued, NoFire
  <2>2. QED
    BY <1>4, <2>1, LosingReach DEF Contract!Next, Restart
<1>5. ASSUME NEW due, Sweep(due) PROVE Contract!Next
  <2>1. due \subseteq Queued /\ sweep' = due /\ UNCHANGED <<heap, queue, fire>>
    BY <1>5 DEF Sweep
  <2>2. \A e \in Enrolments : Reachable(e)' => Reachable(e)
    BY <2>1 DEF Reachable, Queued
  <2>3. QED
    BY <2>1, <2>2, LosingReach DEF Contract!Next
<1>6. ASSUME NEW e \in Enrolments, FireTransmit(e) PROVE Contract!Next
  <2>1. /\ fire = NoFire /\ e \in sweep /\ sweep' = sweep \ {e}
        /\ fire' = [entry |-> e, step |-> "sent"] /\ UNCHANGED <<heap, queue>>
    BY <1>6 DEF FireTransmit
  <2>2. heap[e] # Fresh /\ heap[e].attempts \in Nat /\ heap[e].attempts < MaxAttempts
    BY <2>1 DEF EntryBound, Live, Fresh
  <2>3. \A f \in Enrolments : Reachable(f)' <=> Reachable(f)
    BY <2>1 DEF Reachable, Queued, NoFire
  <2>4. \A f \in Enrolments : Phase(f)' = Phase(f)
    BY <2>1, <2>3 DEF Phase
  <2>5. Reachable(e) /\ Phase(e) = "open"
    BY <2>1, <2>2 DEF Phase, Reachable
  <2>6. Left(e) = MaxAttempts - heap[e].attempts
    BY <2>1, <2>2, <2>5 DEF Left, NoFire
  <2>7. Left(e)' = MaxAttempts - heap[e].attempts - 1
    BY <2>1, <2>2, <2>4, <2>5 DEF Left
  <2>8. ASSUME NEW f \in Enrolments, f # e PROVE Left(f)' = Left(f)
    <3>1. fire # [entry |-> f, step |-> "sent"] /\ fire' # [entry |-> f, step |-> "sent"]
      BY <2>1, <2>8 DEF NoFire
    <3>2. QED
      BY <2>1, <2>4, <3>1 DEF Left
  <2>9. Left(e) > 0 /\ Left(e)' = Left(e) - 1
    BY <2>2, <2>6, <2>7
  <2>10. [f \in Enrolments |-> Left(f)]' = [[f \in Enrolments |-> Left(f)] EXCEPT ![e] = @ - 1]
    BY <2>8, <2>9
  <2>11. Contract!Retransmit(e)
    BY <2>4, <2>5, <2>9, <2>10 DEF Contract!Retransmit
  <2>12. QED
    BY <2>11 DEF Contract!Next
<1>7. CASE FireRecord
  <2>1. PICK e \in Enrolments : e = fire.entry
    BY <1>7 DEF FireRecord, EntryBound, Live
  <2>2. /\ fire = [entry |-> e, step |-> "sent"] /\ UNCHANGED <<queue, sweep>>
        /\ heap[e].attempts \in 1..MaxAttempts /\ heap[e].attempts < MaxAttempts
    BY <1>7, <2>1 DEF FireRecord, EntryBound, Live, TypeOK, Firings
  <2>3. PICK n : n = heap[e].attempts + 1
    OBVIOUS
  <2>4. heap' = [heap EXCEPT ![e] = [heap[e] EXCEPT !.attempts = n]]
    BY <1>7, <2>1, <2>3 DEF FireRecord, Counted
  <2>5. heap'[e].attempts = n /\ \A f \in Enrolments \ {e} : heap'[f] = heap[f]
    BY <2>4 DEF TypeOK, Entries
  <2>6. fire' \in {NoFire, [entry |-> e, step |-> "spent"]}
    BY <1>7, <2>2 DEF FireRecord
  <2>7. ASSUME NEW f \in Enrolments
        PROVE  \/ Phase(f)' = Phase(f) /\ Left(f)' = Left(f)
               \/ Phase(f) = "open" /\ Phase(f)' = "closed"
    <3>1. fire' # [entry |-> f, step |-> "sent"]
      BY <2>6 DEF NoFire
    <3>2. CASE f = e
      <4>1. heap[e] # Fresh /\ heap'[e] # Fresh /\ Reachable(e)
        BY <2>2, <2>3, <2>5 DEF Fresh, Reachable
      <4>2. Phase(e) = "open" /\ Left(e) = MaxAttempts - heap[e].attempts - 1
        BY <2>2, <4>1 DEF Phase, Left
      <4>3. CASE Reachable(e)'
        <5>1. Phase(e)' = "open"
          BY <4>1, <4>3 DEF Phase
        <5>2. Left(e)' = MaxAttempts - n
          BY <2>2, <2>3, <2>5, <3>1, <3>2, <5>1 DEF Left
        <5>3. QED
          BY <2>2, <2>3, <3>2, <4>2, <5>1, <5>2
      <4>4. CASE ~Reachable(e)'
        BY <3>2, <4>1, <4>2, <4>4 DEF Phase
      <4>5. QED
        BY <4>3, <4>4
    <3>3. CASE f # e
      <4>1. heap'[f] = heap[f] /\ fire.entry # f /\ fire'.entry # f
        BY <2>2, <2>5, <2>6, <3>3 DEF NoFire
      <4>2. Reachable(f)' <=> Reachable(f)
        BY <2>2, <4>1 DEF Reachable, Queued
      <4>3. Phase(f)' = Phase(f)
        BY <4>1, <4>2 DEF Phase
      <4>4. QED
        BY <3>1, <4>1, <4>3 DEF Left
    <3>4. QED
      BY <3>2, <3>3
  <2>8. QED
    BY <2>7, Closing DEF Contract!Next
<1>8. CASE UNCHANGED <<heap, queue, sweep, fire>>
  BY <1>8, ContractFrame
<1>9. \/ \E h \in Handlers : HandlerEnqueue(h)
      \/ \E k : Remove(k) /\ UNCHANGED <<heap, sweep, fire>>
      \/ FireRemove \/ Restart \/ FireRecord
      \/ \E due : Sweep(due)
      \/ \E e \in Enrolments : FireTransmit(e)
      \/ UNCHANGED <<heap, queue, sweep, fire>>
  BY DEF Next, vars, Handle, Send, Cancel, Retry, Worker, Fire, Answer, SendTransmit, SendLog,
         CancelRead, CancelRemove, CancelWrite, RetryTransmit, RetryWrite, AnswerMark,
         AnswerRemove, Prune
<1>10. QED
  BY <1>1, <1>2, <1>3, <1>4, <1>5, <1>6, <1>7, <1>8, <1>9

\* No interleaving of the handlers, the worker, parseLoop and a restart
\* transmits an enrolment beyond its budget or after it was closed.
THEOREM ContractHolds == Spec => ImplementsContract
<1>1. QED
  BY ContractInit, ContractNext, TInvInit, TInvNext, PTL
     DEF Spec, ImplementsContract, Contract!Spec
=============================================================================
