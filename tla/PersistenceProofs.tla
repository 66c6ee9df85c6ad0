-------------------------- MODULE PersistenceProofs -------------------------
(***************************************************************************)
(* Theorems about what the station keeps on disk and in memory at once:    *)
(* about StateStore (state.json), for any subscribers, any depth of their  *)
(* channels, any block size and any number of ids; about Process (the      *)
(* counters in the database), for any tasks, frames, panics and deaths of  *)
(* the process; and about Wizard (drafts of the configuration in memory),  *)
(* for any tabs, wizards, modes, saves and commits.  The three share no    *)
(* state and no lemma.                                                     *)
(***************************************************************************)
EXTENDS StateStore, Process, Wizard, SequenceTheorems, FiniteSetTheorems, TLAPS

-----------------------------------------------------------------------------
(* Type correctness.                                                       *)

LEMMA OfferType ==
  ASSUME StateStoreAssumption, NEW q \in Seq(Revisions), Len(q) <= QueueCap, NEW r \in Revisions
  PROVE  Offer(q, r) \in Seq(Revisions) /\ Len(Offer(q, r)) <= QueueCap
BY DEF StateStoreAssumption, Offer

LEMMA BlockType ==
  ASSUME StateStoreAssumption, TypeOK
  PROVE  /\ BlockStart \in Ids /\ BlockEnd \in 1..(LastId + 1) /\ Watermark \in Ids
         /\ BlockStart < BlockEnd
BY DEF StateStoreAssumption, TypeOK, File, BlockStart, BlockEnd, Watermark, Ids

LEMMA HandOutType ==
  ASSUME StateStoreAssumption, NEW n \in Ids, NEW end \in 0..(LastId + 1), HandOut(n, end)
  PROVE  idCur' \in 0..LastId /\ idEnd' \in 0..(LastId + 1)
BY DEF StateStoreAssumption, HandOut, Ids

LEMMA TypeNext == ASSUME StateStoreAssumption, TypeOK, [Next]_vars PROVE TypeOK'
<1> USE StateStoreAssumption
<1>1. CASE Update
  <2>1. cur.rev + 1 \in Revisions
    BY <1>1 DEF Update, TypeOK, File, Revisions, StateStoreAssumption
  <2>2. Changed \in File /\ Changed.rev \in Revisions
    BY <2>1 DEF Changed, TypeOK, File
  <2> QED
    BY <1>1, <2>2 DEF Update, TypeOK, idVars
<1>2. ASSUME NEW r \in Revisions, Notify(r) PROVE TypeOK'
  <2>1. queue' \in [Subscribers -> Seq(Revisions)]
        /\ \A s \in Subscribers : Len(queue'[s]) <= QueueCap
    BY <1>2, OfferType DEF Notify, TypeOK
  <2> QED
    BY <1>2, <2>1 DEF Notify, TypeOK, idVars
<1>3. ASSUME NEW s \in Subscribers, Wake(s) PROVE TypeOK'
  <2>1. Tail(queue[s]) \in Seq(Revisions) /\ Len(Tail(queue[s])) <= QueueCap
    BY <1>3 DEF Wake, TypeOK, StateStoreAssumption
  <2> QED
    BY <1>3, <2>1 DEF Wake, TypeOK, idVars
<1>4. ASSUME NEW s \in Subscribers, Reread(s) PROVE TypeOK'
  BY <1>4 DEF Reread, TypeOK, File, idVars
<1>5. ASSUME NEW s \in Subscribers, Apply(s) PROVE TypeOK'
  <2>1. /\ Tail(queue[s]) \in Seq(Revisions) /\ Len(Tail(queue[s])) <= QueueCap
        /\ Head(queue[s]) \in Revisions
    BY <1>5 DEF Apply, TypeOK, StateStoreAssumption
  <2> QED
    BY <1>5, <2>1 DEF Apply, TypeOK, idVars
<1>6. CASE NextId
  <2>1. idCur \in Ids /\ idEnd \in 0..(LastId + 1)
    BY <1>6 DEF NextId, Exhausted, TypeOK, Ids, StateStoreAssumption
  <2>2. given' \in [Ids -> Nat]
    BY <1>6, <2>1 DEF NextId, TypeOK
  <2> QED
    BY <1>6, <2>1, <2>2, HandOutType DEF NextId, TypeOK, followVars
<1>7. CASE ReserveId
  <2>1. BlockStart \in Ids /\ BlockEnd \in 0..(LastId + 1) /\ Watermark \in 0..LastId
    BY BlockType DEF Ids, StateStoreAssumption
  <2>2. cur' \in File /\ disk' \in File
    <3>1. [cur EXCEPT !.next = Watermark] \in File
      BY <2>1 DEF TypeOK, File
    <3> QED
      BY <1>7, <3>1 DEF ReserveId, TypeOK
  <2>3. given' \in [Ids -> Nat]
    <3>1. CASE BlockStart = 1
      <4>1. given' = [i \in Ids |-> IF i = 1 THEN 1 ELSE 0]
        BY <1>7, <3>1 DEF ReserveId
      <4> QED
        BY <4>1
    <3>2. CASE BlockStart # 1
      <4>1. given' = [given EXCEPT ![BlockStart] = @ + 1] /\ given \in [Ids -> Nat]
        BY <1>7, <3>2 DEF ReserveId, TypeOK
      <4> QED
        BY <2>1, <4>1
    <3> QED
      BY <3>1, <3>2
  <2>4. idCur' \in 0..LastId /\ idEnd' \in 0..(LastId + 1)
    BY <1>7, <2>1, HandOutType DEF ReserveId
  <2>5. lost' = FALSE \/ lost' = lost
    BY <1>7 DEF ReserveId
  <2> QED
    BY <1>7, <2>2, <2>3, <2>4, <2>5 DEF ReserveId, TypeOK, followVars
<1>8. CASE Restart
  <2>1. << >> \in Seq(Revisions) /\ Len(<< >>) <= QueueCap /\ disk.rev \in Revisions
    BY DEF TypeOK, File, StateStoreAssumption
  <2>2. /\ queue' \in [Subscribers -> Seq(Revisions)]
        /\ \A s \in Subscribers : Len(queue'[s]) <= QueueCap
        /\ follows' \in [Subscribers -> Revisions]
    BY <1>8, <2>1 DEF Restart
  <2>3. lost' \in BOOLEAN /\ restarts' \in 0..MaxRestarts
    BY <1>8 DEF Restart, LostAtRestart, TypeOK, StateStoreAssumption
  <2>4. idCur' \in 0..LastId /\ idEnd' \in 0..(LastId + 1)
    BY <1>8 DEF Restart, StateStoreAssumption
  <2> QED
    BY <1>8, <2>1, <2>2, <2>3, <2>4 DEF Restart, TypeOK
<1>9. CASE UNCHANGED vars
  BY <1>9 DEF vars, TypeOK
<1> QED
  BY <1>1, <1>2, <1>3, <1>4, <1>5, <1>6, <1>7, <1>8, <1>9 DEF Next

\* Every variable keeps to its type, whatever fails and whenever the program restarts.
THEOREM TypeCorrect == Spec => []TypeOK
<1>1. ASSUME StateStoreAssumption, Init PROVE TypeOK
  <2>1. 0 \in Revisions /\ 0 \in 0..LastId /\ 0 \in 0..(LastId + 1) /\ 0 \in 0..MaxRestarts
    BY <1>1 DEF Revisions, StateStoreAssumption
  <2>2. cur \in File /\ disk \in File
    BY <1>1, <2>1 DEF Init, File
  <2>3. << >> \in Seq(Revisions) /\ Len(<< >>) <= QueueCap
    BY <1>1 DEF StateStoreAssumption
  <2>4. /\ queue \in [Subscribers -> Seq(Revisions)]
        /\ \A s \in Subscribers : Len(queue[s]) <= QueueCap
        /\ follows \in [Subscribers -> Revisions] /\ given \in [Ids -> Nat]
    BY <1>1, <2>1, <2>3 DEF Init
  <2> QED
    BY <1>1, <2>1, <2>2, <2>4 DEF Init, TypeOK
<1> QED
  BY <1>1, TypeNext, StateStoreAssumption, PTL DEF Spec

-----------------------------------------------------------------------------
(* Message ids.                                                            *)

\* While no reservation was lost: no id came twice, those of the block in hand that are
\* still to come were not given and lie below the next block, and of the ids from there
\* on none was given, unless the next block begins the numbering anew.
FreshBlock == ~Exhausted =>
  /\ \A i \in Ids : i >= idCur => given[i] = 0
  /\ cur.next > 1 => idEnd <= cur.next
FreshNext == cur.next > 1 => \A i \in Ids : i >= cur.next => given[i] = 0
IdInv == ~lost => (\A i \in Ids : given[i] <= 1) /\ FreshBlock /\ FreshNext

LEMMA ReservedIsFresh == ASSUME StateStoreAssumption, TypeOK, IdInv, ReserveId PROVE IdInv'
<1>1. /\ BlockStart \in Ids /\ BlockEnd \in Nat /\ Watermark \in Ids /\ BlockStart < BlockEnd
      /\ Watermark > 1 => Watermark = BlockEnd
  BY BlockType DEF Watermark, Ids, StateStoreAssumption
<1>2. cur'.next = Watermark
  BY DEF ReserveId, TypeOK, File
<1>3. idCur' = 0 \/ (idCur' = BlockStart + 1 /\ idEnd' = BlockEnd)
  BY <1>1 DEF ReserveId, HandOut
<1>4. ASSUME ~lost'
      PROVE  \A i \in Ids : given'[i] <= 1 /\ (i > BlockStart => given'[i] = 0)
  <2>1. CASE BlockStart = 1
    BY <1>1, <2>1 DEF ReserveId, Ids
  <2>2. CASE BlockStart # 1
    <3>1. /\ ~lost /\ given' = [given EXCEPT ![BlockStart] = @ + 1]
          /\ BlockStart = cur.next /\ cur.next > 1
      BY <1>1, <1>4, <2>2 DEF ReserveId, BlockStart, Ids
    <3>2. \A i \in Ids : i >= BlockStart => given[i] = 0
      BY <3>1 DEF IdInv, FreshNext
    <3> QED
      BY <1>1, <3>1, <3>2 DEF IdInv, TypeOK, Ids
  <2> QED
    BY <2>1, <2>2
<1>5. ASSUME ~lost' PROVE FreshBlock'
  <2>1. CASE idCur' = 0
    BY <2>1 DEF FreshBlock, Exhausted
  <2>2. CASE idCur' = BlockStart + 1 /\ idEnd' = BlockEnd
    <3>1. \A i \in Ids : i >= idCur' => i > BlockStart
      BY <1>1, <2>2 DEF Ids
    <3>2. cur'.next > 1 => idEnd' <= cur'.next
      BY <1>1, <1>2, <2>2
    <3> QED
      BY <1>4, <1>5, <3>1, <3>2 DEF FreshBlock
  <2> QED
    BY <1>3, <2>1, <2>2
<1>6. ASSUME ~lost' PROVE FreshNext'
  <2>1. \A i \in Ids : i >= BlockEnd => i > BlockStart
    BY <1>1 DEF Ids
  <2> QED
    BY <1>1, <1>2, <1>4, <1>6, <2>1 DEF FreshNext
<1> QED
  BY <1>4, <1>5, <1>6 DEF IdInv

LEMMA IdNext == ASSUME StateStoreAssumption, TypeOK, IdInv, [Next]_vars PROVE IdInv'
<1> USE StateStoreAssumption
<1>1. ASSUME UNCHANGED <<given, lost, idCur, idEnd>>, cur'.next = cur.next PROVE IdInv'
  BY <1>1 DEF IdInv, FreshBlock, FreshNext, Exhausted
<1>2. CASE Update
  BY <1>1, <1>2 DEF Update, Changed, idVars, TypeOK, File
<1>3. ASSUME NEW r \in Revisions, Notify(r) PROVE IdInv'
  BY <1>1, <1>3 DEF Notify, idVars
<1>4. ASSUME NEW s \in Subscribers, Wake(s) \/ Reread(s) \/ Apply(s) PROVE IdInv'
  BY <1>1, <1>4 DEF Wake, Reread, Apply, idVars
<1>5. CASE NextId
  <2>1. /\ idCur \in Ids /\ idCur < idEnd /\ idEnd \in Nat /\ cur.next \in Nat
        /\ given' = [given EXCEPT ![idCur] = @ + 1] /\ UNCHANGED <<cur, lost>>
    BY <1>5 DEF NextId, Exhausted, TypeOK, File, Ids, StateStoreAssumption
  <2>2. idCur' = 0 \/ (idCur' = idCur + 1 /\ idEnd' = idEnd)
    BY <1>5 DEF NextId, HandOut
  <2>3. SUFFICES ASSUME ~lost PROVE IdInv'
    BY <2>1 DEF IdInv
  <2>4. \A i \in Ids : i >= idCur => given[i] = 0
    BY <1>5, <2>3 DEF NextId, IdInv, FreshBlock
  <2>5. \A i \in Ids : given'[i] <= 1 /\ (i > idCur => given'[i] = 0)
    BY <2>1, <2>3, <2>4 DEF IdInv, TypeOK, Ids
  <2>6. FreshBlock'
    BY <1>5, <2>1, <2>2, <2>3, <2>5 DEF NextId, IdInv, FreshBlock, Exhausted, Ids
  <2>7. cur.next > 1 => idEnd <= cur.next
    BY <1>5, <2>3 DEF NextId, IdInv, FreshBlock
  <2>8. FreshNext'
    BY <2>1, <2>5, <2>7 DEF FreshNext, Ids
  <2> QED
    BY <2>5, <2>6, <2>8 DEF IdInv
<1>6. CASE ReserveId
  BY <1>6, ReservedIsFresh
<1>7. CASE Restart
  <2>1. idCur' = 0 /\ UNCHANGED given /\ (~lost' => ~lost /\ cur'.next = cur.next)
    BY <1>7 DEF Restart, LostAtRestart
  <2> QED
    BY <2>1 DEF IdInv, FreshBlock, FreshNext, Exhausted
<1>8. CASE UNCHANGED vars
  BY <1>1, <1>8 DEF vars
<1> QED
  BY <1>2, <1>3, <1>4, <1>5, <1>6, <1>7, <1>8 DEF Next

\* No message id comes twice before the numbering starts again at 1, but for a
\* reservation that was not saved and that a restart then lost (NextOutboundMsgID).
THEOREM NoIdTwiceHolds == Spec => []NoIdTwice
<1>1. ASSUME StateStoreAssumption, Init PROVE IdInv
  BY <1>1 DEF Init, IdInv, FreshBlock, FreshNext, Exhausted
<1>2. TypeOK /\ IdInv => NoIdTwice
  BY DEF TypeOK, IdInv, NoIdTwice
<1> QED
  BY <1>1, <1>2, TypeCorrect, IdNext, StateStoreAssumption, PTL DEF Spec

-----------------------------------------------------------------------------
(* Announcements.                                                          *)

\* Nothing is announced beyond the latest saved revision, and that is in the file.
DurableInv ==
  /\ announced <= disk.rev /\ disk.rev <= cur.rev
  /\ \A r \in unsent : r <= announced
  /\ \A s \in Subscribers : \A i \in 1..Len(queue[s]) : queue[s][i] <= announced
  /\ \A s \in Appliers : follows[s] <= announced

\* A subscriber behind the latest announcement has a reason to read again.
WakeUpPending ==
  \A s \in Rereaders :
    follows[s] >= announced \/ s \in woken \/ queue[s] # << >> \/ announced \in unsent

\* As long as none was overtaken or dropped, the last announcement made is the last a
\* subscriber has been sent.
LastSent ==
  \A s \in Appliers :
    ~mixedUp /\ announced \notin unsent =>
      IF queue[s] = << >> THEN follows[s] = announced ELSE queue[s][Len(queue[s])] = announced

LEMMA OfferFacts ==
  ASSUME StateStoreAssumption, NEW q \in Seq(Revisions), NEW r \in Revisions
  PROVE  /\ Offer(q, r) # << >>
         /\ \A i \in 1..Len(Offer(q, r)) : \/ i \in 1..Len(q) /\ Offer(q, r)[i] = q[i]
                                           \/ Offer(q, r)[i] = r
         /\ Len(q) < QueueCap => Offer(q, r)[Len(Offer(q, r))] = r
<1>1. CASE Len(q) < QueueCap
  BY <1>1 DEF Offer
<1>2. CASE ~(Len(q) < QueueCap)
  <2>1. Offer(q, r) = q /\ q # << >>
    BY <1>2 DEF Offer, StateStoreAssumption
  <2> QED
    BY <1>2, <2>1
<1> QED
  BY <1>1, <1>2

LEMMA TailFacts ==
  ASSUME NEW q \in Seq(Revisions), q # << >>
  PROVE  /\ Head(q) = q[1] /\ 1 \in 1..Len(q) /\ Len(q) \in Nat
         /\ \A i \in 1..Len(Tail(q)) : i + 1 \in 1..Len(q) /\ Tail(q)[i] = q[i + 1]
         /\ IF Tail(q) = << >> THEN Len(q) = 1 ELSE Tail(q)[Len(Tail(q))] = q[Len(q)]
<1>1. /\ Head(q) = q[1] /\ 1 \in 1..Len(q) /\ Len(q) \in Nat
      /\ Tail(q) \in Seq(Revisions) /\ Len(Tail(q)) = Len(q) - 1
      /\ \A i \in 1..Len(Tail(q)) : i + 1 \in 1..Len(q) /\ Tail(q)[i] = q[i + 1]
  OBVIOUS
<1>2. CASE Tail(q) = << >>
  BY <1>1, <1>2
<1>3. CASE Tail(q) # << >>
  <2>1. Len(Tail(q)) \in 1..Len(Tail(q)) /\ Len(Tail(q)) + 1 = Len(q)
    BY <1>1, <1>3
  <2> QED
    BY <1>1, <1>3, <2>1
<1> QED
  BY <1>1, <1>2, <1>3

LEMMA DurableNext ==
  ASSUME StateStoreAssumption, TypeOK, DurableInv, [Next]_vars PROVE DurableInv'
<1> USE StateStoreAssumption
<1>1. /\ cur.rev \in Nat /\ disk.rev \in Nat /\ announced \in Nat
      /\ \A s \in Subscribers : queue[s] \in Seq(Revisions) /\ follows[s] \in Nat
      /\ \A s \in Subscribers : \A i \in 1..Len(queue[s]) : queue[s][i] \in Nat
      /\ \A r \in unsent : r \in Nat
      /\ Appliers \subseteq Subscribers
  BY DEF TypeOK, File, Revisions, Subscribers, StateStoreAssumption
<1>2. CASE Update
  <2>1. cur'.rev = cur.rev + 1 /\ UNCHANGED <<queue, follows>>
    BY <1>2 DEF Update, Changed, TypeOK, File
  <2>2. CASE UNCHANGED <<disk, unsent, announced>>
    BY <1>1, <2>1, <2>2 DEF DurableInv
  <2>3. CASE disk' = cur' /\ unsent' = unsent \cup {cur'.rev} /\ announced' = cur'.rev
    <3>1. announced < announced'
      BY <1>1, <2>1, <2>3 DEF DurableInv
    <3> QED
      BY <1>1, <2>1, <2>3, <3>1 DEF DurableInv
  <2> QED
    BY <1>2, <2>2, <2>3 DEF Update
<1>3. ASSUME NEW r \in Revisions, Notify(r) PROVE DurableInv'
  <2>1. /\ r <= announced /\ unsent' \subseteq unsent
        /\ UNCHANGED <<cur, disk, follows, announced>>
        /\ \A s \in Subscribers : queue'[s] = Offer(queue[s], r)
    BY <1>3 DEF Notify, DurableInv
  <2>2. ASSUME NEW s \in Subscribers, NEW i \in 1..Len(queue'[s])
        PROVE  queue'[s][i] <= announced
    BY <1>1, <2>1, OfferFacts DEF DurableInv
  <2> QED
    BY <2>1, <2>2 DEF DurableInv
<1>4. ASSUME NEW s \in Subscribers, queue[s] # << >>,
             queue' = [queue EXCEPT ![s] = Tail(@)],
             UNCHANGED <<cur, disk, unsent, announced>>,
             UNCHANGED follows \/ follows' = [follows EXCEPT ![s] = Head(queue[s])]
      PROVE  DurableInv'
  <2>1. /\ \A i \in 1..Len(queue'[s]) : queue'[s][i] <= announced
        /\ Head(queue[s]) <= announced
    BY <1>1, <1>4, TailFacts DEF DurableInv, TypeOK
  <2>2. \A t \in Subscribers : \A i \in 1..Len(queue'[t]) : queue'[t][i] <= announced
    BY <1>4, <2>1 DEF DurableInv, TypeOK
  <2>3. \A t \in Appliers : follows'[t] <= announced
    BY <1>1, <1>4, <2>1 DEF DurableInv, TypeOK
  <2> QED
    BY <1>4, <2>2, <2>3 DEF DurableInv
<1>5. ASSUME NEW s \in Subscribers, Wake(s) PROVE DurableInv'
  BY <1>4, <1>5 DEF Wake
<1>6. ASSUME NEW s \in Subscribers, Apply(s) PROVE DurableInv'
  BY <1>4, <1>6 DEF Apply
<1>7. ASSUME NEW s \in Subscribers, Reread(s) PROVE DurableInv'
  <2>1. s \in Rereaders /\ s \notin Appliers
    BY <1>7 DEF Reread, TypeOK, StateStoreAssumption
  <2> QED
    BY <1>1, <1>7, <2>1 DEF Reread, DurableInv, TypeOK
<1>8. CASE NextId \/ ReserveId
  <2>1. /\ cur' = cur \/ cur' = [cur EXCEPT !.next = Watermark]
        /\ disk' = disk \/ disk' = cur'
        /\ UNCHANGED <<unsent, queue, follows, announced>>
    BY <1>8 DEF NextId, ReserveId, followVars
  <2>2. cur'.rev = cur.rev /\ disk'.rev \in {disk.rev, cur.rev}
    BY <2>1 DEF TypeOK, File
  <2> QED
    BY <1>1, <2>1, <2>2 DEF DurableInv
<1>9. CASE Restart
  <2>1. \A s \in Subscribers : Len(queue'[s]) = 0 /\ follows'[s] = disk.rev
    BY <1>9 DEF Restart
  <2> QED
    BY <1>1, <1>9, <2>1 DEF Restart, DurableInv
<1>10. CASE UNCHANGED vars
  BY <1>10 DEF vars, DurableInv
<1> QED
  BY <1>2, <1>3, <1>5, <1>6, <1>7, <1>8, <1>9, <1>10 DEF Next

THEOREM DurableInvHolds == Spec => []DurableInv
<1>1. ASSUME StateStoreAssumption, Init PROVE DurableInv
  BY <1>1 DEF Init, DurableInv, Subscribers
<1> QED
  BY <1>1, TypeCorrect, DurableNext, StateStoreAssumption, PTL DEF Spec

\* What a subscriber is sent, and what gps acts on, is in state.json: a restart cannot
\* take back what was announced (Update, notify).
THEOREM AnnouncedIsDurableHolds == Spec => []AnnouncedIsDurable
<1>1. ASSUME TypeOK, DurableInv PROVE AnnouncedIsDurable
  <2>1. announced \in Nat /\ disk.rev \in Nat /\ announced <= disk.rev
    BY <1>1 DEF TypeOK, DurableInv, File, Revisions
  <2>2. /\ \A r \in unsent : r <= disk.rev
        /\ \A s \in Appliers : follows[s] <= disk.rev
    BY <1>1, <2>1 DEF TypeOK, DurableInv, Revisions, Subscribers
  <2>3. ASSUME NEW s \in Subscribers, NEW i \in DOMAIN queue[s] PROVE queue[s][i] <= disk.rev
    <3>1. queue[s] \in Seq(Revisions)
      BY <1>1 DEF TypeOK
    <3>2. DOMAIN queue[s] = 1..Len(queue[s])
      BY <3>1, LenProperties
    <3>3. i \in 1..Len(queue[s])
      BY <3>2
    <3>4. queue[s][i] \in Nat
      BY <3>1, <3>3, StateStoreAssumption DEF Revisions, StateStoreAssumption
    <3> QED
      BY <1>1, <2>1, <3>3, <3>4 DEF DurableInv
  <2> QED
    BY <2>2, <2>3 DEF AnnouncedIsDurable
<1> QED
  BY <1>1, TypeCorrect, DurableInvHolds, PTL

LEMMA WakeUpNext ==
  ASSUME StateStoreAssumption, TypeOK, DurableInv, WakeUpPending, [Next]_vars
  PROVE  WakeUpPending'
<1> USE StateStoreAssumption
<1>1. /\ cur.rev \in Nat /\ disk.rev \in Nat /\ announced \in Nat /\ announced <= cur.rev
      /\ Rereaders \subseteq Subscribers
      /\ \A s \in Subscribers : queue[s] \in Seq(Revisions) /\ follows[s] \in Nat
  BY DEF TypeOK, DurableInv, File, Revisions, Subscribers
<1>2. CASE Update
  BY <1>1, <1>2 DEF Update, WakeUpPending
<1>3. ASSUME NEW r \in Revisions, Notify(r) PROVE WakeUpPending'
  BY <1>1, <1>3, OfferFacts DEF Notify, WakeUpPending
<1>4. ASSUME NEW s \in Subscribers, Wake(s) PROVE WakeUpPending'
  BY <1>1, <1>4 DEF Wake, WakeUpPending, TypeOK
<1>5. ASSUME NEW s \in Subscribers, Reread(s) PROVE WakeUpPending'
  BY <1>1, <1>5 DEF Reread, WakeUpPending, TypeOK
<1>6. ASSUME NEW s \in Subscribers, Apply(s) PROVE WakeUpPending'
  <2>1. s \notin Rereaders
    BY <1>6 DEF Apply, StateStoreAssumption
  <2> QED
    BY <1>1, <1>6, <2>1 DEF Apply, WakeUpPending, TypeOK
<1>7. CASE NextId \/ ReserveId
  BY <1>7 DEF NextId, ReserveId, followVars, WakeUpPending
<1>8. CASE Restart
  BY <1>1, <1>8 DEF Restart, WakeUpPending
<1>9. CASE UNCHANGED vars
  BY <1>9 DEF vars, WakeUpPending
<1> QED
  BY <1>2, <1>3, <1>4, <1>5, <1>6, <1>7, <1>8, <1>9 DEF Next

\* No wake-up is lost, whatever overtakes what and however full the channels are: the
\* safety half of RereadersCatchUp (notify drops an event only if one is waiting).
THEOREM WakeUpPendingHolds == Spec => []WakeUpPending
<1>1. ASSUME StateStoreAssumption, Init PROVE WakeUpPending
  BY <1>1 DEF Init, WakeUpPending, Subscribers
<1> QED
  BY <1>1, TypeCorrect, DurableInvHolds, WakeUpNext, StateStoreAssumption, PTL DEF Spec

LEMMA LastSentNext ==
  ASSUME StateStoreAssumption, TypeOK, DurableInv, LastSent, [Next]_vars PROVE LastSent'
<1> USE StateStoreAssumption
<1>1. /\ announced \in Revisions /\ announced \in Nat /\ Appliers \subseteq Subscribers
      /\ \A r \in unsent : r \in Nat /\ r <= announced
      /\ \A s \in Subscribers : queue[s] \in Seq(Revisions) /\ Len(queue[s]) \in Nat
                               /\ Len(queue[s]) <= QueueCap
  BY DEF TypeOK, DurableInv, Revisions, Subscribers
<1>2. CASE Update
  BY <1>2 DEF Update, LastSent
<1>3. ASSUME NEW r \in Revisions, Notify(r) PROVE LastSent'
  <2>1. SUFFICES ASSUME NEW s \in Appliers, ~mixedUp', announced \notin unsent'
                 PROVE  queue'[s] # << >> /\ queue'[s][Len(queue'[s])] = announced
    BY <1>3 DEF Notify, LastSent
  <2>2. /\ r \in unsent /\ ~(\E later \in Revisions : later > r /\ later <= announced)
        /\ Len(queue[s]) # QueueCap /\ queue'[s] = Offer(queue[s], r)
    BY <1>1, <1>3, <2>1, Zenon DEF Notify
  <2>3. r = announced /\ Len(queue[s]) < QueueCap
    BY <1>1, <2>2 DEF StateStoreAssumption
  <2> QED
    BY <1>1, <2>2, <2>3, OfferFacts
<1>4. ASSUME NEW s \in Subscribers, Wake(s) PROVE LastSent'
  <2>1. s \notin Appliers
    BY <1>4 DEF Wake, StateStoreAssumption
  <2> QED
    BY <1>1, <1>4, <2>1 DEF Wake, LastSent, TypeOK
<1>5. ASSUME NEW s \in Subscribers, Reread(s) PROVE LastSent'
  <2>1. s \notin Appliers
    BY <1>5 DEF Reread, TypeOK, StateStoreAssumption
  <2> QED
    BY <1>1, <1>5, <2>1 DEF Reread, LastSent, TypeOK
<1>6. ASSUME NEW s \in Subscribers, Apply(s) PROVE LastSent'
  <2>1. /\ queue'[s] = Tail(queue[s]) /\ follows'[s] = Head(queue[s]) /\ queue[s] # << >>
        /\ UNCHANGED <<mixedUp, announced, unsent>>
        /\ \A t \in Subscribers \ {s} : queue'[t] = queue[t] /\ follows'[t] = follows[t]
    BY <1>6 DEF Apply, TypeOK
  <2>2. IF Tail(queue[s]) = << >> THEN Head(queue[s]) = queue[s][Len(queue[s])]
        ELSE Tail(queue[s])[Len(Tail(queue[s]))] = queue[s][Len(queue[s])]
    BY <1>1, <2>1, TailFacts
  <2> QED
    BY <1>1, <2>1, <2>2 DEF LastSent
<1>7. CASE NextId \/ ReserveId
  BY <1>7 DEF NextId, ReserveId, followVars, LastSent
<1>8. CASE Restart
  BY <1>1, <1>8 DEF Restart, LastSent
<1>9. CASE UNCHANGED vars
  BY <1>9 DEF vars, LastSent
<1> QED
  BY <1>2, <1>3, <1>4, <1>5, <1>6, <1>7, <1>8, <1>9 DEF Next

\* The receiver, which acts on the snapshot it is sent, ends up with the latest
\* settings unless an announcement was overtaken or dropped (gps.Run).
THEOREM ApplierStaleOnlyIfMixedUpHolds == Spec => []ApplierStaleOnlyIfMixedUp
<1>1. ASSUME StateStoreAssumption, Init PROVE LastSent
  BY <1>1 DEF Init, LastSent, Subscribers
<1>2. LastSent => ApplierStaleOnlyIfMixedUp
  BY DEF LastSent, ApplierStaleOnlyIfMixedUp
<1> QED
  BY <1>1, <1>2, TypeCorrect, DurableInvHolds, LastSentNext, StateStoreAssumption, PTL DEF Spec

-----------------------------------------------------------------------------
(* The process: type correctness.                                          *)

\* The end that is still to come is within the bound.
DeathInv == life # "dead" => deaths < MaxDeaths

LEMMA DieType ==
  ASSUME ProcessAssumption, ProcessTypeOK, DeathInv, life # "dead", Die
  PROVE  ProcessTypeOK' /\ DeathInv'
<1>1. deaths' \in 0..MaxDeaths /\ life' = "dead"
  BY DEF Die, DeathInv, ProcessTypeOK, ProcessAssumption
<1>2. task' \in [Tasks -> {"on", "recovered", "leaving", "gone"}]
  BY DEF Die
<1>3. {counter', base', inHand', stored', unsaved', afterSnap', forgotten'} \subseteq Nat
  BY DEF Die, ProcessTypeOK, Nothing, ProcessAssumption
<1> QED
  BY <1>1, <1>2, <1>3 DEF Die, ProcessTypeOK, DeathInv

LEMMA ProcessTypeNext ==
  ASSUME ProcessAssumption, ProcessTypeOK, DeathInv, [ProcessNext]_processVars
  PROVE  ProcessTypeOK' /\ DeathInv'
<1> USE ProcessAssumption DEF DeathInv
<1>1. Nothing \in Nat
  BY DEF Nothing, ProcessAssumption
<1>2. CASE Start
  <2>1. {counter', base'} \subseteq Nat /\ unread' \in BOOLEAN
    <3>1. stored \in Nat /\ unread \in BOOLEAN
      BY DEF ProcessTypeOK
    <3>2. CASE Hydrate /\ UNCHANGED unread
      BY <3>1, <3>2 DEF Hydrate
    <3>3. CASE counter' = 0 /\ base' = 0 /\ unread' = TRUE
      BY <3>3
    <3> QED
      BY <1>2, <3>2, <3>3 DEF Start
  <2>2. task' \in [Tasks -> {"on", "recovered", "leaving", "gone"}]
    BY <1>2 DEF Start
  <2> QED
    BY <1>2, <2>1, <2>2 DEF Start, bounds, ProcessTypeOK
<1>3. CASE Listen
  BY <1>3 DEF Listen, counters, bounds, ProcessTypeOK
<1>4. CASE NoCertificate \/ Crash \/ Exit
  BY <1>4, DieType DEF NoCertificate, Crash, Exit
<1>5. CASE Count
  <2>1. frames' \in 0..MaxFrames /\ {counter', unsaved', afterSnap'} \subseteq Nat
    BY <1>5 DEF Count, ProcessTypeOK, ProcessAssumption
  <2> QED
    BY <1>5, <2>1 DEF Count, ProcessTypeOK
<1>6. CASE Snapshot
  BY <1>6 DEF Snapshot, bounds, ProcessTypeOK
<1>7. ASSUME NEW ok \in BOOLEAN, Save(ok) PROVE ProcessTypeOK' /\ DeathInv'
  BY <1>1, <1>7 DEF Save, bounds, ProcessTypeOK
<1>8. ASSUME NEW t \in Tasks, Panic(t) PROVE ProcessTypeOK' /\ DeathInv'
  <2>1. panics' \in 0..MaxPanics
    BY <1>8 DEF Panic, ProcessTypeOK, ProcessAssumption
  <2> QED
    BY <1>1, <1>8, <2>1 DEF Panic, ProcessTypeOK
<1>9. ASSUME NEW t \in Tasks, Recover(t) \/ Leave(t) PROVE ProcessTypeOK' /\ DeathInv'
  BY <1>9 DEF Recover, CallAgain, Leave, counters, bounds, ProcessTypeOK
<1>10. CASE ListenerFails \/ Signal \/ Drain \/ Join \/ CloseStore
  BY <1>10 DEF ListenerFails, Signal, Drain, Join, CloseStore, counters, bounds, ProcessTypeOK
<1>11. ASSUME NEW busy \in BOOLEAN, Serve(busy) PROVE ProcessTypeOK' /\ DeathInv'
  BY <1>11 DEF Serve, counters, bounds, ProcessTypeOK
<1>12. CASE UNCHANGED processVars
  BY <1>12 DEF processVars, counters, bounds, ProcessTypeOK
<1> QED
  BY <1>2, <1>3, <1>4, <1>5, <1>6, <1>7, <1>8, <1>9, <1>10, <1>11, <1>12 DEF ProcessNext, Shutdown

\* Every value keeps its type over starts, panics and ends of the process (Server.Run).
THEOREM ProcessTypeCorrect == ProcessSpec => [](ProcessTypeOK /\ DeathInv)
<1>1. ASSUME ProcessAssumption, ProcessInit PROVE ProcessTypeOK /\ DeathInv
  <2>1. Nothing \in Nat /\ {MaxFrames, MaxPanics, MaxDeaths} \subseteq Nat
    BY <1>1 DEF Nothing, ProcessAssumption
  <2>2. task \in [Tasks -> {"on", "recovered", "leaving", "gone"}]
    BY <1>1 DEF ProcessInit
  <2>3. {counter, base, inHand, stored, unsaved, afterSnap, forgotten} \subseteq Nat
    BY <1>1, <2>1 DEF ProcessInit
  <2>4. frames \in 0..MaxFrames /\ panics \in 0..MaxPanics /\ deaths \in 0..MaxDeaths
    BY <1>1, <2>1 DEF ProcessInit
  <2> QED
    BY <1>1, <2>2, <2>3, <2>4 DEF ProcessInit, ProcessTypeOK, DeathInv
<1> QED
  BY <1>1, ProcessTypeNext, ProcessAssumption, PTL DEF ProcessSpec

-----------------------------------------------------------------------------
(* The process: what is counted is saved, unsaved or forgotten.            *)

\* A process that could read the counter has in memory what was ever counted, less what was
\* forgotten; of that, the snapshot in hand lacks what was counted since.  What the database
\* lacks is unsaved, and a process that has ended leaves nothing unsaved behind.
CountInv ==
  /\ afterSnap <= unsaved
  /\ life = "dead" => inHand = Nothing /\ unsaved = 0
  /\ ~unread => /\ stored + unsaved + forgotten = frames
                /\ life # "dead" => counter + forgotten = frames
                /\ inHand # Nothing => inHand + afterSnap = counter

LEMMA CountNext == ASSUME ProcessAssumption, ProcessTypeOK, CountInv, [ProcessNext]_processVars PROVE CountInv'
<1> USE DEF CountInv
<1>1. {counter, base, inHand, stored, unsaved, afterSnap, forgotten, frames} \subseteq Nat
  BY DEF ProcessTypeOK, ProcessAssumption
<1>2. CASE Start
  BY <1>1, <1>2 DEF Start, Hydrate, bounds
<1>3. CASE NoCertificate \/ Crash \/ Exit
  BY <1>1, <1>3 DEF NoCertificate, Crash, Exit, Die
<1>4. CASE Count
  BY <1>1, <1>4 DEF Count, Running
<1>5. CASE Snapshot
  BY <1>1, <1>5 DEF Snapshot, Running, bounds
<1>6. ASSUME NEW ok \in BOOLEAN, Save(ok) PROVE CountInv'
  BY <1>1, <1>6 DEF Save, Running, bounds
<1>7. ASSUME NEW t \in Tasks, Panic(t) PROVE CountInv'
  BY <1>1, <1>7 DEF Panic, Running
<1>8. ASSUME UNCHANGED <<counters, frames, forgotten, unread>>, life' = "dead" => life = "dead",
             life = "dead" => life' = "dead"
      PROVE  CountInv'
  BY <1>8 DEF counters, Nothing
<1>9. CASE Listen \/ ListenerFails \/ Signal \/ Drain \/ Join \/ CloseStore \/ UNCHANGED processVars
  BY <1>8, <1>9 DEF Listen, ListenerFails, Signal, Drain, Join, CloseStore, bounds, processVars
<1>10. ASSUME NEW t \in Tasks, Recover(t) \/ Leave(t) PROVE CountInv'
  BY <1>8, <1>10 DEF Recover, Leave, bounds
<1>11. ASSUME NEW busy \in BOOLEAN, Serve(busy) PROVE CountInv'
  BY <1>8, <1>11 DEF Serve, bounds
<1> QED
  BY <1>2, <1>3, <1>4, <1>5, <1>6, <1>7, <1>9, <1>10, <1>11 DEF ProcessNext, Shutdown

LEMMA BackwardsStep ==
  ASSUME ProcessAssumption, ProcessTypeOK, CountInv, [ProcessNext]_processVars PROVE stored' < stored => unread
<1>1. {counter, inHand, stored, unsaved, afterSnap, forgotten, frames} \subseteq Nat
  BY DEF ProcessTypeOK, ProcessAssumption
<1>2. ASSUME NEW ok \in BOOLEAN, Save(ok) PROVE stored' < stored => unread
  BY <1>1, <1>2 DEF Save, Running, CountInv
<1>3. CASE UNCHANGED stored
  BY <1>1, <1>3
<1>4. (\E ok \in BOOLEAN : Save(ok)) \/ UNCHANGED stored
  BY DEF ProcessNext, Shutdown, Start, Listen, NoCertificate, Crash, Exit, Die, Count, Snapshot, Panic,
         Recover, Leave, ListenerFails, Signal, Drain, Join, CloseStore, Serve, counters, processVars
<1> QED
  BY <1>2, <1>3, <1>4

LEMMA CountInvHolds == ProcessSpec => []CountInv
<1>1. ASSUME ProcessInit PROVE CountInv
  BY <1>1 DEF ProcessInit, CountInv
<1> QED
  BY <1>1, ProcessTypeCorrect, CountNext, ProcessAssumption, PTL DEF ProcessSpec

\* The total the operator reads is what was ever counted, less what was unsaved when a
\* process ended (statsCounters.Hydrate, runCounterFlush).
THEOREM TotalIsAccountedHolds == ProcessSpec => []TotalIsAccounted
<1>1. CountInv => TotalIsAccounted
  BY DEF CountInv, TotalIsAccounted, Running
<1> QED
  BY <1>1, CountInvHolds, PTL

\* No save takes the stored counter back, unless a process could not read it: the snapshot
\* being saved is at least what is stored (Store.SaveCounters).
THEOREM NeverBackwardsHolds == ProcessSpec => NeverBackwards
<1>1. ASSUME ProcessAssumption, ProcessTypeOK, CountInv, [ProcessNext]_processVars
      PROVE  [stored' < stored => unread]_processVars
  BY <1>1, BackwardsStep
<1> QED
  BY <1>1, ProcessTypeCorrect, CountInvHolds, ProcessAssumption, PTL
     DEF ProcessSpec, NeverBackwards

-----------------------------------------------------------------------------
(* Wizard: its operators.  Positions are numbers, so the least and the     *)
(* greatest of those a step may move to are what Min and Max choose.       *)

LEMMA MinIsLeast ==
  ASSUME NEW S \in SUBSET Nat, S # {}
  PROVE  Min(S) \in S /\ \A j \in S : Min(S) <= j
<1>1. PICK i \in S : \A j \in S : ~(<<j, i>> \in OpToRel(<, Nat))
  BY NatLessThanWellFounded, WFMin
<1>2. ASSUME NEW j \in S, j < i PROVE FALSE
  <2>1. <<j, i>> \in OpToRel(<, Nat)
    BY <1>2 DEF OpToRel
  <2> QED
    BY <1>1, <2>1
<1>3. \A j \in S : i <= j
  BY <1>2
<1> QED
  BY <1>3 DEF Min

LEMMA MaxIsGreatest ==
  ASSUME NEW n \in Nat, NEW S \in SUBSET 0..n, S # {}
  PROVE  Max(S) \in S /\ \A j \in S : j <= Max(S)
<1> DEFINE T == {k \in 0..n : n - k \in S}
<1>1. \A j \in S : n - j \in T
  OBVIOUS
<1>2. PICK k \in T : \A j \in T : k <= j
  <2>1. T # {}
    BY <1>1
  <2>2. T \in SUBSET Nat
    OBVIOUS
  <2> HIDE DEF T
  <2> QED
    BY <2>1, <2>2, MinIsLeast
<1>3. \A j \in S : j <= n - k
  BY <1>1, <1>2
<1> QED
  BY <1>2, <1>3 DEF Max

LEMMA StepsShape ==
  ASSUME NEW f \in DOMAIN Steps
  PROVE  /\ Last(f) \in 2..7 /\ DOMAIN Steps[f] = 1..Last(f)
         /\ Steps[f][Last(f)] = "done" /\ \A i \in 1..Last(f) : Steps[f][i] \in Pages
         /\ f = "first-run" => /\ Last(f) = 7 /\ Steps[f][1] = "identity"
                               /\ Steps[f][2] = "location" /\ Steps[f][3] = "mode"
                               /\ \A i \in 4..7 : Steps[f][i] \notin {"identity", "location", "mode"}
<1>1. CASE f = "first-run"
  BY <1>1 DEF Steps, Last, Pages
<1>2. CASE f = "tnc"
  BY <1>2 DEF Steps, Last, Pages
<1>3. CASE f = "location"
  BY <1>3 DEF Steps, Last, Pages
<1>4. CASE f = "mode"
  BY <1>4 DEF Steps, Last, Pages
<1> QED
  BY <1>1, <1>2, <1>3, <1>4 DEF Steps

LEMMA VisibleShape ==
  ASSUME NEW f \in DOMAIN Steps, NEW m
  PROVE  /\ Visible(f, m) \subseteq 1..Last(f) /\ Visible(f, m) \subseteq Nat
         /\ Last(f) \in Visible(f, m)
         /\ f = "first-run" => {1, 2, 3} \subseteq Visible(f, m)
<1>1. Visible(f, m) \subseteq 1..Last(f) /\ Visible(f, m) \subseteq Nat
  BY StepsShape DEF Visible
<1>2. Last(f) \in Visible(f, m)
  BY StepsShape DEF Visible, Skip
<1>3. f = "first-run" => {1, 2, 3} \subseteq Visible(f, m)
  BY StepsShape DEF Visible, Skip
<1> QED
  BY <1>1, <1>2, <1>3

\* Forward: to the end or beyond it, and over no step the mode shows.
LEMMA AfterShape ==
  ASSUME NEW f \in DOMAIN Steps, NEW m, NEW i \in 1..(Last(f) + 1)
  PROVE  /\ After(f, m, i) \in 1..(Last(f) + 1)
         /\ \A j \in Visible(f, m) : j > i => After(f, m, i) <= j
<1> DEFINE S == {j \in Visible(f, m) : j > i} \cup {Last(f) + 1}
<1>1. Last(f) \in Nat /\ Last(f) + 1 \in Nat
  BY StepsShape
<1>2. S \subseteq Nat /\ S # {} /\ S \subseteq 1..(Last(f) + 1)
  BY <1>1, VisibleShape
<1> QED
  BY <1>2, MinIsLeast DEF After

LEMMA BeforeShape ==
  ASSUME NEW f \in DOMAIN Steps, NEW m, NEW i \in 2..(Last(f) + 1)
  PROVE  Before(f, m, i) \in 1..(i - 1)
<1> DEFINE S == {j \in Visible(f, m) : j < i} \cup {1}
<1>1. Last(f) \in Nat
  BY StepsShape
<1>2. S \subseteq 0..(i - 1) /\ S # {} /\ S \subseteq 1..(i - 1) /\ i - 1 \in Nat
  BY <1>1, VisibleShape
<1> QED
  BY <1>2, MaxIsGreatest DEF Before

\* A page shows a step of the mode, and never skips one that asks for what must be given.
LEMMA ShownShape ==
  ASSUME NEW f \in DOMAIN Steps, NEW m, NEW i \in 1..(Last(f) + 1)
  PROVE  /\ Shown(f, m, i) \in Visible(f, m) /\ Shown(f, m, i) \in 1..Last(f)
         /\ \A k \in 1..3 : f = "first-run" /\ Shown(f, m, i) > k => i > k
<1> DEFINE q == Min({i, Last(f)})
           S == {j \in Visible(f, m) : j >= q}
<1>1. Last(f) \in Nat /\ Last(f) \in 2..7
  BY StepsShape
<1>2. q \in {i, Last(f)} /\ q <= i /\ q <= Last(f)
  <2>1. {i, Last(f)} \in SUBSET Nat /\ {i, Last(f)} # {}
    BY <1>1
  <2> QED
    BY <2>1, MinIsLeast
<1>3. S \subseteq Nat /\ S # {} /\ S \subseteq Visible(f, m)
  BY <1>2, VisibleShape
<1>4. Min(S) \in S /\ \A j \in S : Min(S) <= j
  BY <1>3, MinIsLeast
<1>5. Shown(f, m, i) = Min(S)
  BY DEF Shown
<1>6. ASSUME NEW k \in 1..3, f = "first-run", Min(S) > k, i <= k PROVE FALSE
  <2>1. k \in Visible(f, m)
    BY <1>6, VisibleShape
  <2>2. k >= q
    BY <1>1, <1>2, <1>6
  <2>3. k \in S
    BY <2>1, <2>2
  <2>4. Min(S) <= k /\ Min(S) \in Nat
    BY <1>3, <1>4, <2>3
  <2> QED
    BY ONLY <1>6, <2>4
<1>7. \A k \in 1..3 : f = "first-run" /\ Min(S) > k => i > k
  <2> SUFFICES ASSUME NEW k \in 1..3, f = "first-run", Min(S) > k PROVE i > k
    OBVIOUS
  <2> QED
    BY <1>1, <1>6
<1> QED
  BY <1>3, <1>4, <1>5, <1>7, VisibleShape

-----------------------------------------------------------------------------
(* Wizard: what the drafts in memory are, and who refers to them.          *)

\* The drafts are those the session and the request refer to; there is a request only
\* while a commit is left; the draft's position is a step or one past the last.
Owned ==
  /\ mine \in DOMAIN drafts \cup {NoObj} /\ DOMAIN drafts \subseteq {mine, req.d}
  /\ req.by = "none" => req = NoReq
  /\ req.by # "none" => req.d \in DOMAIN drafts /\ room > 0 /\ req.since <= dropped
  /\ \A o \in DOMAIN drafts : drafts[o].idx \in 1..(Last(drafts[o].flavor) + 1)

LEMMA TidyType ==
  ASSUME NEW ls \in [Arrays -> BOOLEAN], NEW c, NEW ds PROVE Tidy(ls, c, ds) \in [Arrays -> BOOLEAN]
BY DEF Tidy

\* Four addresses are enough: the configuration and two drafts take three.
LEMMA NewListType ==
  ASSUME WizardAssumption, WizardTypeOK, Owned PROVE NewList \in Arrays
<1> DEFINE Used == {cfg.beacons, drafts[mine].conf.beacons, drafts[req.d].conf.beacons}
<1>1. IsFiniteSet(Used) /\ Cardinality(Used) <= 3
  <2> DEFINE one == {cfg.beacons}
             two == one \cup {drafts[mine].conf.beacons}
  <2>1. IsFiniteSet(one) /\ Cardinality(one) = 1
    BY FS_Singleton
  <2>2. /\ IsFiniteSet(two)
        /\ Cardinality(two) = IF drafts[mine].conf.beacons \in one THEN 1 ELSE 1 + 1
    BY <2>1, FS_AddElement
  <2> HIDE DEF two
  <2>3. /\ IsFiniteSet(two \cup {drafts[req.d].conf.beacons})
        /\ Cardinality(two \cup {drafts[req.d].conf.beacons}) =
             IF drafts[req.d].conf.beacons \in two THEN Cardinality(two) ELSE Cardinality(two) + 1
    BY <2>2, FS_AddElement
  <2>4. Used = two \cup {drafts[req.d].conf.beacons}
    BY DEF two
  <2> QED
    BY <2>2, <2>3, <2>4
<1>2. {cfg.beacons} \cup {drafts[o].conf.beacons : o \in DOMAIN drafts} \subseteq Used
  BY DEF Owned
<1>3. ~(Arrays \subseteq Used)
  <2> HIDE DEF Used
  <2>1. SUFFICES ASSUME Arrays \subseteq Used PROVE FALSE
    OBVIOUS
  <2>2. Cardinality(Arrays) <= Cardinality(Used)
    BY <1>1, <2>1, FS_Subset
  <2>3. Cardinality(Arrays) \in Nat /\ Cardinality(Used) \in Nat /\ Cardinality(Arrays) > 3
    BY <1>1, FS_CardinalityType DEF WizardAssumption
  <2> QED
    BY ONLY <1>1, <2>2, <2>3
<1>4. FreeLists # {} /\ FreeLists \subseteq Arrays /\ FreeLists \in SUBSET Nat
  BY <1>2, <1>3 DEF FreeLists, WizardAssumption
<1> QED
  BY <1>4, MinIsLeast DEF NewList

LEMMA FreeObjType ==
  ASSUME WizardAssumption, FreeObjs # {} PROVE Min(FreeObjs) \in Objs \ {mine, req.d, NoObj}
<1>1. FreeObjs \in SUBSET Nat /\ FreeObjs \subseteq Objs \ {mine, req.d, NoObj}
  BY DEF FreeObjs, WizardAssumption
<1> QED
  BY <1>1, MinIsLeast

LEMMA DraftOf ==
  ASSUME WizardAssumption, WizardTypeOK, Owned, NEW o \in DOMAIN drafts
  PROVE  /\ drafts[o] \in Draft /\ drafts[o].conf \in Conf
         /\ drafts[o].flavor \in Flavors /\ drafts[o].flavor \in DOMAIN Steps
         /\ drafts[o].idx \in 1..(Last(drafts[o].flavor) + 1)
<1>1. drafts[o] \in Draft
  BY DEF WizardTypeOK
<1> QED
  BY <1>1 DEF Draft, Owned, WizardAssumption

\* A visit leaves a draft alone but for its position, or makes it one of the configuration
\* in force, at its first step.
LEMMA VisitShape ==
  ASSUME WizardAssumption, WizardTypeOK, Owned, NEW t \in Tabs, NEW f \in Flavors, Visit(t, f)
  PROVE  \E o \in Objs, e \in Draft :
           /\ o = mine \/ o \notin DOMAIN drafts \cup {req.d}
           /\ mine' = o /\ drafts' = Reachable(With(o, e), o, req.d)
           /\ lists' \in [Arrays -> BOOLEAN] /\ page' \in [Tabs -> Pages]
           /\ e.flavor = f /\ e.idx \in 1..(Last(f) + 1)
           /\ \/ /\ Live /\ o = mine /\ drafts[o].flavor = f /\ e.conf = drafts[o].conf
                 /\ f = "first-run" => \A k \in 1..3 : e.idx > k => drafts[o].idx > k
              \/ /\ e.conf = cfg
                 /\ f = "first-run" => \A k \in 1..3 : ~(e.idx > k)
<1> DEFINE o == IF Live THEN mine ELSE Min(FreeObjs)
           d == IF Live THEN Routed(f, drafts[mine]) ELSE Opened(f)
           i == Shown(f, d.conf.mode, d.idx)
           e == IF HasVisibleWork(f, d.conf.mode) THEN [d EXCEPT !.idx = i] ELSE d
<1>1. o \in Objs /\ (o = mine \/ o \notin DOMAIN drafts \cup {req.d})
  <2>1. CASE Live
    BY <2>1 DEF Live, Owned, WizardTypeOK
  <2>2. CASE ~Live
    BY <2>2, FreeObjType DEF Live, Owned, Visit
  <2> QED
    BY <2>1, <2>2
<1>2. /\ f \in DOMAIN Steps /\ Last(f) \in 2..7 /\ cfg \in Conf
      /\ Live => mine \in DOMAIN drafts /\ drafts[mine] \in Draft
                 /\ drafts[mine].idx \in 1..(Last(drafts[mine].flavor) + 1)
  BY StepsShape, DraftOf DEF WizardAssumption, WizardTypeOK, Owned, Live
<1>3. Opened(f) \in Draft /\ Opened(f).flavor = f /\ Opened(f).idx = 1 /\ Opened(f).conf = cfg
  BY <1>2 DEF Opened, Draft
<1>4. /\ d \in Draft /\ d.flavor = f /\ d.idx \in 1..(Last(f) + 1)
      /\ \/ Live /\ d = drafts[mine]
         \/ d.conf = cfg /\ d.idx = 1
  <2>1. CASE Live
    <3> DEFINE own == IF drafts[mine].flavor = f THEN drafts[mine]
                      ELSE [drafts[mine] EXCEPT !.flavor = f, !.idx = 1, !.conf = cfg]
    <3>1. /\ own \in Draft /\ own.flavor = f /\ own.idx \in 1..(Last(f) + 1)
          /\ own = drafts[mine] \/ (own.conf = cfg /\ own.idx = 1)
      <4>1. CASE drafts[mine].flavor = f
        BY <1>2, <2>1, <4>1
      <4>2. CASE drafts[mine].flavor # f
        <5>1. own = [drafts[mine] EXCEPT !.flavor = f, !.idx = 1, !.conf = cfg]
          BY <4>2
        <5>2. own \in Draft
          BY <1>2, <2>1, <5>1 DEF Draft
        <5>3. own.flavor = f /\ own.idx = 1 /\ own.conf = cfg
          BY <1>2, <2>1, <5>1 DEF Draft
        <5> HIDE DEF own
        <5> QED
          BY <1>2, <5>2, <5>3
      <4> QED
        BY <4>1, <4>2
    <3>2. Routed(f, drafts[mine]) \in {own, Opened(f)}
      BY DEF Routed
    <3> HIDE DEF own
    <3> QED
      BY <1>2, <1>3, <2>1, <3>1, <3>2
  <2>2. CASE ~Live
    BY <1>2, <1>3, <2>2
  <2> QED
    BY <2>1, <2>2
<1> HIDE DEF d
<1>5. /\ i \in 1..Last(f)
      /\ \A k \in 1..3 : f = "first-run" /\ i > k => d.idx > k
  BY <1>2, <1>4, ShownShape
<1> HIDE DEF i
<1>6. /\ e \in Draft /\ e.flavor = f /\ e.conf = d.conf /\ e.idx \in 1..(Last(f) + 1)
      /\ e.idx = d.idx \/ e.idx = i
  BY <1>2, <1>4, <1>5 DEF Draft
<1>7. f = "first-run" => \A k \in 1..3 : e.idx > k => d.idx > k
  BY <1>5, <1>6
<1>8. /\ mine' = o /\ drafts' = Reachable(With(o, e), o, req.d)
      /\ page' \in {[page EXCEPT ![t] = Steps[f][i]], [page EXCEPT ![t] = "settings"]}
  BY DEF Visit, d, i
<1>9. lists' \in [Arrays -> BOOLEAN] /\ page' \in [Tabs -> Pages]
  <2>1. Steps[f][i] \in Pages
    BY <1>2, <1>5, StepsShape
  <2>2. lists' = Tidy(lists, cfg, drafts')
    BY DEF Visit
  <2> QED
    BY <1>8, <2>1, <2>2, TidyType DEF WizardTypeOK, Pages
<1> HIDE DEF e
<1>10. \/ /\ Live /\ o = mine /\ drafts[o].flavor = f /\ e.conf = drafts[o].conf
          /\ f = "first-run" => \A k \in 1..3 : e.idx > k => drafts[o].idx > k
       \/ /\ e.conf = cfg
          /\ f = "first-run" => \A k \in 1..3 : ~(e.idx > k)
  <2>1. CASE Live /\ d = drafts[mine]
    BY <1>4, <1>6, <1>7, <2>1
  <2>2. CASE d.conf = cfg /\ d.idx = 1
    BY <1>6, <1>7, <2>2
  <2> QED
    BY <1>4, <2>1, <2>2
<1> HIDE DEF o
<1> QED
  BY <1>1, <1>6, <1>8, <1>9, <1>10

\* A form answers what its step asks, and takes no answer away.
Answers(c, p, e) ==
  /\ e.prefs = c.prefs /\ e.skewed = c.skewed
  /\ c.id \/ p = "identity" => e.id
  /\ c.loc \/ p = "location" => e.loc
  /\ c.mode # "" \/ p = "mode" => e.mode # ""

LEMMA FilledShape ==
  ASSUME WizardAssumption, NEW c \in Conf, NEW p, NEW e \in Filled(c, p)
  PROVE  e \in Conf /\ Answers(c, p, e)
<1>1. CASE p = "identity"
  <2>1. e = [c EXCEPT !.id = TRUE]
    BY <1>1 DEF Filled
  <2> QED
    BY <1>1, <2>1 DEF Conf, Answers
<1>2. CASE p = "location"
  <2>1. e = [c EXCEPT !.loc = TRUE]
    BY <1>2 DEF Filled
  <2> QED
    BY <1>2, <2>1 DEF Conf, Answers
<1>3. CASE p = "tnc"
  <2>1. e = c \/ e = [c EXCEPT !.tnc = TRUE]
    BY <1>3 DEF Filled
  <2> QED
    BY <1>3, <2>1 DEF Conf, Answers
<1>4. CASE p = "mode"
  <2>1. PICK m \in Modes : e = ModeDefaults(c, m)
    BY <1>4 DEF Filled
  <2>2. m \in Presets \cup {"advanced"} /\ m # "" /\ (m # "is" /\ c.tnc) \in BOOLEAN
    BY DEF WizardAssumption, Presets
  <2> DEFINE g == IF m = "advanced" THEN c.flags ELSE m
             n == m # "is" /\ c.tnc
  <2>3. e = [c EXCEPT !.mode = m, !.flags = g, !.tnc = n]
    BY <2>1 DEF ModeDefaults, Conf
  <2>4. g \in Presets \cup {"", "own"} /\ n \in BOOLEAN
    BY <2>2 DEF Conf
  <2> HIDE DEF g, n
  <2>5. e \in Conf
    BY <2>2, <2>3, <2>4 DEF Conf
  <2>6. /\ e.prefs = c.prefs /\ e.skewed = c.skewed /\ e.id = c.id /\ e.loc = c.loc /\ e.mode = m
    BY <2>3 DEF Conf
  <2>7. c.id \in BOOLEAN /\ c.loc \in BOOLEAN
    BY DEF Conf
  <2> QED
    BY <1>4, <2>2, <2>5, <2>6, <2>7 DEF Answers
<1>5. CASE p = "advanced-flags"
  <2>1. e = [c EXCEPT !.flags = "own"]
    BY <1>5 DEF Filled
  <2> QED
    BY <1>5, <2>1 DEF Conf, Answers
<1>6. CASE p \notin {"identity", "location", "tnc", "mode", "advanced-flags"}
  <2>1. e = c
    BY <1>6 DEF Filled
  <2> QED
    BY <1>6, <2>1 DEF Conf, Answers
<1> QED
  BY <1>1, <1>2, <1>3, <1>4, <1>5, <1>6

LEMMA BeaconsType ==
  ASSUME WizardAssumption, WizardTypeOK, Owned, NEW c \in Conf, NEW p
  PROVE  Beacons(c, p)[1] \in Arrays \cup {NoList} /\ Beacons(c, p)[2] \in BOOLEAN
<1>1. NewList \in Arrays /\ c.beacons \in Arrays \cup {NoList}
  BY NewListType DEF Conf
<1>2. (c.beacons # NoList /\ lists[c.beacons]) \in BOOLEAN
  BY <1>1 DEF WizardTypeOK
<1> QED
  BY <1>1, <1>2 DEF Beacons

\* What makes a configuration honest about its mode, as LabelHonest asks.
Honest(c) == c.mode \in Presets => c.skewed \/ (c.flags = c.mode /\ (c.mode = "is" => ~c.tnc))

\* A form that is not one of a step hidden from the mode keeps a configuration honest.
LEMMA FilledHonest ==
  ASSUME WizardAssumption, NEW c \in Conf, Honest(c), NEW p, NEW e \in Filled(c, p),
         c.skewed \/ (p = "tnc" => c.mode # "is"),
         c.skewed \/ (p = "advanced-flags" => c.mode = "advanced")
  PROVE  Honest(e)
<1>1. CASE p = "identity" \/ p = "location"
  <2>1. e.mode = c.mode /\ e.flags = c.flags /\ e.tnc = c.tnc /\ e.skewed = c.skewed
    BY <1>1 DEF Filled, Conf
  <2> QED
    BY <2>1 DEF Honest
<1>2. CASE p = "tnc"
  <2>1. e = c \/ e = [c EXCEPT !.tnc = TRUE]
    BY <1>2 DEF Filled
  <2> QED
    BY <1>2, <2>1 DEF Conf, Honest
<1>3. CASE p = "mode"
  <2>1. PICK m \in Modes : e = ModeDefaults(c, m)
    BY <1>3 DEF Filled
  <2>2. /\ e.mode = m /\ e.flags = (IF m = "advanced" THEN c.flags ELSE m)
        /\ e.tnc = (m # "is" /\ c.tnc)
    BY <2>1 DEF ModeDefaults, Conf
  <2> QED
    BY <2>2 DEF Honest, Presets
<1>4. CASE p = "advanced-flags"
  <2>1. e = [c EXCEPT !.flags = "own"]
    BY <1>4 DEF Filled
  <2> QED
    BY <1>4, <2>1 DEF Conf, Honest, Presets
<1>5. CASE p \notin {"identity", "location", "tnc", "mode", "advanced-flags"}
  <2>1. e = c
    BY <1>5 DEF Filled
  <2> QED
    BY <2>1
<1> QED
  BY <1>1, <1>2, <1>3, <1>4, <1>5

\* What a posted step makes of the request's draft, and whether it is committed: the form
\* on top of what the draft held, the position moved over no step that asks for what must
\* be given.
TakeMakes(t, e, done) ==
  /\ drafts' = Reachable(With(req.d, e), mine, NoObj)
  /\ e.flavor = drafts[req.d].flavor /\ e.idx \in 1..(Last(drafts[req.d].flavor) + 1)
  /\ e.conf \in Conf /\ e.conf.prefs = drafts[req.d].conf.prefs
  /\ e.conf.skewed = (drafts[req.d].conf.skewed \/ ~InTurn(drafts[req.d], page[t]))
  /\ drafts[req.d].conf.id \/ page[t] = "identity" => e.conf.id
  /\ drafts[req.d].conf.loc \/ page[t] = "location" => e.conf.loc
  /\ drafts[req.d].conf.mode # "" \/ page[t] = "mode" => e.conf.mode # ""
  /\ Honest(drafts[req.d].conf) => Honest(e.conf)
  /\ drafts[req.d].flavor = "first-run" =>
       \A k \in 1..3 : (e.idx > k \/ done) => drafts[req.d].idx >= k
  /\ cfg' = IF done THEN Committed(e.conf) ELSE cfg
  /\ late' = (late \/ (done /\ req.since < saves))
  /\ req' = NoReq /\ UNCHANGED <<mine, page, job, saves, dropped>>
  /\ lists' \in [Arrays -> BOOLEAN] /\ enabled' \in BOOLEAN
  /\ room' = IF done THEN room - 1 ELSE room

LEMMA TakeShape ==
  ASSUME WizardAssumption, WizardTypeOK, Owned, NEW t \in Tabs, req.by = t, Take(t)
  PROVE  \E e \in Draft, done \in BOOLEAN : TakeMakes(t, e, done)
<1> DEFINE d == drafts[req.d]
           skewed == d.conf.skewed \/ ~InTurn(d, page[t])
           from == [d.conf EXCEPT !.skewed = skewed]
<1>1. req.d \in DOMAIN drafts
  BY DEF Owned, WizardAssumption
<1>2. /\ d \in Draft /\ d.conf \in Conf /\ d.flavor \in DOMAIN Steps
      /\ d.idx \in 1..(Last(d.flavor) + 1)
  BY <1>1, DraftOf
<1>3. PICK c \in Filled([d.conf EXCEPT !.skewed = @ \/ ~InTurn(d, page[t])], page[t]),
           saved \in BOOLEAN :
        LET after == Beacons(c, page[t])
            conf == [c EXCEPT !.beacons = after[1]]
            i == After(d.flavor, conf.mode, d.idx)
            done == i >= Last(d.flavor)
            next == [d EXCEPT !.conf = conf, !.idle = FALSE,
                              !.idx = IF done /\ saved THEN Last(d.flavor) ELSE i]
        IN  /\ req' = NoReq
            /\ drafts' = Reachable(With(req.d, next), mine, NoObj)
            /\ cfg' = IF done THEN Committed(conf) ELSE cfg
            /\ lists' = Tidy([x \in Arrays |-> IF x = after[1] THEN after[2] ELSE lists[x]],
                             cfg', drafts')
            /\ late' = (late \/ (done /\ req.since < saves))
            /\ enabled' = IF done THEN after[2] ELSE enabled
            /\ room' = IF done THEN room - 1 ELSE room
            /\ UNCHANGED <<mine, page, job, saves, dropped>>
  BY DEF Take
<1> DEFINE after == Beacons(c, page[t])
           conf == [c EXCEPT !.beacons = after[1]]
           i == After(d.flavor, conf.mode, d.idx)
           done == i >= Last(d.flavor)
           j == IF done /\ saved THEN Last(d.flavor) ELSE i
           e == [d EXCEPT !.conf = conf, !.idle = FALSE, !.idx = j]
<1>4. from \in Conf /\ from = [d.conf EXCEPT !.skewed = @ \/ ~InTurn(d, page[t])]
  <2>1. skewed \in BOOLEAN
    BY <1>2 DEF Conf, InTurn
  <2> QED
    BY <1>2, <2>1 DEF Conf
<1>5. c \in Filled(from, page[t]) /\ c \in Conf
  BY <1>3, <1>4, FilledShape
<1>6. after[1] \in Arrays \cup {NoList} /\ after[2] \in BOOLEAN
  BY <1>5, BeaconsType
<1>7. conf \in Conf
  BY <1>5, <1>6 DEF Conf
<1> HIDE DEF conf, after, from
<1>8. /\ i \in 1..(Last(d.flavor) + 1)
      /\ \A k \in Visible(d.flavor, conf.mode) : k > d.idx => i <= k
  BY <1>2, AfterShape
<1> HIDE DEF i
<1>9. Last(d.flavor) \in 2..7 /\ done \in BOOLEAN
  BY <1>2, <1>8, StepsShape
<1>10. /\ j \in 1..(Last(d.flavor) + 1) /\ j \in Nat
       /\ d.flavor = "first-run" => \A k \in 1..3 : (j > k \/ done) => d.idx >= k
  <2>1. j \in 1..(Last(d.flavor) + 1) /\ j \in Nat
    BY <1>8, <1>9
  <2>2. ASSUME d.flavor = "first-run", NEW k \in 1..3, d.idx < k PROVE ~(j > k) /\ ~done
    <3>1. k \in Visible(d.flavor, conf.mode) /\ Last(d.flavor) = 7
      BY <1>2, <2>2, VisibleShape, StepsShape
    <3>2. i <= k
      BY <1>2, <1>8, <2>2, <3>1
    <3> QED
      BY <1>8, <2>2, <3>1, <3>2
  <2>3. ASSUME d.flavor = "first-run", NEW k \in 1..3, j > k \/ done PROVE d.idx >= k
    BY <1>2, <2>2, <2>3
  <2> QED
    BY <2>1, <2>3
<1>11. e \in Draft /\ e.flavor = d.flavor /\ e.idx = j /\ e.conf = conf
  <2> HIDE DEF j, d
  <2> QED
    BY <1>2, <1>7, <1>10 DEF Draft
<1>12. /\ conf.prefs = d.conf.prefs /\ conf.skewed = skewed
       /\ d.conf.id \/ page[t] = "identity" => conf.id
       /\ d.conf.loc \/ page[t] = "location" => conf.loc
       /\ d.conf.mode # "" \/ page[t] = "mode" => conf.mode # ""
       /\ Honest(d.conf) => Honest(conf)
  <2>1. /\ from.prefs = d.conf.prefs /\ from.skewed = skewed /\ from.id = d.conf.id
        /\ from.loc = d.conf.loc /\ from.mode = d.conf.mode /\ from.flags = d.conf.flags
        /\ from.tnc = d.conf.tnc
    <3> HIDE DEF d, skewed
    <3> QED
      BY <1>2 DEF from, Conf
  <2>2. Answers(from, page[t], c)
    BY <1>4, <1>5, FilledShape
  <2>3. /\ conf.prefs = c.prefs /\ conf.skewed = c.skewed /\ conf.id = c.id /\ conf.loc = c.loc
        /\ conf.mode = c.mode /\ conf.flags = c.flags /\ conf.tnc = c.tnc
    BY <1>5 DEF conf, Conf
  <2>4. ASSUME Honest(d.conf) PROVE Honest(conf)
    <3>1. Honest(from)
      BY <2>1, <2>4 DEF Honest
    <3>2. InTurn(d, page[t]) => ~Skip(IF page[t] = "confirm" THEN "tnc" ELSE page[t], d.conf.mode)
      BY DEF InTurn, Visible
    <3>3. /\ from.skewed \/ (page[t] = "tnc" => from.mode # "is")
          /\ from.skewed \/ (page[t] = "advanced-flags" => from.mode = "advanced")
      BY <2>1, <3>2 DEF Skip
    <3>4. Honest(c)
      BY <1>4, <1>5, <3>1, <3>3, FilledHonest
    <3> QED
      BY <2>3, <3>4 DEF Honest
  <2>5. d.conf.id \in BOOLEAN /\ d.conf.loc \in BOOLEAN
    BY <1>2 DEF Conf
  <2> HIDE DEF d, skewed
  <2> QED
    BY <2>1, <2>2, <2>3, <2>4, <2>5 DEF Answers
<1>13. /\ req' = NoReq /\ drafts' = Reachable(With(req.d, e), mine, NoObj)
       /\ cfg' = IF done THEN Committed(conf) ELSE cfg
       /\ lists' = Tidy([x \in Arrays |-> IF x = after[1] THEN after[2] ELSE lists[x]],
                        cfg', drafts')
       /\ late' = (late \/ (done /\ req.since < saves))
       /\ enabled' = IF done THEN after[2] ELSE enabled
       /\ room' = IF done THEN room - 1 ELSE room
       /\ UNCHANGED <<mine, page, job, saves, dropped>>
  BY <1>3 DEF i, conf, after
<1>14. lists' \in [Arrays -> BOOLEAN] /\ enabled' \in BOOLEAN
  <2>1. [x \in Arrays |-> IF x = after[1] THEN after[2] ELSE lists[x]] \in [Arrays -> BOOLEAN]
    BY <1>6 DEF WizardTypeOK
  <2>2. enabled \in BOOLEAN
    BY DEF WizardTypeOK
  <2> QED
    BY <1>6, <1>13, <2>1, <2>2, TidyType
<1> HIDE DEF e, done, j
<1>15. TakeMakes(t, e, done)
  BY <1>7, <1>10, <1>11, <1>12, <1>13, <1>14 DEF TakeMakes
<1> QED
  BY <1>9, <1>11, <1>15

-----------------------------------------------------------------------------
(* Wizard: type correctness, with who refers to which draft.               *)

LEMMA OwnedStart == ASSUME WizardAssumption, WizardInit PROVE WizardTypeOK /\ Owned
<1>1. Blank \in Conf /\ Working \in Conf
  BY DEF Blank, Working, Conf, Presets, WizardAssumption
<1>2. cfg \in Conf /\ cfg.complete \in BOOLEAN
  BY <1>1 DEF WizardInit, Conf
<1>3. DOMAIN drafts = {}
  BY DEF WizardInit
<1>4. 0 \in 0..MaxSaves /\ 0 \in 0..0 /\ MaxCommits \in 0..MaxCommits
  <2>1. MaxSaves \in Nat /\ MaxCommits \in Nat
    BY DEF WizardAssumption
  <2> QED
    BY <2>1
<1>5. /\ lists \in [Arrays -> BOOLEAN] /\ page \in [Tabs -> Pages]
      /\ req = NoReq /\ NoReq \in [by : Tabs \cup {"none"}, d : Objs \cup {NoObj}, since : Nat]
  BY DEF WizardInit, NoReq, Pages
<1>6. WizardTypeOK
  BY <1>2, <1>3, <1>4, <1>5 DEF WizardInit, WizardTypeOK
<1>7. Owned
  BY <1>3, <1>5 DEF WizardInit, Owned, NoReq
<1> QED
  BY <1>6, <1>7

\* The drafts of a request or a step that only drops some.
LEMMA ReleaseShape ==
  ASSUME WizardTypeOK, NEW m, NEW d, Release(m, d)
  PROVE  /\ DOMAIN drafts' = DOMAIN drafts \cap {m, d}
         /\ \A o \in DOMAIN drafts' : drafts'[o] = drafts[o]
         /\ lists' \in [Arrays -> BOOLEAN]
<1>1. lists' \in [Arrays -> BOOLEAN]
  BY TidyType DEF Release, WizardTypeOK
<1>2. /\ DOMAIN drafts' = DOMAIN drafts \cap {m, d}
      /\ \A o \in DOMAIN drafts' : drafts'[o] = drafts[o]
  BY DEF Release, Reachable
<1> QED
  BY <1>1, <1>2

\* Going back moves the draft to a step it has passed, or leaves it at the first.
LEMMA BackShape ==
  ASSUME WizardAssumption, WizardTypeOK, Owned, NEW t \in Tabs, Back(t)
  PROVE  \E e \in Draft :
           /\ mine \in DOMAIN drafts /\ drafts' = [drafts EXCEPT ![mine] = e]
           /\ e.flavor = drafts[mine].flavor /\ e.conf = drafts[mine].conf
           /\ e.idx \in 1..(Last(e.flavor) + 1) /\ e.idx <= drafts[mine].idx
<1> DEFINE d == drafts[mine]
           j == IF d.idx > 1 THEN Before(d.flavor, d.conf.mode, d.idx) ELSE d.idx
           e == [d EXCEPT !.idx = j, !.idle = FALSE]
<1>1. mine \in DOMAIN drafts
  BY DEF Back, Live, Owned
<1>2. d \in Draft /\ d.flavor \in DOMAIN Steps /\ d.idx \in 1..(Last(d.flavor) + 1)
  BY <1>1, DraftOf
<1>3. Last(d.flavor) \in 2..7
  BY <1>2, StepsShape
<1>4. j \in 1..(Last(d.flavor) + 1) /\ j <= d.idx /\ j \in Nat
  <2>1. CASE d.idx > 1
    <3>1. d.idx \in 2..(Last(d.flavor) + 1)
      BY <1>2, <1>3, <2>1
    <3>2. j \in 1..(d.idx - 1)
      BY <1>2, <2>1, <3>1, BeforeShape
    <3> QED
      BY <1>3, <3>1, <3>2
  <2>2. CASE ~(d.idx > 1)
    BY <1>2, <1>3, <2>2
  <2> QED
    BY <2>1, <2>2
<1>5. drafts' = [drafts EXCEPT ![mine] = e]
  BY <1>1, <1>2 DEF Back, Draft
<1> HIDE DEF j, d
<1>6. e \in Draft /\ e.flavor = d.flavor /\ e.conf = d.conf /\ e.idx = j
  BY <1>2, <1>4 DEF Draft
<1> HIDE DEF e
<1> QED
  BY <1>1, <1>4, <1>5, <1>6 DEF d

\* A pairing that succeeded gives the session's draft its radio.
LEMMA PollShape ==
  ASSUME WizardAssumption, WizardTypeOK, Owned, Live, NEW t \in Tabs, Poll(t)
  PROVE  \E e \in Draft :
           /\ mine \in DOMAIN drafts /\ drafts' = [drafts EXCEPT ![mine] = e]
           /\ e.flavor = drafts[mine].flavor /\ e.idx = drafts[mine].idx
           /\ e.conf = [drafts[mine].conf EXCEPT !.tnc = TRUE,
                          !.skewed = drafts[mine].conf.skewed \/ ~InTurn(drafts[mine], "tnc")]
<1> DEFINE d == drafts[mine]
           x == d.conf.skewed \/ ~InTurn(d, "tnc")
           c == [d.conf EXCEPT !.tnc = TRUE, !.skewed = x]
           e == [d EXCEPT !.conf = c]
<1>1. mine \in DOMAIN drafts
  BY DEF Live, Owned
<1>2. d \in Draft /\ d.conf \in Conf
  BY <1>1, DraftOf
<1>3. drafts' = [drafts EXCEPT ![mine] = e]
  BY <1>1, <1>2 DEF Poll
<1>4. x \in BOOLEAN
  BY <1>2 DEF Conf, InTurn
<1> HIDE DEF x
<1>5. c \in Conf
  BY <1>2, <1>4 DEF Conf
<1> HIDE DEF c
<1>6. e \in Draft /\ e.flavor = d.flavor /\ e.idx = d.idx /\ e.conf = c
  BY <1>2, <1>5 DEF Draft
<1> HIDE DEF e
<1> QED
  BY <1>1, <1>3, <1>6 DEF c, x

\* A draft put in place of the session's: what the types and the references ask of it.
LEMMA DraftPut ==
  ASSUME WizardAssumption, WizardTypeOK, Owned, NEW e \in Draft, e.idx \in 1..(Last(e.flavor) + 1),
         mine \in DOMAIN drafts, drafts' = [drafts EXCEPT ![mine] = e],
         UNCHANGED <<mine, req, room, dropped>>
  PROVE  /\ DOMAIN drafts' \subseteq Objs /\ \A o \in DOMAIN drafts' : drafts'[o] \in Draft
         /\ Owned'
<1>1. DOMAIN drafts' = DOMAIN drafts
      /\ \A o \in DOMAIN drafts : drafts'[o] = IF o = mine THEN e ELSE drafts[o]
  OBVIOUS
<1>2. DOMAIN drafts' \subseteq Objs /\ \A o \in DOMAIN drafts' : drafts'[o] \in Draft
  BY <1>1 DEF WizardTypeOK
<1>3. Owned'
  BY <1>1 DEF Owned, Last
<1> QED
  BY <1>2, <1>3

\* The drafts a step only lets go of.
LEMMA DraftsLetGo ==
  ASSUME WizardAssumption, WizardTypeOK, Owned, NEW m \in {mine, NoObj}, Release(m, req'.d), mine' = m,
         dropped' >= dropped, dropped' \in Nat, UNCHANGED room, req' \in {req, NoReq}
  PROVE  /\ DOMAIN drafts' \subseteq Objs /\ \A o \in DOMAIN drafts' : drafts'[o] \in Draft
         /\ lists' \in [Arrays -> BOOLEAN] /\ Owned'
<1>1. /\ DOMAIN drafts' = DOMAIN drafts \cap {m, req'.d}
      /\ \A o \in DOMAIN drafts' : drafts'[o] = drafts[o]
      /\ lists' \in [Arrays -> BOOLEAN]
  BY ReleaseShape
<1>2. DOMAIN drafts' \subseteq Objs /\ \A o \in DOMAIN drafts' : drafts'[o] \in Draft
  BY <1>1 DEF WizardTypeOK
<1>3. mine' \in DOMAIN drafts' \cup {NoObj} /\ DOMAIN drafts' \subseteq {mine', req'.d}
  BY <1>1 DEF Owned
<1>4. req'.by = "none" => req' = NoReq
  BY DEF Owned, NoReq
<1>5. req'.by # "none" => req' = req /\ req.d \in DOMAIN drafts' /\ room' > 0 /\ req.since <= dropped
  BY <1>1 DEF Owned, NoReq
<1>6. req.since \in Nat /\ dropped \in Nat
  BY DEF WizardTypeOK, WizardAssumption
<1>7. \A o \in DOMAIN drafts' : drafts'[o].idx \in 1..(Last(drafts'[o].flavor) + 1)
  BY <1>1 DEF Owned
<1> QED
  BY <1>1, <1>2, <1>3, <1>4, <1>5, <1>6, <1>7 DEF Owned, Last

LEMMA OwnedNext ==
  ASSUME WizardAssumption, WizardTypeOK, Owned, [WizardNext]_wizardVars
  PROVE  WizardTypeOK' /\ Owned'
<1>0. MaxSaves \in Nat /\ MaxCommits \in Nat /\ saves \in Nat /\ dropped \in Nat /\ room \in Nat
  BY DEF WizardAssumption, WizardTypeOK
<1>1. ASSUME NEW t \in Tabs, NEW f \in Flavors, Visit(t, f) PROVE WizardTypeOK' /\ Owned'
  <2>1. PICK o \in Objs, e \in Draft :
           /\ o = mine \/ o \notin DOMAIN drafts \cup {req.d}
           /\ mine' = o /\ drafts' = Reachable(With(o, e), o, req.d)
           /\ lists' \in [Arrays -> BOOLEAN] /\ page' \in [Tabs -> Pages]
           /\ e.flavor = f /\ e.idx \in 1..(Last(f) + 1)
    BY <1>1, VisitShape
  <2>2. /\ DOMAIN drafts' = (DOMAIN drafts \cup {o}) \cap {o, req.d}
        /\ \A p \in DOMAIN drafts' : drafts'[p] = IF p = o THEN e ELSE drafts[p]
    BY <2>1 DEF With, Reachable
  <2>3. UNCHANGED <<cfg, req, job, saves, dropped, late, enabled, room>>
    BY <1>1 DEF Visit
  <2>4. WizardTypeOK'
    BY <2>1, <2>2, <2>3 DEF WizardTypeOK
  <2>5. Owned'
    BY <2>1, <2>2, <2>3 DEF Owned, Last
  <2> QED
    BY <2>4, <2>5
<1>2. ASSUME NEW t \in Tabs, StartWizard(t) PROVE WizardTypeOK' /\ Owned'
  <2>1. (IF Live THEN drafts[mine].flavor ELSE "first-run") \in Flavors
    BY DraftOf DEF WizardAssumption, Live, Owned
  <2> QED
    BY <1>1, <1>2, <2>1 DEF StartWizard
<1>3. ASSUME NEW t \in Tabs, Link(t) PROVE WizardTypeOK' /\ Owned'
  BY <1>1, <1>3 DEF Link
<1>4. ASSUME NEW t \in Tabs, Back(t) PROVE WizardTypeOK' /\ Owned'
  <2>1. PICK e \in Draft :
           /\ mine \in DOMAIN drafts /\ drafts' = [drafts EXCEPT ![mine] = e]
           /\ e.idx \in 1..(Last(e.flavor) + 1)
    BY <1>4, BackShape
  <2>2. UNCHANGED <<cfg, lists, mine, page, req, job, saves, dropped, late, enabled, room>>
    BY <1>4 DEF Back
  <2>3. Owned' /\ DOMAIN drafts' \subseteq Objs /\ \A o \in DOMAIN drafts' : drafts'[o] \in Draft
    BY <2>1, <2>2, DraftPut
  <2> QED
    BY <2>2, <2>3 DEF WizardTypeOK
<1>5. CASE Idle
  <2> DEFINE e == [drafts[mine] EXCEPT !.idle = TRUE]
  <2>1. mine \in DOMAIN drafts
    BY <1>5 DEF Idle, Live, Owned
  <2>2. e \in Draft /\ e.idx \in 1..(Last(e.flavor) + 1) /\ drafts' = [drafts EXCEPT ![mine] = e]
    BY <1>5, <2>1, DraftOf DEF Idle, Draft
  <2>3. UNCHANGED <<cfg, lists, mine, page, req, job, saves, dropped, late, enabled, room>>
    BY <1>5 DEF Idle
  <2> HIDE DEF e
  <2>4. Owned' /\ DOMAIN drafts' \subseteq Objs /\ \A o \in DOMAIN drafts' : drafts'[o] \in Draft
    BY <2>1, <2>2, <2>3, DraftPut
  <2> QED
    BY <2>3, <2>4 DEF WizardTypeOK
<1>6. ASSUME NEW t \in Tabs, Poll(t) PROVE WizardTypeOK' /\ Owned'
  <2>1. UNCHANGED <<cfg, lists, mine, req, saves, dropped, late, enabled, room>>
        /\ job' = "none" /\ page' \in [Tabs -> Pages]
    BY <1>6 DEF Poll, Pages, WizardTypeOK
  <2>2. CASE ~Live
    <3>1. UNCHANGED drafts
      BY <1>6, <2>2 DEF Poll
    <3> QED
      BY <2>1, <3>1 DEF WizardTypeOK, Owned, Last
  <2>3. CASE Live
    <3>1. PICK e \in Draft :
             /\ mine \in DOMAIN drafts /\ drafts' = [drafts EXCEPT ![mine] = e]
             /\ e.flavor = drafts[mine].flavor /\ e.idx = drafts[mine].idx
      BY <1>6, <2>3, PollShape
    <3>2. e.idx \in 1..(Last(e.flavor) + 1)
      BY <3>1 DEF Owned
    <3>3. Owned' /\ DOMAIN drafts' \subseteq Objs /\ \A o \in DOMAIN drafts' : drafts'[o] \in Draft
      BY <2>1, <3>1, <3>2, DraftPut
    <3> QED
      BY <2>1, <3>3 DEF WizardTypeOK
  <2> QED
    BY <2>2, <2>3
<1>7. ASSUME NEW t \in Tabs, Post(t) PROVE WizardTypeOK' /\ Owned'
  <2>1. /\ req' = [by |-> t, d |-> mine, since |-> dropped] /\ mine \in DOMAIN drafts /\ room > 0
        /\ req = NoReq
        /\ UNCHANGED <<cfg, lists, drafts, mine, page, job, saves, dropped, late, enabled, room>>
    BY <1>7 DEF Post, Live, Owned
  <2>2. WizardTypeOK'
    BY <1>0, <2>1 DEF WizardTypeOK
  <2>3. Owned'
    BY <1>0, <2>1 DEF Owned, Last, NoReq, WizardTypeOK, WizardAssumption
  <2> QED
    BY <2>2, <2>3
<1>8. CASE Expire \/ DropDrafts
  <2>1. /\ Release(NoObj, req.d) /\ mine' = NoObj /\ dropped' \in {dropped, saves}
        /\ dropped' = saves => dropped <= saves
        /\ UNCHANGED <<cfg, page, req, job, saves, late, enabled, room>>
    BY <1>0, <1>8 DEF Expire, DropDrafts
  <2>2. dropped' >= dropped /\ dropped' \in 0..saves /\ dropped' \in Nat
    BY <1>0, <2>1 DEF WizardTypeOK
  <2>3. /\ Owned' /\ lists' \in [Arrays -> BOOLEAN]
        /\ DOMAIN drafts' \subseteq Objs /\ \A o \in DOMAIN drafts' : drafts'[o] \in Draft
    BY <2>1, <2>2, DraftsLetGo
  <2> QED
    BY <2>1, <2>2, <2>3 DEF WizardTypeOK
<1>9. ASSUME NEW t \in Tabs, Refuse(t) \/ StartPair(t) PROVE WizardTypeOK' /\ Owned'
  <2>1. /\ Release(mine, NoObj) /\ req' = NoReq /\ page' \in [Tabs -> Pages]
        /\ job' \in {job, "running"}
        /\ UNCHANGED <<cfg, mine, saves, dropped, late, enabled, room>>
    BY <1>9 DEF Refuse, StartPair, Pages, WizardTypeOK
  <2>2. req'.d = NoObj /\ req' \in [by : Tabs \cup {"none"}, d : Objs \cup {NoObj}, since : Nat]
    BY <2>1 DEF NoReq
  <2>3. /\ Owned' /\ lists' \in [Arrays -> BOOLEAN]
        /\ DOMAIN drafts' \subseteq Objs /\ \A o \in DOMAIN drafts' : drafts'[o] \in Draft
    BY <1>0, <2>1, <2>2, DraftsLetGo
  <2> QED
    BY <2>1, <2>2, <2>3 DEF WizardTypeOK
<1>10. ASSUME NEW t \in Tabs, SaveStep(t) \/ Confirm(t) PROVE WizardTypeOK' /\ Owned'
  <2>1. req.by = t /\ Take(t) /\ t # "none"
    BY <1>10 DEF SaveStep, Confirm, WizardAssumption
  <2>2. PICK e \in Draft, done \in BOOLEAN : TakeMakes(t, e, done)
    BY <2>1, TakeShape
  <2>3. /\ DOMAIN drafts' = (DOMAIN drafts \cup {req.d}) \cap {mine, NoObj}
        /\ \A p \in DOMAIN drafts' : drafts'[p] = IF p = req.d THEN e ELSE drafts[p]
    BY <2>2 DEF TakeMakes, With, Reachable
  <2>4. req.d \in DOMAIN drafts /\ room > 0
    BY <2>1 DEF Owned
  <2>5. cfg' \in Conf /\ room' \in 0..MaxCommits /\ req'.d = NoObj
        /\ req' \in [by : Tabs \cup {"none"}, d : Objs \cup {NoObj}, since : Nat]
    <3>1. Committed(e.conf) \in Conf
      BY <2>2 DEF TakeMakes, Committed, Conf
    <3>2. room' \in 0..MaxCommits
      <4>1. room \in 0..MaxCommits /\ room' = IF done THEN room - 1 ELSE room
        BY <2>2 DEF TakeMakes, WizardTypeOK
      <4> QED
        BY ONLY <1>0, <2>4, <4>1
    <3> QED
      BY <2>2, <3>1, <3>2 DEF TakeMakes, WizardTypeOK, NoReq
  <2>6. late' \in BOOLEAN
    BY <2>2 DEF TakeMakes, WizardTypeOK
  <2>7. WizardTypeOK'
    <3>1. DOMAIN drafts' \subseteq Objs /\ \A o \in DOMAIN drafts' : drafts'[o] \in Draft
      BY <2>2, <2>3, <2>4 DEF WizardTypeOK
    <3>2. /\ lists' \in [Arrays -> BOOLEAN] /\ enabled' \in BOOLEAN
          /\ UNCHANGED <<mine, page, job, saves, dropped>>
      BY <2>2 DEF TakeMakes
    <3> QED
      BY <2>5, <2>6, <3>1, <3>2 DEF WizardTypeOK
  <2>8. Owned'
    <3>1. mine' \in DOMAIN drafts' \cup {NoObj} /\ DOMAIN drafts' \subseteq {mine', req'.d}
      BY <2>2, <2>3, <2>5 DEF TakeMakes, Owned
    <3>2. \A o \in DOMAIN drafts' : drafts'[o].idx \in 1..(Last(drafts'[o].flavor) + 1)
      BY <2>2, <2>3, <2>4 DEF TakeMakes, Owned
    <3> QED
      BY <2>2, <3>1, <3>2 DEF TakeMakes, Owned, NoReq, Last
  <2> QED
    BY <2>7, <2>8
<1>11. ASSUME NEW t \in Tabs, SaveSettings(t) PROVE WizardTypeOK' /\ Owned'
  <2>1. /\ saves < MaxSaves /\ saves' = saves + 1 /\ cfg' = OfForm(cfg) /\ enabled' = TRUE
        /\ lists' = Tidy([lists EXCEPT ![NewList] = TRUE], cfg', drafts)
        /\ page' = [page EXCEPT ![t] = "none"]
        /\ UNCHANGED <<drafts, mine, req, job, dropped, late, room>>
    BY <1>11 DEF SaveSettings
  <2>2. cfg' \in Conf
    <3>1. FlagsOfForm(cfg) \in Conf
      BY DEF FlagsOfForm, WizardTypeOK, Conf
    <3>2. NewList \in Arrays
      BY NewListType
    <3>3. saves + 1 \in Nat
      BY <1>0
    <3> HIDE DEF NewList
    <3> QED
      BY <2>1, <3>1, <3>2, <3>3 DEF OfForm, Conf
  <2>3. lists' \in [Arrays -> BOOLEAN] /\ page' \in [Tabs -> Pages]
    <3>1. [lists EXCEPT ![NewList] = TRUE] \in [Arrays -> BOOLEAN]
      BY DEF WizardTypeOK
    <3> QED
      BY <2>1, <3>1, TidyType DEF WizardTypeOK, Pages
  <2>4. saves' \in 0..MaxSaves /\ dropped' \in 0..saves'
    BY <1>0, <2>1 DEF WizardTypeOK
  <2>5. WizardTypeOK'
    BY <2>1, <2>2, <2>3, <2>4 DEF WizardTypeOK
  <2>6. Owned'
    BY <2>1 DEF Owned, Last
  <2> QED
    BY <2>5, <2>6
<1>12. ASSUME NEW t \in Tabs, OpenSettings(t) PROVE WizardTypeOK' /\ Owned'
  <2>1. UNCHANGED <<cfg, lists, drafts, mine, req, job, saves, dropped, late, enabled, room>>
        /\ page' \in [Tabs -> Pages]
    BY <1>12 DEF OpenSettings, WizardTypeOK, Pages
  <2> QED
    BY <2>1 DEF WizardTypeOK, Owned, Last
<1>13. CASE PairEnds
  <2>1. UNCHANGED <<cfg, lists, drafts, mine, page, req, saves, dropped, late, enabled, room>>
        /\ job' \in {"none", "running", "ok"}
    BY <1>13 DEF PairEnds
  <2> QED
    BY <2>1 DEF WizardTypeOK, Owned, Last
<1>14. CASE UNCHANGED wizardVars
  BY <1>14 DEF wizardVars, WizardTypeOK, Owned, Last
<1> QED
  BY <1>2, <1>3, <1>4, <1>5, <1>6, <1>7, <1>8, <1>9, <1>10, <1>11, <1>12, <1>13, <1>14 DEF WizardNext

\* The model's variables keep their types; a session refers only to drafts that exist, and
\* a request to the draft it found (draftFor, wizardSave).
THEOREM WizardTypeCorrect == WizardSpec => [](WizardTypeOK /\ Owned)
<1>1. WizardInit => WizardTypeOK /\ Owned
  BY OwnedStart, WizardAssumption
<1>2. WizardTypeOK /\ Owned /\ [WizardNext]_wizardVars => (WizardTypeOK /\ Owned)'
  BY OwnedNext, WizardAssumption
<1> QED
  BY <1>1, <1>2, PTL DEF WizardSpec

-----------------------------------------------------------------------------
(* Wizard: a settings save stands.  Unless a late draft was committed, the *)
(* configuration goes back to the last save, the session's draft to the    *)
(* last that dropped the drafts, and the draft of a request to the last    *)
(* that had when it was found.                                             *)

Recent ==
  \/ late
  \/ /\ cfg.prefs >= saves
     /\ Live => drafts[mine].conf.prefs >= dropped
     /\ req.by # "none" => drafts[req.d].conf.prefs >= req.since

LEMMA RecentNext ==
  ASSUME WizardAssumption, WizardTypeOK, Owned, Recent, [WizardNext]_wizardVars
  PROVE  Recent'
<1>1. /\ saves \in Nat /\ dropped \in Nat /\ dropped <= saves /\ req.since \in Nat
      /\ req.by # "none" => req.since <= dropped /\ req.d \in DOMAIN drafts
      /\ Live => mine \in DOMAIN drafts
      /\ cfg \in Conf /\ cfg.prefs \in Nat
      /\ \A o \in DOMAIN drafts : drafts[o].conf \in Conf /\ drafts[o].conf.prefs \in Nat
  <2>1. \A o \in DOMAIN drafts : drafts[o].conf \in Conf /\ drafts[o].conf.prefs \in Nat
    BY DraftOf DEF Conf
  <2>2. cfg \in Conf /\ cfg.prefs \in Nat /\ req.since \in Nat
    BY DEF WizardTypeOK, Conf
  <2>3. saves \in Nat /\ dropped \in Nat /\ dropped <= saves
    BY DEF WizardTypeOK, WizardAssumption
  <2>4. /\ req.by # "none" => req.since <= dropped /\ req.d \in DOMAIN drafts
        /\ Live => mine \in DOMAIN drafts
    BY DEF Owned, Live
  <2> QED
    BY <2>1, <2>2, <2>3, <2>4
<1> SUFFICES ASSUME ~late' PROVE Recent'
  BY DEF Recent
<1>2. late => late'
  <2>1. ASSUME NEW t \in Tabs, SaveStep(t) \/ Confirm(t) PROVE late => late'
    BY <2>1 DEF SaveStep, Confirm, Take
  <2>2. ASSUME NEW t \in Tabs, StartWizard(t) \/ Link(t) \/ Back(t) \/ Post(t) \/ Refuse(t)
        PROVE  late' = late
    BY <2>2 DEF StartWizard, Link, Visit, Back, Post, Refuse
  <2>3. ASSUME NEW t \in Tabs, StartPair(t) \/ Poll(t) \/ OpenSettings(t) \/ SaveSettings(t)
        PROVE  late' = late
    BY <2>3 DEF StartPair, Poll, OpenSettings, SaveSettings
  <2>4. Idle \/ Expire \/ PairEnds \/ DropDrafts \/ UNCHANGED wizardVars => late' = late
    BY DEF Idle, Expire, PairEnds, DropDrafts, wizardVars
  <2> QED
    BY <2>1, <2>2, <2>3, <2>4 DEF WizardNext
<1>3. /\ ~late /\ cfg.prefs >= saves
      /\ Live => drafts[mine].conf.prefs >= dropped
      /\ req.by # "none" => drafts[req.d].conf.prefs >= req.since
  BY <1>2 DEF Recent
\* Where the configuration stands and no draft loses a save.
<1>4. ASSUME UNCHANGED <<cfg, mine, saves, dropped>>, req' \in {req, NoReq},
             \A o \in DOMAIN drafts \cap {mine, req'.d} : drafts'[o].conf.prefs >= drafts[o].conf.prefs,
             \A o \in DOMAIN drafts \cap {mine, req'.d} : drafts'[o].conf.prefs \in Nat
      PROVE  Recent'
  <2>1. cfg'.prefs >= saves'
    BY <1>3, <1>4
  <2>2. ASSUME Live' PROVE drafts'[mine'].conf.prefs >= dropped'
    <3>1. mine \in DOMAIN drafts /\ drafts[mine].conf.prefs >= dropped
      BY <1>1, <1>3, <1>4, <2>2 DEF Live
    <3>2. drafts'[mine].conf.prefs >= drafts[mine].conf.prefs /\ drafts'[mine].conf.prefs \in Nat
          /\ drafts[mine].conf.prefs \in Nat
      BY <1>1, <1>4, <3>1
    <3> QED
      BY <1>1, <1>4, <3>1, <3>2
  <2>3. ASSUME req'.by # "none" PROVE drafts'[req'.d].conf.prefs >= req'.since
    <3>1. req' = req /\ req.d \in DOMAIN drafts /\ drafts[req.d].conf.prefs >= req.since
      BY <1>1, <1>3, <1>4, <2>3 DEF NoReq
    <3>2. drafts'[req.d].conf.prefs >= drafts[req.d].conf.prefs /\ drafts'[req.d].conf.prefs \in Nat
          /\ drafts[req.d].conf.prefs \in Nat
      BY <1>1, <1>4, <3>1
    <3> QED
      BY <1>1, <3>1, <3>2
  <2> QED
    BY <2>1, <2>2, <2>3 DEF Recent
<1>5. ASSUME NEW t \in Tabs, NEW f \in Flavors, Visit(t, f) PROVE Recent'
  <2>1. PICK o \in Objs, e \in Draft :
           /\ o = mine \/ o \notin DOMAIN drafts \cup {req.d}
           /\ mine' = o /\ drafts' = Reachable(With(o, e), o, req.d)
           /\ (Live /\ o = mine /\ e.conf = drafts[o].conf) \/ e.conf = cfg
    BY <1>5, VisitShape
  <2>2. /\ DOMAIN drafts' = (DOMAIN drafts \cup {o}) \cap {o, req.d}
        /\ \A p \in DOMAIN drafts' : drafts'[p] = IF p = o THEN e ELSE drafts[p]
    BY <2>1 DEF With, Reachable
  <2>3. UNCHANGED <<cfg, req, job, saves, dropped, late, enabled, room>>
    BY <1>5 DEF Visit
  <2>4. drafts'[mine'].conf.prefs >= dropped'
    <3>1. e.conf.prefs >= dropped
      BY <1>1, <1>3, <2>1
    <3> QED
      BY <2>1, <2>2, <2>3, <3>1
  <2>5. ASSUME req.by # "none" PROVE drafts'[req.d].conf.prefs >= req.since
    <3>1. req.d \in DOMAIN drafts /\ req.since <= saves
      BY <1>1, <2>5
    <3>2. CASE req.d # o
      BY <1>3, <2>2, <2>5, <3>1, <3>2
    <3>3. CASE req.d = o
      <4>1. drafts'[req.d] = e
        BY <2>2, <3>3
      <4>2. CASE e.conf = cfg
        BY <1>1, <1>3, <3>1, <4>1, <4>2
      <4>3. CASE o = mine /\ e.conf = drafts[o].conf
        BY <1>3, <2>5, <3>3, <4>1, <4>3
      <4> QED
        BY <2>1, <4>2, <4>3
    <3> QED
      BY <3>2, <3>3
  <2> QED
    BY <1>3, <2>3, <2>4, <2>5 DEF Recent
<1>6. ASSUME NEW t \in Tabs, StartWizard(t) PROVE Recent'
  <2>1. (IF Live THEN drafts[mine].flavor ELSE "first-run") \in Flavors
    BY DraftOf DEF WizardAssumption, Live, Owned
  <2> QED
    BY <1>5, <1>6, <2>1 DEF StartWizard
<1>7. ASSUME NEW t \in Tabs, Link(t) PROVE Recent'
  BY <1>5, <1>7 DEF Link
<1>8. ASSUME NEW t \in Tabs, Back(t) PROVE Recent'
  <2>1. PICK e \in Draft : mine \in DOMAIN drafts /\ drafts' = [drafts EXCEPT ![mine] = e]
                           /\ e.conf = drafts[mine].conf
    BY <1>8, BackShape
  <2>2. UNCHANGED <<cfg, mine, req, saves, dropped>>
    BY <1>8 DEF Back
  <2>3. \A o \in DOMAIN drafts : drafts'[o].conf = drafts[o].conf
    BY <2>1
  <2> QED
    BY <1>1, <1>4, <2>2, <2>3
<1>9. CASE Idle
  <2>1. mine \in DOMAIN drafts /\ drafts[mine] \in Draft
    BY <1>9, DraftOf DEF Idle, Live, Owned
  <2>2. drafts' = [drafts EXCEPT ![mine] = [@ EXCEPT !.idle = TRUE]]
        /\ UNCHANGED <<cfg, mine, req, saves, dropped>>
    BY <1>9 DEF Idle
  <2>3. \A o \in DOMAIN drafts : drafts'[o].conf = drafts[o].conf
    BY <2>1, <2>2 DEF Draft
  <2> QED
    BY <1>1, <1>4, <2>2, <2>3
<1>10. ASSUME NEW t \in Tabs, Poll(t) PROVE Recent'
  <2>1. UNCHANGED <<cfg, mine, req, saves, dropped>>
    BY <1>10 DEF Poll
  <2>2. \A o \in DOMAIN drafts : drafts'[o].conf.prefs = drafts[o].conf.prefs
    <3>1. CASE ~Live
      BY <1>10, <3>1 DEF Poll
    <3>2. CASE Live
      <4>1. PICK e \in Draft :
               /\ mine \in DOMAIN drafts /\ drafts' = [drafts EXCEPT ![mine] = e]
               /\ e.conf = [drafts[mine].conf EXCEPT !.tnc = TRUE,
                              !.skewed = drafts[mine].conf.skewed \/ ~InTurn(drafts[mine], "tnc")]
        BY <1>10, <3>2, PollShape
      <4>2. e.conf.prefs = drafts[mine].conf.prefs
        BY <1>1, <4>1 DEF Conf
      <4> QED
        BY <4>1, <4>2
    <3> QED
      BY <3>1, <3>2
  <2> QED
    BY <1>1, <1>4, <2>1, <2>2
<1>11. ASSUME NEW t \in Tabs, Post(t) PROVE Recent'
  <2>1. /\ req' = [by |-> t, d |-> mine, since |-> dropped] /\ Live
        /\ UNCHANGED <<cfg, drafts, mine, saves, dropped>>
    BY <1>11 DEF Post
  <2> QED
    BY <1>3, <2>1 DEF Recent, Live
<1>12. ASSUME NEW t \in Tabs, Refuse(t) \/ StartPair(t) PROVE Recent'
  <2>1. Release(mine, NoObj) /\ req' = NoReq /\ UNCHANGED <<cfg, mine, saves, dropped>>
    BY <1>12 DEF Refuse, StartPair
  <2>2. DOMAIN drafts \cap {mine, req'.d} \subseteq DOMAIN drafts'
        /\ \A o \in DOMAIN drafts' : drafts'[o] = drafts[o]
    BY <2>1, ReleaseShape DEF NoReq
  <2>3. \A o \in DOMAIN drafts \cap {mine, req'.d} : drafts'[o] = drafts[o]
    BY <2>2
  <2> QED
    BY <1>1, <1>4, <2>1, <2>3
<1>13. CASE Expire \/ DropDrafts
  <2>1. /\ Release(NoObj, req.d) /\ mine' = NoObj /\ UNCHANGED <<cfg, req, saves>>
    BY <1>13 DEF Expire, DropDrafts
  <2>2. req.by # "none" => drafts'[req.d] = drafts[req.d]
    BY <1>1, <2>1 DEF Release, Reachable
  <2> QED
    BY <1>3, <2>1, <2>2 DEF Recent, Live
<1>14. ASSUME NEW t \in Tabs, SaveStep(t) \/ Confirm(t) PROVE Recent'
  <2>1. req.by = t /\ Take(t) /\ req.d \in DOMAIN drafts /\ req.by # "none"
    BY <1>1, <1>14 DEF SaveStep, Confirm, WizardAssumption
  <2>2. PICK e \in Draft, done \in BOOLEAN : TakeMakes(t, e, done)
    BY <2>1, TakeShape
  <2>3. e.conf.prefs = drafts[req.d].conf.prefs
    BY <2>2 DEF TakeMakes
  <2>4. cfg'.prefs >= saves'
    <3>1. CASE done
      <4>1. cfg'.prefs = drafts[req.d].conf.prefs
        BY <2>2, <2>3, <3>1 DEF TakeMakes, Committed, Conf
      <4>2. drafts[req.d].conf.prefs >= req.since /\ ~(req.since < saves) /\ saves' = saves
        BY <1>3, <2>1, <2>2, <3>1 DEF TakeMakes
      <4> QED
        BY <1>1, <2>1, <2>2, <4>1, <4>2
    <3>2. CASE ~done
      BY <1>3, <2>2, <3>2 DEF TakeMakes
    <3> QED
      BY <3>1, <3>2
  <2>5. ASSUME Live' PROVE drafts'[mine'].conf.prefs >= dropped'
    <3>1. mine \in DOMAIN drafts /\ drafts[mine].conf.prefs >= dropped
      BY <1>1, <1>3, <2>2, <2>5 DEF TakeMakes, Live
    <3>2. drafts'[mine] = IF mine = req.d THEN e ELSE drafts[mine]
      BY <2>2, <3>1 DEF TakeMakes, With, Reachable
    <3>3. drafts'[mine].conf.prefs = drafts[mine].conf.prefs
      BY <2>3, <3>2
    <3> QED
      BY <2>2, <3>1, <3>3 DEF TakeMakes
  <2> QED
    BY <2>2, <2>4, <2>5 DEF TakeMakes, Recent, NoReq
<1>15. ASSUME NEW t \in Tabs, SaveSettings(t) PROVE Recent'
  <2>1. /\ saves' = saves + 1 /\ cfg' = OfForm(cfg) /\ UNCHANGED <<drafts, mine, req, dropped>>
    BY <1>15 DEF SaveSettings
  <2>2. cfg'.prefs = saves + 1
    <3>1. FlagsOfForm(cfg) \in Conf
      BY <1>1 DEF FlagsOfForm, Conf
    <3> HIDE DEF FlagsOfForm, NewList
    <3> QED
      BY <2>1, <3>1 DEF OfForm, Conf
  <2> QED
    BY <1>1, <1>3, <2>1, <2>2 DEF Recent, Live
<1>16. CASE (\E t \in Tabs : OpenSettings(t)) \/ PairEnds \/ UNCHANGED wizardVars
  BY <1>3, <1>16 DEF OpenSettings, PairEnds, wizardVars, Recent, Live
<1> QED
  BY <1>6, <1>7, <1>8, <1>9, <1>10, <1>11, <1>12, <1>13, <1>14, <1>15, <1>16 DEF WizardNext

\* A wizard opened before a settings save does not undo it; only a request that had found
\* its draft before the drop can (handleSettingsSave, wizardSave, handleTNCConfirm).
THEOREM SettingsStandHolds == WizardSpec => []SettingsStand
<1>1. WizardInit => Recent
  <2>1. ASSUME WizardInit PROVE cfg.prefs = 0 /\ saves = 0 /\ mine = NoObj /\ req.by = "none"
    <3>1. cfg = Blank \/ cfg = Working
      BY <2>1 DEF WizardInit
    <3>2. cfg.prefs = 0
      <4>1. Blank.prefs = 0 /\ Working.prefs = 0
        BY DEF Blank, Working
      <4> QED
        BY <3>1, <4>1
    <3> QED
      BY <2>1, <3>2 DEF WizardInit, NoReq
  <2> QED
    BY <2>1 DEF Recent, Live
<1>2. WizardTypeOK /\ Owned /\ Recent /\ [WizardNext]_wizardVars => Recent'
  BY RecentNext, WizardAssumption
<1>3. WizardTypeOK /\ Recent => SettingsStand
  <2>1. ASSUME WizardTypeOK PROVE dropped <= saves /\ {dropped, saves, cfg.prefs} \subseteq Nat
    <3>1. saves \in Nat /\ dropped \in Nat /\ dropped <= saves
      BY <2>1, WizardAssumption DEF WizardTypeOK, WizardAssumption
    <3>2. cfg.prefs \in Nat
      BY <2>1 DEF WizardTypeOK, Conf
    <3> QED
      BY <3>1, <3>2
  <2> QED
    BY <2>1 DEF Recent, SettingsStand
<1> QED
  BY <1>1, <1>2, <1>3, WizardTypeCorrect, PTL DEF WizardSpec

-----------------------------------------------------------------------------
(* Wizard: what the configurations of drafts hold.  But for a posted step, *)
(* a pairing that succeeded and a settings save, a step leaves them as     *)
(* they were, or makes a draft anew of the configuration in force.         *)

Kept(d, e) ==
  /\ e.flavor = d.flavor /\ e.conf = d.conf
  /\ d.flavor = "first-run" => \A k \in 1..3 : e.idx > k => d.idx > k

Anew(e) ==
  /\ e.conf = cfg
  /\ e.flavor = "first-run" => \A k \in 1..3 : ~(e.idx > k)
  /\ \/ e.flavor = "first-run" \/ cfg.complete
     \/ Live /\ e.flavor = drafts[mine].flavor

LEMMA QuietStep ==
  ASSUME WizardAssumption, WizardTypeOK, Owned, [WizardNext]_wizardVars,
         ~ \E t \in Tabs : \/ req.by = t /\ Take(t)
                           \/ Poll(t) /\ Live
                           \/ SaveSettings(t)
  PROVE  /\ cfg' = cfg
         /\ \A o \in DOMAIN drafts' : \/ o \in DOMAIN drafts /\ Kept(drafts[o], drafts'[o])
                                      \/ Anew(drafts'[o])
<1>1. ASSUME UNCHANGED cfg, \A o \in DOMAIN drafts' : o \in DOMAIN drafts /\ drafts'[o] = drafts[o]
      PROVE  /\ cfg' = cfg
             /\ \A o \in DOMAIN drafts' : o \in DOMAIN drafts /\ Kept(drafts[o], drafts'[o])
  BY <1>1 DEF Kept
<1>2. ASSUME NEW t \in Tabs, NEW f \in Flavors, Visit(t, f),
             f = "first-run" \/ cfg.complete \/ (Live /\ f = drafts[mine].flavor)
      PROVE  /\ cfg' = cfg
             /\ \A o \in DOMAIN drafts' : \/ o \in DOMAIN drafts /\ Kept(drafts[o], drafts'[o])
                                          \/ Anew(drafts'[o])
  <2>1. PICK o \in Objs, e \in Draft :
           /\ o = mine \/ o \notin DOMAIN drafts \cup {req.d}
           /\ mine' = o /\ drafts' = Reachable(With(o, e), o, req.d)
           /\ e.flavor = f /\ e.idx \in 1..(Last(f) + 1)
           /\ \/ /\ Live /\ o = mine /\ drafts[o].flavor = f /\ e.conf = drafts[o].conf
                 /\ f = "first-run" => \A k \in 1..3 : e.idx > k => drafts[o].idx > k
              \/ /\ e.conf = cfg
                 /\ f = "first-run" => \A k \in 1..3 : ~(e.idx > k)
    BY <1>2, VisitShape
  <2>2. /\ DOMAIN drafts' = (DOMAIN drafts \cup {o}) \cap {o, req.d}
        /\ \A p \in DOMAIN drafts' : drafts'[p] = IF p = o THEN e ELSE drafts[p]
    BY <2>1 DEF With, Reachable
  <2>3. (o \in DOMAIN drafts /\ Kept(drafts[o], e)) \/ Anew(e)
    <3>1. CASE /\ Live /\ o = mine /\ drafts[o].flavor = f /\ e.conf = drafts[o].conf
               /\ f = "first-run" => \A k \in 1..3 : e.idx > k => drafts[o].idx > k
      BY <2>1, <3>1 DEF Kept, Owned, Live
    <3>2. CASE /\ e.conf = cfg
               /\ f = "first-run" => \A k \in 1..3 : ~(e.idx > k)
      BY <1>2, <2>1, <3>2 DEF Anew
    <3> QED
      BY <2>1, <3>1, <3>2
  <2>4. ASSUME NEW p \in DOMAIN drafts', p # o PROVE p \in DOMAIN drafts /\ Kept(drafts[p], drafts'[p])
    BY <2>2, <2>4 DEF Kept
  <2>5. cfg' = cfg
    BY <1>2 DEF Visit
  <2> QED
    BY <2>2, <2>3, <2>4, <2>5
<1>3. ASSUME NEW t \in Tabs, StartWizard(t)
      PROVE  /\ cfg' = cfg
             /\ \A o \in DOMAIN drafts' : \/ o \in DOMAIN drafts /\ Kept(drafts[o], drafts'[o])
                                          \/ Anew(drafts'[o])
  <2> DEFINE f == IF Live THEN drafts[mine].flavor ELSE "first-run"
  <2>1. f \in Flavors
    BY DraftOf DEF WizardAssumption, Live, Owned
  <2>2. Visit(t, f)
    BY <1>3 DEF StartWizard
  <2>3. f = "first-run" \/ (Live /\ f = drafts[mine].flavor)
    OBVIOUS
  <2> HIDE DEF f
  <2> QED
    BY <1>2, <2>1, <2>2, <2>3
<1>4. ASSUME NEW t \in Tabs, Back(t)
      PROVE  /\ cfg' = cfg
             /\ \A o \in DOMAIN drafts' : o \in DOMAIN drafts /\ Kept(drafts[o], drafts'[o])
  <2>1. PICK e \in Draft :
           /\ mine \in DOMAIN drafts /\ drafts' = [drafts EXCEPT ![mine] = e]
           /\ e.flavor = drafts[mine].flavor /\ e.conf = drafts[mine].conf
           /\ e.idx \in 1..(Last(e.flavor) + 1) /\ e.idx <= drafts[mine].idx
    BY <1>4, BackShape
  <2>2. e.idx \in Nat /\ drafts[mine].idx \in Nat
    BY <2>1 DEF Draft, WizardTypeOK
  <2>3. Kept(drafts[mine], e)
    <3>1. \A k \in 1..3 : e.idx > k => drafts[mine].idx > k
      BY <2>1, <2>2
    <3> QED
      BY <2>1, <3>1 DEF Kept
  <2>4. \A o \in DOMAIN drafts : drafts'[o] = IF o = mine THEN e ELSE drafts[o]
    BY <2>1
  <2>5. cfg' = cfg /\ DOMAIN drafts' = DOMAIN drafts
    BY <1>4, <2>1 DEF Back
  <2>6. \A o \in DOMAIN drafts : Kept(drafts[o], drafts[o])
    BY DEF Kept
  <2> QED
    BY <2>3, <2>4, <2>5, <2>6
<1>5. CASE Idle
  <2>1. mine \in DOMAIN drafts /\ drafts[mine] \in Draft
    BY <1>5, DraftOf DEF Idle, Live, Owned
  <2>2. drafts' = [drafts EXCEPT ![mine] = [@ EXCEPT !.idle = TRUE]] /\ UNCHANGED cfg
    BY <1>5 DEF Idle
  <2>3. \A o \in DOMAIN drafts : drafts'[o].conf = drafts[o].conf
                                 /\ drafts'[o].flavor = drafts[o].flavor /\ drafts'[o].idx = drafts[o].idx
    BY <2>1, <2>2 DEF Draft
  <2>4. \A o \in DOMAIN drafts : Kept(drafts[o], drafts'[o])
    BY <2>3 DEF Kept
  <2> QED
    BY <2>2, <2>4
<1>6. ASSUME NEW t \in Tabs, Refuse(t) \/ StartPair(t)
      PROVE  UNCHANGED cfg /\ \A o \in DOMAIN drafts' : o \in DOMAIN drafts /\ drafts'[o] = drafts[o]
  BY <1>6 DEF Refuse, StartPair, Release, Reachable
<1>7. CASE Expire \/ DropDrafts
  <2>1. UNCHANGED cfg /\ \A o \in DOMAIN drafts' : o \in DOMAIN drafts /\ drafts'[o] = drafts[o]
    BY <1>7 DEF Expire, DropDrafts, Release, Reachable
  <2> QED
    BY <1>1, <2>1
<1>8. ASSUME NEW t \in Tabs, Post(t) \/ OpenSettings(t) \/ (Poll(t) /\ ~Live)
      PROVE  UNCHANGED cfg /\ \A o \in DOMAIN drafts' : o \in DOMAIN drafts /\ drafts'[o] = drafts[o]
  BY <1>8 DEF Post, OpenSettings, Poll
<1>9. CASE PairEnds \/ UNCHANGED wizardVars
  <2>1. UNCHANGED cfg /\ \A o \in DOMAIN drafts' : o \in DOMAIN drafts /\ drafts'[o] = drafts[o]
    BY <1>9 DEF PairEnds, wizardVars
  <2> QED
    BY <1>1, <2>1
<1>10. ASSUME NEW t \in Tabs, Link(t)
      PROVE  /\ cfg' = cfg
             /\ \A o \in DOMAIN drafts' : \/ o \in DOMAIN drafts /\ Kept(drafts[o], drafts'[o])
                                          \/ Anew(drafts'[o])
  BY <1>2, <1>10 DEF Link
<1>11. CASE \E t \in Tabs : \/ StartWizard(t) \/ Link(t) \/ Back(t) \/ Post(t) \/ Refuse(t)
                            \/ StartPair(t) \/ Poll(t) \/ OpenSettings(t)
  <2> PICK t \in Tabs : \/ StartWizard(t) \/ Link(t) \/ Back(t) \/ Post(t) \/ Refuse(t)
                        \/ StartPair(t) \/ Poll(t) \/ OpenSettings(t)
    BY <1>11
  <2>1. CASE StartWizard(t) \/ Link(t)
    BY <1>3, <1>10, <2>1
  <2>2. CASE Back(t)
    BY <1>4, <2>2
  <2>3. CASE Refuse(t) \/ StartPair(t)
    BY <1>1, <1>6, <2>3
  <2>4. CASE Post(t) \/ OpenSettings(t) \/ Poll(t)
    BY <1>1, <1>8, <2>4
  <2> QED
    BY <2>1, <2>2, <2>3, <2>4
<1>12. ~ \E t \in Tabs : SaveStep(t) \/ Confirm(t) \/ SaveSettings(t)
  BY DEF SaveStep, Confirm
<1> QED
  BY <1>5, <1>7, <1>9, <1>11, <1>12 DEF WizardNext

\* The configuration in force and every draft are honest about their mode.
AllHonest == Honest(cfg) /\ \A o \in DOMAIN drafts : Honest(drafts[o].conf)

LEMMA AllHonestNext ==
  ASSUME WizardAssumption, WizardTypeOK, Owned, AllHonest, [WizardNext]_wizardVars
  PROVE  AllHonest'
<1>1. ASSUME NEW t \in Tabs, req.by = t, Take(t) PROVE AllHonest'
  <2>1. PICK e \in Draft, done \in BOOLEAN : TakeMakes(t, e, done)
    BY <1>1, TakeShape
  <2>2. req.d \in DOMAIN drafts
    BY <1>1 DEF Owned, WizardAssumption
  <2>3. Honest(e.conf)
    BY <2>1, <2>2 DEF TakeMakes, AllHonest
  <2>4. \A o \in DOMAIN drafts' : drafts'[o] = e \/ (o \in DOMAIN drafts /\ drafts'[o] = drafts[o])
    BY <2>1 DEF TakeMakes, With, Reachable
  <2>5. cfg' = cfg \/ cfg' = Committed(e.conf)
    BY <2>1 DEF TakeMakes
  <2>6. Honest(Committed(e.conf))
    <3>1. e.conf \in Conf
      BY <2>1 DEF TakeMakes
    <3> QED
      BY <2>3, <3>1 DEF Committed, Conf, Honest
  <2> QED
    BY <2>3, <2>4, <2>5, <2>6 DEF AllHonest
<1>2. ASSUME NEW t \in Tabs, Poll(t), Live PROVE AllHonest'
  <2>1. PICK e \in Draft :
           /\ mine \in DOMAIN drafts /\ drafts' = [drafts EXCEPT ![mine] = e]
           /\ e.conf = [drafts[mine].conf EXCEPT !.tnc = TRUE,
                          !.skewed = drafts[mine].conf.skewed \/ ~InTurn(drafts[mine], "tnc")]
    BY <1>2, PollShape
  <2>2. drafts[mine].conf \in Conf /\ Honest(drafts[mine].conf)
    BY <2>1, DraftOf DEF AllHonest
  <2>3. InTurn(drafts[mine], "tnc") => drafts[mine].conf.mode # "is"
    BY DEF InTurn, Visible, Skip
  <2>4. Honest(e.conf)
    <3>1. /\ e.conf.mode = drafts[mine].conf.mode /\ e.conf.flags = drafts[mine].conf.flags
          /\ e.conf.skewed = (drafts[mine].conf.skewed \/ ~InTurn(drafts[mine], "tnc"))
      BY <2>1, <2>2 DEF Conf
    <3> QED
      BY <2>2, <2>3, <3>1 DEF Honest
  <2>5. cfg' = cfg
    BY <1>2 DEF Poll
  <2>6. \A o \in DOMAIN drafts' : o \in DOMAIN drafts /\ drafts'[o] = IF o = mine THEN e ELSE drafts[o]
    BY <2>1
  <2> QED
    BY <2>4, <2>5, <2>6 DEF AllHonest
<1>3. ASSUME NEW t \in Tabs, SaveSettings(t) PROVE AllHonest'
  <2>1. cfg' = OfForm(cfg) /\ UNCHANGED drafts
    BY <1>3 DEF SaveSettings
  <2>2. /\ cfg'.mode = cfg.mode /\ cfg'.tnc = cfg.tnc /\ cfg'.skewed = cfg.skewed
        /\ cfg.mode # "advanced" => cfg'.flags = cfg.flags
    <3>1. cfg \in Conf
      BY DEF WizardTypeOK
    <3> HIDE DEF NewList
    <3> QED
      BY <2>1, <3>1 DEF OfForm, FlagsOfForm, Conf
  <2>3. Honest(cfg')
    BY <2>2 DEF AllHonest, Honest, Presets
  <2> QED
    BY <2>1, <2>3 DEF AllHonest
<1>4. CASE ~ \E t \in Tabs : \/ req.by = t /\ Take(t)
                             \/ Poll(t) /\ Live
                             \/ SaveSettings(t)
  <2>1. /\ cfg' = cfg
        /\ \A o \in DOMAIN drafts' : \/ o \in DOMAIN drafts /\ Kept(drafts[o], drafts'[o])
                                     \/ Anew(drafts'[o])
    BY <1>4, QuietStep
  <2> QED
    BY <2>1 DEF AllHonest, Kept, Anew
<1> QED
  BY <1>1, <1>2, <1>3, <1>4

\* A station that is not in Advanced mode has the flags of its mode, and an internet-only
\* one no radio, unless a step was taken out of turn (applyModeDefaults, shouldSkipStep,
\* handleSettingsSave, handlePairStatus).
THEOREM LabelHonestHolds == WizardSpec => []LabelHonest
<1>1. ASSUME WizardInit PROVE AllHonest
  <2>1. cfg = Blank \/ cfg = Working
    BY <1>1 DEF WizardInit
  <2>2. Honest(Blank) /\ Honest(Working)
    BY DEF Blank, Working, Honest, Presets
  <2> QED
    BY <1>1, <2>1, <2>2 DEF WizardInit, AllHonest
<1>2. WizardTypeOK /\ Owned /\ AllHonest /\ [WizardNext]_wizardVars => AllHonest'
  BY AllHonestNext, WizardAssumption
<1>3. AllHonest => LabelHonest
  BY DEF AllHonest, Honest, LabelHonest
<1> QED
  BY <1>1, <1>2, <1>3, WizardTypeCorrect, PTL DEF WizardSpec

-----------------------------------------------------------------------------
(* Wizard: nothing is committed unanswered.  The first-run wizard answers  *)
(* its first three steps in order, and the others start from a station     *)
(* that is set up.                                                         *)

Answered(c) == c.skewed \/ (c.id /\ c.loc /\ c.mode # "")

SoFar(d) ==
  \/ d.conf.skewed
  \/ /\ d.flavor = "first-run"
     /\ d.idx > 1 => d.conf.id
     /\ d.idx > 2 => d.conf.loc
     /\ d.idx > 3 => d.conf.mode # ""
  \/ d.flavor # "first-run" /\ Answered(d.conf)

AnsweredSoFar ==
  /\ cfg.complete => Answered(cfg)
  /\ \A o \in DOMAIN drafts : SoFar(drafts[o]) /\ (drafts[o].flavor # "first-run" => cfg.complete)

\* A step taken in turn answers its question before the position moves over it.
LEMMA TakenSoFar ==
  ASSUME WizardAssumption, WizardTypeOK, Owned, AnsweredSoFar, NEW t \in Tabs, req.by = t,
         NEW e \in Draft, NEW done \in BOOLEAN, TakeMakes(t, e, done)
  PROVE  SoFar(e) /\ (done => Answered(e.conf))
<1> DEFINE d == drafts[req.d]
<1>1. req.d \in DOMAIN drafts
  BY DEF Owned, WizardAssumption
<1>2. SoFar(d) /\ d.flavor \in DOMAIN Steps /\ d.idx \in 1..(Last(d.flavor) + 1)
  BY <1>1, DraftOf DEF AnsweredSoFar
<1>3. /\ e.flavor = d.flavor /\ e.conf.skewed = (d.conf.skewed \/ ~InTurn(d, page[t]))
      /\ d.conf.id \/ page[t] = "identity" => e.conf.id
      /\ d.conf.loc \/ page[t] = "location" => e.conf.loc
      /\ d.conf.mode # "" \/ page[t] = "mode" => e.conf.mode # ""
      /\ d.flavor = "first-run" => \A k \in 1..3 : (e.idx > k \/ done) => d.idx >= k
  BY DEF TakeMakes
<1> HIDE DEF d
<1>4. CASE d.conf.skewed \/ ~InTurn(d, page[t])
  BY <1>3, <1>4 DEF SoFar, Answered
<1>5. CASE d.flavor # "first-run" /\ ~d.conf.skewed
  BY <1>2, <1>3, <1>5 DEF SoFar, Answered
<1>6. CASE d.flavor = "first-run" /\ ~d.conf.skewed /\ InTurn(d, page[t])
  <2>1. /\ Last(d.flavor) = 7 /\ d.idx \in 1..7
        /\ Steps[d.flavor][1] = "identity" /\ Steps[d.flavor][2] = "location"
        /\ Steps[d.flavor][3] = "mode"
        /\ Steps[d.flavor][d.idx] = IF page[t] = "confirm" THEN "tnc" ELSE page[t]
    BY <1>2, <1>6, StepsShape, VisibleShape DEF InTurn
  <2>2. /\ d.idx > 1 => d.conf.id
        /\ d.idx > 2 => d.conf.loc
        /\ d.idx > 3 => d.conf.mode # ""
    BY <1>2, <1>6 DEF SoFar
  <2>3. /\ d.idx >= 1 => e.conf.id
        /\ d.idx >= 2 => e.conf.loc
        /\ d.idx >= 3 => e.conf.mode # ""
    <3>1. d.idx = 1 \/ d.idx > 1
      BY <2>1
    <3>2. d.idx >= 2 => d.idx = 2 \/ d.idx > 2
      BY <2>1
    <3>3. d.idx >= 3 => d.idx = 3 \/ d.idx > 3
      BY <2>1
    <3>4. /\ d.idx = 1 => page[t] = "identity"
          /\ d.idx = 2 => page[t] = "location"
          /\ d.idx = 3 => page[t] = "mode"
      BY <2>1
    <3> QED
      BY <1>3, <2>2, <3>1, <3>2, <3>3, <3>4
  <2>4. /\ e.idx > 1 \/ done => d.idx >= 1
        /\ e.idx > 2 \/ done => d.idx >= 2
        /\ e.idx > 3 \/ done => d.idx >= 3
    <3>1. \A k \in 1..3 : (e.idx > k \/ done) => d.idx >= k
      BY <1>3, <1>6
    <3>2. 1 \in 1..3 /\ 2 \in 1..3 /\ 3 \in 1..3
      OBVIOUS
    <3> QED
      BY ONLY <3>1, <3>2
  <2>5. /\ e.idx > 1 \/ done => e.conf.id
        /\ e.idx > 2 \/ done => e.conf.loc
        /\ e.idx > 3 \/ done => e.conf.mode # ""
    BY <2>3, <2>4
  <2> QED
    BY <1>3, <1>6, <2>5 DEF SoFar, Answered
<1> QED
  BY <1>4, <1>5, <1>6

LEMMA AnsweredNext ==
  ASSUME WizardAssumption, WizardTypeOK, Owned, AnsweredSoFar, [WizardNext]_wizardVars
  PROVE  AnsweredSoFar'
<1>1. ASSUME NEW t \in Tabs, req.by = t, Take(t) PROVE AnsweredSoFar'
  <2>1. PICK e \in Draft, done \in BOOLEAN : TakeMakes(t, e, done)
    BY <1>1, TakeShape
  <2>2. req.d \in DOMAIN drafts
    BY <1>1 DEF Owned, WizardAssumption
  <2>3. SoFar(e) /\ (done => Answered(e.conf))
    BY <1>1, <2>1, TakenSoFar
  <2>4. /\ \A o \in DOMAIN drafts' : drafts'[o] = e \/ (o \in DOMAIN drafts /\ drafts'[o] = drafts[o])
        /\ e.flavor = drafts[req.d].flavor /\ e.conf \in Conf
        /\ cfg' = IF done THEN Committed(e.conf) ELSE cfg
    BY <2>1 DEF TakeMakes, With, Reachable
  <2>5. cfg.complete => cfg'.complete
    BY <2>4 DEF Committed, Conf
  <2>6. done => Answered(Committed(e.conf))
    BY <2>3, <2>4 DEF Committed, Conf, Answered
  <2>7. cfg'.complete => Answered(cfg')
    BY <2>4, <2>6 DEF AnsweredSoFar
  <2>8. ASSUME NEW o \in DOMAIN drafts'
        PROVE  SoFar(drafts'[o]) /\ (drafts'[o].flavor # "first-run" => cfg'.complete)
    BY <2>2, <2>3, <2>4, <2>5 DEF AnsweredSoFar
  <2> QED
    BY <2>7, <2>8 DEF AnsweredSoFar
<1>2. ASSUME NEW t \in Tabs, Poll(t), Live PROVE AnsweredSoFar'
  <2>1. PICK e \in Draft :
           /\ mine \in DOMAIN drafts /\ drafts' = [drafts EXCEPT ![mine] = e]
           /\ e.flavor = drafts[mine].flavor /\ e.idx = drafts[mine].idx
           /\ e.conf = [drafts[mine].conf EXCEPT !.tnc = TRUE,
                          !.skewed = drafts[mine].conf.skewed \/ ~InTurn(drafts[mine], "tnc")]
    BY <1>2, PollShape
  <2>2. drafts[mine].conf \in Conf /\ SoFar(drafts[mine])
    BY <2>1, DraftOf DEF AnsweredSoFar
  <2>3. /\ e.conf.mode = drafts[mine].conf.mode /\ e.conf.id = drafts[mine].conf.id
        /\ e.conf.loc = drafts[mine].conf.loc
        /\ drafts[mine].conf.skewed => e.conf.skewed
    BY <2>1, <2>2 DEF Conf
  <2>4. SoFar(e)
    BY <2>1, <2>2, <2>3 DEF SoFar, Answered
  <2>5. cfg' = cfg
    BY <1>2 DEF Poll
  <2>6. \A o \in DOMAIN drafts' : o \in DOMAIN drafts /\ drafts'[o] = IF o = mine THEN e ELSE drafts[o]
    BY <2>1
  <2> QED
    BY <2>1, <2>4, <2>5, <2>6 DEF AnsweredSoFar
<1>3. ASSUME NEW t \in Tabs, SaveSettings(t) PROVE AnsweredSoFar'
  <2>1. cfg' = OfForm(cfg) /\ UNCHANGED drafts
    BY <1>3 DEF SaveSettings
  <2>2. /\ cfg'.mode = cfg.mode /\ cfg'.id = cfg.id /\ cfg'.loc = cfg.loc
        /\ cfg'.skewed = cfg.skewed /\ cfg'.complete = cfg.complete
    <3>1. cfg \in Conf
      BY DEF WizardTypeOK
    <3> HIDE DEF NewList
    <3> QED
      BY <2>1, <3>1 DEF OfForm, FlagsOfForm, Conf
  <2> QED
    BY <2>1, <2>2 DEF AnsweredSoFar, Answered
<1>4. CASE ~ \E t \in Tabs : \/ req.by = t /\ Take(t)
                             \/ Poll(t) /\ Live
                             \/ SaveSettings(t)
  <2>1. /\ cfg' = cfg
        /\ \A o \in DOMAIN drafts' : \/ o \in DOMAIN drafts /\ Kept(drafts[o], drafts'[o])
                                     \/ Anew(drafts'[o])
    BY <1>4, QuietStep
  <2>2. ASSUME NEW d, SoFar(d), NEW e, Kept(d, e) PROVE SoFar(e)
    <3>1. d.flavor = "first-run" => /\ e.idx > 1 => d.idx > 1
                                    /\ e.idx > 2 => d.idx > 2
                                    /\ e.idx > 3 => d.idx > 3
      BY <2>2 DEF Kept
    <3> QED
      BY <2>2, <3>1 DEF SoFar, Kept
  <2>3. ASSUME NEW e, Anew(e) PROVE SoFar(e) /\ (e.flavor # "first-run" => cfg.complete)
    <3>1. e.flavor # "first-run" => cfg.complete
      BY <2>3 DEF Anew, AnsweredSoFar, Owned, Live
    <3>2. e.flavor = "first-run" => ~(e.idx > 1) /\ ~(e.idx > 2) /\ ~(e.idx > 3)
      BY <2>3 DEF Anew
    <3> QED
      BY <2>3, <3>1, <3>2 DEF Anew, AnsweredSoFar, SoFar
  <2>4. ASSUME NEW o \in DOMAIN drafts'
        PROVE  SoFar(drafts'[o]) /\ (drafts'[o].flavor # "first-run" => cfg'.complete)
    <3>1. CASE o \in DOMAIN drafts /\ Kept(drafts[o], drafts'[o])
      <4>1. SoFar(drafts[o]) /\ drafts'[o].flavor = drafts[o].flavor
            /\ (drafts[o].flavor # "first-run" => cfg.complete)
        BY <3>1 DEF AnsweredSoFar, Kept
      <4> QED
        BY <2>1, <2>2, <3>1, <4>1
    <3>2. CASE Anew(drafts'[o])
      BY <2>1, <2>3, <3>2
    <3> QED
      BY <2>1, <3>1, <3>2
  <2> QED
    BY <2>1, <2>4 DEF AnsweredSoFar
<1> QED
  BY <1>1, <1>2, <1>3, <1>4

\* A station set up has a callsign, a place and a mode: no order of back, refused forms,
\* pairing and expiry gets past a step unanswered (wizardSave, renderStep, wizardBack).
THEOREM SetUpIsCompleteHolds == WizardSpec => []SetUpIsComplete
<1>1. ASSUME WizardInit PROVE AnsweredSoFar
  <2>1. cfg = Blank \/ cfg = Working
    BY <1>1 DEF WizardInit
  <2>2. (Blank.complete => Answered(Blank)) /\ (Working.complete => Answered(Working))
    BY DEF Blank, Working, Answered
  <2> QED
    BY <1>1, <2>1, <2>2 DEF WizardInit, AnsweredSoFar
<1>2. WizardTypeOK /\ Owned /\ AnsweredSoFar /\ [WizardNext]_wizardVars => AnsweredSoFar'
  BY AnsweredNext, WizardAssumption
<1>3. AnsweredSoFar => SetUpIsComplete
  BY DEF AnsweredSoFar, Answered, SetUpIsComplete
<1> QED
  BY <1>1, <1>2, <1>3, WizardTypeCorrect, PTL DEF WizardSpec
=============================================================================
