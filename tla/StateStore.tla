----------------------------- MODULE StateStore -----------------------------
(***************************************************************************)
(* state.Store: the configuration in memory and in state.json, the blocks  *)
(* of message ids reserved there, and the announcement of every update to  *)
(* the parts of the station that follow the configuration.                 *)
(*                                                                         *)
(* A configuration is its revision: each update that commits makes a new   *)
(* one.  s.mu is held over the whole of Update and of a reservation, the   *)
(* save included, so each is one step; the announcement of an update comes *)
(* after the lock is released and is a step of its own.  A save fails or   *)
(* replaces the file as a whole (temporary file, fsync, rename).           *)
(***************************************************************************)
EXTENDS Naturals, Sequences, FiniteSets

CONSTANTS
  Rereaders,  \* subscribers that re-read the store when woken: rf, igate, bt
  Appliers,   \* subscribers that act on the snapshot announced: gps
  QueueCap,   \* capacity of a subscriber's channel (4)
  BlockSize,  \* msgIDBlock
  LastId,     \* the largest message id (99999)
  MaxRevision, MaxRestarts  \* bounds of the instance

ASSUME StateStoreAssumption ==
  /\ QueueCap \in Nat \ {0} /\ BlockSize \in Nat \ {0} /\ LastId \in Nat \ {0}
  /\ MaxRevision \in Nat /\ MaxRestarts \in Nat
  /\ Rereaders \cap Appliers = {}

VARIABLES
  cur,       \* Store.cur: the configuration in memory and NextMsgID
  disk,      \* state.json
  unsent,    \* committed updates whose notify has not run
  queue,     \* the subscribers' channels
  woken,     \* rereaders that took an event and have not read the store
  follows,   \* the revision each subscriber acts on
  idCur, idEnd,  \* msgIDCur, msgIDEnd
  announced, \* history: the latest revision committed, saved and to be announced
  mixedUp,   \* history: an announcement was overtaken by a later one, or dropped
  given,     \* history: the ids handed out, counted since the numbering last began at 1
  lost,      \* history: a restart lost a reservation since then
  restarts

vars == <<cur, disk, unsent, queue, woken, follows, idCur, idEnd, announced,
          mixedUp, given, lost, restarts>>
idVars     == <<idCur, idEnd, given, lost>>
followVars == <<unsent, queue, woken, follows, announced, mixedUp>>

Subscribers == Rereaders \cup Appliers
Revisions   == 0..MaxRevision
Ids         == 1..LastId
File        == [rev : Revisions, next : 0..LastId]

TypeOK ==
  /\ cur \in File /\ disk \in File
  /\ unsent \subseteq Revisions
  /\ queue \in [Subscribers -> Seq(Revisions)]
  /\ \A s \in Subscribers : Len(queue[s]) <= QueueCap
  /\ woken \subseteq Rereaders
  /\ follows \in [Subscribers -> Revisions]
  /\ idCur \in 0..LastId /\ idEnd \in 0..(LastId + 1)
  /\ announced \in Revisions /\ mixedUp \in BOOLEAN
  /\ given \in [Ids -> Nat] /\ lost \in BOOLEAN
  /\ restarts \in 0..MaxRestarts

\* Open on a file that exists; the subscribers read it as they start.
Init ==
  /\ cur = [rev |-> 0, next |-> 0]
  /\ disk = cur
  /\ unsent = {} /\ woken = {}
  /\ queue = [s \in Subscribers |-> << >>]
  /\ follows = [s \in Subscribers |-> 0]
  /\ idCur = 0 /\ idEnd = 0
  /\ announced = 0 /\ mixedUp = FALSE
  /\ given = [i \in Ids |-> 0] /\ lost = FALSE
  /\ restarts = 0

-----------------------------------------------------------------------------
(* Update                                                                  *)

\* The change is in force before the save, and stays when the save fails.
Changed == [cur EXCEPT !.rev = @ + 1]

CommitAnyway ==
  /\ cur.rev < MaxRevision
  /\ cur' = Changed
  /\ disk' \in {cur', disk}
  /\ unsent' = unsent \cup {cur'.rev}
  /\ announced' = cur'.rev
  /\ UNCHANGED <<queue, woken, follows, mixedUp>>
  /\ UNCHANGED idVars /\ UNCHANGED restarts

\* Update, of a change fn accepts; one it refuses changes nothing.
Update ==
  /\ cur.rev < MaxRevision
  /\ cur' = Changed
  /\ \/ /\ disk' = cur'
        /\ unsent' = unsent \cup {cur'.rev}
        /\ announced' = cur'.rev
     \/ UNCHANGED <<disk, unsent, announced>>   \* save failed: an error to the caller
  /\ UNCHANGED <<queue, woken, follows, mixedUp>>
  /\ UNCHANGED idVars /\ UNCHANGED restarts

OfferIfEmpty(q, r) == IF q = << >> THEN <<r>> ELSE q

\* The channel after r is offered to it: a full one drops the event.
Offer(q, r) == IF Len(q) < QueueCap THEN Append(q, r) ELSE q

\* notify.  The snapshot sent is the one Update took under the lock.
Notify(r) ==
  /\ r \in unsent
  /\ unsent' = unsent \ {r}
  /\ queue' = [s \in Subscribers |-> Offer(queue[s], r)]
  /\ mixedUp' = (mixedUp \/ (\E later \in Revisions : later > r /\ later <= announced)
                         \/ (\E s \in Subscribers : Len(queue[s]) = QueueCap))
  /\ UNCHANGED <<cur, disk, woken, follows, announced, restarts>>
  /\ UNCHANGED idVars

-----------------------------------------------------------------------------
(* The subscribers                                                         *)

ActOnEvent(s) ==
  /\ s \in Rereaders /\ queue[s] # << >>
  /\ queue' = [queue EXCEPT ![s] = Tail(@)]
  /\ follows' = [follows EXCEPT ![s] = Head(queue[s])]
  /\ UNCHANGED <<cur, disk, unsent, woken, announced, mixedUp, restarts>>
  /\ UNCHANGED idVars

\* rf, igate and bt discard the snapshot and drop what they are doing ...
Wake(s) ==
  /\ s \in Rereaders \ woken /\ queue[s] # << >>
  /\ queue' = [queue EXCEPT ![s] = Tail(@)]
  /\ woken' = woken \cup {s}
  /\ UNCHANGED <<cur, disk, unsent, follows, announced, mixedUp, restarts>>
  /\ UNCHANGED idVars

\* ... and read the store for the next attempt.
Reread(s) ==
  /\ s \in woken
  /\ woken' = woken \ {s}
  /\ follows' = [follows EXCEPT ![s] = cur.rev]
  /\ UNCHANGED <<cur, disk, unsent, queue, announced, mixedUp, restarts>>
  /\ UNCHANGED idVars

\* gps applies the snapshot it was sent.
Apply(s) ==
  /\ s \in Appliers /\ queue[s] # << >>
  /\ queue' = [queue EXCEPT ![s] = Tail(@)]
  /\ follows' = [follows EXCEPT ![s] = Head(queue[s])]
  /\ UNCHANGED <<cur, disk, unsent, woken, announced, mixedUp, restarts>>
  /\ UNCHANGED idVars

-----------------------------------------------------------------------------
(* NextOutboundMsgID                                                       *)

Exhausted == idCur >= idEnd \/ idCur = 0 \/ idCur > LastId

\* The first id a reservation may hand out, and the end of its block.
BlockStart == IF cur.next \in Ids THEN cur.next ELSE 1
BlockEnd   == IF BlockStart + BlockSize > LastId + 1 THEN LastId + 1 ELSE BlockStart + BlockSize

WatermarkShort == IF BlockEnd > LastId THEN 1 ELSE BlockEnd - 1
Watermark      == IF BlockEnd > LastId THEN 1 ELSE BlockEnd

\* Hand out n, wrapping in the middle of a block when the ids are used up.
HandOut(n, end) ==
  /\ idCur' = IF n + 1 > LastId THEN 0 ELSE n + 1
  /\ idEnd' = IF n + 1 > LastId THEN 0 ELSE end

\* The next id of the block in memory.
NextId ==
  /\ ~Exhausted
  /\ HandOut(idCur, idEnd)
  /\ given' = [given EXCEPT ![idCur] = @ + 1]
  /\ UNCHANGED <<cur, disk, lost, restarts>> /\ UNCHANGED followVars

\* reserveMsgIDBlock, then the first id of the block; a failed save is logged.
ReserveId ==
  /\ Exhausted
  /\ cur' = [cur EXCEPT !.next = Watermark]
  /\ disk' \in {cur', disk}
  /\ HandOut(BlockStart, BlockEnd)
  /\ IF BlockStart = 1
     THEN given' = [i \in Ids |-> IF i = 1 THEN 1 ELSE 0] /\ lost' = FALSE
     ELSE given' = [given EXCEPT ![BlockStart] = @ + 1] /\ UNCHANGED lost
  /\ UNCHANGED restarts /\ UNCHANGED followVars

-----------------------------------------------------------------------------
(* A crash, or a shutdown (which saves nothing), and the next start: Open  *)
(* reads the file and the subscribers start from it.                       *)

LostAtRestart == cur.next # disk.next

Restart ==
  /\ restarts < MaxRestarts
  /\ restarts' = restarts + 1
  /\ cur' = disk
  /\ unsent' = {} /\ woken' = {}
  /\ queue' = [s \in Subscribers |-> << >>]
  /\ follows' = [s \in Subscribers |-> disk.rev]
  /\ announced' = disk.rev /\ mixedUp' = FALSE
  /\ idCur' = 0 /\ idEnd' = 0
  /\ lost' = (lost \/ LostAtRestart)
  /\ UNCHANGED <<disk, given>>

Next ==
  \/ Update
  \/ \E r \in Revisions : Notify(r)
  \/ \E s \in Subscribers : Wake(s) \/ Reread(s) \/ Apply(s)
  \/ NextId
  \/ ReserveId
  \/ Restart

Spec == Init /\ [][Next]_vars

\* A handler that has committed goes on to notify, and subscribers keep reading.
Fairness ==
  /\ \A r \in Revisions : WF_vars(Notify(r))
  /\ \A s \in Subscribers : WF_vars(Wake(s)) /\ WF_vars(Reread(s)) /\ WF_vars(Apply(s))

FairSpec == Spec /\ Fairness

-----------------------------------------------------------------------------
(* Properties                                                              *)

\* No message id is handed out twice before the numbering starts again at 1
\* (peers drop a message whose sender and id they have seen): restarts in the
\* middle of a block and failed saves included, but for a reservation whose save
\* failed and which a restart then lost (NextOutboundMsgID, reserveMsgIDBlock).
NoIdTwice == (\E i \in Ids : given[i] > 1) => lost

\* What is announced survives: a revision on its way to a subscriber, or that gps
\* acts on, is in state.json, although an update is in force before it is saved
\* (Update, notify).
AnnouncedIsDurable ==
  /\ \A r \in unsent : r <= disk.rev
  /\ \A s \in Subscribers : \A i \in DOMAIN queue[s] : queue[s][i] <= disk.rev
  /\ \A s \in Appliers : follows[s] <= disk.rev

\* Announcements that overtake each other, or are dropped at a full channel, leave
\* a subscriber that re-reads the store with the last update all the same; the
\* one that applies the snapshot it was sent is sure of it only when neither
\* happened (notify after the unlock; gps.Run).
RereadersCatchUp == <>[](\A s \in Rereaders : follows[s] >= announced)

ApplierStaleOnlyIfMixedUp ==
  \A s \in Appliers :
    unsent = {} /\ queue[s] = << >> /\ ~mixedUp => follows[s] = announced
=============================================================================
