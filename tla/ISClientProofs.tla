--------------------------- MODULE ISClientProofs ----------------------------
(***************************************************************************)
(* Theorems about ISClient, for any servers, any number of lines and any   *)
(* depth of the queue and of the subscription.                             *)
(***************************************************************************)
EXTENDS ISClient, SequenceTheorems, TLAPS

-----------------------------------------------------------------------------
(* Type correctness.                                                       *)

LEMMA LongerType ==
  ASSUME ClientAssumption, TypeOK PROVE Longer \in 1..MaxBackoff
BY DEF ClientAssumption, TypeOK, Longer

LEMMA TypeNext == ASSUME ClientAssumption, TypeOK, [Next]_vars PROVE TypeOK'
<1> USE ClientAssumption
<1>1. ASSUME NEW c \in Servers \cup {None}, Update(c) \/ UpdateNotSaved(c) PROVE TypeOK'
  <2>1. updates' \in 0..MaxUpdates /\ unannounced' \in Nat
    BY <1>1, SMTT(20) DEF Update, UpdateNotSaved, TypeOK, ClientAssumption
  <2>2. missed' \in BOOLEAN
    BY <1>1 DEF Update, UpdateNotSaved, TypeOK, rest
  <2> QED
    BY <1>1, <2>1, <2>2, SMTT(20) DEF Update, UpdateNotSaved, TypeOK, told, shown, session, lines, rest
<1>2. CASE Announce
  <2>1. unannounced' \in Nat /\ notes' \in 0..NotesDepth
    BY <1>2 DEF Announce, TypeOK, ClientAssumption
  <2> QED
    BY <1>2, <2>1 DEF Announce, TypeOK, told, shown, session, lines, rest
<1>3. CASE HearChange
  <2>1. notes' \in 0..NotesDepth
    BY <1>3 DEF HearChange, TypeOK, ClientAssumption
  <2> QED
    BY <1>3, <2>1 DEF HearChange, TypeOK, shown, session, lines, rest
<1>4. CASE DropSession
  <2>1. cancelled' \in BOOLEAN /\ missed' \in BOOLEAN
    BY <1>4 DEF DropSession
  <2> QED
    BY <1>4, <2>1 DEF DropSession, TypeOK, settings, told, shown, lines
<1>5. CASE SubscriberEnds
  BY <1>5 DEF SubscriberEnds, TypeOK, settings, told, shown, session, lines, rest
<1>6. CASE Loop
  <2>1. at' \in Places /\ snap' \in Servers \cup {None} /\ missed' = FALSE
    BY <1>6 DEF Loop, TypeOK, Places, settings
  <2> QED
    BY <1>6, <2>1 DEF Loop, TypeOK, settings, told, shown, session, lines
<1>7. CASE Wake
  <2>1. at' \in Places
    BY <1>7 DEF Wake, Places
  <2> QED
    BY <1>7, <2>1 DEF Wake, TypeOK, settings, told, shown, session, lines, rest
<1>8. CASE Open
  <2>1. at' \in Places /\ sessions' \in Nat /\ lost' \in Nat /\ cancel' \in {"none", "this", "old"}
    BY <1>8 DEF Open, PublishFirst, TypeOK, Places
  <2> QED
    BY <1>8, <2>1 DEF Open, TypeOK, settings, told, shown
<1>9. ASSUME NEW kind \in {"dial", "session"}, HandleError(kind), conn' \in {conn, "closed"},
             UNCHANGED <<settings, subscriber, snap, writer, verification, lines, rest>>
      PROVE  TypeOK'
  <2>1. backoff' \in 1..MaxBackoff
    BY <1>9, LongerType DEF HandleError
  <2>2. /\ at' \in Places /\ lastError' \in {"none", "dial", "session"}
        /\ cancel' \in {"none", "this", "old"} /\ silentDrop' \in BOOLEAN /\ cancelled' \in BOOLEAN
    BY <1>9 DEF HandleError, TypeOK, Places
  <2> QED
    BY <1>9, <2>1, <2>2 DEF TypeOK, settings, lines, rest
<1>10. CASE DialFails
  BY <1>9, <1>10 DEF DialFails
<1>11. CASE DialCancelled
  <2>1. at' \in Places /\ backoff' \in 1..MaxBackoff /\ cancel' \in {"none", "this", "old"}
    BY <1>11 DEF DialCancelled, TypeOK, Places, ClientAssumption
  <2> QED
    BY <1>11, <2>1 DEF DialCancelled, TypeOK, settings, shown, lines, rest
<1>12. CASE Login
  BY <1>12 DEF Login, TypeOK, Places, settings, lines, rest
<1>13. CASE Logresp \/ ServerGone \/ WatcherCloses \/ Shutdown
  <2>1. CASE Logresp
    BY <1>13, <2>1 DEF Logresp, TypeOK, settings, session, lines, rest
  <2>2. CASE ServerGone \/ WatcherCloses
    BY <1>13, <2>2, SMTT(20) DEF ServerGone, WatcherCloses, TypeOK, settings, told, shown, lines, rest
  <2>3. CASE Shutdown
    BY <1>13, <2>3 DEF Shutdown, TypeOK, settings, told, shown, session, lines
  <2> QED
    BY <1>13, <2>1, <2>2, <2>3
<1>14. CASE ReadEnds
  BY <1>14 DEF ReadEnds, TypeOK, Places, settings, told, shown, lines, rest
<1>15. CASE Close
  BY <1>9, <1>15 DEF Close
<1>16. CASE JoinSubscriber
  BY <1>16 DEF JoinSubscriber, TypeOK, Places, settings, told, shown, session, lines, rest
<1>17. CASE Send
  <2>1. offered' \in 1..Lines /\ outQ \in Seq(1..Lines) /\ Len(outQ) <= QueueDepth
        /\ QueueDepth \in Nat /\ Lines \in Nat
    BY <1>17 DEF Send, TypeOK, ClientAssumption
  <2>2. outQ' \in Seq(1..Lines) /\ Len(outQ') <= QueueDepth
    <3>1. CASE outQ' = outQ
      BY <2>1, <3>1
    <3>2. CASE Len(outQ) < QueueDepth /\ outQ' = Append(outQ, offered')
      <4>1. Append(outQ, offered') \in Seq(1..Lines) /\ Len(Append(outQ, offered')) = Len(outQ) + 1
        BY <2>1, AppendProperties
      <4>2. Len(outQ) \in Nat
        BY <2>1, LenProperties
      <4> QED
        BY <2>1, <3>2, <4>1, <4>2
    <3> QED
      BY <1>17, <3>1, <3>2 DEF Send, Refused
  <2>3. offered' \in 0..Lines
    BY <2>1
  <2> QED
    BY <1>17, <2>2, <2>3 DEF Send, TypeOK, settings, told, shown, session, rest
<1>18. CASE Take
  <2>1. /\ held' \in 0..Lines /\ outQ' \in Seq(1..Lines) /\ Len(outQ') <= QueueDepth
    BY <1>18, SMTT(20) DEF Take, TypeOK, ClientAssumption
  <2> QED
    BY <1>18, <2>1 DEF Take, TypeOK, settings, told, shown, session, rest
<1>19. CASE Write \/ WriteFails
  <2>1. 0 \in 0..Lines /\ lost + 1 \in Nat
    BY DEF TypeOK, ClientAssumption
  <2>2. CASE Write
    BY <2>1, <2>2 DEF Write, TypeOK, settings, told, shown, session, rest
  <2>3. CASE WriteFails
    BY <2>1, <2>3 DEF WriteFails, LoseLine, TypeOK, settings, told, shown, session, rest
  <2> QED
    BY <1>19, <2>2, <2>3
<1>20. CASE WriterStops
  BY <1>20 DEF WriterStops, TypeOK, settings, told, shown, session, lines, rest
<1>21. CASE UNCHANGED vars
  BY <1>21 DEF vars, TypeOK, settings, shown, session, lines, rest
<1> QED
  BY <1>1, <1>2, <1>3, <1>4, <1>5, <1>6, <1>7, <1>8, <1>10, <1>11, <1>12, <1>13, <1>14, <1>15,
     <1>16, <1>17, <1>18, <1>19, <1>20, <1>21
  DEF Next, SubscriberStep, RunStep, WriterStep

\* Every variable keeps to its type, in every interleaving of the client's goroutines.
THEOREM TypeCorrect == Spec => []TypeOK
<1>1. ASSUME ClientAssumption, Init PROVE TypeOK
  <2>1. /\ 0 \in 0..MaxUpdates /\ 0 \in 0..NotesDepth /\ 1 \in 1..MaxBackoff /\ 0 \in 0..Lines
        /\ << >> \in Seq(1..Lines) /\ Len(<< >>) <= QueueDepth
    BY <1>1 DEF ClientAssumption
  <2> QED
    BY <1>1, <2>1 DEF Init, TypeOK, Places
<1> QED
  BY <1>1, TypeNext, ClientAssumption, PTL DEF Spec

-----------------------------------------------------------------------------
(* The lines, in order and at most one lost.                               *)

\* The queue outlives sessions and the counter of losses does not: it starts again
\* with the dial, so no writer may be left over that could still lose a line then,
\* and none loses a second because losing one ends it.
LossInv ==
  /\ writer \in {"idle", "holding"} => at \in {"up", "closing"}
  /\ at = "dial" => lost = 0
  /\ at \in {"up", "closing"} /\ writer # "died" => lost = 0
  /\ lost <= 1

LEMMA LossNext == ASSUME TypeOK, LossInv, [Next]_vars PROVE LossInv'
<1>1. lost \in Nat
  BY DEF TypeOK
<1>2. CASE UNCHANGED <<at, writer, lost>>
  BY <1>2 DEF LossInv
<1>3. CASE Loop \/ Wake \/ DialFails \/ DialCancelled \/ JoinSubscriber
  <2>1. at \in {"loop", "wait", "dial", "join"} /\ UNCHANGED <<writer, lost>>
        /\ at' \in {"loop", "wait", "snapshot", "join", "gone"}
    BY <1>3 DEF Loop, Wake, DialFails, HandleError, DialCancelled, JoinSubscriber, lines
  <2> QED
    BY <2>1 DEF LossInv
<1>4. CASE Open
  BY <1>4 DEF Open, LossInv
<1>5. CASE Login
  BY <1>5 DEF Login, LossInv, lines
<1>6. CASE ReadEnds
  BY <1>6 DEF ReadEnds, LossInv, lines
<1>7. CASE Close
  BY <1>7 DEF Close, HandleError, JoinWriter, LossInv, lines
<1>8. CASE Take \/ Write
  BY <1>8 DEF Take, Write, LossInv
<1>9. CASE WriteFails
  <2>1. lost = 0 /\ lost' = lost + 1
    BY <1>9 DEF WriteFails, LoseLine, LossInv
  <2> QED
    BY <1>9, <2>1 DEF WriteFails, LossInv
<1>10. CASE WriterStops
  BY <1>10 DEF WriterStops, LossInv, lines
<1> QED
  <2>1. ASSUME NEW c \in Servers \cup {None}, Update(c) \/ UpdateNotSaved(c)
        PROVE  UNCHANGED <<at, writer, lost>>
    BY <2>1 DEF Update, UpdateNotSaved, lines
  <2>2. CASE Announce \/ SubscriberStep \/ WatcherCloses \/ Logresp \/ ServerGone \/ Send \/ Shutdown
    BY <1>2, <2>2 DEF Announce, SubscriberStep, HearChange, DropSession, SubscriberEnds,
       WatcherCloses, Logresp, ServerGone, Send, Shutdown, lines
  <2>3. CASE UNCHANGED vars
    BY <1>2, <2>3 DEF vars, lines
  <2> QED
    BY <1>2, <1>3, <1>4, <1>5, <1>6, <1>7, <1>8, <1>9, <1>10, <2>1, <2>2, <2>3
    DEF Next, RunStep, WriterStep

\* No line carries a number above the last one offered, so the next is above them all.
Order ==
  /\ held # 0 => written < held
  /\ \A k \in DOMAIN outQ : /\ written < outQ[k] /\ held < outQ[k]
                           /\ \A m \in DOMAIN outQ : k < m => outQ[k] < outQ[m]
Numbered ==
  /\ written <= offered /\ held <= offered
  /\ \A k \in DOMAIN outQ : outQ[k] <= offered
OrderInv == Order /\ Numbered

LEMMA LineTypes ==
  ASSUME TypeOK, ClientAssumption
  PROVE  /\ held \in Nat /\ offered \in Nat /\ written \in Nat
         /\ outQ \in Seq(1..Lines) /\ DOMAIN outQ = 1..Len(outQ) /\ Len(outQ) \in Nat
         /\ \A k \in DOMAIN outQ : outQ[k] \in Nat \ {0}
<1>1. outQ \in Seq(1..Lines) /\ Lines \in Nat
  BY DEF TypeOK, ClientAssumption
<1>2. DOMAIN outQ = 1..Len(outQ) /\ Len(outQ) \in Nat
      /\ \A k \in 1..Len(outQ) : outQ[k] \in 1..Lines
  BY <1>1, LenProperties, ElementOfSeq
<1> QED
  BY <1>1, <1>2, SMTT(20) DEF TypeOK

LEMMA OrderNext == ASSUME ClientAssumption, TypeOK, OrderInv, [Next]_vars PROVE OrderInv'
<1> USE ClientAssumption
<1>1. CASE UNCHANGED <<outQ, held, offered, written>>
  BY <1>1 DEF OrderInv, Order, Numbered
<1>2. CASE Send
  <2>1. offered' = offered + 1 /\ UNCHANGED <<held, written>>
    BY <1>2 DEF Send
  <2>2. CASE UNCHANGED outQ
    BY <2>1, <2>2, LineTypes DEF OrderInv, Order, Numbered
  <2>3. CASE outQ' = Append(outQ, offered + 1)
    <3>1. /\ DOMAIN outQ' = 1..(Len(outQ) + 1)
          /\ \A k \in DOMAIN outQ : outQ'[k] = outQ[k]
          /\ outQ'[Len(outQ) + 1] = offered + 1
      BY <2>3, LineTypes
    <3>2. ASSUME NEW k \in DOMAIN outQ'
          PROVE  /\ written < outQ'[k] /\ held < outQ'[k] /\ outQ'[k] <= offered + 1
                 /\ \A m \in DOMAIN outQ' : k < m => outQ'[k] < outQ'[m]
      <4>1. CASE k \in DOMAIN outQ
        <5>1. outQ'[k] = outQ[k] /\ outQ[k] <= offered /\ written < outQ[k] /\ held < outQ[k]
              /\ outQ[k] \in Nat
          BY <3>1, <4>1, LineTypes DEF OrderInv, Order, Numbered
        <5>2. ASSUME NEW m \in DOMAIN outQ', k < m PROVE outQ'[k] < outQ'[m]
          <6>1. CASE m \in DOMAIN outQ
            BY <3>1, <4>1, <5>2, <6>1 DEF OrderInv, Order
          <6>2. CASE m = Len(outQ) + 1
            BY <3>1, <5>1, <6>2, LineTypes
          <6> QED
            BY <3>1, <5>2, <6>1, <6>2, LineTypes
        <5> QED
          BY <5>1, <5>2, LineTypes
      <4>2. CASE k = Len(outQ) + 1
        <5>1. \A m \in DOMAIN outQ' : ~(k < m)
          BY <3>1, <4>2, LineTypes
        <5> QED
          BY <3>1, <4>2, <5>1, LineTypes DEF OrderInv, Numbered
      <4> QED
        BY <3>1, <3>2, <4>1, <4>2, LineTypes
    <3> QED
      BY <2>1, <3>2, LineTypes DEF OrderInv, Order, Numbered
  <2> QED
    BY <1>2, <2>1, <2>2, <2>3 DEF Send, Refused
<1>3. CASE Take
  <2>1. outQ # << >> /\ held' = outQ[1] /\ outQ' = Tail(outQ) /\ UNCHANGED <<offered, written>>
    BY <1>3, LineTypes DEF Take
  <2>2. 1 \in DOMAIN outQ
    BY <2>1, LineTypes
  <2>3. ASSUME NEW k \in DOMAIN outQ' PROVE k + 1 \in DOMAIN outQ /\ outQ'[k] = outQ[k + 1] /\ k \in Nat \ {0}
    BY <2>1, <2>3, LineTypes
  <2>4. ASSUME NEW k \in DOMAIN outQ'
        PROVE  /\ written < outQ'[k] /\ held' < outQ'[k] /\ outQ'[k] <= offered
               /\ \A m \in DOMAIN outQ' : k < m => outQ'[k] < outQ'[m]
    <3>1. 1 < k + 1
      BY <2>3
    <3>2. \A m \in DOMAIN outQ' : k < m => k + 1 < m + 1
      BY <2>3
    <3> QED
      BY <2>1, <2>2, <2>3, <3>1, <3>2 DEF OrderInv, Order, Numbered
  <2>5. written < held' /\ held' <= offered
    BY <2>1, <2>2 DEF OrderInv, Order, Numbered
  <2> QED
    BY <2>1, <2>4, <2>5 DEF OrderInv, Order, Numbered
<1>4. CASE Write
  <2>1. written' = held /\ held' = 0 /\ UNCHANGED <<outQ, offered>>
    BY <1>4 DEF Write
  <2> QED
    BY <2>1, LineTypes DEF OrderInv, Order, Numbered
<1>5. CASE WriteFails
  <2>1. held' = 0 /\ UNCHANGED <<outQ, offered, written>>
    BY <1>5 DEF WriteFails, LoseLine
  <2> QED
    BY <2>1, LineTypes DEF OrderInv, Order, Numbered
<1> QED
  <2>1. ASSUME NEW c \in Servers \cup {None}, Update(c) \/ UpdateNotSaved(c)
        PROVE  UNCHANGED <<outQ, held, offered, written>>
    BY <2>1 DEF Update, UpdateNotSaved, lines
  <2>2. CASE Announce \/ SubscriberStep \/ WatcherCloses \/ Logresp \/ ServerGone \/ WriterStops
             \/ Shutdown
    BY <1>1, <2>2 DEF Announce, SubscriberStep, HearChange, DropSession, SubscriberEnds,
       WatcherCloses, Logresp, ServerGone, WriterStops, Shutdown, lines
  <2>3. CASE RunStep
    BY <1>1, <2>3 DEF RunStep, Loop, Wake, Open, DialFails, DialCancelled, Login, ReadEnds, Close,
       JoinSubscriber, lines
  <2>4. CASE UNCHANGED vars
    BY <1>1, <2>4 DEF vars, lines
  <2> QED
    BY <1>1, <1>2, <1>3, <1>4, <1>5, <2>1, <2>2, <2>3, <2>4 DEF Next, WriterStep

\* Whatever ends sessions and whenever: the server is given the lines in the order Send
\* took them, none twice, and no session costs more than the line its writer held.
THEOREM LinesInOrderHolds == Spec => []LinesInOrder
<1>1. Init => LossInv /\ OrderInv
  BY ClientAssumption DEF Init, LossInv, OrderInv, Order, Numbered
<1>2. LossInv /\ OrderInv => LinesInOrder
  BY DEF LossInv, OrderInv, Order, LinesInOrder
<1> QED
  BY <1>1, <1>2, TypeCorrect, LossNext, OrderNext, ClientAssumption, PTL DEF Spec

-----------------------------------------------------------------------------
(* Sessions under old settings.                                            *)

ChangeOnItsWay == unannounced > 0 \/ notes > 0 \/ subscriber = "drop" \/ missed

\* The cancel function at hand is the session's own until it is used: it is published
\* before the dial, and taking it from the client is using it.
CancelInv == at \in {"dial", "up"} /\ ~cancelled => cancel = "this"

\* A change is on its way from the snapshot on, not only while the session is up.
StaleInv ==
  /\ CancelInv
  /\ at = "snapshot" /\ snap # cfg => ChangeOnItsWay
  /\ at \in {"dial", "up"} /\ ~Done /\ snap # cfg => ChangeOnItsWay

LEMMA StaleNext == ASSUME ClientAssumption, TypeOK, StaleInv, [Next]_vars PROVE StaleInv'
<1> USE ClientAssumption
<1>1. CASE UNCHANGED <<cfg, unannounced, notes, subscriber, at, snap, cancel, cancelled, missed>>
           /\ (down => down')
  BY <1>1 DEF StaleInv, CancelInv, ChangeOnItsWay, Done
<1>2. CASE at' \notin {"snapshot", "dial", "up"}
  BY <1>2 DEF StaleInv, CancelInv
<1>3. ASSUME NEW c \in Servers \cup {None}, Update(c) PROVE StaleInv'
  <2>1. unannounced' > 0 /\ UNCHANGED <<at, cancel, cancelled>>
    BY <1>3 DEF Update, TypeOK, session
  <2> QED
    BY <2>1 DEF StaleInv, CancelInv, ChangeOnItsWay
<1>4. ASSUME NEW c \in Servers \cup {None}, UpdateNotSaved(c) PROVE StaleInv'
  <2>1. UNCHANGED <<at, cancel, cancelled>> /\ (at \in {"snapshot", "dial", "up"} => missed')
    BY <1>4 DEF UpdateNotSaved, session
  <2> QED
    BY <2>1 DEF StaleInv, CancelInv, ChangeOnItsWay
<1>5. CASE Announce
  <2>1. UNCHANGED <<cfg, subscriber, at, snap, cancel, cancelled, missed, down>>
    BY <1>5 DEF Announce, session, rest
  <2>2. at \notin {"join", "gone"} => notes' > 0
    BY <1>5 DEF Announce, TypeOK, ClientAssumption
  <2> QED
    BY <2>1, <2>2 DEF StaleInv, CancelInv, ChangeOnItsWay, Done
<1>6. CASE HearChange
  <2>1. subscriber' = "drop" /\ UNCHANGED <<at, cancel, cancelled>>
    BY <1>6 DEF HearChange, session
  <2> QED
    BY <2>1 DEF StaleInv, CancelInv, ChangeOnItsWay
<1>7. CASE DropSession
  <2>1. at' = at /\ (at = "snapshot" => missed')
    BY <1>7 DEF DropSession
  <2>2. at \in {"dial", "up"} => cancelled'
    BY <1>7 DEF DropSession, StaleInv, CancelInv
  <2> QED
    BY <2>1, <2>2 DEF StaleInv, CancelInv, ChangeOnItsWay, Done
<1>8. CASE SubscriberEnds
  BY <1>2, <1>8 DEF SubscriberEnds
<1>9. CASE Loop
  <2>1. snap' = cfg' /\ at' \notin {"dial", "up"}
    BY <1>9 DEF Loop, settings
  <2> QED
    BY <2>1 DEF StaleInv, CancelInv
<1>10. CASE Wake \/ DialFails \/ DialCancelled \/ ReadEnds \/ Close \/ JoinSubscriber
  BY <1>2, <1>10 DEF Wake, DialFails, HandleError, DialCancelled, ReadEnds, Close, JoinSubscriber
<1>11. CASE Open
  <2>1. at = "snapshot" /\ at' = "dial" /\ cancel' = "this"
        /\ UNCHANGED <<cfg, unannounced, notes, subscriber, snap, missed>>
    BY <1>11 DEF Open, PublishFirst, settings
  <2> QED
    BY <2>1 DEF StaleInv, CancelInv, ChangeOnItsWay
<1>12. CASE Login
  <2>1. at = "dial" /\ at' = "up"
        /\ UNCHANGED <<cfg, unannounced, notes, subscriber, snap, cancel, cancelled, missed, down>>
    BY <1>12 DEF Login, settings, rest
  <2> QED
    BY <2>1 DEF StaleInv, CancelInv, ChangeOnItsWay, Done
<1>13. CASE Shutdown
  BY <1>1, <1>13 DEF Shutdown, settings, session
<1> QED
  <2>1. CASE Logresp \/ ServerGone \/ WatcherCloses \/ Send \/ WriterStep
    BY <1>1, <2>1 DEF Logresp, ServerGone, WatcherCloses, Send, WriterStep, Take, Write,
       WriteFails, WriterStops, settings, session, rest
  <2>2. CASE UNCHANGED vars
    BY <1>1, <2>2 DEF vars, settings, session, rest
  <2> QED
    BY <1>3, <1>4, <1>5, <1>6, <1>7, <1>8, <1>9, <1>10, <1>11, <1>12, <1>13, <2>1, <2>2
    DEF Next, SubscriberStep, RunStep

\* A change of settings reaches the session that stands on the old ones, but for the
\* two ways the code misses it: heard before the session could be cancelled, or not
\* saved and so never announced.
THEOREM StaleOnlyIfMissedHolds == Spec => []StaleOnlyIfMissed
<1>1. Init => StaleInv
  BY DEF Init, StaleInv, CancelInv
<1>2. StaleInv => StaleOnlyIfMissed
  BY DEF StaleInv, ChangeOnItsWay, StaleOnlyIfMissed
<1> QED
  BY <1>1, <1>2, TypeCorrect, StaleNext, ClientAssumption, PTL DEF Spec

-----------------------------------------------------------------------------
(* The queue keeps its promise: the client implements SendQueue.           *)

LEMMA FirstOfSeq ==
  ASSUME NEW S, NEW x \in S, NEW q \in Seq(S)
  PROVE  /\ <<x>> \o q \in Seq(S) /\ <<x>> \o q # << >>
         /\ Head(<<x>> \o q) = x /\ Tail(<<x>> \o q) = q /\ Len(<<x>> \o q) = Len(q) + 1
<1> DEFINE p == <<x>> \o q
<1>1. <<x>> \in Seq(S) /\ Len(<<x>>) = 1 /\ <<x>>[1] = x
  OBVIOUS
<1>2. /\ p \in Seq(S) /\ Len(p) = Len(q) + 1 /\ Len(q) \in Nat
      /\ \A i \in 1..Len(q) + 1 : p[i] = IF i <= 1 THEN x ELSE q[i - 1]
  BY <1>1, ConcatProperties, LenProperties
<1> HIDE DEF p
<1>3. p # << >> /\ Head(p) = x
  BY <1>2
<1>4. Tail(p) = q
  <2>1. Tail(p) \in Seq(S) /\ Len(Tail(p)) = Len(q) /\ \A i \in 1..Len(q) : Tail(p)[i] = p[i + 1]
    BY <1>2, <1>3, HeadTailProperties
  <2>2. \A i \in 1..Len(q) : Tail(p)[i] = q[i]
    BY <1>2, <2>1
  <2> QED
    BY <2>1, <2>2, SeqEqual
<1> QED
  BY <1>2, <1>3, <1>4 DEF p

LEMMA HeadThenTail ==
  ASSUME NEW S, NEW q \in Seq(S), q # << >>
  PROVE  <<Head(q)>> \o Tail(q) = q
<1> DEFINE p == <<Head(q)>> \o Tail(q)
<1>1. /\ Head(q) \in S /\ Head(q) = q[1] /\ Tail(q) \in Seq(S) /\ Len(Tail(q)) = Len(q) - 1
      /\ \A i \in 1..Len(Tail(q)) : Tail(q)[i] = q[i + 1]
      /\ <<Head(q)>> \in Seq(S) /\ Len(<<Head(q)>>) = 1 /\ <<Head(q)>>[1] = Head(q)
  BY HeadTailProperties
<1>2. Len(q) \in Nat
  BY LenProperties
<1>3. /\ p \in Seq(S) /\ Len(p) = Len(q)
      /\ \A i \in 1..Len(q) : p[i] = IF i <= 1 THEN q[1] ELSE Tail(q)[i - 1]
  BY <1>1, <1>2, ConcatProperties
<1> HIDE DEF p
<1>4. \A i \in 1..Len(q) : p[i] = q[i]
  BY <1>1, <1>2, <1>3
<1>5. p = q
  BY <1>3, <1>4, SeqEqual
<1> QED
  BY <1>5 DEF p

LEMMA AppendBehind ==
  ASSUME NEW S, NEW p \in Seq(S), NEW q \in Seq(S), NEW x \in S
  PROVE  Append(p \o q, x) = p \o Append(q, x)
<1>1. p \o q \in Seq(S) /\ <<x>> \in Seq(S)
  BY ConcatProperties
<1>2. Append(p \o q, x) = (p \o q) \o <<x>> /\ Append(q, x) = q \o <<x>>
  BY <1>1, AppendIsConcat
<1> QED
  BY <1>1, <1>2, ConcatAssociative

\* The writer has a line in its hands while it holds one, and a new writer has none left
\* from the last.
HandInv == held # 0 <=> writer = "holding"

LEMMA HandNext == ASSUME ClientAssumption, TypeOK, LossInv, HandInv, [Next]_vars PROVE HandInv'
<1>1. CASE UNCHANGED <<held, writer>>
  BY <1>1 DEF HandInv
<1>2. CASE Login
  BY <1>2 DEF Login, LossInv, HandInv, lines
<1>3. CASE Take
  <2>1. Head(outQ) \in 1..Lines
    BY <1>3, HeadTailProperties DEF Take, TypeOK
  <2> QED
    BY <1>3, <2>1 DEF Take, HandInv
<1>4. CASE Write \/ WriteFails
  BY <1>4 DEF Write, WriteFails, HandInv
<1>5. CASE WriterStops
  BY <1>5 DEF WriterStops, HandInv, lines
<1> QED
  <2>1. ASSUME NEW c \in Servers \cup {None}, Update(c) \/ UpdateNotSaved(c)
        PROVE  UNCHANGED <<held, writer>>
    BY <2>1 DEF Update, UpdateNotSaved, lines
  <2>2. CASE Announce \/ SubscriberStep \/ WatcherCloses \/ Logresp \/ ServerGone \/ Send \/ Shutdown
    BY <1>1, <2>2 DEF Announce, SubscriberStep, HearChange, DropSession, SubscriberEnds,
       WatcherCloses, Logresp, ServerGone, Send, Shutdown, lines
  <2>3. CASE Loop \/ Wake \/ Open \/ DialFails \/ DialCancelled \/ ReadEnds \/ Close \/ JoinSubscriber
    BY <1>1, <2>3 DEF Loop, Wake, Open, DialFails, DialCancelled, ReadEnds, Close,
       JoinSubscriber, lines
  <2>4. CASE UNCHANGED vars
    BY <1>1, <2>4 DEF vars, lines
  <2> QED
    BY <1>1, <1>2, <1>3, <1>4, <1>5, <2>1, <2>2, <2>3, <2>4 DEF Next, RunStep, WriterStep

LEMMA PendingTypes ==
  ASSUME ClientAssumption, TypeOK
  PROVE  /\ Pending \in Seq(1..Lines) /\ Len(outQ) \in Nat /\ Len(Pending) \in {Len(outQ), Len(outQ) + 1}
         /\ held = 0 => Pending = outQ
         /\ held # 0 => Pending # << >> /\ Head(Pending) = held /\ Tail(Pending) = outQ
<1>1. outQ \in Seq(1..Lines) /\ Len(outQ) \in Nat
  BY LenProperties DEF TypeOK
<1>2. CASE held = 0
  BY <1>1, <1>2, ConcatEmptySeq DEF Pending
<1>3. CASE held # 0
  <2>1. held \in 1..Lines
    BY <1>3 DEF TypeOK, ClientAssumption
  <2> QED
    BY <1>1, <1>3, <2>1, FirstOfSeq DEF Pending
<1> QED
  BY <1>2, <1>3

LEMMA PendingAppend ==
  ASSUME ClientAssumption, TypeOK, NEW n \in 1..Lines
  PROVE  Append(Pending, n) = (IF held = 0 THEN << >> ELSE <<held>>) \o Append(outQ, n)
<1>1. outQ \in Seq(1..Lines)
  BY DEF TypeOK
<1>2. CASE held = 0
  <2>1. Append(outQ, n) \in Seq(1..Lines)
    BY <1>1, AppendProperties
  <2>2. << >> \o outQ = outQ /\ << >> \o Append(outQ, n) = Append(outQ, n)
    BY <1>1, <2>1, ConcatEmptySeq
  <2> QED
    BY <1>2, <2>2 DEF Pending
<1>3. CASE held # 0
  <2>1. held \in 1..Lines
    BY <1>3 DEF TypeOK, ClientAssumption
  <2>2. <<held>> \in Seq(1..Lines)
    BY <2>1
  <2>3. Append(<<held>> \o outQ, n) = <<held>> \o Append(outQ, n)
    BY <1>1, <2>2, AppendBehind
  <2> QED
    BY <1>3, <2>3 DEF Pending
<1> QED
  BY <1>2, <1>3

LEMMA QueueInit == ASSUME ClientAssumption, Init PROVE Queue!Init
<1>1. Pending = << >>
  BY ConcatEmptySeq DEF Init, Pending
<1> QED
  BY <1>1 DEF Init, Queue!Init

\* Send is Accept or Refuse, Write is Deliver, WriteFails is Lose and Open is NewSession
\* if the session before lost a line; everything else leaves the queue's promise alone.
LEMMA QueueNext ==
  ASSUME ClientAssumption, TypeOK, LossInv, HandInv, [Next]_vars
  PROVE  [Queue!Next]_(Queue!qvars)
<1> USE DEF Queue!qvars
<1>1. CASE UNCHANGED lines
  <2>1. Pending' = Pending
    BY <1>1 DEF lines, Pending
  <2> QED
    BY <1>1, <2>1 DEF lines
<1>2. CASE Open
  <2>1. Pending' = Pending /\ UNCHANGED <<offered, written>>
    BY <1>2 DEF Open, Pending
  <2>2. (lost' > 0) = FALSE
    BY <1>2 DEF Open
  <2>3. CASE lost > 0
    BY <2>1, <2>2, <2>3 DEF Queue!Next, Queue!NewSession
  <2>4. CASE ~(lost > 0)
    BY <2>1, <2>2, <2>4
  <2> QED
    BY <2>3, <2>4
<1>3. CASE Send
  <2>1. /\ offered' = offered + 1 /\ offered' \in 1..Lines /\ UNCHANGED <<held, written, lost>>
        /\ outQ' = IF Len(outQ) < QueueDepth THEN Append(outQ, offered') ELSE outQ
    <3>1. offered < Lines /\ offered' = offered + 1 /\ UNCHANGED <<held, written, lost>>
          /\ outQ' = IF Len(outQ) < QueueDepth THEN Append(outQ, offered') ELSE outQ
      BY ONLY <1>3 DEF Send, Refused
    <3>2. offered \in Nat /\ Lines \in Nat
      BY DEF TypeOK, ClientAssumption
    <3>3. offered' \in 1..Lines
      BY ONLY <3>1, <3>2
    <3> QED
      BY <3>1, <3>3
  <2>2. CASE Len(outQ) < QueueDepth
    <3>1. Pending' = Append(Pending, offered')
      <4>1. Append(Pending, offered') = (IF held = 0 THEN << >> ELSE <<held>>) \o Append(outQ, offered')
        BY <2>1, PendingAppend
      <4> QED
        BY <2>1, <2>2, <4>1 DEF Pending
    <3>2. Len(Pending) <= QueueDepth
      BY <2>2, PendingTypes DEF ClientAssumption
    <3> QED
      BY <2>1, <3>1, <3>2 DEF Queue!Next, Queue!Accept
  <2>3. CASE ~(Len(outQ) < QueueDepth)
    <3>1. Pending' = Pending
      BY <2>1, <2>3 DEF Pending
    <3>2. Len(Pending) >= QueueDepth
      BY <2>3, PendingTypes DEF ClientAssumption
    <3> QED
      BY <2>1, <3>1, <3>2 DEF Queue!Next, Queue!Refuse
  <2> QED
    BY <2>2, <2>3
<1>4. CASE Take
  <2>1. held = 0 /\ outQ # << >> /\ held' = Head(outQ) /\ outQ' = Tail(outQ)
    BY <1>4 DEF Take, HandInv
  <2>2. Head(outQ) \in 1..Lines /\ <<Head(outQ)>> \o Tail(outQ) = outQ
    BY <2>1, HeadTailProperties, HeadThenTail DEF TypeOK
  <2>3. Pending' = <<Head(outQ)>> \o Tail(outQ)
    <3>1. held' # 0
      BY <2>1, <2>2
    <3> QED
      BY <2>1, <3>1 DEF Pending
  <2> QED
    BY <1>4, <2>1, <2>2, <2>3, PendingTypes DEF Take
<1>5. CASE Write \/ WriteFails
  <2>1. held # 0 /\ held' = 0 /\ outQ' = outQ /\ offered' = offered
    BY <1>5 DEF Write, WriteFails, LoseLine, HandInv
  <2>2. Pending # << >> /\ Head(Pending) = held /\ Tail(Pending) = outQ /\ Pending' = outQ
    <3>1. outQ \in Seq(1..Lines)
      BY DEF TypeOK
    <3> QED
      BY <2>1, <3>1, PendingTypes, ConcatEmptySeq DEF Pending
  <2>3. lost = 0
    BY <1>5 DEF Write, WriteFails, LossInv
  <2>4. CASE Write
    BY <2>1, <2>2, <2>3, <2>4 DEF Write, Queue!Next, Queue!Deliver
  <2>5. CASE WriteFails
    BY <2>1, <2>2, <2>3, <2>5 DEF WriteFails, LoseLine, Queue!Next, Queue!Lose
  <2> QED
    BY <1>5, <2>4, <2>5
<1> QED
  <2>1. ASSUME NEW c \in Servers \cup {None}, Update(c) \/ UpdateNotSaved(c) PROVE UNCHANGED lines
    BY <2>1 DEF Update, UpdateNotSaved
  <2>2. CASE Announce \/ SubscriberStep \/ WatcherCloses \/ Logresp \/ ServerGone \/ Shutdown
    BY <1>1, <2>2 DEF Announce, SubscriberStep, HearChange, DropSession, SubscriberEnds,
       WatcherCloses, Logresp, ServerGone, Shutdown
  <2>3. CASE Loop \/ Wake \/ DialFails \/ DialCancelled \/ Login \/ ReadEnds \/ Close \/ JoinSubscriber
    BY <1>1, <2>3 DEF Loop, Wake, DialFails, DialCancelled, Login, ReadEnds, Close, JoinSubscriber
  <2>4. CASE WriterStops \/ UNCHANGED vars
    BY <1>1, <2>4 DEF WriterStops, vars
  <2> QED
    BY <1>1, <1>2, <1>3, <1>4, <1>5, <2>1, <2>2, <2>3, <2>4 DEF Next, RunStep, WriterStep

\* A line Send took reaches a server in its turn, in whichever session, unless a writer
\* had it in its hands when its session broke; Send refuses only when the queue is full.
THEOREM QueueKeptHolds == Spec => QueueKept
<1>1. Init => LossInv /\ HandInv
  BY DEF Init, LossInv, HandInv
<1> QED
  BY <1>1, QueueInit, QueueNext, TypeCorrect, LossNext, HandNext, ClientAssumption, PTL
  DEF Spec, QueueKept, Queue!Spec
=============================================================================
