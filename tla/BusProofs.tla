------------------------------ MODULE BusProofs -----------------------------
(***************************************************************************)
(* Theorems about the two that live on what the bus keeps for them: about  *)
(* Inbox, for any packets and any windows, thresholds and depth of the     *)
(* channel; and about Webhook, for any packets, endpoints and settings,    *)
(* and any numbers of workers, jobs and attempts.  The two share no state. *)
(***************************************************************************)
EXTENDS Inbox, Webhook, FiniteSetTheorems, SequenceTheorems, TLAPS

Row == [key : RowKeys, via : SUBSET Media, fresh : 0..BodyWindow]

NewRow(p, m) == [key |-> RowKey(p), via |-> {m}, fresh |-> BodyWindow]

-----------------------------------------------------------------------------
(* The last row of a message.  That it has one is part of the invariant:   *)
(* rows are only appended, and keep their keys.                            *)

IsLast(table, key, i) ==
  /\ i \in DOMAIN table /\ table[i].key = key
  /\ \A j \in DOMAIN table : table[j].key = key => j <= i

Ranked == \A key \in RowKeys : HasRow(key) => \E i \in DOMAIN rows : IsLast(rows, key, i)

LEMMA LastOf ==
  ASSUME NEW table, NEW n \in Nat, DOMAIN table = 1..n, NEW key, NEW i, IsLast(table, key, i)
  PROVE  i = CHOOSE l \in DOMAIN table : /\ table[l].key = key
                                         /\ \A j \in DOMAIN table : table[j].key = key => j <= l
<1> DEFINE P(l) == table[l].key = key /\ \A j \in DOMAIN table : table[j].key = key => j <= l
<1>1. i \in DOMAIN table /\ P(i)
  BY DEF IsLast
<1>2. ASSUME NEW l \in DOMAIN table, P(l) PROVE l = i
  <2>1. l <= i /\ i <= l
    BY <1>1, <1>2
  <2> QED
    BY <1>1, <2>1
<1> QED
  BY <1>1, <1>2

LEMMA RowsDomain == ASSUME rows \in Seq(Row) PROVE DOMAIN rows = 1..Len(rows) /\ Len(rows) \in Nat
BY LenProperties

LEMMA LastRowIs ==
  ASSUME rows \in Seq(Row), Ranked, NEW key \in RowKeys, HasRow(key)
  PROVE  IsLast(rows, key, LastRow(key))
<1>1. PICK i \in DOMAIN rows : IsLast(rows, key, i)
  BY DEF Ranked
<1>2. i = LastRow(key)
  BY <1>1, RowsDomain, LastOf DEF LastRow
<1> QED
  BY <1>1, <1>2

\* What the steps do to the rows: add one, or leave number and keys alone.
LEMMA LogRows ==
  ASSUME rows \in Seq(Row), NEW row \in Row, rows' = Append(rows, row)
  PROVE  /\ rows' \in Seq(Row)
         /\ DOMAIN rows' = DOMAIN rows \cup {Len(rows) + 1} /\ Len(rows) + 1 \notin DOMAIN rows
         /\ \A i \in DOMAIN rows : rows'[i] = rows[i] /\ i <= Len(rows) + 1
         /\ rows'[Len(rows) + 1] = row
<1>1. rows' \in Seq(Row) /\ Len(rows') = Len(rows) + 1
  BY AppendProperties
<1>2. DOMAIN rows = 1..Len(rows) /\ Len(rows) \in Nat /\ DOMAIN rows' = 1..Len(rows')
  BY <1>1, LenProperties
<1>3. \A i \in 1..Len(rows) : rows'[i] = rows[i]
  BY AppendProperties
<1>4. rows'[Len(rows) + 1] = row
  BY AppendProperties
<1> QED
  BY <1>1, <1>2, <1>3, <1>4

SameKeys == DOMAIN rows' = DOMAIN rows /\ \A i \in DOMAIN rows : rows'[i].key = rows[i].key

LEMMA MergeRows ==
  ASSUME rows \in Seq(Row), NEW l \in DOMAIN rows, NEW m \in Media,
         rows' = [rows EXCEPT ![l].via = @ \cup {m}]
  PROVE  /\ rows' \in Seq(Row) /\ SameKeys
         /\ \A i \in DOMAIN rows : rows'[i].fresh = rows[i].fresh
         /\ \A i \in DOMAIN rows : rows'[i].via = IF i = l THEN rows[l].via \cup {m} ELSE rows[i].via
<1> DEFINE row == [rows[l] EXCEPT !.via = @ \cup {m}]
<1>1. DOMAIN rows = 1..Len(rows) /\ rows[l] \in Row
  BY LenProperties, ElementOfSeq
<1>2. row \in Row /\ row.key = rows[l].key /\ row.fresh = rows[l].fresh
      /\ row.via = rows[l].via \cup {m}
  BY <1>1 DEF Row
<1>3. rows' = [rows EXCEPT ![l] = row]
  OBVIOUS
<1> HIDE DEF row
<1>4. rows' \in Seq(Row) /\ DOMAIN rows' = DOMAIN rows
  <2>1. l \in 1..Len(rows) /\ row \in Row
    BY <1>1, <1>2
  <2>2. [rows EXCEPT ![l] = row] \in Seq(Row)
    BY <2>1, ExceptSeq
  <2>3. DOMAIN [rows EXCEPT ![l] = row] = DOMAIN rows
    OBVIOUS
  <2> QED
    BY <1>3, <2>2, <2>3
<1>5. \A i \in DOMAIN rows : rows'[i] = IF i = l THEN row ELSE rows[i]
  BY <1>3
<1> QED
  BY <1>2, <1>4, <1>5 DEF SameKeys

\* A tick and a restart.
AgedRows == /\ DOMAIN rows' = DOMAIN rows
            /\ \A i \in DOMAIN rows : \E left \in 0..rows[i].fresh :
                 rows'[i] = [rows[i] EXCEPT !.fresh = left]

LEMMA AgeRows ==
  ASSUME rows \in Seq(Row), BodyWindow \in Nat, Tick \/ Restart
  PROVE  /\ rows' \in Seq(Row) /\ SameKeys /\ AgedRows
         /\ \A i \in DOMAIN rows : rows'[i].via = rows[i].via
<1>1. DOMAIN rows = 1..Len(rows) /\ Len(rows) \in Nat
  BY LenProperties
<1>2. DOMAIN rows' = DOMAIN rows
  BY DEF Tick, Restart
<1>3. ASSUME NEW i \in DOMAIN rows
      PROVE  /\ rows'[i] \in Row /\ rows'[i].key = rows[i].key /\ rows'[i].via = rows[i].via
             /\ \E left \in 0..rows[i].fresh : rows'[i] = [rows[i] EXCEPT !.fresh = left]
  <2>1. rows[i] \in Row
    BY <1>1, <1>3, ElementOfSeq
  <2>2. PICK left \in 0..rows[i].fresh : rows'[i] = [rows[i] EXCEPT !.fresh = left]
    <3>1. rows[i].fresh \in Nat
      BY <2>1 DEF Row
    <3>2. CASE Tick
      <4>1. rows'[i] = [rows[i] EXCEPT !.fresh = Less(rows[i].fresh)]
        BY <1>3, <3>2 DEF Tick
      <4>2. Less(rows[i].fresh) \in 0..rows[i].fresh
        BY <3>1 DEF Less
      <4> QED
        BY <4>1, <4>2
    <3>3. CASE Restart
      <4>1. rows'[i] = [rows[i] EXCEPT !.fresh = 0]
        BY <1>3, <3>3 DEF Restart
      <4>2. 0 \in 0..rows[i].fresh
        BY <3>1
      <4> QED
        BY <4>1, <4>2
    <3> QED
      BY <3>2, <3>3
  <2>3. left \in 0..BodyWindow
    BY <2>1, <2>2 DEF Row
  <2> QED
    BY <2>1, <2>2, <2>3 DEF Row
<1>4. rows' \in Seq(Row)
  <2>1. rows' = [i \in 1..Len(rows) |-> rows'[i]]
    BY <1>1, <1>2 DEF Tick, Restart
  <2> QED
    BY <1>1, <1>2, <1>3, <2>1, IsASeq
<1> QED
  BY <1>2, <1>3, <1>4 DEF SameKeys, AgedRows

\* Rows that keep their keys keep their order.
LEMMA SameLast ==
  ASSUME rows \in Seq(Row), Ranked, SameKeys
  PROVE  /\ Ranked'
         /\ \A key \in RowKeys :
              /\ HasRow(key)' <=> HasRow(key)
              /\ HasRow(key) => LastRow(key)' = LastRow(key)
<1>1. ASSUME NEW key \in RowKeys PROVE HasRow(key)' <=> HasRow(key)
  BY DEF SameKeys, HasRow
<1>2. ASSUME NEW key \in RowKeys, HasRow(key)
      PROVE  IsLast(rows', key, LastRow(key)) /\ LastRow(key)' = LastRow(key)
  <2>1. IsLast(rows', key, LastRow(key))
    BY <1>2, LastRowIs DEF SameKeys, IsLast
  <2>2. DOMAIN rows' = 1..Len(rows) /\ Len(rows) \in Nat
    BY RowsDomain DEF SameKeys
  <2> QED
    BY <2>1, <2>2, LastOf DEF LastRow
<1>3. Ranked'
  BY <1>1, <1>2 DEF Ranked, IsLast
<1> QED
  BY <1>1, <1>2, <1>3

\* A row that is added is the last of its key and leaves the others in their order.
LEMMA NewLast ==
  ASSUME rows \in Seq(Row), Ranked, NEW row \in Row, rows' = Append(rows, row)
  PROVE  /\ Ranked' /\ LastRow(row.key)' = Len(rows) + 1
         /\ \A key \in RowKeys \ {row.key} :
              /\ HasRow(key)' <=> HasRow(key)
              /\ HasRow(key) => LastRow(key)' = LastRow(key)
<1>1. /\ rows' \in Seq(Row)
      /\ DOMAIN rows' = DOMAIN rows \cup {Len(rows) + 1}
      /\ \A i \in DOMAIN rows : rows'[i] = rows[i] /\ i <= Len(rows) + 1
      /\ rows'[Len(rows) + 1] = row
  BY LogRows
<1>2. DOMAIN rows' = 1..Len(rows') /\ Len(rows') \in Nat /\ Len(rows) \in Nat
  BY <1>1, LenProperties
<1>3. IsLast(rows', row.key, Len(rows) + 1)
  BY <1>1, <1>2 DEF IsLast
<1>4. LastRow(row.key)' = Len(rows) + 1
  BY <1>2, <1>3, LastOf DEF LastRow
<1>5. ASSUME NEW key \in RowKeys \ {row.key} PROVE HasRow(key)' <=> HasRow(key)
  BY <1>1 DEF HasRow
<1>6. ASSUME NEW key \in RowKeys \ {row.key}, HasRow(key)
      PROVE  IsLast(rows', key, LastRow(key)) /\ LastRow(key)' = LastRow(key)
  <2>1. IsLast(rows', key, LastRow(key))
    BY <1>1, <1>6, LastRowIs DEF IsLast
  <2> QED
    BY <1>2, <2>1, LastOf DEF LastRow
<1>7. Ranked'
  BY <1>3, <1>5, <1>6 DEF Ranked, IsLast
<1> QED
  BY <1>4, <1>5, <1>6, <1>7

-----------------------------------------------------------------------------
(* Type correctness.                                                       *)

TInv == TypeOK /\ Ranked

\* The message tables change when the loop takes a message, with time and at a restart.
MessagesSame == UNCHANGED <<idSeen, bodySeen, rows, copies, acked, refused>>
Takes(p, m) == Kept(p) /\ TakeMessage(p, m, Tail(sub))

LEMMA HeadIsPacket == ASSUME TypeOK, sub # <<>> PROVE Head(sub).pkt \in Packets
<1>1. Head(sub) \in [medium : Media \cup {"tx"}, pkt : Packets]
  BY HeadTailProperties DEF TypeOK
<1> QED
  BY <1>1

LEMMA MessageSteps ==
  ASSUME TypeOK, [Next]_vars
  PROVE  MessagesSame \/ Tick \/ Restart \/ \E p \in Packets, m \in Media : Takes(p, m)
<1>1. CASE TakeRF \/ TakeIS
  <2>1. PICK m \in Media : sub # <<>> /\ TakeMessage(Head(sub).pkt, m, Tail(sub))
    BY <1>1 DEF TakeRF, TakeIS, Taken, Media
  <2>2. PICK p \in Packets : TakeMessage(p, m, Tail(sub))
    BY <2>1, HeadIsPacket
  <2>3. ~Kept(p) => MessagesSame
    BY <2>2 DEF TakeMessage, MessagesSame
  <2> QED
    BY <2>2, <2>3 DEF Takes
<1>2. CASE ~(TakeRF \/ TakeIS \/ Tick \/ Restart)
  BY <1>2 DEF Next, Receive, DropDuplicate, DropFar, DropLimited, TakeTX, Quiet, tables, vars,
              MessagesSame
<1> QED
  BY <1>1, <1>2

LEMMA PublishType ==
  ASSUME WindowsAssumption, NEW S, NEW queue \in Seq(S), NEW frame \in S, Len(queue) <= SubBuffer
  PROVE  Publish(queue, frame) \in Seq(S) /\ Len(Publish(queue, frame)) <= SubBuffer
<1>1. Len(queue) \in Nat /\ SubBuffer \in Nat
  BY LenProperties DEF WindowsAssumption
<1>2. Append(queue, frame) \in Seq(S) /\ Len(Append(queue, frame)) = Len(queue) + 1
  BY AppendProperties
<1> QED
  BY <1>1, <1>2 DEF Publish

Frames == [medium : Media \cup {"tx"}, pkt : Packets]

LEMMA TailType ==
  ASSUME WindowsAssumption, TypeOK, sub # <<>>
  PROVE  Tail(sub) \in Seq(Frames) /\ Len(Tail(sub)) <= SubBuffer
<1>1. sub \in Seq(Frames) /\ Len(sub) <= SubBuffer /\ SubBuffer \in Nat /\ Len(sub) \in Nat
  BY LenProperties DEF TypeOK, Frames, WindowsAssumption
<1>2. Tail(sub) \in Seq(Frames) /\ Len(Tail(sub)) = Len(sub) - 1
  BY <1>1
<1> QED
  BY <1>1, <1>2

LEMMA SubType ==
  ASSUME WindowsAssumption, TypeOK, [Next]_vars
  PROVE  sub' \in Seq(Frames) /\ Len(sub') <= SubBuffer
<1>1. ASSUME NEW p \in Packets, NEW m \in Media, Receive(p, m)
      PROVE  sub' \in Seq(Frames) /\ Len(sub') <= SubBuffer
  <2>1. [medium |-> m, pkt |-> p] \in Frames
    BY DEF Frames
  <2> QED
    BY <1>1, <2>1, PublishType DEF Receive, TypeOK, Frames
<1>2. ASSUME sub # <<>>, sub' = Tail(sub) PROVE sub' \in Seq(Frames) /\ Len(sub') <= SubBuffer
  BY <1>2, TailType
<1>3. ASSUME NEW p \in Packets, NEW m \in Media, sub # <<>>, TakeMessage(p, m, Tail(sub))
      PROVE  sub' \in Seq(Frames) /\ Len(sub') <= SubBuffer
  <2>1. [medium |-> "tx", pkt |-> p] \in Frames
    BY DEF Frames
  <2>2. sub' = Tail(sub) \/ sub' = Publish(Tail(sub), [medium |-> "tx", pkt |-> p])
    BY <1>3 DEF TakeMessage, Ack
  <2> QED
    BY <1>3, <2>1, <2>2, TailType, PublishType
<1>4. CASE TakeRF \/ TakeIS
  <2>1. PICK m \in Media : sub # <<>> /\ TakeMessage(Head(sub).pkt, m, Tail(sub))
    BY <1>4 DEF TakeRF, TakeIS, Taken, Media
  <2> QED
    BY <1>3, <2>1, HeadIsPacket
<1>5. CASE Restart
  BY <1>5 DEF Restart, WindowsAssumption
<1>6. CASE UNCHANGED sub
  BY <1>6 DEF TypeOK, Frames
<1>7. \/ \E p \in Packets, m \in Media : Receive(p, m)
      \/ sub # <<>> /\ sub' = Tail(sub)
      \/ TakeRF \/ TakeIS \/ Restart \/ UNCHANGED sub
  BY DEF Next, DropDuplicate, DropFar, DropLimited, TakeTX, Tick, Taken, vars
<1> QED
  BY <1>1, <1>2, <1>4, <1>5, <1>6, <1>7

LEMMA MarkType ==
  ASSUME NEW K, NEW window \in Nat, NEW table \in [K -> 0..window], NEW key \in K
  PROVE  /\ Mark(table, key, window) \in [K -> 0..window]
         /\ \A k \in K : Mark(table, key, window)[k] =
                         IF k = key /\ table[key] = 0 THEN window ELSE table[k]
BY DEF Mark

LEMMA OlderType ==
  ASSUME NEW K, NEW window \in Nat, NEW table \in [K -> 0..window]
  PROVE  Older(table) \in [K -> 0..window] /\ \A k \in K : Older(table)[k] = Less(table[k])
<1>1. Older(table) = [k \in K |-> Less(table[k])]
  BY DEF Older
<1>2. ASSUME NEW k \in K PROVE Less(table[k]) \in 0..window
  BY DEF Less
<1> QED
  BY <1>1, <1>2

LEMMA KeysOfPackets ==
  \A p \in Packets : /\ RowKey(p) \in RowKeys /\ BodyKey(p) \in BodyKeys /\ IdKey(p) \in IdKeys
                     /\ p.src \in Sources /\ RowKey(p) = BodyKey(p)
BY DEF RowKeys, BodyKeys, IdKeys, Sources, RowKey, BodyKey

LEMMA MarkMessageType ==
  ASSUME WindowsAssumption, TypeOK, NEW p \in Packets, MarkMessage(p)
  PROVE  idSeen' \in [IdKeys -> 0..IdWindow] /\ bodySeen' \in [BodyKeys -> 0..BodyWindow]
<1>1. IdWindow \in Nat /\ BodyWindow \in Nat
  BY DEF WindowsAssumption
<1> QED
  BY <1>1, MarkType, KeysOfPackets DEF MarkMessage, TypeOK

\* Taking a message adds its row or merges the medium into the last one, if it does
\* anything to the rows.
LEMMA TakeRows ==
  ASSUME NEW p, NEW m, Takes(p, m)
  PROVE  \/ UNCHANGED rows
         \/ ~Repeat(p) /\ rows' = Append(rows, NewRow(p, m))
         \/ HasRow(RowKey(p)) /\ rows' = [rows EXCEPT ![LastRow(RowKey(p))].via = @ \cup {m}]
BY DEF Takes, TakeMessage, Merge, Log, NewRow

LEMMA NewRowType ==
  ASSUME WindowsAssumption, NEW p \in Packets, NEW m \in Media PROVE NewRow(p, m) \in Row
BY KeysOfPackets DEF NewRow, Row, WindowsAssumption

LEMMA RankedNext ==
  ASSUME WindowsAssumption, TInv, [Next]_vars PROVE rows' \in Seq(Row) /\ Ranked'
<1>1. rows \in Seq(Row) /\ Ranked
  BY DEF TInv, TypeOK, Row
<1>2. CASE MessagesSame
  BY <1>1, <1>2 DEF MessagesSame, Ranked, HasRow
<1>3. CASE Tick \/ Restart
  BY <1>1, <1>3, AgeRows, SameLast DEF WindowsAssumption
<1>4. ASSUME NEW p \in Packets, NEW m \in Media, Takes(p, m) PROVE rows' \in Seq(Row) /\ Ranked'
  <2>1. CASE UNCHANGED rows
    BY <1>1, <2>1 DEF Ranked, HasRow
  <2>2. CASE rows' = Append(rows, NewRow(p, m))
    BY <1>1, <2>2, NewRowType, LogRows, NewLast
  <2>3. CASE HasRow(RowKey(p)) /\ rows' = [rows EXCEPT ![LastRow(RowKey(p))].via = @ \cup {m}]
    <3>1. LastRow(RowKey(p)) \in DOMAIN rows
      BY <1>1, <2>3, KeysOfPackets, LastRowIs DEF IsLast
    <3> QED
      BY <1>1, <2>3, <3>1, MergeRows, SameLast
  <2> QED
    BY <1>4, <2>1, <2>2, <2>3, TakeRows
<1> QED
  BY <1>2, <1>3, <1>4, MessageSteps DEF TInv

LEMMA ChargeType ==
  ASSUME WindowsAssumption, NEW bucket \in [count : 0..Threshold + 1, left : Nat]
  PROVE  Charge(bucket) \in [count : 0..Threshold + 1, left : Nat]
<1> USE DEF WindowsAssumption
<1>1. CASE bucket.left = 0
  BY <1>1 DEF Charge
<1>2. CASE bucket.left > 0 /\ bucket.count < Threshold
  <2>1. Charge(bucket) = [bucket EXCEPT !.count = bucket.count + 1]
    BY <1>2 DEF Charge
  <2>2. bucket.count + 1 \in 0..Threshold + 1
    BY <1>2
  <2> QED
    BY <2>1, <2>2
<1>3. CASE bucket.left > 0 /\ bucket.count = Threshold
  BY <1>3 DEF Charge
<1>4. CASE bucket.left > 0 /\ bucket.count > Threshold
  BY <1>4 DEF Charge
<1> QED
  BY <1>1, <1>2, <1>3, <1>4

LEMMA LimitSteps ==
  ASSUME TypeOK, [Next]_vars
  PROVE  \/ \E p \in Packets : Offer(p)
         \/ Tick \/ Restart \/ UNCHANGED <<limits, offers>>
<1>1. CASE TakeRF \/ DropLimited
  BY <1>1, HeadIsPacket DEF TakeRF, DropLimited, Taken
<1>2. CASE ~(TakeRF \/ DropLimited)
  BY <1>2 DEF Next, Receive, DropDuplicate, DropFar, TakeIS, TakeTX, tables, vars
<1> QED
  BY <1>1, <1>2

LEMMA LimitsType ==
  ASSUME WindowsAssumption, TypeOK, [Next]_vars
  PROVE  /\ limits' \in [Sources -> [count : 0..Threshold + 1, left : Nat]]
         /\ offers' \in [Sources -> [0..Threshold -> 0..Minute]]
<1> USE DEF WindowsAssumption
<1>1. ASSUME NEW p \in Packets, Offer(p)
      PROVE  /\ limits' \in [Sources -> [count : 0..Threshold + 1, left : Nat]]
             /\ offers' \in [Sources -> [0..Threshold -> 0..Minute]]
  <2>1. Charge(limits[p.src]) \in [count : 0..Threshold + 1, left : Nat]
    BY ChargeType, KeysOfPackets DEF TypeOK
  <2>2. Before(offers[p.src]) \in [0..Threshold -> 0..Minute]
    <3>1. offers[p.src] \in [0..Threshold -> 0..Minute]
      BY KeysOfPackets DEF TypeOK
    <3> QED
      BY <3>1, SMTT(20) DEF Before
  <2> QED
    BY <1>1, <2>1, <2>2 DEF Offer, TypeOK
<1>2. CASE Tick
  <2>1. ASSUME NEW s \in Sources
        PROVE  /\ [limits[s] EXCEPT !.left = Less(@)] \in [count : 0..Threshold + 1, left : Nat]
               /\ Older(offers[s]) \in [0..Threshold -> 0..Minute]
    <3>1. limits[s] \in [count : 0..Threshold + 1, left : Nat] /\ Less(limits[s].left) \in Nat
      BY DEF TypeOK, Less
    <3>2. Older(offers[s]) \in [0..Threshold -> 0..Minute]
      BY OlderType DEF TypeOK
    <3> QED
      BY <3>1, <3>2
  <2> QED
    BY <1>2, <2>1 DEF Tick
<1>3. CASE Restart
  BY <1>3 DEF Restart
<1>4. CASE UNCHANGED <<limits, offers>>
  BY <1>4 DEF TypeOK
<1> QED
  BY <1>1, <1>2, <1>3, <1>4, LimitSteps

LEMMA TablesType ==
  ASSUME WindowsAssumption, TypeOK, [Next]_vars
  PROVE  /\ idSeen' \in [IdKeys -> 0..IdWindow] /\ bodySeen' \in [BodyKeys -> 0..BodyWindow]
         /\ copies' \in [RowKeys -> SUBSET Media] /\ acked' \cup refused' \subseteq RowKeys
<1>1. IdWindow \in Nat /\ BodyWindow \in Nat
  BY DEF WindowsAssumption
<1>2. ASSUME NEW p \in Packets, NEW m \in Media, Takes(p, m)
      PROVE  /\ idSeen' \in [IdKeys -> 0..IdWindow] /\ bodySeen' \in [BodyKeys -> 0..BodyWindow]
             /\ copies' \in [RowKeys -> SUBSET Media] /\ acked' \cup refused' \subseteq RowKeys
  <2>1. copies' \in [RowKeys -> SUBSET Media]
    BY <1>2, KeysOfPackets, SMTT(20) DEF Takes, TakeMessage, Merge, Log, TypeOK
  <2>2. acked' \cup refused' \subseteq RowKeys
    BY <1>2, KeysOfPackets DEF Takes, TakeMessage, Merge, Log, Ack, TypeOK
  <2> QED
    BY <1>2, <2>1, <2>2, MarkMessageType DEF Takes, TakeMessage
<1>3. CASE MessagesSame
  BY <1>3 DEF MessagesSame, TypeOK
<1>4. CASE Tick
  BY <1>1, <1>4, OlderType DEF Tick, TypeOK
<1>5. CASE Restart
  BY <1>1, <1>5 DEF Restart, TypeOK
<1> QED
  BY <1>2, <1>3, <1>4, <1>5, MessageSteps

LEMMA DupeType ==
  ASSUME WindowsAssumption, TypeOK, [Next]_vars
  PROVE  /\ dupe' \in [Packets -> 0..DupeWindow] /\ stations' \subseteq Sources \ {Me}
         /\ heard' \in 0..MaxFrames /\ restarts' \in 0..MaxRestarts
<1>1. DupeWindow \in Nat /\ MaxFrames \in Nat /\ MaxRestarts \in Nat
  BY DEF WindowsAssumption
<1>2. dupe' \in [Packets -> 0..DupeWindow]
  <2>1. ASSUME sub # <<>>, dupe' = Mark(dupe, Head(sub).pkt, DupeWindow)
        PROVE  dupe' \in [Packets -> 0..DupeWindow]
    BY <1>1, <2>1, HeadIsPacket, MarkType DEF TypeOK
  <2>2. CASE DropFar \/ DropLimited \/ TakeRF
    BY <2>1, <2>2 DEF DropFar, DropLimited, TakeRF, Offer, Taken
  <2>3. CASE Tick
    BY <1>1, <2>3, OlderType DEF Tick, TypeOK
  <2>4. CASE Restart
    BY <1>1, <2>4 DEF Restart
  <2>5. CASE ~(DropFar \/ DropLimited \/ TakeRF \/ Tick \/ Restart)
    BY <2>5 DEF Next, Receive, DropDuplicate, TakeIS, TakeTX, tables, vars, TypeOK
  <2> QED
    BY <2>2, <2>3, <2>4, <2>5
<1>3. stations' \subseteq Sources \ {Me}
  <2>1. CASE TakeRF
    <3>1. Head(sub).pkt.src \in Sources
      BY <2>1, HeadIsPacket, KeysOfPackets DEF TakeRF, Taken
    <3> QED
      BY <2>1, <3>1 DEF TakeRF, UpsertHeard, TypeOK
  <2>2. CASE ~TakeRF
    BY <2>2 DEF Next, Receive, DropDuplicate, DropFar, DropLimited, TakeIS, TakeTX, Tick, Restart,
                vars, TypeOK
  <2> QED
    BY <2>1, <2>2
<1>4. heard' \in 0..MaxFrames
  <2>1. heard' = heard \/ (heard < MaxFrames /\ heard' = heard + 1)
    BY DEF Next, Receive, DropDuplicate, DropFar, DropLimited, TakeRF, TakeIS, TakeTX, Quiet, Tick,
           Restart, vars
  <2> QED
    BY <1>1, <2>1 DEF TypeOK
<1>5. restarts' \in 0..MaxRestarts
  <2>1. restarts' = restarts \/ (restarts < MaxRestarts /\ restarts' = restarts + 1)
    BY DEF Next, Receive, DropDuplicate, DropFar, DropLimited, TakeRF, TakeIS, TakeTX, Quiet, Tick,
           Restart, vars
  <2> QED
    BY <1>1, <2>1 DEF TypeOK
<1> QED
  BY <1>2, <1>3, <1>4, <1>5

LEMMA TNext == ASSUME WindowsAssumption, TInv, [Next]_vars PROVE TInv'
<1>1. rows' \in Seq(Row) /\ Ranked'
  BY RankedNext
<1>2. TypeOK
  BY DEF TInv
<1> QED
  BY <1>1, <1>2, SubType, LimitsType, TablesType, DupeType DEF TInv, TypeOK, Row, Frames

LEMMA TInit == ASSUME WindowsAssumption, Init PROVE TInv
<1> USE DEF WindowsAssumption
<1>1. sub \in Seq([medium : Media \cup {"tx"}, pkt : Packets]) /\ Len(sub) <= SubBuffer
  BY DEF Init
<1>2. rows \in Seq([key : RowKeys, via : SUBSET Media, fresh : 0..BodyWindow])
  BY DEF Init
<1>3. /\ dupe \in [Packets -> 0..DupeWindow] /\ idSeen \in [IdKeys -> 0..IdWindow]
      /\ bodySeen \in [BodyKeys -> 0..BodyWindow]
  BY DEF Init
<1>4. /\ limits \in [Sources -> [count : 0..Threshold + 1, left : Nat]]
      /\ offers \in [Sources -> [0..Threshold -> 0..Minute]]
  BY DEF Init
<1>5. /\ stations \subseteq Sources \ {Me}
      /\ heard \in 0..MaxFrames /\ restarts \in 0..MaxRestarts
      /\ copies \in [RowKeys -> SUBSET Media] /\ acked \cup refused \subseteq RowKeys
  BY DEF Init
<1>6. Ranked
  <2>1. DOMAIN rows = {}
    BY DEF Init
  <2> QED
    BY <2>1 DEF Ranked, HasRow
<1> QED
  BY <1>1, <1>2, <1>3, <1>4, <1>5, <1>6 DEF TInv, TypeOK

\* The inductive type invariant: types, and every message with a row has a last one, into
\* which copies can be merged (store.go:447-452).
THEOREM TInvHolds == Spec => []TInv
<1> USE WindowsAssumption
<1>1. Init => TInv
  BY TInit
<1>2. TInv /\ [Next]_vars => TInv'
  BY TNext
<1> QED
  BY <1>1, <1>2, PTL DEF Spec

\* The channel never holds more than its buffer, no mark outlasts its window and no
\* bucket counts past the threshold (bus.go:18-55, dupe.go, ratelimit_source.go).
THEOREM TypeCorrect == Spec => []TypeOK
<1> USE WindowsAssumption
<1>1. TInv => TypeOK
  BY DEF TInv
<1> QED
  BY <1>1, TInvHolds, PTL

-----------------------------------------------------------------------------
(* One message is one row.  A row is written only for a message that is    *)
(* not marked, and the mark without the id outlasts the row's freshness:   *)
(* it is set with the row, ages with it and is never taken back alone.     *)

FreshIsMarked == \A i \in DOMAIN rows : rows[i].fresh <= bodySeen[rows[i].key]

OnceInv == NothingTwice /\ FreshIsMarked

\* What the steps do to a mark.
LEMMA MarksNext ==
  ASSUME WindowsAssumption, TInv
  PROVE  /\ \A p \in Packets : MarkMessage(p) =>
              /\ \A k \in IdKeys : idSeen'[k] # idSeen[k] => k = IdKey(p)
              /\ \A k \in BodyKeys : bodySeen'[k] # bodySeen[k] => /\ k = BodyKey(p)
                                                                   /\ bodySeen[k] = 0
              /\ idSeen[IdKey(p)] = 0 /\ bodySeen[BodyKey(p)] = 0 =>
                   bodySeen'[BodyKey(p)] = BodyWindow
         /\ Tick => /\ \A k \in IdKeys : idSeen'[k] = Less(idSeen[k])
                    /\ \A k \in BodyKeys : bodySeen'[k] = Less(bodySeen[k])
<1>1. /\ IdWindow \in Nat /\ BodyWindow \in Nat
      /\ idSeen \in [IdKeys -> 0..IdWindow] /\ bodySeen \in [BodyKeys -> 0..BodyWindow]
  BY DEF TInv, TypeOK, WindowsAssumption
<1>2. ASSUME NEW p \in Packets, MarkMessage(p)
      PROVE  /\ \A k \in IdKeys : idSeen'[k] # idSeen[k] => k = IdKey(p)
             /\ \A k \in BodyKeys : bodySeen'[k] # bodySeen[k] => /\ k = BodyKey(p)
                                                                  /\ bodySeen[k] = 0
             /\ idSeen[IdKey(p)] = 0 /\ bodySeen[BodyKey(p)] = 0 =>
                  bodySeen'[BodyKey(p)] = BodyWindow
  <2>1. IdKey(p) \in IdKeys /\ BodyKey(p) \in BodyKeys
    BY KeysOfPackets
  <2>2. \A k \in IdKeys : Mark(idSeen, IdKey(p), IdWindow)[k] =
                            IF k = IdKey(p) /\ idSeen[IdKey(p)] = 0 THEN IdWindow ELSE idSeen[k]
    BY <1>1, <2>1, MarkType, SMTT(20)
  <2>3. \A k \in BodyKeys :
          Mark(bodySeen, BodyKey(p), BodyWindow)[k] =
            IF k = BodyKey(p) /\ bodySeen[BodyKey(p)] = 0 THEN BodyWindow ELSE bodySeen[k]
    BY <1>1, <2>1, MarkType
  <2>4. /\ idSeen' = Mark(idSeen, IdKey(p), IdWindow)
        /\ bodySeen' \in {bodySeen, Mark(bodySeen, BodyKey(p), BodyWindow)}
        /\ idSeen[IdKey(p)] = 0 => bodySeen' = Mark(bodySeen, BodyKey(p), BodyWindow)
    BY <1>1, <1>2, <2>1 DEF MarkMessage
  <2> QED
    BY <2>1, <2>2, <2>3, <2>4
<1>3. ASSUME Tick
      PROVE  /\ \A k \in IdKeys : idSeen'[k] = Less(idSeen[k])
             /\ \A k \in BodyKeys : bodySeen'[k] = Less(bodySeen[k])
  <2>1. idSeen' = Older(idSeen) /\ bodySeen' = Older(bodySeen)
    BY <1>3 DEF Tick
  <2>2. \A k \in IdKeys : Older(idSeen)[k] = Less(idSeen[k])
    BY <1>1 DEF Older
  <2>3. \A k \in BodyKeys : Older(bodySeen)[k] = Less(bodySeen[k])
    BY <1>1 DEF Older
  <2> QED
    BY <2>1, <2>2, <2>3
<1> QED
  BY <1>2, <1>3

\* Taking a message takes nothing off a mark.
LEMMA MarksOutlast ==
  ASSUME WindowsAssumption, TInv, NEW p \in Packets, NEW m \in Media, Takes(p, m)
  PROVE  /\ \A k \in BodyKeys : bodySeen'[k] >= bodySeen[k]
         /\ ~Repeat(p) => bodySeen'[BodyKey(p)] = BodyWindow
<1>1. bodySeen \in [BodyKeys -> 0..BodyWindow] /\ BodyWindow \in Nat
      /\ idSeen \in [IdKeys -> 0..IdWindow]
  BY DEF TInv, TypeOK, WindowsAssumption
<1>2. MarkMessage(p)
  BY DEF Takes, TakeMessage
<1>3. \A k \in BodyKeys : bodySeen'[k] >= bodySeen[k]
  BY <1>1, <1>2, MarksNext, MarkMessageType DEF TInv
<1>4. ~Repeat(p) => bodySeen'[BodyKey(p)] = BodyWindow
  BY <1>1, <1>2, KeysOfPackets, MarksNext DEF Repeat
<1> QED
  BY <1>3, <1>4

LEMMA OnceTake ==
  ASSUME WindowsAssumption, TInv, OnceInv, NEW p \in Packets, NEW m \in Media, Takes(p, m)
  PROVE  OnceInv'
<1>1. rows \in Seq(Row) /\ Ranked /\ bodySeen \in [BodyKeys -> 0..BodyWindow]
      /\ BodyWindow \in Nat
  BY DEF TInv, TypeOK, Row, WindowsAssumption
<1>2. ASSUME NEW i \in DOMAIN rows
      PROVE  rows[i] \in Row /\ rows[i].key \in BodyKeys /\ rows[i].fresh \in Nat
  <2>1. rows[i] \in Row
    BY <1>1, <1>2, RowsDomain, ElementOfSeq
  <2>2. RowKeys \subseteq BodyKeys
    BY KeysOfPackets DEF RowKeys
  <2> QED
    BY <2>1, <2>2 DEF Row
<1>3. \A k \in BodyKeys : bodySeen'[k] >= bodySeen[k] /\ bodySeen'[k] \in Nat /\ bodySeen[k] \in Nat
  BY <1>1, MarksOutlast, MarkMessageType DEF Takes, TakeMessage, TInv
<1>4. CASE SameKeys /\ \A i \in DOMAIN rows : rows'[i].fresh = rows[i].fresh
  <2>1. NothingTwice'
    BY <1>4 DEF OnceInv, NothingTwice, SameKeys
  <2>2. FreshIsMarked'
    BY <1>2, <1>3, <1>4 DEF OnceInv, FreshIsMarked, SameKeys
  <2> QED
    BY <2>1, <2>2 DEF OnceInv
<1>5. CASE ~Repeat(p) /\ rows' = Append(rows, NewRow(p, m))
  <2> DEFINE n == Len(rows) + 1
  <2>1. /\ DOMAIN rows' = DOMAIN rows \cup {n} /\ n \notin DOMAIN rows
        /\ \A i \in DOMAIN rows : rows'[i] = rows[i]
        /\ rows'[n] = NewRow(p, m)
    BY <1>1, <1>5, NewRowType, LogRows
  <2> HIDE DEF n
  <2>2. bodySeen[BodyKey(p)] = 0 /\ bodySeen'[BodyKey(p)] = BodyWindow
    BY <1>3, <1>5, KeysOfPackets, MarksOutlast DEF Repeat
  <2>3. rows'[n].key = BodyKey(p) /\ rows'[n].fresh = BodyWindow
    BY <2>1, KeysOfPackets DEF NewRow
  <2>4. ASSUME NEW i \in DOMAIN rows, rows[i].key = BodyKey(p) PROVE rows[i].fresh = 0
    BY <1>2, <2>2, <2>4 DEF OnceInv, FreshIsMarked
  <2>5. NothingTwice'
    BY <2>1, <2>3, <2>4 DEF OnceInv, NothingTwice
  <2>6. ASSUME NEW i \in DOMAIN rows' PROVE rows'[i].fresh <= bodySeen'[rows'[i].key]
    <3>1. CASE i = n
      BY <1>1, <2>2, <2>3, <3>1
    <3>2. CASE i \in DOMAIN rows
      BY <1>2, <1>3, <2>1, <3>2 DEF OnceInv, FreshIsMarked
    <3> QED
      BY <2>1, <2>6, <3>1, <3>2
  <2> QED
    BY <2>5, <2>6 DEF OnceInv, FreshIsMarked
<1>6. CASE UNCHANGED rows
  BY <1>4, <1>6 DEF SameKeys
<1>7. CASE HasRow(RowKey(p)) /\ rows' = [rows EXCEPT ![LastRow(RowKey(p))].via = @ \cup {m}]
  <2>1. LastRow(RowKey(p)) \in DOMAIN rows
    BY <1>1, <1>7, KeysOfPackets, LastRowIs DEF IsLast
  <2> QED
    BY <1>1, <1>4, <1>7, <2>1, MergeRows
<1> QED
  BY <1>5, <1>6, <1>7, TakeRows

LEMMA OnceNext ==
  ASSUME WindowsAssumption, TInv, OnceInv, [Next]_vars PROVE OnceInv'
<1>1. rows \in Seq(Row) /\ bodySeen \in [BodyKeys -> 0..BodyWindow] /\ BodyWindow \in Nat
  BY DEF TInv, TypeOK, Row, WindowsAssumption
<1>2. CASE MessagesSame
  BY <1>2 DEF MessagesSame, OnceInv, NothingTwice, FreshIsMarked
<1>3. ASSUME Tick \/ Restart PROVE OnceInv'
  <2>1. SameKeys /\ AgedRows
    BY <1>1, <1>3, AgeRows
  <2>2. ASSUME NEW i \in DOMAIN rows
        PROVE  /\ rows[i] \in Row /\ rows[i].fresh \in Nat /\ rows[i].key \in BodyKeys
               /\ rows'[i].key = rows[i].key
    <3>1. rows[i] \in Row
      BY <1>1, <2>2, RowsDomain, ElementOfSeq
    <3>2. RowKeys \subseteq BodyKeys
      BY KeysOfPackets DEF RowKeys
    <3> QED
      BY <2>1, <2>2, <3>1, <3>2 DEF Row, SameKeys
  <2>3. ASSUME NEW i \in DOMAIN rows PROVE rows[i].fresh = 0 => rows'[i].fresh = 0
    <3>1. PICK left \in 0..rows[i].fresh : rows'[i] = [rows[i] EXCEPT !.fresh = left]
      BY <2>1, <2>3 DEF AgedRows
    <3>2. rows'[i].fresh = left
      BY <2>2, <3>1 DEF Row
    <3> QED
      BY <3>1, <3>2
  <2>4. NothingTwice'
    BY <2>1, <2>2, <2>3 DEF OnceInv, NothingTwice, SameKeys
  <2>5. ASSUME NEW i \in DOMAIN rows PROVE rows'[i].fresh <= bodySeen'[rows'[i].key]
    <3>1. rows[i].fresh <= bodySeen[rows[i].key] /\ bodySeen[rows[i].key] \in Nat
      BY <1>1, <2>2 DEF OnceInv, FreshIsMarked
    <3>2. CASE Tick
      <4>1. rows'[i] = [rows[i] EXCEPT !.fresh = Less(rows[i].fresh)]
        BY <2>5, <3>2 DEF Tick
      <4>2. rows'[i].fresh = Less(rows[i].fresh)
        BY <2>2, <4>1 DEF Row
      <4>3. bodySeen'[rows[i].key] = Less(bodySeen[rows[i].key])
        BY <2>2, <3>2, MarksNext
      <4>4. Less(rows[i].fresh) <= Less(bodySeen[rows[i].key])
        BY <2>2, <3>1 DEF Less
      <4> QED
        BY <2>2, <4>2, <4>3, <4>4
    <3>3. CASE Restart
      <4>1. rows'[i] = [rows[i] EXCEPT !.fresh = 0]
        BY <2>5, <3>3 DEF Restart
      <4>2. rows'[i].fresh = 0
        BY <2>2, <4>1 DEF Row
      <4>3. bodySeen'[rows[i].key] = 0
        BY <2>2, <3>3 DEF Restart
      <4> QED
        BY <2>2, <4>2, <4>3
    <3> QED
      BY <1>3, <3>2, <3>3
  <2> QED
    BY <2>1, <2>4, <2>5 DEF OnceInv, FreshIsMarked, SameKeys
<1> QED
  BY <1>2, <1>3, OnceTake, MessageSteps DEF TInv

\* No message has two rows written within the body window of one run of the process,
\* whatever ids, relays and media its copies came with (server.go:740-761, 927-941).
THEOREM NothingTwiceHolds == Spec => []NothingTwice
<1> USE WindowsAssumption
<1>1. Init => OnceInv
  <2>1. Init => DOMAIN rows = {}
    BY DEF Init
  <2> QED
    BY <2>1 DEF OnceInv, NothingTwice, FreshIsMarked
<1>2. TInv /\ OnceInv /\ [Next]_vars => OnceInv'
  BY OnceNext
<1>3. OnceInv => NothingTwice
  BY DEF OnceInv
<1> QED
  BY <1>1, <1>2, <1>3, TInvHolds, PTL DEF Spec

-----------------------------------------------------------------------------
(* What was acknowledged is in the database.  A repeat is acknowledged     *)
(* without another look there, so every mark, by the id or without it,     *)
(* must stand for a row, or for one the database refused.                  *)

Accounted(key) == HasRow(key) \/ key \in refused

MarksStand == \A p \in Packets : Repeat(p) => Accounted(RowKey(p))

AckInv == AckedIsStored /\ MarksStand

LEMMA AccountedStays ==
  ASSUME WindowsAssumption, TInv, [Next]_vars, NEW key, Accounted(key) PROVE Accounted(key)'
<1>1. rows \in Seq(Row) /\ Ranked /\ BodyWindow \in Nat
  BY DEF TInv, TypeOK, Row, WindowsAssumption
<1>2. refused \subseteq refused'
  <2>1. CASE MessagesSame
    BY <2>1 DEF MessagesSame
  <2>2. CASE Tick \/ Restart
    BY <2>2 DEF Tick, Restart
  <2>3. ASSUME NEW p \in Packets, NEW m \in Media, Takes(p, m) PROVE refused \subseteq refused'
    BY <2>3 DEF Takes, TakeMessage, Merge, Log
  <2> QED
    BY <2>1, <2>2, <2>3, MessageSteps DEF TInv
<1>3. CASE MessagesSame
  BY <1>2, <1>3 DEF MessagesSame, Accounted, HasRow
<1>4. CASE SameKeys
  BY <1>2, <1>4 DEF SameKeys, Accounted, HasRow
<1>5. CASE Tick \/ Restart
  BY <1>1, <1>4, <1>5, AgeRows
<1>6. ASSUME NEW p \in Packets, NEW m \in Media, Takes(p, m) PROVE Accounted(key)'
  <2>1. CASE UNCHANGED rows
    BY <1>2, <2>1 DEF Accounted, HasRow
  <2>2. CASE rows' = Append(rows, NewRow(p, m))
    BY <1>1, <1>2, <2>2, NewRowType, LogRows DEF Accounted, HasRow
  <2>3. CASE HasRow(RowKey(p)) /\ rows' = [rows EXCEPT ![LastRow(RowKey(p))].via = @ \cup {m}]
    <3>1. LastRow(RowKey(p)) \in DOMAIN rows
      BY <1>1, <2>3, KeysOfPackets, LastRowIs DEF IsLast
    <3> QED
      BY <1>1, <1>4, <2>3, <3>1, MergeRows
  <2> QED
    BY <1>6, <2>1, <2>2, <2>3, TakeRows
<1> QED
  BY <1>3, <1>5, <1>6, MessageSteps DEF TInv

\* A message the loop took is accounted for: an earlier copy was, or a row is written
\* for it now, or refused.
LEMMA TakenIsAccounted ==
  ASSUME WindowsAssumption, TInv, MarksStand, [Next]_vars,
         NEW p \in Packets, NEW m \in Media, Takes(p, m)
  PROVE  Accounted(RowKey(p))'
<1>1. CASE Repeat(p)
  BY <1>1, AccountedStays DEF MarksStand
<1>2. CASE ~Repeat(p) /\ rows' = Append(rows, NewRow(p, m))
  <2>1. rows \in Seq(Row)
    BY DEF TInv, TypeOK, Row
  <2>2. rows'[Len(rows) + 1] = NewRow(p, m) /\ Len(rows) + 1 \in DOMAIN rows'
    BY <1>2, <2>1, NewRowType, LogRows
  <2>3. rows'[Len(rows) + 1].key = RowKey(p)
    BY <2>2 DEF NewRow
  <2> QED
    BY <2>2, <2>3 DEF Accounted, HasRow
<1>3. CASE ~Repeat(p) /\ refused' = refused \cup {RowKey(p)}
  BY <1>3 DEF Accounted
<1> QED
  BY <1>1, <1>2, <1>3 DEF Takes, TakeMessage, Log, NewRow

LEMMA AckNext == ASSUME WindowsAssumption, TInv, AckInv, [Next]_vars PROVE AckInv'
<1>1. /\ IdWindow \in Nat /\ BodyWindow \in Nat
      /\ idSeen \in [IdKeys -> 0..IdWindow] /\ bodySeen \in [BodyKeys -> 0..BodyWindow]
  BY DEF TInv, TypeOK, WindowsAssumption
<1>2. CASE MessagesSame
  BY <1>2 DEF MessagesSame, AckInv, AckedIsStored, MarksStand, Repeat, Accounted, HasRow
<1>3. CASE Tick \/ Restart
  <2>1. ASSUME NEW p \in Packets, Repeat(p)' PROVE Repeat(p)
    <3>1. CASE Tick
      <4>1. /\ idSeen'[IdKey(p)] = Less(idSeen[IdKey(p)])
            /\ bodySeen'[BodyKey(p)] = Less(bodySeen[BodyKey(p)])
        BY <3>1, KeysOfPackets, MarksNext
      <4> QED
        BY <1>1, <2>1, <4>1, KeysOfPackets DEF Repeat, Less
    <3>2. CASE Restart
      BY <2>1, <3>2, KeysOfPackets DEF Restart, Repeat
    <3> QED
      BY <1>3, <3>1, <3>2
  <2>2. MarksStand'
    BY <2>1, AccountedStays DEF AckInv, MarksStand
  <2>3. acked' = acked
    BY <1>3 DEF Tick, Restart
  <2>4. AckedIsStored'
    BY <2>3, AccountedStays DEF AckInv, AckedIsStored, Accounted
  <2> QED
    BY <2>2, <2>4 DEF AckInv
<1>4. ASSUME NEW p \in Packets, NEW m \in Media, Takes(p, m) PROVE AckInv'
  <2>1. Accounted(RowKey(p))'
    BY <1>4, TakenIsAccounted DEF AckInv
  <2>2. acked' \subseteq acked \cup {RowKey(p)}
    BY <1>4 DEF Takes, TakeMessage, Ack
  <2>3. AckedIsStored'
    BY <2>1, <2>2, AccountedStays DEF AckInv, AckedIsStored, Accounted
  <2>4. ASSUME NEW q \in Packets, Repeat(q)' PROVE Accounted(RowKey(q))'
    <3>1. CASE Repeat(q)
      BY <3>1, AccountedStays DEF AckInv, MarksStand
    <3>2. CASE ~Repeat(q)
      <4>1. MarkMessage(p)
        BY <1>4 DEF Takes, TakeMessage
      <4>2. IdKey(q) = IdKey(p) \/ BodyKey(q) = BodyKey(p)
        BY <2>4, <3>2, <4>1, KeysOfPackets, MarksNext DEF Repeat
      <4>3. RowKey(q) = RowKey(p)
        BY <4>2 DEF IdKey, BodyKey, RowKey
      <4> QED
        BY <2>1, <4>3
    <3> QED
      BY <3>1, <3>2
  <2> QED
    BY <2>3, <2>4 DEF AckInv, MarksStand
<1> QED
  BY <1>2, <1>3, <1>4, MessageSteps DEF TInv

\* An acknowledged message is in the database, unless the database refused a row of it
\* (server.go:740-785).
THEOREM AckedIsStoredHolds == Spec => []AckedIsStored
<1> USE WindowsAssumption
<1>1. Init => AckInv
  BY KeysOfPackets DEF Init, AckInv, AckedIsStored, MarksStand, Repeat
<1>2. TInv /\ AckInv /\ [Next]_vars => AckInv'
  BY AckNext
<1>3. AckInv => AckedIsStored
  BY DEF AckInv
<1> QED
  BY <1>1, <1>2, <1>3, TInvHolds, PTL DEF Spec

-----------------------------------------------------------------------------
(* The media a row shows are those its copies came over: the row that is   *)
(* written last is the one that later copies are merged into.              *)

LEMMA ViaNext == ASSUME WindowsAssumption, TInv, ViaIsHonest, [Next]_vars PROVE ViaIsHonest'
<1>1. /\ rows \in Seq(Row) /\ Ranked /\ BodyWindow \in Nat
      /\ copies \in [RowKeys -> SUBSET Media]
  BY DEF TInv, TypeOK, Row, WindowsAssumption
<1>2. CASE MessagesSame
  BY <1>2 DEF MessagesSame, ViaIsHonest, HasRow, LastRow
<1>3. ASSUME NEW key \in RowKeys, HasRow(key) PROVE LastRow(key) \in DOMAIN rows
  BY <1>1, <1>3, LastRowIs DEF IsLast
<1>4. ASSUME SameKeys, \A i \in DOMAIN rows : rows'[i].via = rows[i].via,
             copies' = copies, refused' = refused
      PROVE  ViaIsHonest'
  BY <1>1, <1>3, <1>4, SameLast DEF ViaIsHonest
<1>5. CASE Tick \/ Restart
  <2>1. copies' = copies /\ refused' = refused
    BY <1>5 DEF Tick, Restart
  <2> QED
    BY <1>1, <1>4, <1>5, <2>1, AgeRows
<1>6. ASSUME NEW p \in Packets, NEW m \in Media, Takes(p, m) PROVE ViaIsHonest'
  <2>1. RowKey(p) \in RowKeys
    BY KeysOfPackets
  <2>2. CASE Repeat(p) /\ p.capitals /\ HasRow(RowKey(p))
    <3>1. PICK l \in DOMAIN rows : l = LastRow(RowKey(p))
      BY <1>3, <2>1, <2>2
    <3>2. /\ rows' = [rows EXCEPT ![l].via = @ \cup {m}]
          /\ copies' = [copies EXCEPT ![RowKey(p)] = @ \cup {m}] /\ refused' = refused
      BY <1>6, <2>2, <3>1 DEF Takes, TakeMessage, Merge
    <3>3. /\ rows' \in Seq(Row) /\ SameKeys
          /\ \A i \in DOMAIN rows : rows'[i].via = IF i = l THEN rows[l].via \cup {m}
                                                            ELSE rows[i].via
      BY <1>1, <3>2, MergeRows
    <3>4. ASSUME NEW key \in RowKeys \ refused', HasRow(key)'
          PROVE  rows'[LastRow(key)'].via = copies'[key]
      <4>1. /\ HasRow(key) /\ LastRow(key)' = LastRow(key)
            /\ LastRow(key) \in DOMAIN rows /\ rows[LastRow(key)].via = copies[key]
        BY <1>1, <1>3, <3>2, <3>3, <3>4, SameLast DEF ViaIsHonest
      <4>2. CASE key = RowKey(p)
        BY <1>1, <2>1, <3>1, <3>2, <3>3, <4>1, <4>2
      <4>3. CASE key # RowKey(p)
        <5>1. rows[LastRow(key)].key = key /\ rows[l].key = RowKey(p)
          BY <1>1, <2>1, <2>2, <3>1, <4>1, LastRowIs DEF IsLast
        <5> QED
          BY <1>1, <3>2, <3>3, <4>1, <4>3, <5>1
      <4> QED
        BY <4>2, <4>3
    <3> QED
      BY <3>4 DEF ViaIsHonest
  <2>3. CASE Repeat(p) /\ ~(p.capitals /\ HasRow(RowKey(p)))
    <3>1. /\ rows' = rows /\ refused' = refused
          /\ copies' = copies \/ (p.capitals /\ copies' = [copies EXCEPT ![RowKey(p)] = @ \cup {m}])
      BY <1>6, <2>3 DEF Takes, TakeMessage, Merge
    <3>2. ASSUME NEW key \in RowKeys, HasRow(key) PROVE copies'[key] = copies[key]
      BY <1>1, <2>1, <2>3, <3>1, <3>2
    <3> QED
      BY <3>1, <3>2 DEF ViaIsHonest, HasRow, LastRow
  <2>4. CASE ~Repeat(p)
    <3>1. CASE rows' = Append(rows, NewRow(p, m)) /\ copies' = [copies EXCEPT ![RowKey(p)] = {m}]
               /\ refused' = refused
      <4>1. NewRow(p, m) \in Row /\ NewRow(p, m).key = RowKey(p) /\ NewRow(p, m).via = {m}
        BY NewRowType DEF NewRow
      <4>2. /\ \A i \in DOMAIN rows : rows'[i] = rows[i]
            /\ rows'[Len(rows) + 1] = NewRow(p, m)
        BY <1>1, <3>1, <4>1, LogRows
      <4>3. /\ LastRow(RowKey(p))' = Len(rows) + 1
            /\ \A key \in RowKeys \ {RowKey(p)} :
                 /\ HasRow(key)' <=> HasRow(key)
                 /\ HasRow(key) => LastRow(key)' = LastRow(key)
        <5>1. PICK row \in Row : row = NewRow(p, m)
          BY <4>1
        <5>2. rows' = Append(rows, row) /\ row.key = RowKey(p)
          BY <3>1, <4>1, <5>1
        <5>3. /\ LastRow(row.key)' = Len(rows) + 1
              /\ \A key \in RowKeys \ {row.key} :
                   /\ HasRow(key)' <=> HasRow(key)
                   /\ HasRow(key) => LastRow(key)' = LastRow(key)
          BY <1>1, <5>2, NewLast
        <5> QED
          BY <5>2, <5>3
      <4>4. ASSUME NEW key \in RowKeys \ refused', HasRow(key)'
            PROVE  rows'[LastRow(key)'].via = copies'[key]
        <5>1. CASE key = RowKey(p)
          BY <1>1, <2>1, <3>1, <4>1, <4>2, <4>3, <5>1
        <5>2. CASE key # RowKey(p)
          <6>1. HasRow(key) /\ LastRow(key)' = LastRow(key) /\ LastRow(key) \in DOMAIN rows
            BY <1>3, <4>3, <4>4, <5>2
          <6> QED
            BY <1>1, <3>1, <4>2, <5>2, <6>1 DEF ViaIsHonest
        <5> QED
          BY <5>1, <5>2
      <4> QED
        BY <4>4 DEF ViaIsHonest
    <3>2. CASE UNCHANGED <<rows, copies>> /\ refused \subseteq refused'
      BY <3>2 DEF ViaIsHonest, HasRow, LastRow
    <3> QED
      BY <1>6, <2>4, <3>1, <3>2 DEF Takes, TakeMessage, Log, NewRow
  <2> QED
    BY <2>2, <2>3, <2>4
<1> QED
  BY <1>2, <1>5, <1>6, MessageSteps DEF TInv

\* The latest row of a message shows exactly the media its copies came over since it was
\* written, copies in small letters and refused messages apart (store.go:429-455).
THEOREM ViaIsHonestHolds == Spec => []ViaIsHonest
<1> USE WindowsAssumption
<1>1. Init => ViaIsHonest
  <2>1. Init => DOMAIN rows = {}
    BY DEF Init
  <2> QED
    BY <2>1 DEF ViaIsHonest, HasRow
<1>2. TInv /\ ViaIsHonest /\ [Next]_vars => ViaIsHonest'
  BY ViaNext
<1> QED
  BY <1>1, <1>2, TInvHolds, PTL DEF Spec

-----------------------------------------------------------------------------
(* Only a noisy source is put in time-out.  As many frames as a bucket     *)
(* counts came since it was started, so each has at least as much of its   *)
(* minute left as the bucket has.                                          *)

Counted(bucket, frames) ==
  bucket.left > 0 /\ bucket.count <= Threshold =>
    /\ bucket.left <= Minute
    /\ \A i \in 0..Threshold : i < bucket.count => frames[i] >= bucket.left

CountedInv == \A s \in Sources : Counted(limits[s], offers[s])

Buckets == [count : 0..Threshold + 1, left : Nat]
Trails == [0..Threshold -> 0..Minute]

LEMMA CountedCharge ==
  ASSUME WindowsAssumption, NEW bucket \in Buckets, NEW frames \in Trails, Counted(bucket, frames)
  PROVE  /\ Counted(Charge(bucket), Before(frames))
         /\ ~Blocked(bucket) /\ Blocked(Charge(bucket)) => Before(frames)[Threshold] > 0
<1> USE DEF WindowsAssumption, Buckets, Trails
<1>1. \A i \in 0..Threshold : Before(frames)[i] = IF i = 0 THEN Minute ELSE frames[i - 1]
  BY DEF Before
<1>2. CASE bucket.left = 0
  <2>1. Charge(bucket).count = 1 /\ Charge(bucket).left = Minute
    BY <1>2 DEF Charge
  <2> QED
    BY <1>1, <2>1 DEF Counted, Blocked
<1>3. CASE bucket.left > 0 /\ bucket.count < Threshold
  <2>1. Charge(bucket) = [bucket EXCEPT !.count = bucket.count + 1]
    BY <1>3 DEF Charge
  <2>2. Charge(bucket).count = bucket.count + 1 /\ Charge(bucket).left = bucket.left
    BY <2>1
  <2>3. ASSUME NEW i \in 0..Threshold, i < bucket.count + 1
        PROVE  Before(frames)[i] >= bucket.left
    <3>1. CASE i = 0
      BY <1>1, <1>3, <3>1 DEF Counted
    <3>2. CASE i # 0
      <4>1. i - 1 \in 0..Threshold /\ i - 1 < bucket.count
        BY <2>3, <3>2
      <4>2. frames[i - 1] >= bucket.left
        BY <1>3, <4>1 DEF Counted
      <4> QED
        BY <1>1, <3>2, <4>2
    <3> QED
      BY <3>1, <3>2
  <2> QED
    BY <1>3, <2>2, <2>3 DEF Counted, Blocked
<1>4. CASE bucket.left > 0 /\ bucket.count = Threshold
  <2>1. Charge(bucket).count = Threshold + 1
    BY <1>4 DEF Charge
  <2>2. frames[Threshold - 1] >= bucket.left /\ frames[Threshold - 1] \in Nat
    BY <1>4 DEF Counted
  <2>3. Before(frames)[Threshold] = frames[Threshold - 1]
    <3>1. Threshold \in 0..Threshold /\ Threshold # 0
      OBVIOUS
    <3> QED
      BY <1>1, <3>1
  <2>4. Before(frames)[Threshold] > 0
    BY <1>4, <2>2, <2>3
  <2> QED
    BY <2>1, <2>4 DEF Counted
<1>5. CASE bucket.left > 0 /\ bucket.count > Threshold
  BY <1>5 DEF Charge, Counted, Blocked
<1> QED
  BY <1>2, <1>3, <1>4, <1>5

LEMMA LimitTypes ==
  ASSUME TypeOK, NEW s \in Sources PROVE limits[s] \in Buckets /\ offers[s] \in Trails
BY DEF TypeOK, Buckets, Trails

\* The frame a source offers is charged to it and to nobody else.
LEMMA OfferCharges ==
  ASSUME TypeOK, NEW p \in Packets, Offer(p), NEW s \in Sources
  PROVE  IF s = p.src THEN limits'[s] = Charge(limits[s]) /\ offers'[s] = Before(offers[s])
                      ELSE limits'[s] = limits[s] /\ offers'[s] = offers[s]
BY DEF Offer, TypeOK

LEMMA AgedLimits ==
  ASSUME WindowsAssumption, TypeOK, Tick, NEW s \in Sources
  PROVE  /\ limits'[s].count = limits[s].count /\ limits'[s].left = Less(limits[s].left)
         /\ \A i \in 0..Threshold : offers'[s][i] = Less(offers[s][i])
<1>1. limits[s] \in Buckets /\ offers[s] \in Trails
  BY LimitTypes
<1>2. limits'[s] = [limits[s] EXCEPT !.left = Less(limits[s].left)]
  BY DEF Tick
<1>3. offers'[s] = Older(offers[s])
  BY DEF Tick
<1> QED
  BY <1>1, <1>2, <1>3 DEF Older, Buckets, Trails

LEMMA CountedNext ==
  ASSUME WindowsAssumption, TypeOK, CountedInv, [Next]_vars PROVE CountedInv'
<1>1. ASSUME NEW p \in Packets, Offer(p), NEW s \in Sources PROVE Counted(limits'[s], offers'[s])
  BY <1>1, LimitTypes, OfferCharges, CountedCharge DEF CountedInv
<1>2. ASSUME Tick, NEW s \in Sources PROVE Counted(limits'[s], offers'[s])
  <2>1. /\ limits[s].left \in Nat /\ limits[s].count \in Nat /\ Threshold \in Nat /\ Minute \in Nat
        /\ \A i \in 0..Threshold : offers[s][i] \in Nat
    BY LimitTypes, SMTT(20) DEF Buckets, Trails, WindowsAssumption
  <2>2. /\ limits'[s].count = limits[s].count /\ limits'[s].left = Less(limits[s].left)
        /\ \A i \in 0..Threshold : offers'[s][i] = Less(offers[s][i])
    BY <1>2, AgedLimits
  <2>3. Counted(limits[s], offers[s])
    BY DEF CountedInv
  <2> QED
    BY <2>1, <2>2, <2>3 DEF Counted, Less
<1>3. ASSUME Restart, NEW s \in Sources PROVE Counted(limits'[s], offers'[s])
  BY <1>3 DEF Restart, Counted
<1>4. CASE UNCHANGED <<limits, offers>>
  BY <1>4 DEF CountedInv
<1> QED
  BY <1>1, <1>2, <1>3, <1>4, LimitSteps DEF CountedInv

LEMMA NoisyStep ==
  ASSUME WindowsAssumption, TypeOK, CountedInv, [Next]_vars PROVE [OnlyTheNoisy]_vars
<1>1. SUFFICES ASSUME NEW s \in Sources, ~Blocked(limits[s]), Blocked(limits'[s])
               PROVE  offers'[s][Threshold] > 0
  BY DEF OnlyTheNoisy
<1>2. limits[s] \in Buckets /\ offers[s] \in Trails /\ Counted(limits[s], offers[s])
  BY LimitTypes DEF CountedInv
<1>3. ASSUME NEW p \in Packets, Offer(p) PROVE offers'[s][Threshold] > 0
  <2>1. limits'[s] = Charge(limits[s]) /\ offers'[s] = Before(offers[s])
    BY <1>1, <1>3, OfferCharges
  <2> QED
    BY <1>1, <1>2, <2>1, CountedCharge
<1>4. ~Tick
  <2>1. Tick => limits'[s].count = limits[s].count /\ limits'[s].left = Less(limits[s].left)
    BY AgedLimits
  <2> QED
    BY <1>1, <1>2, <2>1 DEF Blocked, Less, Buckets
<1>5. ~Restart
  BY <1>1 DEF Restart, Blocked
<1>6. ~UNCHANGED <<limits, offers>>
  BY <1>1
<1> QED
  BY <1>3, <1>4, <1>5, <1>6, LimitSteps

\* A source is put in time-out only for a frame that makes more than the threshold
\* within one minute (ratelimit_source.go:34-104).
THEOREM OnlyTheNoisyIsBlockedHolds == Spec => OnlyTheNoisyIsBlocked
<1> USE WindowsAssumption
<1>1. Init => CountedInv
  BY DEF Init, CountedInv, Counted
<1>2. TypeOK /\ CountedInv /\ [Next]_vars => CountedInv'
  BY CountedNext
<1>3. TypeOK /\ CountedInv /\ [Next]_vars => [OnlyTheNoisy]_vars
  BY NoisyStep
<1> QED
  BY <1>1, <1>2, <1>3, TypeCorrect, PTL DEF Spec, OnlyTheNoisyIsBlocked

-----------------------------------------------------------------------------
(* The webhooks: counting jobs on the channel and at work.                 *)

One(job, n) == IF job.name = n THEN 1 ELSE 0

Places(s, n) == {i \in DOMAIN s : s[i].name = n}

LEMMA NamedType ==
  ASSUME NEW s \in Seq(Jobs), NEW n
  PROVE  IsFiniteSet(Places(s, n)) /\ Named(s, n) \in Nat /\ Named(s, n) = Cardinality(Places(s, n))
<1>1. IsFiniteSet(1..Len(s)) /\ DOMAIN s = 1..Len(s)
  BY FS_Interval
<1>2. Places(s, n) \in SUBSET (1..Len(s))
  BY <1>1 DEF Places
<1>3. IsFiniteSet(Places(s, n))
  BY <1>1, <1>2, FS_Subset
<1> QED
  BY <1>3, FS_CardinalityType DEF Named, Places

LEMMA NamedAppend ==
  ASSUME NEW s \in Seq(Jobs), NEW job \in Jobs, NEW n
  PROVE  Named(Append(s, job), n) = Named(s, n) + One(job, n)
<1> DEFINE t == Append(s, job)
<1>1. /\ t \in Seq(Jobs) /\ DOMAIN t = 1..(Len(s) + 1) /\ DOMAIN s = 1..Len(s) /\ Len(s) \in Nat
      /\ t[Len(s) + 1] = job /\ \A i \in 1..Len(s) : t[i] = s[i]
  OBVIOUS
<1>2. Places(t, n) = IF job.name = n THEN Places(s, n) \cup {Len(s) + 1} ELSE Places(s, n)
  BY <1>1 DEF Places
<1>3. Len(s) + 1 \notin Places(s, n)
  BY <1>1 DEF Places
<1>4. /\ IsFiniteSet(Places(s, n)) /\ Named(s, n) \in Nat
      /\ Named(s, n) = Cardinality(Places(s, n)) /\ Named(t, n) = Cardinality(Places(t, n))
  BY <1>1, NamedType
<1>5. Cardinality(Places(s, n) \cup {Len(s) + 1}) = Named(s, n) + 1
  BY <1>3, <1>4, FS_AddElement
<1> HIDE DEF t
<1>6. CASE job.name = n
  BY <1>2, <1>4, <1>5, <1>6 DEF One, t
<1>7. CASE job.name # n
  BY <1>2, <1>4, <1>7 DEF One, t
<1> QED
  BY <1>6, <1>7

LEMMA NamedTail ==
  ASSUME NEW s \in Seq(Jobs), s # <<>>, NEW n
  PROVE  Named(s, n) = Named(Tail(s), n) + One(Head(s), n)
<1> DEFINE t == Tail(s)
<1>1. /\ t \in Seq(Jobs) /\ DOMAIN t = 1..(Len(s) - 1) /\ DOMAIN s = 1..Len(s) /\ Len(s) \in Nat \ {0}
      /\ Head(s) = s[1] /\ \A i \in 1..(Len(s) - 1) : t[i] = s[i + 1]
  OBVIOUS
<1> DEFINE Later == Places(s, n) \ {1}
           shift == [i \in Places(t, n) |-> i + 1]
<1>2. shift \in Bijection(Places(t, n), Later)
  <2>1. \A i \in Places(t, n) : i \in Nat \ {0} /\ i + 1 \in Later
    BY <1>1 DEF Places
  <2>2. shift \in Injection(Places(t, n), Later)
    BY <2>1 DEF Injection, IsInjective
  <2>3. \A j \in Later : j - 1 \in Places(t, n) /\ j = shift[j - 1]
    BY <1>1 DEF Places
  <2>4. shift \in Surjection(Places(t, n), Later)
    BY <2>1, <2>3 DEF Surjection
  <2> QED
    BY <2>2, <2>4 DEF Bijection
<1> HIDE DEF t, Later, shift
<1>3. /\ IsFiniteSet(Places(s, n)) /\ IsFiniteSet(Places(t, n)) /\ Named(t, n) \in Nat
      /\ Named(s, n) \in Nat
      /\ Named(s, n) = Cardinality(Places(s, n)) /\ Named(t, n) = Cardinality(Places(t, n))
  BY <1>1, NamedType
<1>5. ExistsBijection(Places(t, n), Later)
  BY <1>2 DEF ExistsBijection
<1>6. Cardinality(Later) = Named(t, n)
  BY <1>3, <1>5, FS_Bijection
<1>4. 1 \in Places(s, n) <=> Head(s).name = n
  BY <1>1 DEF Places
<1>7. Cardinality(Later) = IF 1 \in Places(s, n) THEN Named(s, n) - 1 ELSE Named(s, n)
  BY <1>3, FS_RemoveElement DEF Later
<1> QED
  BY <1>3, <1>4, <1>6, <1>7 DEF One, t

LEMMA WorkersFinite ==
  ASSUME WebhookAssumption, NEW W \in SUBSET Workers
  PROVE  IsFiniteSet(W) /\ Cardinality(W) \in Nat
<1>1. MaxPanics \in Int /\ PoolSize \in Int /\ 0 \in Int /\ 1 \in Int
  BY DEF WebhookAssumption
<1>2. IsFiniteSet(0..MaxPanics)
  BY <1>1, FS_Interval
<1>3. IsFiniteSet(1..PoolSize)
  BY <1>1, FS_Interval
<1>4. IsFiniteSet(Workers)
  BY <1>2, <1>3, FS_Product DEF Workers
<1>5. IsFiniteSet(W)
  BY <1>4, FS_Subset
<1> QED
  BY <1>5, FS_CardinalityType

LEMMA AtWorkType ==
  ASSUME WebhookAssumption, NEW n
  PROVE  IsFiniteSet(AtWork(n)) /\ Cardinality(AtWork(n)) \in Nat
<1>1. AtWork(n) \in SUBSET Workers
  BY DEF AtWork
<1> QED
  BY <1>1, WorkersFinite

\* What a worker that takes a job, or is done with one, adds to those at work or takes away.
Becomes(w, state) == worker' = [worker EXCEPT ![w] = state]

LEMMA AtWorkSteps ==
  ASSUME WebhookAssumption, WebhookTypeOK, NEW w \in Workers, NEW state, Becomes(w, state), NEW n
  PROVE  /\ (~Busy(w) /\ state.is \in {"trying", "waiting"})
              => Cardinality(AtWork(n)') = Cardinality(AtWork(n)) + One(state.job, n)
         /\ (Busy(w) /\ state.is \notin {"trying", "waiting"})
              => Cardinality(AtWork(n)) = Cardinality(AtWork(n)') + One(worker[w].job, n)
         /\ (Busy(w) /\ state.is \in {"trying", "waiting"} /\ state.job = worker[w].job)
              => AtWork(n)' = AtWork(n)
         /\ (~Busy(w) /\ state.is \notin {"trying", "waiting"}) => AtWork(n)' = AtWork(n)
<1>1. worker'[w] = state /\ \A v \in Workers \ {w} : worker'[v] = worker[v]
  BY DEF Becomes, WebhookTypeOK
<1>2. AtWork(n)' = (AtWork(n) \ {w}) \cup
                   (IF state.is \in {"trying", "waiting"} /\ state.job.name = n THEN {w} ELSE {})
  BY <1>1 DEF AtWork, Busy
<1>3. w \in AtWork(n) <=> Busy(w) /\ worker[w].job.name = n
  BY DEF AtWork
<1>4. CASE ~Busy(w) /\ state.is \in {"trying", "waiting"}
  <2>1. AtWork(n)' = IF state.job.name = n THEN AtWork(n) \cup {w} ELSE AtWork(n)
    BY <1>2, <1>3, <1>4
  <2>2. IsFiniteSet(AtWork(n)) /\ Cardinality(AtWork(n)) \in Nat /\ w \notin AtWork(n)
    BY <1>3, <1>4, AtWorkType
  <2>3. Cardinality(AtWork(n) \cup {w}) = Cardinality(AtWork(n)) + 1
    BY <2>2, FS_AddElement
  <2> QED
    BY <1>4, <2>1, <2>2, <2>3 DEF One
<1>5. CASE Busy(w) /\ state.is \notin {"trying", "waiting"}
  <2>1. AtWork(n)' = AtWork(n) \ {w}
    BY <1>2, <1>5
  <2>2. IsFiniteSet(AtWork(n)) /\ Cardinality(AtWork(n)) \in Nat
    BY AtWorkType
  <2>3. Cardinality(AtWork(n) \ {w}) =
          IF w \in AtWork(n) THEN Cardinality(AtWork(n)) - 1 ELSE Cardinality(AtWork(n))
    BY <2>2, FS_RemoveElement
  <2> QED
    BY <1>3, <1>5, <2>1, <2>2, <2>3 DEF One
<1>6. CASE Busy(w) /\ state.is \in {"trying", "waiting"} /\ state.job = worker[w].job
  BY <1>2, <1>3, <1>6
<1>7. CASE ~Busy(w) /\ state.is \notin {"trying", "waiting"}
  BY <1>2, <1>3, <1>7
<1> QED
  BY <1>4, <1>5, <1>6, <1>7

-----------------------------------------------------------------------------
(* The webhooks: type correctness.                                         *)

\* The pool of a Run that is still to come has no workers.
PoolInv == \A w \in Workers : w[1] > panics => worker[w] = Off

HookInv == WebhookTypeOK /\ PoolInv

LEMMA QueueTails ==
  ASSUME NEW S, NEW s \in Seq(S), s # <<>>
  PROVE  Head(s) \in S /\ Tail(s) \in Seq(S) /\ Len(Tail(s)) <= Len(s)
OBVIOUS

LEMMA CountUp ==
  ASSUME NEW f \in [Names -> Nat], NEW n \in Names
  PROVE  [f EXCEPT ![n] = @ + 1] \in [Names -> Nat]
OBVIOUS

LEMMA HooksNamed == \A wh \in Hooks : wh.name \in Names
BY DEF Names

LEMMA ConfigType ==
  ASSUME WebhookAssumption, hooks \in Configs, NEW p \in Traffic
  PROVE  [i \in DOMAIN hooks |-> [hook |-> hooks[i], pkt |-> p]] \in Seq([hook : Hooks, pkt : Traffic])
<1>1. hooks \in Seq(Hooks) /\ DOMAIN hooks = 1..Len(hooks) /\ Len(hooks) \in Nat
  BY DEF WebhookAssumption
<1>2. \A i \in 1..Len(hooks) : [hook |-> hooks[i], pkt |-> p] \in [hook : Hooks, pkt : Traffic]
  BY <1>1
<1> QED
  BY <1>1, <1>2

\* What the workers' states are, by their kind.
LEMMA WorkerKinds ==
  ASSUME WebhookAssumption, WebhookTypeOK, NEW w \in Workers
  PROVE  /\ Busy(w) => /\ worker[w].job \in Jobs /\ worker[w].job.name \in Names
                       /\ worker[w].attempt \in 1..MaxAttempts
         /\ worker[w].is = "waiting" => worker[w].attempt + 1 \in 1..MaxAttempts
         /\ ~Busy(w) => worker[w] \in {Off, Idle}
         /\ Off \in WorkerStates /\ Idle \in WorkerStates
         /\ \A job \in Jobs, attempt \in 1..MaxAttempts :
              Trying(job, attempt) \in WorkerStates /\ Waiting(job, attempt) \in WorkerStates
         /\ \A job, attempt :
              /\ Trying(job, attempt).is = "trying" /\ Trying(job, attempt).job = job
              /\ Waiting(job, attempt).is = "waiting" /\ Waiting(job, attempt).job = job
              /\ Waiting(job, attempt).attempt = attempt
         /\ Off.is = "off" /\ Idle.is = "idle"
<1>1. worker[w] \in WorkerStates
  BY DEF WebhookTypeOK
<1>2. worker[w].is = "waiting" => worker[w].attempt < MaxAttempts
  BY DEF WebhookTypeOK
<1>3. MaxAttempts \in Nat \ {0}
  BY DEF WebhookAssumption
<1> QED
  BY <1>1, <1>2, <1>3 DEF WorkerStates, Busy, Jobs, Off, Idle, Trying, Waiting

LEMMA BecomesType ==
  ASSUME WebhookAssumption, HookInv, NEW w \in Workers, worker[w] # Off, panics' = panics,
         NEW state \in WorkerStates, Becomes(w, state),
         state.is = "waiting" => state.attempt < MaxAttempts
  PROVE  /\ worker' \in [Workers -> WorkerStates]
         /\ \A v \in Workers : worker'[v].is = "waiting" => worker'[v].attempt < MaxAttempts
         /\ PoolInv'
BY DEF HookInv, WebhookTypeOK, PoolInv, Becomes

LEMMA EnqueueType ==
  ASSUME WebhookAssumption, WebhookTypeOK, NEW job \in Jobs, EnqueueOrDrop(job)
  PROVE  jobs' \in Seq(Jobs) /\ Len(jobs') <= QueueDepth /\ failed' \in [Names -> Nat]
<1>1. /\ job.name \in Names /\ failed \in [Names -> Nat] /\ QueueDepth \in Nat
      /\ jobs \in Seq(Jobs) /\ Len(jobs) <= QueueDepth
  BY DEF Jobs, WebhookTypeOK, WebhookAssumption
<1>2. CASE Len(jobs) < QueueDepth
  <2>1. jobs' = Append(jobs, job) /\ failed' = failed
    BY <1>2 DEF EnqueueOrDrop
  <2> QED
    BY <1>1, <1>2, <2>1
<1>3. CASE ~(Len(jobs) < QueueDepth)
  <2>1. jobs' = jobs /\ failed' = [failed EXCEPT ![job.name] = @ + 1]
    BY <1>3 DEF EnqueueOrDrop
  <2> QED
    BY <1>1, <2>1, CountUp
<1> QED
  BY <1>2, <1>3

LEMMA HookNext == ASSUME WebhookAssumption, HookInv, [WebhookNext]_webhookVars PROVE HookInv'
<1> USE WebhookAssumption
<1>1. WebhookTypeOK /\ PoolInv
  BY DEF HookInv
<1>2. ASSUME NEW p \in Traffic, PublishToRun(p) PROVE HookInv'
  <2>1. feed' \in Seq(Traffic) /\ Len(feed') <= RunBuffer /\ handled' \in 0..MaxPackets
    BY <1>1, <1>2, SMTT(20) DEF PublishToRun, WebhookTypeOK, WebhookAssumption
  <2> QED
    BY <1>1, <1>2, <2>1 DEF PublishToRun, WebhookTypeOK, PoolInv, HookInv
<1>3. ASSUME NEW config \in Configs, SaveWebhooks(config) PROVE HookInv'
  <2>1. saves' \in 0..MaxSaves
    BY <1>1, <1>3, SMTT(20) DEF SaveWebhooks, WebhookTypeOK, WebhookAssumption
  <2> QED
    BY <1>1, <1>3, <2>1 DEF SaveWebhooks, WebhookTypeOK, PoolInv, HookInv
<1>4. CASE Dispatch
  <2>1. Head(feed) \in Traffic /\ feed' \in Seq(Traffic) /\ Len(feed') <= RunBuffer
    BY <1>1, <1>4, QueueTails DEF Dispatch, WebhookTypeOK, WebhookAssumption
  <2>2. hand' \in Seq([hook : Hooks, pkt : Traffic])
    BY <1>1, <1>4, <2>1, ConfigType DEF Dispatch, WebhookTypeOK
  <2> QED
    BY <1>1, <1>4, <2>1, <2>2 DEF Dispatch, bounds, WebhookTypeOK, PoolInv, HookInv
<1>5. CASE TryWebhook
  <2>1. Head(hand) \in [hook : Hooks, pkt : Traffic]
        /\ hand' \in Seq([hook : Hooks, pkt : Traffic])
    BY <1>1, <1>5, QueueTails DEF TryWebhook, WebhookTypeOK
  <2> DEFINE wh == Head(hand).hook
             job == [name |-> wh.name, pkt |-> Head(hand).pkt]
  <2>2. wh \in Hooks /\ wh.name \in Names /\ job \in Jobs
    BY <2>1, HooksNamed DEF Jobs
  <2>3. [matched EXCEPT ![wh.name] = @ + 1] \in [Names -> Nat]
    BY <1>1, <2>2, CountUp DEF WebhookTypeOK
  <2>4. /\ matched' \in [Names -> Nat] /\ failed' \in [Names -> Nat]
        /\ jobs' \in Seq(Jobs) /\ Len(jobs') <= QueueDepth
    <3>1. CASE wh.enabled /\ Match(wh, Head(hand).pkt)
      BY <1>1, <1>5, <2>2, <2>3, <3>1, EnqueueType DEF TryWebhook
    <3>2. CASE ~(wh.enabled /\ Match(wh, Head(hand).pkt))
      BY <1>1, <1>5, <3>2 DEF TryWebhook, WebhookTypeOK
    <3> QED
      BY <3>1, <3>2
  <2> QED
    BY <1>1, <1>5, <2>1, <2>4 DEF TryWebhook, bounds, WebhookTypeOK, PoolInv, HookInv
<1>6. CASE Panic
  <2>1. panics' \in 0..MaxPanics /\ panics' = panics + 1 /\ panics \in Nat
    BY <1>1, <1>6, SMTT(20) DEF Panic, WebhookTypeOK, WebhookAssumption
  <2>2. worker' \in [Workers -> WorkerStates]
    BY <1>1, <1>6 DEF Panic, WebhookTypeOK, WorkerStates
  <2>3. \A w \in Workers : w[1] \in 0..MaxPanics
    BY DEF Workers
  <2>4. PoolInv'
    BY <1>1, <1>6, <2>1, <2>3 DEF Panic, PoolInv
  <2>5. \A w \in Workers : worker'[w].is = "waiting" => worker'[w].attempt < MaxAttempts
    BY <1>1, <1>6 DEF Panic, WebhookTypeOK, Idle
  <2>6. feed' \in Seq(Traffic) /\ Len(feed') <= RunBuffer
        /\ hand' \in Seq([hook : Hooks, pkt : Traffic]) /\ run' \in {"on", "stopping", "returned"}
    BY <1>6 DEF Panic, WebhookAssumption
  <2> QED
    BY <1>1, <1>6, <2>1, <2>2, <2>4, <2>5, <2>6 DEF Panic, WebhookTypeOK, HookInv
<1>7. CASE Stop
  BY <1>1, <1>7 DEF Stop, bounds, WebhookTypeOK, PoolInv, HookInv
<1>8. CASE Return
  <2>1. feed' \in Seq(Traffic) /\ Len(feed') <= RunBuffer
    BY <1>8 DEF Return, WebhookAssumption
  <2> QED
    BY <1>1, <1>8, <2>1 DEF Return, bounds, WebhookTypeOK, PoolInv, HookInv
<1>9. CASE Abandon
  <2>1. lost' \in [Names -> Nat]
    <3>1. lost \in [Names -> Nat] /\ \A n \in Names : Named(jobs, n) \in Nat
      BY <1>1, NamedType DEF WebhookTypeOK
    <3> QED
      BY <1>9, <3>1 DEF Abandon
  <2>2. jobs' \in Seq(Jobs) /\ Len(jobs') <= QueueDepth
    BY <1>9 DEF Abandon, WebhookAssumption
  <2> QED
    BY <1>1, <1>9, <2>1, <2>2 DEF Abandon, bounds, WebhookTypeOK, PoolInv, HookInv
<1>10. ASSUME NEW w \in Workers, Take(w) PROVE HookInv'
  <2>1. Head(jobs) \in Jobs /\ jobs' \in Seq(Jobs) /\ Len(jobs') <= QueueDepth
    BY <1>1, <1>10, QueueTails DEF Take, WebhookTypeOK, WebhookAssumption
  <2>2. Trying(Head(jobs), 1) \in WorkerStates /\ Trying(Head(jobs), 1).is # "waiting"
    BY <1>1, <2>1, WorkerKinds DEF WebhookAssumption
  <2>3. Becomes(w, Trying(Head(jobs), 1)) /\ worker[w] # Off
    BY <1>10 DEF Take, Becomes, Idle, Off
  <2> QED
    BY <1>1, <1>10, <2>1, <2>2, <2>3, BecomesType DEF Take, bounds, WebhookTypeOK, HookInv
<1>11. ASSUME NEW w \in Workers, Delivered(w) \/ GiveUp(w) PROVE HookInv'
  <2>1. Busy(w) /\ worker[w].job.name \in Names
    BY <1>1, <1>11, WorkerKinds DEF Delivered, GiveUp, Busy
  <2>2. sent' \in [Names -> Nat] /\ lost' \in [Names -> Nat]
    <3>1. sent \in [Names -> Nat] /\ lost \in [Names -> Nat]
      BY <1>1 DEF WebhookTypeOK
    <3>2. CASE Delivered(w)
      BY <2>1, <3>1, <3>2, CountUp DEF Delivered
    <3>3. CASE GiveUp(w)
      BY <2>1, <3>1, <3>3, CountUp DEF GiveUp
    <3> QED
      BY <1>11, <3>2, <3>3
  <2>3. Becomes(w, Idle) /\ worker[w] # Off /\ Idle \in WorkerStates /\ Idle.is # "waiting"
    BY <1>11 DEF Delivered, GiveUp, Becomes, Idle, Off, WorkerStates
  <2>4. /\ UNCHANGED <<hooks, feed, hand, jobs, failed, run, bounds, matched>>
    BY <1>11 DEF Delivered, GiveUp
  <2> QED
    BY <1>1, <2>2, <2>3, <2>4, BecomesType DEF bounds, WebhookTypeOK, HookInv
<1>12. ASSUME NEW w \in Workers, Refused(w) PROVE HookInv'
  <2> DEFINE job == worker[w].job  attempt == worker[w].attempt
  <2>1. Busy(w) /\ job \in Jobs /\ job.name \in Names /\ attempt \in 1..MaxAttempts
    BY <1>1, <1>12, WorkerKinds DEF Refused, Busy
  <2>2. worker[w] # Off
    BY <1>12 DEF Refused, Off
  <2>3. CASE attempt < MaxAttempts
    <3>1. /\ Waiting(job, attempt) \in WorkerStates /\ Waiting(job, attempt).attempt = attempt
          /\ Becomes(w, Waiting(job, attempt)) /\ UNCHANGED failed
      BY <1>1, <1>12, <2>1, <2>3, WorkerKinds DEF Refused, Becomes
    <3> QED
      BY <1>1, <1>12, <2>2, <2>3, <3>1, BecomesType DEF Refused, bounds, WebhookTypeOK, HookInv
  <2>4. CASE ~(attempt < MaxAttempts)
    <3>1. Becomes(w, Idle) /\ failed' = [failed EXCEPT ![job.name] = @ + 1]
      BY <1>12, <2>4 DEF Refused, Becomes
    <3>2. failed' \in [Names -> Nat] /\ Idle \in WorkerStates /\ Idle.is # "waiting"
      BY <1>1, <2>1, <3>1, CountUp DEF WebhookTypeOK, WorkerStates, Idle
    <3> QED
      BY <1>1, <1>12, <2>2, <3>1, <3>2, BecomesType DEF Refused, bounds, WebhookTypeOK, HookInv
  <2> QED
    BY <2>3, <2>4
<1>13. ASSUME NEW w \in Workers, TryAgain(w) PROVE HookInv'
  <2> DEFINE state == Trying(worker[w].job, worker[w].attempt + 1)
  <2>1. state \in WorkerStates /\ state.is # "waiting" /\ worker[w] # Off /\ Becomes(w, state)
    <3>1. Busy(w) /\ worker[w].job \in Jobs /\ worker[w].attempt + 1 \in 1..MaxAttempts
      BY <1>1, <1>13, WorkerKinds DEF TryAgain, Busy
    <3>2. state \in WorkerStates /\ state.is = "trying"
      BY <1>1, <3>1, WorkerKinds, SMTT(20)
    <3> QED
      BY <1>13, <3>2 DEF TryAgain, Becomes, Off
  <2> QED
    BY <1>1, <1>13, <2>1, BecomesType DEF TryAgain, bounds, WebhookTypeOK, HookInv
<1>14. ASSUME NEW w \in Workers, Exit(w) PROVE HookInv'
  <2>1. /\ Becomes(w, Off) /\ worker[w] # Off /\ Off \in WorkerStates /\ Off.is # "waiting"
    BY <1>14 DEF Exit, Becomes, Idle, Off, WorkerStates
  <2> QED
    BY <1>1, <1>14, <2>1, BecomesType DEF Exit, bounds, WebhookTypeOK, HookInv
<1>15. CASE UNCHANGED webhookVars
  BY <1>1, <1>15 DEF webhookVars, bounds, WebhookTypeOK, PoolInv, HookInv
<1> QED
  BY <1>2, <1>3, <1>4, <1>5, <1>6, <1>7, <1>8, <1>9, <1>10, <1>11, <1>12, <1>13, <1>14, <1>15
     DEF WebhookNext

\* Whatever the operator saves, however often Run panics, and through a shutdown, every value
\* keeps its type, and a pool that is still to be started has no worker (Manager.Run).
THEOREM HookInvHolds == WebhookSpec => []HookInv
<1>1. ASSUME WebhookAssumption, WebhookInit PROVE HookInv
  <2>1. worker \in [Workers -> WorkerStates]
    BY <1>1 DEF WebhookInit, WorkerStates
  <2>2. \A w \in Workers : worker[w].is # "waiting"
    BY <1>1 DEF WebhookInit, Idle, Off
  <2>3. PoolInv
    BY <1>1 DEF WebhookInit, PoolInv, Workers
  <2>4. Zero \in [Names -> Nat]
    BY DEF Zero
  <2>5. {MaxPackets, MaxSaves, MaxPanics, RunBuffer, QueueDepth} \subseteq Nat
    BY <1>1 DEF WebhookAssumption
  <2>6. {sent, failed, matched, lost} \subseteq [Names -> Nat]
    BY <1>1, <2>4 DEF WebhookInit
  <2>7. /\ feed = <<>> /\ hand = <<>> /\ jobs = <<>> /\ hooks \in Configs /\ run = "on"
        /\ handled = 0 /\ saves = 0 /\ panics = 0
    BY <1>1 DEF WebhookInit
  <2> QED
    BY <2>1, <2>2, <2>3, <2>5, <2>6, <2>7 DEF WebhookTypeOK, HookInv
<1> QED
  BY <1>1, HookNext, WebhookAssumption, PTL DEF WebhookSpec

-----------------------------------------------------------------------------
(* The webhooks: every event is accounted for.                             *)

Balance(n) == matched[n] = sent[n] + failed[n] + UnderWay(n) + lost[n]

LEMMA Numbers ==
  ASSUME WebhookAssumption, WebhookTypeOK, NEW n \in Names
  PROVE  /\ matched[n] \in Nat /\ sent[n] \in Nat /\ failed[n] \in Nat /\ lost[n] \in Nat
         /\ Named(jobs, n) \in Nat /\ Cardinality(AtWork(n)) \in Nat
<1>1. {sent, failed, matched, lost} \subseteq [Names -> Nat] /\ jobs \in Seq(Jobs)
  BY DEF WebhookTypeOK
<1>2. matched[n] \in Nat /\ sent[n] \in Nat /\ failed[n] \in Nat /\ lost[n] \in Nat
  BY <1>1
<1> QED
  BY <1>1, <1>2, NamedType, AtWorkType

LEMMA OneType == \A job, n : One(job, n) \in Nat
BY DEF One

LEMMA CountedUp ==
  ASSUME NEW f \in [Names -> Nat], NEW job, job.name \in Names, NEW n \in Names
  PROVE  [f EXCEPT ![job.name] = @ + 1][n] = f[n] + One(job, n)
BY DEF One

LEMMA BalanceNext ==
  ASSUME WebhookAssumption, HookInv, HookInv', NEW n \in Names, Balance(n),
         [WebhookNext]_webhookVars
  PROVE  Balance(n)'
<1>1. /\ WebhookTypeOK /\ WebhookTypeOK' /\ PoolInv /\ jobs \in Seq(Jobs)
      /\ sent \in [Names -> Nat] /\ failed \in [Names -> Nat]
      /\ matched \in [Names -> Nat] /\ lost \in [Names -> Nat]
  BY DEF HookInv, WebhookTypeOK
<1>2. /\ matched[n] \in Nat /\ sent[n] \in Nat /\ failed[n] \in Nat /\ lost[n] \in Nat
      /\ Named(jobs, n) \in Nat /\ Cardinality(AtWork(n)) \in Nat
  BY <1>1, Numbers
<1>3. Cardinality(AtWork(n)') \in Nat
  <2>1. AtWork(n)' \in SUBSET Workers
    BY DEF AtWork
  <2> QED
    BY <2>1, WorkersFinite
<1>4. matched[n] = sent[n] + failed[n] + Named(jobs, n) + Cardinality(AtWork(n)) + lost[n]
  BY <1>2 DEF Balance, UnderWay
<1>5. SUFFICES matched'[n] =
        sent'[n] + failed'[n] + (Named(jobs', n) + Cardinality(AtWork(n)')) + lost'[n]
  BY DEF Balance, UnderWay, Named, AtWork, Busy
<1>6. ASSUME UNCHANGED <<jobs, worker, sent, failed, matched, lost>>
      PROVE  matched'[n] =
               sent'[n] + failed'[n] + (Named(jobs', n) + Cardinality(AtWork(n)')) + lost'[n]
  <2>1. AtWork(n)' = AtWork(n)
    BY <1>6 DEF AtWork, Busy
  <2> QED
    BY <1>2, <1>4, <1>6, <2>1
<1>7. CASE TryWebhook
  <2> DEFINE wh == Head(hand).hook
             job == [name |-> wh.name, pkt |-> Head(hand).pkt]
  <2>1. job \in Jobs /\ job.name = wh.name /\ wh.name \in Names
    <3>1. Head(hand) \in [hook : Hooks, pkt : Traffic]
      BY <1>1, <1>7, QueueTails DEF TryWebhook, WebhookTypeOK
    <3> QED
      BY <3>1, HooksNamed DEF Jobs
  <2>2. UNCHANGED <<worker, sent, lost>>
    BY <1>7 DEF TryWebhook
  <2>3. AtWork(n)' = AtWork(n)
    BY <2>2 DEF AtWork, Busy
  <2>4. CASE wh.enabled /\ Match(wh, Head(hand).pkt)
    <3>1. matched' = [matched EXCEPT ![job.name] = @ + 1] /\ EnqueueOrDrop(job)
      BY <1>7, <2>4 DEF TryWebhook
    <3> HIDE DEF wh, job
    <3>2. matched'[n] = matched[n] + One(job, n)
      BY <1>1, <2>1, <3>1, CountedUp
    <3>3. CASE jobs' = Append(jobs, job) /\ UNCHANGED failed
      <4>1. Named(jobs', n) = Named(jobs, n) + One(job, n)
        BY <1>1, <2>1, <3>3, NamedAppend
      <4>2. sent'[n] = sent[n] /\ failed'[n] = failed[n] /\ lost'[n] = lost[n]
        BY <2>2, <3>3
      <4>3. One(job, n) \in Nat
        BY OneType
      <4> QED
        BY ONLY <1>2, <1>4, <2>3, <3>2, <4>1, <4>2, <4>3
    <3>4. CASE failed' = [failed EXCEPT ![job.name] = @ + 1] /\ UNCHANGED jobs
      <4>1. failed'[n] = failed[n] + One(job, n)
        BY <1>1, <2>1, <3>4, CountedUp
      <4>2. sent'[n] = sent[n] /\ jobs' = jobs /\ lost'[n] = lost[n]
        BY <2>2, <3>4
      <4>3. One(job, n) \in Nat
        BY OneType
      <4> QED
        BY ONLY <1>2, <1>4, <2>3, <3>2, <4>1, <4>2, <4>3
    <3> QED
      BY <3>1, <3>3, <3>4 DEF EnqueueOrDrop
  <2>5. CASE ~(wh.enabled /\ Match(wh, Head(hand).pkt))
    <3>1. UNCHANGED <<jobs, failed, matched>>
      BY <1>7, <2>5 DEF TryWebhook
    <3> QED
      BY <1>6, <2>2, <3>1
  <2> QED
    BY <2>4, <2>5
<1>8. CASE Panic
  <2>1. panics \in Nat /\ panics' = panics + 1 /\ UNCHANGED <<jobs, sent, failed, matched, lost>>
    BY <1>1, <1>8 DEF Panic, WebhookTypeOK
  <2>2. \A w \in Workers : worker'[w] # worker[w] => worker[w] = Off /\ worker'[w] = Idle
    BY <1>1, <1>8, <2>1 DEF Panic, PoolInv
  <2>3. AtWork(n)' = AtWork(n)
    BY <2>2 DEF AtWork, Busy, Off, Idle
  <2> QED
    BY <1>2, <1>4, <2>1, <2>3
<1>9. CASE Abandon
  <2>1. UNCHANGED <<worker, sent, failed, matched>> /\ jobs' = <<>>
        /\ lost'[n] = lost[n] + Named(jobs, n)
    BY <1>1, <1>9 DEF Abandon
  <2>2. AtWork(n)' = AtWork(n)
    BY <2>1 DEF AtWork, Busy
  <2>3. Named(jobs', n) = 0
    BY <2>1, FS_EmptySet DEF Named
  <2>4. sent'[n] = sent[n] /\ failed'[n] = failed[n] /\ matched'[n] = matched[n]
    BY <2>1
  <2> QED
    BY ONLY <1>2, <1>4, <2>1, <2>2, <2>3, <2>4
<1>10. ASSUME NEW w \in Workers, Take(w)
       PROVE  matched'[n] =
                sent'[n] + failed'[n] + (Named(jobs', n) + Cardinality(AtWork(n)')) + lost'[n]
  <2> DEFINE state == Trying(Head(jobs), 1)
  <2>1. /\ Becomes(w, state) /\ ~Busy(w) /\ state.is = "trying" /\ state.job = Head(jobs)
        /\ jobs # <<>> /\ jobs' = Tail(jobs) /\ UNCHANGED <<sent, failed, matched, lost>>
    BY <1>10 DEF Take, Becomes, Busy, Idle, Trying
  <2> HIDE DEF state
  <2>2. Cardinality(AtWork(n)') = Cardinality(AtWork(n)) + One(Head(jobs), n)
    BY <1>1, <2>1, AtWorkSteps
  <2>3. Named(jobs, n) = Named(jobs', n) + One(Head(jobs), n) /\ Named(jobs', n) \in Nat
    <3>1. jobs' \in Seq(Jobs)
      BY <1>1 DEF WebhookTypeOK
    <3> QED
      BY <1>1, <2>1, <3>1, NamedTail, NamedType
  <2>4. /\ sent'[n] = sent[n] /\ failed'[n] = failed[n]
        /\ matched'[n] = matched[n] /\ lost'[n] = lost[n]
    BY <2>1
  <2>5. One(Head(jobs), n) \in Nat
    BY OneType
  <2> QED
    BY ONLY <1>2, <1>4, <2>2, <2>3, <2>4, <2>5
\* A worker that is done with its job adds one to one of the three counts.
<1>11. ASSUME NEW w \in Workers, Busy(w), Becomes(w, Idle), UNCHANGED <<jobs, matched>>,
              \/ /\ sent' = [sent EXCEPT ![worker[w].job.name] = @ + 1]
                 /\ UNCHANGED <<failed, lost>>
              \/ /\ failed' = [failed EXCEPT ![worker[w].job.name] = @ + 1]
                 /\ UNCHANGED <<sent, lost>>
              \/ /\ lost' = [lost EXCEPT ![worker[w].job.name] = @ + 1]
                 /\ UNCHANGED <<sent, failed>>
       PROVE  matched'[n] =
                sent'[n] + failed'[n] + (Named(jobs', n) + Cardinality(AtWork(n)')) + lost'[n]
  <2> DEFINE job == worker[w].job
  <2>1. job.name \in Names /\ Idle.is = "idle"
    BY <1>1, <1>11, WorkerKinds
  <2> HIDE DEF job
  <2>2. Cardinality(AtWork(n)) = Cardinality(AtWork(n)') + One(job, n)
    BY <1>1, <1>11, <2>1, AtWorkSteps DEF job
  <2>3. \/ sent'[n] = sent[n] + One(job, n) /\ UNCHANGED <<failed, lost>>
        \/ failed'[n] = failed[n] + One(job, n) /\ UNCHANGED <<sent, lost>>
        \/ lost'[n] = lost[n] + One(job, n) /\ UNCHANGED <<sent, failed>>
    <3>1. /\ [sent EXCEPT ![job.name] = @ + 1][n] = sent[n] + One(job, n)
          /\ [failed EXCEPT ![job.name] = @ + 1][n] = failed[n] + One(job, n)
          /\ [lost EXCEPT ![job.name] = @ + 1][n] = lost[n] + One(job, n)
      BY <1>1, <2>1, CountedUp
    <3> QED
      BY <1>11, <3>1 DEF job
  <2>4. Named(jobs', n) = Named(jobs, n) /\ matched'[n] = matched[n]
    BY <1>11
  <2>5. One(job, n) \in Nat
    BY OneType
  <2> QED
    BY ONLY <1>2, <1>3, <1>4, <2>2, <2>3, <2>4, <2>5
\* One that goes on with it, or has none, changes nothing.
<1>12. ASSUME NEW w \in Workers, NEW state, Becomes(w, state),
              \/ Busy(w) /\ state.is \in {"trying", "waiting"} /\ state.job = worker[w].job
              \/ ~Busy(w) /\ state.is \notin {"trying", "waiting"},
              UNCHANGED <<jobs, sent, failed, matched, lost>>
       PROVE  matched'[n] =
                sent'[n] + failed'[n] + (Named(jobs', n) + Cardinality(AtWork(n)')) + lost'[n]
  <2>1. AtWork(n)' = AtWork(n)
    BY <1>1, <1>12, AtWorkSteps
  <2> QED
    BY <1>2, <1>4, <1>12, <2>1
<1>13. ASSUME NEW w \in Workers,
              Delivered(w) \/ Refused(w) \/ TryAgain(w) \/ GiveUp(w) \/ Exit(w)
       PROVE  matched'[n] =
                sent'[n] + failed'[n] + (Named(jobs', n) + Cardinality(AtWork(n)')) + lost'[n]
  <2>1. CASE Delivered(w)
    BY <1>11, <2>1 DEF Delivered, Becomes, Busy
  <2>2. CASE Refused(w)
    <3>1. CASE worker[w].attempt < MaxAttempts
      <4> DEFINE state == Waiting(worker[w].job, worker[w].attempt)
      <4>1. /\ Becomes(w, state) /\ Busy(w) /\ state.is = "waiting" /\ state.job = worker[w].job
            /\ UNCHANGED <<jobs, sent, failed, matched, lost>>
        BY <2>2, <3>1 DEF Refused, Becomes, Busy, Waiting
      <4> QED
        BY <1>12, <4>1
    <3>2. CASE ~(worker[w].attempt < MaxAttempts)
      BY <1>11, <2>2, <3>2 DEF Refused, Becomes, Busy
    <3> QED
      BY <3>1, <3>2
  <2>3. CASE TryAgain(w)
    <3> DEFINE state == Trying(worker[w].job, worker[w].attempt + 1)
    <3>1. /\ Becomes(w, state) /\ Busy(w) /\ state.is = "trying" /\ state.job = worker[w].job
          /\ UNCHANGED <<jobs, sent, failed, matched, lost>>
      BY <2>3 DEF TryAgain, Becomes, Busy, Trying
    <3> QED
      BY <1>12, <3>1
  <2>4. CASE GiveUp(w)
    BY <1>11, <2>4 DEF GiveUp, Becomes, Busy
  <2>5. CASE Exit(w)
    <3>1. /\ Becomes(w, Off) /\ ~Busy(w) /\ Off.is \notin {"trying", "waiting"}
          /\ UNCHANGED <<jobs, sent, failed, matched, lost>>
      BY <2>5 DEF Exit, Becomes, Busy, Idle, Off
    <3> QED
      BY <1>12, <3>1
  <2> QED
    BY <1>13, <2>1, <2>2, <2>3, <2>4, <2>5
<1>14. ASSUME NEW p \in Traffic, PublishToRun(p)
       PROVE  UNCHANGED <<jobs, worker, sent, failed, matched, lost>>
  BY <1>14 DEF PublishToRun
<1>15. ASSUME NEW config \in Configs, SaveWebhooks(config)
       PROVE  UNCHANGED <<jobs, worker, sent, failed, matched, lost>>
  BY <1>15 DEF SaveWebhooks
<1>16. CASE Dispatch \/ Stop \/ Return \/ UNCHANGED webhookVars
  BY <1>6, <1>16 DEF Dispatch, Stop, Return, webhookVars
<1> QED
  BY <1>6, <1>7, <1>8, <1>9, <1>10, <1>13, <1>14, <1>15, <1>16 DEF WebhookNext

\* The status line tells the truth about every event: it was delivered, failed, is under way or
\* was lost to a shutdown, and is counted once (Manager.dispatch, deliver, record...).
THEOREM EventsAccountedHolds == WebhookSpec => []EventsAccounted
<1>1. ASSUME WebhookAssumption, WebhookInit PROVE EventsAccounted
  <2> SUFFICES ASSUME NEW n \in Names PROVE Balance(n)
    BY DEF EventsAccounted, Balance
  <2>1. AtWork(n) = {}
    BY <1>1 DEF WebhookInit, AtWork, Busy, Idle, Off
  <2>2. Named(jobs, n) = 0 /\ Cardinality({}) = 0
    BY <1>1, FS_EmptySet DEF WebhookInit, Named
  <2> QED
    BY <1>1, <2>1, <2>2 DEF WebhookInit, Zero, Balance, UnderWay
<1>2. ASSUME WebhookAssumption, HookInv, HookInv', EventsAccounted, [WebhookNext]_webhookVars
      PROVE  EventsAccounted'
  BY <1>2, BalanceNext DEF EventsAccounted, Balance
<1> QED
  BY <1>1, <1>2, HookInvHolds, WebhookAssumption, PTL DEF WebhookSpec
=============================================================================
