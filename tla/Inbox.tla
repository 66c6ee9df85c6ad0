------------------------------- MODULE Inbox --------------------------------
(***************************************************************************)
(* What the station makes of the frames it receives (parseLoop, dupe.go,   *)
(* ratelimit_source.go): one loop takes frames from a bounded channel,     *)
(* drops repeats, far positions and noisy sources, stores a message once   *)
(* however many copies of it arrive, notes over which media it came, and   *)
(* acknowledges it.                                                        *)
(*                                                                         *)
(* Every table of the loop lives in memory and forgets by age.  A mark is  *)
(* kept as the time it has left, and Tick takes one unit off all of them:  *)
(* "now - t < window" is "left > 0".  Rows survive a restart; tables and   *)
(* the channel do not.                                                     *)
(*                                                                         *)
(* Gate decisions, the viscous hold and retry acknowledgements, which the  *)
(* same loop also drives, are Gate, RFPath and MessageRetry.  Of the heard *)
(* list, kept for the gate and the pages, only whom it names is modelled;  *)
(* the history of packets, kept for the pages, is left out.                *)
(***************************************************************************)
EXTENDS Naturals, Sequences, FiniteSets

CONSTANTS
  Packets,      \* the packets in the air: records with the fields of Fields
  Me,           \* our callsign
  None,         \* no message id, no original sender
  Bulletins,    \* the broadcast addressees
  SubBuffer,    \* frames the loop's channel holds (64)
  DupeWindow,   \* how long a frame's content is remembered (30 s)
  IdWindow,     \* how long a message with its id is (30 s)
  BodyWindow,   \* how long a message without its id is (15 minutes)
  Minute,       \* the limiter's window
  Timeout,      \* how long it blocks a source (15 minutes)
  Threshold,    \* frames a source may send in a window (30)
  MaxFrames,    \* bound: frames received
  MaxRestarts,  \* bound: restarts of the process
  MaxFailures   \* bound: rows the database refuses

Fields == {"src", "orig", "to", "body", "id", "kind", "capitals"}

ASSUME PacketsAssumption ==
  \A p \in Packets : /\ DOMAIN p = Fields
                     /\ p.kind \in {"message", "telemetry", "far", "other"}
                     /\ p.capitals \in BOOLEAN
ASSUME WindowsAssumption ==
  /\ {SubBuffer, DupeWindow, IdWindow, BodyWindow, Minute, Timeout, Threshold} \subseteq Nat \ {0}
  /\ {MaxFrames, MaxRestarts, MaxFailures} \subseteq Nat
  /\ IdWindow <= BodyWindow

VARIABLES
  sub,         \* frames on their way to the loop: [medium, pkt]
  dupe,        \* time left of each remembered frame
  idSeen,      \* of each message with its id
  bodySeen,    \* of each message without it
  limits,      \* the limiter's bucket of each source
  rows,        \* the inbound rows of the messages table
  stations,    \* the stations table: who was heard on the radio
  heard, restarts,  \* what the bounds count
  copies,      \* history: media over which the message of the last row came
  acked,       \* history: messages we acknowledged
  refused,     \* history: messages a row was refused for
  offers       \* history: each source's last frames, latest first: time left of their minute

tables == <<dupe, idSeen, bodySeen, limits>>
vars == <<sub, tables, rows, stations, heard, restarts, copies, acked, refused, offers>>

Media == {"rf", "is"}
Sources == {p.src : p \in Packets}

\* The real sender: a relayed message names it inside.
Sender(p) == IF p.orig = None THEN p.src ELSE p.orig

\* The columns of a message's row.
RowKey(p) == <<Sender(p), p.to, p.body>>
RowKeys == {RowKey(p) : p \in Packets}

\* Both keys put the callsigns in capitals, so the spelling is no part of them.
BodyKeyNoDest(p) == <<Sender(p), p.body>>
BodyKey(p) == <<Sender(p), p.to, p.body>>
IdKey(p) == <<Sender(p), p.to, p.body, p.id>>
BodyKeys == {BodyKey(p) : p \in Packets}
IdKeys == {IdKey(p) : p \in Packets}

Init ==
  /\ sub = <<>> /\ rows = <<>> /\ stations = {}
  /\ dupe = [p \in Packets |-> 0]
  /\ idSeen = [k \in IdKeys |-> 0]
  /\ bodySeen = [k \in BodyKeys |-> 0]
  /\ limits = [s \in Sources |-> [count |-> 0, left |-> 0]]
  /\ heard = 0 /\ restarts = 0
  /\ copies = [k \in RowKeys |-> {}]
  /\ acked = {} /\ refused = {}
  /\ offers = [s \in Sources |-> [i \in 0..Threshold |-> 0]]

TypeOK ==
  /\ sub \in Seq([medium : Media \cup {"tx"}, pkt : Packets]) /\ Len(sub) <= SubBuffer
  /\ dupe \in [Packets -> 0..DupeWindow]
  /\ idSeen \in [IdKeys -> 0..IdWindow]
  /\ bodySeen \in [BodyKeys -> 0..BodyWindow]
  /\ limits \in [Sources -> [count : 0..Threshold + 1, left : Nat]]
  /\ rows \in Seq([key : RowKeys, via : SUBSET Media, fresh : 0..BodyWindow])
  /\ stations \subseteq Sources \ {Me}
  /\ heard \in 0..MaxFrames /\ restarts \in 0..MaxRestarts
  /\ copies \in [RowKeys -> SUBSET Media] /\ acked \cup refused \subseteq RowKeys
  /\ offers \in [Sources -> [0..Threshold -> 0..Minute]]

-----------------------------------------------------------------------------
(* The tables.                                                             *)

\* A repeat does not renew the mark.
Mark(table, key, window) ==
  IF table[key] > 0 THEN table ELSE [table EXCEPT ![key] = window]

ChargeNoRollover(bucket) ==
  CASE bucket.count < Threshold -> [count |-> bucket.count + 1, left |-> Minute]
    [] bucket.count = Threshold -> [count |-> Threshold + 1, left |-> Timeout]
    [] bucket.count > Threshold /\ bucket.left = 0 -> [count |-> 1, left |-> Minute]
    [] bucket.count > Threshold /\ bucket.left > 0 -> bucket

\* A bucket over the threshold is a block; a bucket with no time left, blocked or
\* not, starts again, which is also what the eviction of an idle one amounts to.
Charge(bucket) ==
  CASE bucket.left = 0 -> [count |-> 1, left |-> Minute]
    [] bucket.left > 0 /\ bucket.count < Threshold -> [bucket EXCEPT !.count = @ + 1]
    [] bucket.left > 0 /\ bucket.count = Threshold -> [count |-> Threshold + 1, left |-> Timeout]
    [] bucket.left > 0 /\ bucket.count > Threshold -> bucket

Blocked(bucket) == bucket.count > Threshold /\ bucket.left > 0

\* The topic drops a frame whose subscriber is behind.
Publish(queue, frame) == IF Len(queue) < SubBuffer THEN Append(queue, frame) ELSE queue

FirstRow(key) ==
  CHOOSE i \in DOMAIN rows : rows[i].key = key /\ \A j \in DOMAIN rows : rows[j].key = key => i <= j

\* The table's row of that message with the highest id.
LastRow(key) ==
  CHOOSE i \in DOMAIN rows : rows[i].key = key /\ \A j \in DOMAIN rows : rows[j].key = key => j <= i
HasRow(key) == \E i \in DOMAIN rows : rows[i].key = key

-----------------------------------------------------------------------------
(* Receiving.                                                              *)

Receive(p, m) ==
  /\ heard < MaxFrames
  /\ heard' = heard + 1
  /\ sub' = Publish(sub, [medium |-> m, pkt |-> p])
  /\ UNCHANGED <<tables, rows, stations, restarts, copies, acked, refused, offers>>

IsBulletinAddressee(to) == to \in Bulletins

\* Conversations we are a party to, and every bulletin.
Kept(p) ==
  /\ p.src # Me /\ p.kind = "message" /\ p.to # p.src
  /\ p.to = Me \/ Sender(p) = Me \/ IsBulletinAddressee(p.to)

RepeatById(p) == idSeen[IdKey(p)] > 0

\* The second look-up, and its mark, happen only if the first finds nothing.
Repeat(p) == idSeen[IdKey(p)] > 0 \/ bodySeen[BodyKey(p)] > 0
MarkMessage(p) ==
  /\ idSeen' = Mark(idSeen, IdKey(p), IdWindow)
  /\ bodySeen' = IF idSeen[IdKey(p)] > 0 THEN bodySeen
                                         ELSE Mark(bodySeen, BodyKey(p), BodyWindow)

Log(p, m) ==
  \/ /\ rows' = Append(rows, [key |-> RowKey(p), via |-> {m}, fresh |-> BodyWindow])
     /\ copies' = [copies EXCEPT ![RowKey(p)] = {m}]
     /\ UNCHANGED refused
  \/ /\ Cardinality(refused) < MaxFailures
     /\ refused' = refused \cup {RowKey(p)}
     /\ UNCHANGED <<rows, copies>>

\* The row is spelled in capitals and the query is not: a copy in small letters
\* finds nothing.
Merge(p, m) ==
  /\ IF p.capitals /\ HasRow(RowKey(p))
     THEN rows' = [rows EXCEPT ![LastRow(RowKey(p))].via = @ \cup {m}]
     ELSE UNCHANGED rows
  /\ copies' = IF p.capitals THEN [copies EXCEPT ![RowKey(p)] = @ \cup {m}] ELSE copies
  /\ UNCHANGED refused

\* Every copy of a message to us is answered, a repeat too: its sender did not hear
\* the first answer.  What goes out comes back to the loop as a frame of ours.
Ack(p, queue) ==
  \/ /\ p.to = Me /\ p.id # None /\ p.orig = None
     /\ acked' = acked \cup {RowKey(p)}
     /\ sub' = Publish(queue, [medium |-> "tx", pkt |-> p])
  \/ acked' = acked /\ sub' = queue   \* nothing to answer, or the medium refused it

TakeMessage(p, m, queue) ==
  IF Kept(p)
  THEN /\ MarkMessage(p)
       /\ IF Repeat(p) THEN Merge(p, m) ELSE Log(p, m)
       /\ Ack(p, queue)
  ELSE /\ sub' = queue
       /\ UNCHANGED <<idSeen, bodySeen, rows, copies, acked, refused>>

\* The heard list takes who transmitted, but not what digipeaters repeat of us, and
\* unless the database refuses.
UpsertHeard(src) == stations' \in {stations, stations \cup ({src} \ {Me})}

Quiet == <<idSeen, bodySeen, rows, copies, acked, refused, heard, restarts>>

Taken(m) == sub # <<>> /\ Head(sub).medium = m

DropDuplicate ==
  /\ Taken("rf") /\ dupe[Head(sub).pkt] > 0
  /\ sub' = Tail(sub)
  /\ UNCHANGED <<Quiet, stations, dupe, limits, offers>>

\* A position further away than radio carries is a tracker's mistake.
DropFar ==
  LET p == Head(sub).pkt IN
  /\ Taken("rf") /\ dupe[p] = 0 /\ p.kind = "far"
  /\ dupe' = Mark(dupe, p, DupeWindow)
  /\ sub' = Tail(sub)
  /\ UNCHANGED <<Quiet, stations, limits, offers>>

\* The last frames of a source that offers one more.
Before(frames) == [i \in 0..Threshold |-> IF i = 0 THEN Minute ELSE frames[i - 1]]

Offer(p) ==
  /\ dupe[p] = 0 /\ p.kind # "far"
  /\ dupe' = Mark(dupe, p, DupeWindow)
  /\ limits' = [limits EXCEPT ![p.src] = Charge(@)]
  /\ offers' = [offers EXCEPT ![p.src] = Before(@)]

DropLimited ==
  LET p == Head(sub).pkt IN
  /\ Taken("rf") /\ Offer(p) /\ Blocked(Charge(limits[p.src]))
  /\ sub' = Tail(sub)
  /\ UNCHANGED <<Quiet, stations>>

TakeRF ==
  LET p == Head(sub).pkt IN
  /\ Taken("rf") /\ Offer(p) /\ ~Blocked(Charge(limits[p.src]))
  /\ UpsertHeard(p.src)
  /\ TakeMessage(p, "rf", Tail(sub))
  /\ UNCHANGED <<heard, restarts>>

\* The server's stream is neither checked for repeats nor limited.
TakeIS ==
  /\ Taken("is")
  /\ TakeMessage(Head(sub).pkt, "is", Tail(sub))
  /\ UNCHANGED <<dupe, limits, offers, stations, heard, restarts>>

TakeTX ==
  /\ Taken("tx")
  /\ sub' = Tail(sub)
  /\ UNCHANGED <<Quiet, stations, dupe, limits, offers>>

-----------------------------------------------------------------------------
(* Time and restarts.                                                      *)

Less(left) == IF left > 0 THEN left - 1 ELSE 0
Older(table) == [k \in DOMAIN table |-> Less(table[k])]

Tick ==
  /\ dupe' = Older(dupe) /\ idSeen' = Older(idSeen) /\ bodySeen' = Older(bodySeen)
  /\ limits' = [s \in Sources |-> [limits[s] EXCEPT !.left = Less(@)]]
  /\ rows' = [i \in DOMAIN rows |-> [rows[i] EXCEPT !.fresh = Less(@)]]
  /\ offers' = [s \in Sources |-> Older(offers[s])]
  /\ UNCHANGED <<sub, stations, heard, restarts, copies, acked, refused>>

Restart ==
  /\ restarts < MaxRestarts
  /\ restarts' = restarts + 1
  /\ sub' = <<>>
  /\ dupe' = [p \in Packets |-> 0]
  /\ idSeen' = [k \in IdKeys |-> 0]
  /\ bodySeen' = [k \in BodyKeys |-> 0]
  /\ limits' = [s \in Sources |-> [count |-> 0, left |-> 0]]
  /\ offers' = [s \in Sources |-> [i \in 0..Threshold |-> 0]]
  /\ rows' = [i \in DOMAIN rows |-> [rows[i] EXCEPT !.fresh = 0]]
  /\ UNCHANGED <<stations, heard, copies, acked, refused>>

Next ==
  \/ \E p \in Packets, m \in Media : Receive(p, m)
  \/ DropDuplicate \/ DropFar \/ DropLimited
  \/ TakeRF \/ TakeIS \/ TakeTX
  \/ Tick \/ Restart

Spec == Init /\ [][Next]_vars
-----------------------------------------------------------------------------
(* Properties.                                                             *)

\* One message is one row: no two rows of the same sender, addressee and text were
\* written within the body window of one run of the process, whatever ids, relays
\* and media its copies came with.
NothingTwice ==
  \A i, j \in DOMAIN rows :
    i # j /\ rows[i].key = rows[j].key => rows[i].fresh = 0 \/ rows[j].fresh = 0

\* The sender of an acknowledged message stops sending it, so the message must be in
\* the database: it is, unless the database refused a row of it.  The answer to a
\* repeat leans on what the loop did with an earlier copy.
AckedIsStored == \A key \in acked : HasRow(key) \/ key \in refused

\* The latest row of a message shows exactly the media its copies came over since the
\* row was written.  Copies spelled in small letters, and messages a row was refused
\* for, are left out: their marks are lost, or land on an older row.
ViaIsHonest ==
  \A key \in RowKeys \ refused : HasRow(key) => rows[LastRow(key)].via = copies[key]

\* A source is put in time-out only if it offered more than the threshold within a
\* minute that ends at that frame: the one that came Threshold frames before is in it.
OnlyTheNoisy ==
  \A s \in Sources :
    ~Blocked(limits[s]) /\ Blocked(limits'[s]) => offers'[s][Threshold] > 0
OnlyTheNoisyIsBlocked == [][OnlyTheNoisy]_vars
=============================================================================
