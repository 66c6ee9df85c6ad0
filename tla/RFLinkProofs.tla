----------------------------- MODULE RFLinkProofs -----------------------------
(***************************************************************************)
(* Theorems about RFLink, for any devices, any number of contexts and      *)
(* frames and any depth of the queue and of the subscription.              *)
(***************************************************************************)
EXTENDS RFLink, SequenceTheorems, TLAPS

Sessions == {"dial", "up", "stopping"}

Placed == run.at \in Sessions => run.session \in Slots

\* That only the session in progress has a writer finds a new one its context.
TInv == TypeOK /\ Placed /\ OneWriter

LEMMA BetweenType ==
  ASSUME NEW place \in Places
  PROVE  Between(place) \in [at : Places, snap : Settings, session : Slots \cup {None},
                             next : {"wait", "loop"}]
BY DEF Between, NoSnap, Settings

LEMMA WriterTypes ==
  ASSUME LinkAssumption
  PROVE  /\ Stopped \in [step : {"none", "idle", "space", "write"}, frame : 0..Frames]
         /\ Waiting \in [step : {"none", "idle", "space", "write"}, frame : 0..Frames]
         /\ Stopped # Waiting
BY DEF LinkAssumption, Stopped, Waiting, NoFrame

LEMMA TInvInit == ASSUME LinkAssumption, Init PROVE TInv
<1>1. run \in [at : Places, snap : Settings, session : Slots \cup {None},
               next : {"wait", "loop"}]
  BY BetweenType DEF Init, Places
<1>2. writer \in [Slots -> [step : {"none", "idle", "space", "write"}, frame : 0..Frames]]
  BY WriterTypes DEF Init
<1>3. txq \in Seq(1..Frames) /\ Len(txq) <= QueueDepth
  BY DEF Init, LinkAssumption
<1>4. TypeOK
  <2>1. updates \in 0..MaxUpdates /\ notes \in 0..NotesDepth /\ offered \in 0..Frames
        /\ written \in 0..Frames /\ lost \in [Slots -> Nat]
    BY DEF Init, LinkAssumption, NoFrame
  <2> QED
    BY <1>1, <1>2, <1>3, <2>1 DEF Init, TypeOK
<1>5. Placed
  BY DEF Init, Between, Placed, Sessions
<1>6. OneWriter
  BY DEF Init, OneWriter
<1> QED
  BY <1>4, <1>5, <1>6 DEF TInv

LEMMA TypeNext == ASSUME LinkAssumption, TInv, [Next]_vars PROVE TypeOK' /\ Placed'
<1> USE LinkAssumption DEF TInv
<1>1. ASSUME NEW c \in Settings, Update(c) PROVE TypeOK' /\ Placed'
  BY <1>1 DEF Update, TypeOK, Placed, link, traffic
<1>2. ASSUME NEW c \in Settings, UpdateNotSaved(c) PROVE TypeOK' /\ Placed'
  BY <1>2 DEF UpdateNotSaved, TypeOK, Placed, traffic
<1>3. CASE Notify
  BY <1>3 DEF Notify, TypeOK, Placed, link, traffic
<1>4. CASE HearChange
  BY <1>4 DEF HearChange, TypeOK, Placed, link, traffic
<1>5. CASE DropSession
  BY <1>5 DEF DropSession, TypeOK, Placed, traffic
<1>6. CASE SubscriberEnds
  BY <1>6 DEF SubscriberEnds, TypeOK, Placed, link, traffic
<1>7. CASE Loop
  <2>1. \A place \in Places : Between(place).at = place
    BY DEF Between
  <2>2. After("loop") \in Places /\ "wait" \in Places /\ After("loop") \notin Sessions
    BY DEF After, Places, Sessions
  <2> QED
    <3>1. CASE down \/ cfg.device = None
      <4>1. PICK place \in {After("loop"), "wait"} : run' = Between(place)
        BY <1>7, <3>1 DEF Loop, Go
      <4>2. UNCHANGED missed
        BY <1>7, <3>1 DEF Loop
      <4>3. place \in Places /\ place \notin Sessions
        BY <2>2 DEF Sessions
      <4> QED
        BY <1>7, <2>1, <4>1, <4>2, <4>3, BetweenType DEF Loop, TypeOK, Placed, settings, traffic
    <3>2. CASE ~(down \/ cfg.device = None)
      <4>1. run' = [run EXCEPT !.at = "snapshot", !.snap = cfg] /\ missed' = "none"
        BY <1>7, <3>2 DEF Loop
      <4> QED
        BY <1>7, <4>1 DEF Loop, TypeOK, Placed, settings, traffic, Places, Sessions
    <3> QED
      BY <3>1, <3>2
<1>8. CASE Wake
  BY <1>8, BetweenType DEF Wake, Go, At, TypeOK, Placed,
     settings, traffic, Places, Sessions, Between
<1>9. CASE Open
  <2>1. \A s \in Slots : writer[s] = Stopped
    BY <1>9 DEF Open, At, OneWriter
  <2>2. PICK s \in Slots : /\ run' = [run EXCEPT !.at = "dial", !.session = s]
                           /\ cancel' = s
                           /\ cancelled' = cancelled \ {s}
                           /\ conn' = [conn EXCEPT ![s] = "none"]
                           /\ lost' = [lost EXCEPT ![s] = 0]
    BY <1>9, <2>1 DEF Open, PublishedFirst, LinkAssumption
  <2> QED
    <3>1. UNCHANGED <<settings, missed, writer, txq, offered, written, down>>
      BY <1>9 DEF Open
    <3>2. run' \in [at : Places, snap : Settings, session : Slots \cup {None},
                    next : {"wait", "loop"}]
      BY <2>2 DEF TypeOK, Places
    <3>3. run'.session = s
      BY <2>2 DEF TypeOK
    <3>4. lost' \in [Slots -> Nat] /\ conn' \in [Slots -> {"none", "open", "closed"}]
      BY <2>2 DEF TypeOK
    <3> QED
      BY <2>2, <3>1, <3>2, <3>3, <3>4 DEF TypeOK, Placed, settings
<1>10. CASE DialFails
  BY <1>10, BetweenType DEF DialFails, Again, Go, At, TypeOK, Placed,
     settings, traffic, Places, Sessions, Between
<1>11. CASE Connect
  BY <1>11, WriterTypes DEF Connect, At, TypeOK, Placed, settings, traffic, Places, Sessions
<1>12. CASE Close
  BY <1>12, BetweenType DEF Close, Go, At, TypeOK, Placed,
     settings, traffic, Places, Sessions, Between
<1>13. CASE Unsubscribe
  BY <1>13, BetweenType DEF Unsubscribe, After, Go, At, TypeOK, Placed,
     traffic, Places, Sessions, Between
<1>14. CASE JoinSubscriber
  BY <1>14, BetweenType DEF JoinSubscriber, After, Go, At, TypeOK, Placed,
     settings, traffic, Places, Sessions, Between
<1>15. CASE WatcherCloses
  BY <1>15 DEF WatcherCloses, At, TypeOK, Placed, settings, traffic
<1>16. CASE ReadEnds
  BY <1>16 DEF ReadEnds, Again, At, TypeOK, Placed, settings, traffic, Places, Sessions, Cancelled
<1>17. CASE Shutdown
  BY <1>17 DEF Shutdown, TypeOK, Placed, settings, link, traffic
<1>18. CASE TX
  <2>1. offered' \in 1..Frames /\ offered' \in 0..Frames
    BY <1>18 DEF TX, TypeOK
  <2>2. txq' \in Seq(1..Frames) /\ Len(txq') <= QueueDepth
    <3>1. CASE cfg.device # None /\ cfg.tx /\ Len(txq) < QueueDepth
      <4>1. txq' = Append(txq, offered')
        BY <1>18, <3>1 DEF TX, Takes, Enabled
      <4>2. txq' \in Seq(1..Frames) /\ Len(txq') = Len(txq) + 1
        BY <2>1, <4>1 DEF TypeOK
      <4> QED
        BY <3>1, <4>2 DEF LinkAssumption, TypeOK
    <3>2. CASE ~(cfg.device # None /\ cfg.tx /\ Len(txq) < QueueDepth)
      BY <1>18, <3>2 DEF TX, Takes, Enabled, TypeOK
    <3> QED
      BY <3>1, <3>2
  <2> QED
    BY <1>18, <2>1, <2>2 DEF TX, TypeOK, Placed, settings, link
<1>19. ASSUME NEW s \in Slots, Take(s) PROVE TypeOK' /\ Placed'
  <2>1. Head(txq) \in 1..Frames /\ Tail(txq) \in Seq(1..Frames) /\ Len(Tail(txq)) <= QueueDepth
    <3>1. txq \in Seq(1..Frames) /\ txq # << >> /\ Len(txq) <= QueueDepth
      BY <1>19 DEF Take, TypeOK
    <3>2. Head(txq) \in 1..Frames /\ Tail(txq) \in Seq(1..Frames)
          /\ Len(Tail(txq)) = Len(txq) - 1 /\ Len(txq) \in Nat
      BY <3>1
    <3> QED
      BY <3>1, <3>2 DEF LinkAssumption
  <2> QED
    <3>1. writer' \in [Slots -> [step : {"none", "idle", "space", "write"}, frame : 0..Frames]]
      <4>1. PICK step \in {"space", "write"} :
              writer' = [writer EXCEPT ![s] = [step |-> step, frame |-> Head(txq)]]
        BY <1>19 DEF Take
      <4>2. Head(txq) \in 0..Frames
        BY <2>1
      <4> QED
        BY <4>1, <4>2 DEF TypeOK
    <3>2. txq' = Tail(txq) /\ UNCHANGED <<settings, link, offered, written, lost, down>>
      BY <1>19 DEF Take
    <3> QED
      BY <2>1, <3>1, <3>2 DEF TypeOK, Placed, settings, link
<1>20. ASSUME NEW s \in Slots, Spaced(s) PROVE TypeOK' /\ Placed'
  <2>1. writer' \in [Slots -> [step : {"none", "idle", "space", "write"}, frame : 0..Frames]]
    <3>1. writer[s] \in [step : {"none", "idle", "space", "write"}, frame : 0..Frames]
      BY DEF TypeOK
    <3>2. [writer[s] EXCEPT !.step = "write"]
            \in [step : {"none", "idle", "space", "write"}, frame : 0..Frames]
      BY <3>1
    <3>3. writer' = [writer EXCEPT ![s] = [writer[s] EXCEPT !.step = "write"]]
      BY <1>20 DEF Spaced
    <3> QED
      BY <3>2, <3>3 DEF TypeOK
  <2>2. UNCHANGED <<settings, link, traffic, down>>
    BY <1>20 DEF Spaced
  <2> QED
    BY <2>1, <2>2 DEF TypeOK, Placed, settings, link, traffic
<1>21. ASSUME NEW s \in Slots, WriterStops(s) PROVE TypeOK' /\ Placed'
  BY <1>21, WriterTypes DEF WriterStops, TypeOK, Placed, settings, link, traffic
<1>22. ASSUME NEW s \in Slots, Lose(s) PROVE TypeOK' /\ Placed'
  BY <1>22, WriterTypes, SMTT(20) DEF Lose, LoseAndEnd, TypeOK, Placed, settings, link
<1>23. ASSUME NEW s \in Slots, Write(s) PROVE TypeOK' /\ Placed'
  BY <1>23, WriterTypes DEF Write, TypeOK, Placed, settings, link
<1>24. CASE UNCHANGED vars
  BY <1>24 DEF vars, TypeOK, Placed
<1> QED
  BY <1>1, <1>2, <1>3, <1>4, <1>5, <1>6, <1>7, <1>8, <1>9, <1>10, <1>11, <1>12, <1>13, <1>14,
     <1>15, <1>16, <1>17, <1>18, <1>19, <1>20, <1>21, <1>22, <1>23, <1>24
  DEF Next, SubscriberStep, RunStep, WriterStep, SpacingCancelled, WriteFails

LEMMA WriterNext == ASSUME LinkAssumption, TInv, [Next]_vars PROVE OneWriter'
<1> USE DEF TInv
<1> DEFINE Same == UNCHANGED writer /\ run'.at = run.at /\ run'.session = run.session
           Idle == UNCHANGED writer /\ \A s \in Slots : writer[s] = Stopped
<1>1. CASE Same
  BY <1>1 DEF OneWriter
<1>2. CASE Idle
  BY <1>2 DEF OneWriter
<1>3. ASSUME NEW c \in Settings, Update(c) \/ UpdateNotSaved(c) PROVE Same
  BY <1>3 DEF Update, UpdateNotSaved, link
<1>4. CASE Notify \/ SubscriberStep
  <2>1. Same
    BY <1>4 DEF Notify, SubscriberStep, HearChange, DropSession, SubscriberEnds, link
  <2> QED
    BY <1>1, <2>1
<1>5. CASE Loop \/ Wake \/ Open \/ DialFails \/ Unsubscribe \/ JoinSubscriber
  <2>1. run.at \notin {"up", "stopping"} /\ UNCHANGED writer
    BY <1>5 DEF Loop, Wake, Open, DialFails, Unsubscribe, JoinSubscriber, At
  <2> QED
    BY <1>2, <2>1 DEF OneWriter
<1>6. CASE Connect
  <2>1. run.at = "dial" /\ run'.at = "up" /\ run'.session = run.session
        /\ writer' = [writer EXCEPT ![run.session] = Waiting]
    BY <1>6 DEF Connect, At, TypeOK
  <2> QED
    BY <2>1 DEF OneWriter, TypeOK
<1>7. CASE Close
  <2>1. UNCHANGED writer /\ writer[run.session] = Stopped
    BY <1>7 DEF Close, Joined
  <2> QED
    BY <1>2, <2>1 DEF OneWriter
<1>8. CASE WatcherCloses \/ Shutdown \/ TX
  <2>1. Same
    BY <1>8 DEF WatcherCloses, Shutdown, TX, link
  <2> QED
    BY <1>1, <2>1
<1>9. CASE ReadEnds
  <2>1. run.at = "up" /\ run'.at = "stopping" /\ run'.session = run.session /\ UNCHANGED writer
    BY <1>9 DEF ReadEnds, At, TypeOK
  <2> QED
    BY <2>1 DEF OneWriter
<1>10. ASSUME NEW s \in Slots, WriterStep(s) PROVE OneWriter'
  <2>1. UNCHANGED run /\ writer[s] # Stopped /\ \A t \in Slots \ {s} : writer'[t] = writer[t]
    BY <1>10, WriterTypes DEF WriterStep, Take, Spaced, WriterStops, StopsWaiting, SpacingCancelled,
       WriteFails, Lose, LoseAndEnd, Write, link, Stopped, Waiting, TypeOK
  <2> QED
    BY <2>1 DEF OneWriter
<1>11. CASE UNCHANGED vars
  <2>1. Same
    BY <1>11 DEF vars
  <2> QED
    BY <1>1, <2>1
<1> QED
  BY <1>1, <1>3, <1>4, <1>5, <1>6, <1>7, <1>8, <1>9, <1>10, <1>11 DEF Next, RunStep

LEMMA TInvStep == ASSUME LinkAssumption, TInv, [Next]_vars PROVE TInv'
BY TypeNext, WriterNext DEF TInv

\* The inductive invariant of the theorems on types and writers.
THEOREM TInvHolds == Spec => []TInv
<1>1. QED
  BY LinkAssumption, TInvInit, TInvStep, PTL DEF Spec

\* Whatever sessions, settings, frames and the shutdown do, the link's state
\* keeps its types; the queue never exceeds its depth.
THEOREM TypeCorrect == Spec => []TypeOK
<1>1. TInv => TypeOK
  BY DEF TInv
<1> QED
  BY <1>1, TInvHolds, PTL

\* One goroutine drains the transmit queue at any time, that of the session
\* in progress: session waits for its writeLoop before it returns.
THEOREM OneWriterHolds == Spec => []OneWriter
<1>1. TInv => OneWriter
  BY DEF TInv
<1> QED
  BY <1>1, TInvHolds, PTL

-----------------------------------------------------------------------------
(* Lost frames: a writer that lost one has ended.                          *)

LossInv ==
  /\ \A s \in Slots : lost[s] <= 1 /\ (writer[s] # Stopped => lost[s] = 0)
  /\ run.at = "dial" => lost[run.session] = 0

LEMMA LossNext == ASSUME LinkAssumption, TInv, LossInv, [Next]_vars PROVE LossInv'
<1> USE DEF TInv
<1>1. ASSUME UNCHANGED <<lost, writer>>,
             run'.at = "dial" => run.at = "dial" /\ run'.session = run.session
      PROVE  LossInv'
  BY <1>1 DEF LossInv
<1>2. ASSUME NEW c \in Settings, Update(c) \/ UpdateNotSaved(c) PROVE LossInv'
  BY <1>1, <1>2 DEF Update, UpdateNotSaved, link, traffic
<1>3. CASE Notify \/ SubscriberStep \/ WatcherCloses \/ Shutdown \/ TX
  BY <1>1, <1>3 DEF Notify, SubscriberStep, HearChange, DropSession, SubscriberEnds,
     WatcherCloses, Shutdown, TX, link, traffic
<1>4. CASE Loop \/ Wake \/ DialFails \/ Close \/ Unsubscribe \/ JoinSubscriber \/ ReadEnds
  <2>1. UNCHANGED <<lost, writer>>
    BY <1>4 DEF Loop, Wake, DialFails, Close, Unsubscribe, JoinSubscriber, ReadEnds, traffic
  <2>2. \A place : Between(place).at = place
    BY DEF Between
  <2>3. run'.at # "dial"
    <3>1. CASE Loop
      BY <3>1, <2>2 DEF Loop, Go, After, TypeOK
    <3>2. CASE Wake \/ Unsubscribe \/ JoinSubscriber
      BY <3>2, <2>2 DEF Wake, Unsubscribe, JoinSubscriber, Go, After
    <3>3. CASE DialFails
      BY <3>3, <2>2 DEF DialFails, Go, Again
    <3>4. CASE Close
      BY <3>4, <2>2 DEF Close, Go, TypeOK
    <3>5. CASE ReadEnds
      BY <3>5 DEF ReadEnds, TypeOK
    <3> QED
      BY <1>4, <3>1, <3>2, <3>3, <3>4, <3>5
  <2> QED
    BY <1>1, <2>1, <2>3
<1>5. CASE Open
  <2>1. \A s \in Slots : writer[s] = Stopped
    BY <1>5 DEF Open, At, OneWriter
  <2>2. PICK s \in Slots : run' = [run EXCEPT !.at = "dial", !.session = s]
                           /\ lost' = [lost EXCEPT ![s] = 0]
    BY <1>5, <2>1 DEF Open, LinkAssumption
  <2>3. UNCHANGED writer /\ run'.session = s /\ lost'[s] = 0
    BY <1>5, <2>2 DEF Open, TypeOK
  <2>4. \A t \in Slots : lost'[t] <= 1
    BY <2>2 DEF LossInv, TypeOK
  <2> QED
    BY <2>1, <2>3, <2>4 DEF LossInv
<1>6. CASE Connect
  <2>1. run.at = "dial" /\ run'.at = "up" /\ UNCHANGED lost
        /\ writer' = [writer EXCEPT ![run.session] = Waiting]
    BY <1>6 DEF Connect, At, TypeOK, traffic
  <2> QED
    BY <2>1 DEF LossInv, TypeOK
<1>7. ASSUME NEW s \in Slots, WriterStep(s), ~Lose(s) PROVE LossInv'
  <2>1. UNCHANGED <<run, lost>> /\ writer[s] # Stopped
        /\ \A t \in Slots \ {s} : writer'[t] = writer[t]
    BY <1>7, WriterTypes DEF WriterStep, Take, Spaced, WriterStops, StopsWaiting,
       SpacingCancelled, WriteFails, Write, link, traffic, Stopped, Waiting, TypeOK
  <2> QED
    BY <2>1 DEF LossInv
<1>8. ASSUME NEW s \in Slots, WriterStep(s), Lose(s) PROVE LossInv'
  <2>1. writer[s] # Stopped
    BY <1>8, WriterTypes DEF WriterStep, Take, Spaced, WriterStops, StopsWaiting,
       SpacingCancelled, WriteFails, Write, Stopped, Waiting
  <2>2. writer' = [writer EXCEPT ![s] = Stopped] /\ lost' = [lost EXCEPT ![s] = @ + 1]
        /\ UNCHANGED run
    BY <1>8 DEF Lose, LoseAndEnd, link
  <2>3. run.at # "dial"
    BY <2>1 DEF OneWriter
  <2> QED
    BY <2>1, <2>2, <2>3 DEF LossInv, TypeOK
<1>9. CASE UNCHANGED vars
  BY <1>1, <1>9 DEF vars
<1> QED
  BY <1>2, <1>3, <1>4, <1>5, <1>6, <1>7, <1>8, <1>9 DEF Next, RunStep

\* writeLoop returns with the first frame it cannot write, and no session has
\* a second writeLoop.
THEOREM OneLossPerSessionHolds == Spec => []OneLossPerSession
<1>1. Init => LossInv
  BY DEF Init, LossInv, Between
<1>2. LossInv => OneLossPerSession
  BY DEF LossInv, OneLossPerSession
<1> QED
  BY <1>1, <1>2, LinkAssumption, TInvHolds, LossNext, PTL DEF Spec

-----------------------------------------------------------------------------
(* Order: frames are numbered as they are offered; every number behind is  *)
(* less than every number ahead.                                           *)

HeldInOrder ==
  \A s \in Slots : /\ writer[s].frame <= offered
                   /\ writer[s].frame # NoFrame => written < writer[s].frame

QueueInOrder ==
  \A k \in 1..Len(txq) :
    /\ written < txq[k] /\ txq[k] <= offered
    /\ \A s \in Slots : writer[s].frame < txq[k]
    /\ \A m \in 1..Len(txq) : k < m => txq[k] < txq[m]

OrderInv == written <= offered /\ HeldInOrder /\ QueueInOrder

LEMMA NumberTypes ==
  ASSUME TypeOK
  PROVE  /\ offered \in Nat /\ written \in Nat /\ NoFrame = 0
         /\ \A s \in Slots : writer[s].frame \in Nat
         /\ \A k \in 1..Len(txq) : txq[k] \in Nat \ {0}
<1> DEFINE F == 1..Frames
<1>1. \A k \in 1..Len(txq) : txq[k] \in F
  <2>1. txq \in Seq(F)
    BY DEF TypeOK
  <2> HIDE DEF F
  <2> QED
    BY <2>1
<1>2. offered \in Nat /\ written \in Nat /\ \A s \in Slots : writer[s].frame \in Nat
  BY DEF TypeOK
<1> QED
  BY <1>1, <1>2 DEF NoFrame

LEMMA OrderNext == ASSUME LinkAssumption, TInv, OrderInv, [Next]_vars PROVE OrderInv'
<1> USE DEF TInv
<1>1. ASSUME UNCHANGED <<txq, offered, written>>,
             \A s \in Slots : writer'[s].frame \in {writer[s].frame, NoFrame}
      PROVE  OrderInv'
  <2>1. ASSUME NEW s \in Slots PROVE writer'[s].frame <= offered
    <3>1. 0 <= offered /\ writer[s].frame <= offered
      BY NumberTypes DEF OrderInv, HeldInOrder
    <3> QED
      BY <1>1, <3>1 DEF NoFrame
  <2>2. txq \in Seq(1..Frames) /\ \A k \in 1..Len(txq) : txq[k] \in 1..Frames
    BY DEF TypeOK
  <2>3. ASSUME NEW s \in Slots, NEW k \in 1..Len(txq) PROVE writer'[s].frame < txq[k]
    <3>1. 0 < txq[k] /\ writer[s].frame < txq[k]
      BY NumberTypes DEF OrderInv, QueueInOrder
    <3> QED
      BY <1>1, <3>1 DEF NoFrame
  <2>4. \A s \in Slots : writer'[s].frame # NoFrame => written < writer'[s].frame
    BY <1>1 DEF OrderInv, HeldInOrder, QueueInOrder
  <2> QED
    BY <1>1, <2>1, <2>3, <2>4 DEF OrderInv, HeldInOrder, QueueInOrder
<1>2. ASSUME NEW c \in Settings, Update(c) \/ UpdateNotSaved(c) PROVE OrderInv'
  BY <1>1, <1>2 DEF Update, UpdateNotSaved, traffic
<1>3. CASE Notify \/ SubscriberStep \/ WatcherCloses \/ ReadEnds \/ Shutdown
  BY <1>1, <1>3 DEF Notify, SubscriberStep, HearChange, DropSession, SubscriberEnds,
     WatcherCloses, ReadEnds, Shutdown, traffic
<1>4. CASE Loop \/ Wake \/ Open \/ DialFails \/ Close \/ Unsubscribe \/ JoinSubscriber
  <2>1. UNCHANGED <<txq, offered, written, writer>>
    BY <1>4 DEF Loop, Wake, Open, DialFails, Close, Unsubscribe, JoinSubscriber, traffic
  <2> QED
    BY <1>1, <2>1
<1>5. CASE Connect
  <2>1. writer' = [writer EXCEPT ![run.session] = Waiting]
        /\ UNCHANGED <<txq, offered, written>>
    BY <1>5 DEF Connect, traffic
  <2> QED
    BY <1>1, <2>1 DEF Waiting, TypeOK
<1>6. CASE TX
  <2>1. offered' = offered + 1 /\ UNCHANGED <<writer, written>> /\ offered \in Nat
        /\ txq \in Seq(1..Frames) /\ written \in Nat
        /\ \A k \in 1..Len(txq) : txq[k] \in Nat
    BY <1>6 DEF TX, TypeOK
  <2>2. \A s \in Slots : writer[s].frame \in Nat
    BY DEF TypeOK
  <2>3. CASE UNCHANGED txq
    BY <2>1, <2>2, <2>3 DEF OrderInv, HeldInOrder, QueueInOrder
  <2>4. CASE txq' = Append(txq, offered + 1)
    <3>1. /\ Len(txq') = Len(txq) + 1 /\ Len(txq) \in Nat
          /\ \A k \in 1..Len(txq) : txq'[k] = txq[k]
          /\ txq'[Len(txq) + 1] = offered + 1
      BY <2>1, <2>4
    <3>2. \A k \in 1..Len(txq') : k \in 1..Len(txq) \/ k = Len(txq) + 1
      BY <3>1
    <3>3. /\ written <= offered'
          /\ \A s \in Slots : /\ writer[s].frame <= offered'
                              /\ writer[s].frame # NoFrame => written < writer[s].frame
      BY <2>1, <2>2 DEF OrderInv, HeldInOrder, QueueInOrder
    <3>4. ASSUME NEW k \in 1..Len(txq')
          PROVE  /\ written < txq'[k] /\ txq'[k] <= offered'
                 /\ \A s \in Slots : writer[s].frame < txq'[k]
                 /\ \A m \in 1..Len(txq') : k < m => txq'[k] < txq'[m]
      <4>1. CASE k = Len(txq) + 1
        <5>1. txq'[k] = offered + 1 /\ \A m \in 1..Len(txq') : ~(k < m)
          BY <3>1, <3>2, <4>1
        <5>2. written < offered + 1 /\ \A s \in Slots : writer[s].frame < offered + 1
          BY <2>1, <2>2 DEF OrderInv, HeldInOrder
        <5> QED
          BY <2>1, <5>1, <5>2
      <4>2. CASE k \in 1..Len(txq)
        <5>1. /\ txq'[k] = txq[k] /\ txq[k] \in Nat /\ written < txq[k] /\ txq[k] <= offered
              /\ \A s \in Slots : writer[s].frame < txq[k]
              /\ \A m \in 1..Len(txq) : k < m => txq[k] < txq[m]
          BY <2>1, <3>1, <4>2 DEF OrderInv, HeldInOrder, QueueInOrder
        <5>2. txq[k] < offered + 1 /\ txq[k] <= offered'
          BY <2>1, <5>1
        <5>3. ASSUME NEW m \in 1..Len(txq'), k < m PROVE txq[k] < txq'[m]
          BY <3>1, <3>2, <5>1, <5>2, <5>3
        <5> QED
          BY <5>1, <5>2, <5>3
      <4> QED
        BY <3>2, <4>1, <4>2
    <3>5. HeldInOrder'
      BY <2>1, <3>3 DEF HeldInOrder
    <3>6. QueueInOrder'
      BY <2>1, <3>4 DEF QueueInOrder
    <3> QED
      BY <2>1, <3>3, <3>5, <3>6 DEF OrderInv
  <2> QED
    BY <1>6, <2>1, <2>3, <2>4 DEF TX, Takes
<1>7. ASSUME NEW s \in Slots, Take(s) PROVE OrderInv'
  <2>1. PICK step \in {"space", "write"} :
          writer' = [writer EXCEPT ![s] = [step |-> step, frame |-> Head(txq)]]
    BY <1>7 DEF Take
  <2>2. /\ txq \in Seq(1..Frames) /\ txq # << >> /\ txq' = Tail(txq)
        /\ UNCHANGED <<offered, written>>
    BY <1>7 DEF Take, TypeOK
  <2>3. /\ Len(txq) \in Nat /\ 1 \in 1..Len(txq) /\ Head(txq) = txq[1]
        /\ Len(txq') = Len(txq) - 1
        /\ \A k \in 1..Len(txq') : txq'[k] = txq[k + 1] /\ k + 1 \in 1..Len(txq) /\ 1 < k + 1
    BY <2>2
  <2>4. \A t \in Slots \ {s} : writer[t] = Stopped
    BY <1>7, WriterTypes DEF Take, OneWriter
  <2>5. writer'[s].frame = txq[1] /\ \A t \in Slots \ {s} : writer'[t].frame = NoFrame
    BY <2>1, <2>3, <2>4 DEF TypeOK, Stopped
  <2>6. written < txq[1] /\ txq[1] <= offered /\ NoFrame <= offered
        /\ \A k \in 1..Len(txq) : txq[k] \in 1..Frames
    BY <2>2, <2>3, SMTT(20) DEF OrderInv, HeldInOrder, QueueInOrder, NoFrame, TypeOK
  <2>7. \A t \in Slots : /\ writer'[t].frame <= offered
                         /\ writer'[t].frame # NoFrame => written < writer'[t].frame
    BY <2>5, <2>6
  <2>8. ASSUME NEW k \in 1..Len(txq')
        PROVE  /\ written < txq'[k] /\ txq'[k] <= offered
               /\ \A t \in Slots : writer'[t].frame < txq'[k]
               /\ \A m \in 1..Len(txq') : k < m => txq'[k] < txq'[m]
    <3>1. /\ txq'[k] = txq[k + 1] /\ k + 1 \in 1..Len(txq)
          /\ txq[1] < txq[k + 1] /\ NoFrame < txq[k + 1]
      BY <2>3, <2>6 DEF OrderInv, HeldInOrder, QueueInOrder, NoFrame
    <3>2. ASSUME NEW m \in 1..Len(txq'), k < m
          PROVE  txq'[k] < txq'[m]
      <4>1. txq'[m] = txq[m + 1] /\ m + 1 \in 1..Len(txq) /\ k + 1 < m + 1
        BY <2>3, <3>2
      <4> QED
        BY <3>1, <4>1 DEF OrderInv, HeldInOrder, QueueInOrder
    <3>3. \A t \in Slots : writer'[t].frame < txq'[k]
      BY <2>5, <3>1
    <3> QED
      BY <3>1, <3>2, <3>3 DEF OrderInv, HeldInOrder, QueueInOrder
  <2> QED
    BY <2>2, <2>6, <2>7, <2>8 DEF OrderInv, HeldInOrder, QueueInOrder
<1>8. ASSUME NEW s \in Slots, Spaced(s) \/ WriterStops(s) \/ Lose(s) PROVE OrderInv'
  <2>1. UNCHANGED <<txq, offered, written>>
    BY <1>8 DEF Spaced, WriterStops, Lose, traffic
  <2>2. \A t \in Slots : writer'[t].frame \in {writer[t].frame, NoFrame}
    <3>1. CASE Spaced(s)
      BY <3>1 DEF Spaced, TypeOK
    <3>2. CASE writer' = [writer EXCEPT ![s] = Stopped]
      BY <3>2 DEF Stopped, TypeOK
    <3> QED
      BY <1>8, <3>1, <3>2 DEF WriterStops, Lose, LoseAndEnd
  <2> QED
    BY <1>1, <2>1, <2>2
<1>9. ASSUME NEW s \in Slots, Write(s) PROVE OrderInv'
  <2>1. /\ writer[s].step = "write" /\ written' = writer[s].frame
        /\ writer' = [writer EXCEPT ![s] = Waiting] /\ UNCHANGED <<txq, offered>>
    BY <1>9 DEF Write
  <2>2. \A t \in Slots \ {s} : writer[t] = Stopped
    BY <2>1 DEF OneWriter, Stopped
  <2>3. \A t \in Slots : writer'[t].frame = NoFrame
    BY <2>1, <2>2 DEF Waiting, Stopped, TypeOK
  <2>4. \A k \in 1..Len(txq) : NoFrame < txq[k]
    <3>1. txq \in Seq(1..Frames)
      BY DEF TypeOK
    <3> QED
      BY <3>1 DEF NoFrame
  <2>5. NoFrame <= offered
    BY DEF NoFrame, TypeOK
  <2>6. written' <= offered' /\ \A t \in Slots : writer'[t].frame <= offered'
    BY <2>1, <2>3, <2>5 DEF OrderInv, HeldInOrder
  <2>7. \A k \in 1..Len(txq') :
          /\ written' < txq'[k] /\ txq'[k] <= offered'
          /\ \A t \in Slots : writer'[t].frame < txq'[k]
          /\ \A m \in 1..Len(txq') : k < m => txq'[k] < txq'[m]
    BY <2>1, <2>3, <2>4 DEF OrderInv, HeldInOrder, QueueInOrder
  <2> QED
    BY <2>3, <2>6, <2>7 DEF OrderInv, HeldInOrder, QueueInOrder
<1>10. CASE UNCHANGED vars
  BY <1>1, <1>10 DEF vars
<1> QED
  BY <1>2, <1>3, <1>4, <1>5, <1>6, <1>7, <1>8, <1>9, <1>10
  DEF Next, RunStep, WriterStep, SpacingCancelled, WriteFails

\* Frames leave in the order TX accepted them, once each, through reconnects:
\* the queue outlives the sessions and only one writer takes from it.
THEOREM InOrderHolds == Spec => []InOrder
<1>1. ASSUME LinkAssumption, Init PROVE OrderInv
  BY <1>1 DEF Init, OrderInv, HeldInOrder, QueueInOrder, Stopped, NoFrame
<1>2. ASSUME OrderInv, TypeOK PROVE InOrder
  <2>1. txq \in Seq(1..Frames) /\ DOMAIN txq = 1..Len(txq)
    BY <1>2 DEF TypeOK
  <2>2. ASSUME NEW f \in {writer[s].frame : s \in Slots} \ {NoFrame}
        PROVE  written < f /\ \A k \in 1..Len(txq) : f < txq[k]
    <3>1. PICK s \in Slots : f = writer[s].frame
      BY <2>2
    <3> QED
      BY <1>2, <2>2, <3>1, <2>1 DEF OrderInv, HeldInOrder, QueueInOrder
  <2> QED
    BY <1>2, <2>1, <2>2 DEF OrderInv, HeldInOrder, QueueInOrder, InOrder
<1> QED
  BY <1>1, <1>2, LinkAssumption, TInvHolds, TypeCorrect, OrderNext, PTL DEF Spec

-----------------------------------------------------------------------------
(* Stale sessions                                                          *)

Announced == updates > 0 \/ notes > 0 \/ subscriber = "drop"

\* While a session is on its way or up, its cancel function is at hand, or was
\* used; a change since the snapshot is being announced, was missed, or has
\* cancelled the session.
StaleInv ==
  /\ run.at \notin {"join", "gone"} => subscribed = TRUE
  /\ run.at \in {"dial", "up"} => cancel = run.session \/ Cancelled(run.session)
  /\ run.at \in {"snapshot", "dial", "up"} /\ run.snap # cfg =>
       \/ Announced \/ missed # "none"
       \/ run.at # "snapshot" /\ Cancelled(run.session)

LEMMA StaleNext == ASSUME LinkAssumption, TInv, StaleInv, [Next]_vars PROVE StaleInv'
<1> USE DEF TInv
<1>1. ASSUME UNCHANGED <<cfg, updates, notes, subscribed, subscriber, cancel, run, missed>>,
             cancelled \subseteq cancelled', down => down'
      PROVE  StaleInv'
  BY <1>1 DEF StaleInv, Cancelled, Announced
<1>2. ASSUME run'.at \notin {"snapshot", "dial", "up"},
             run'.at \notin {"join", "gone"} => subscribed' = TRUE
      PROVE  StaleInv'
  BY <1>2 DEF StaleInv
<1>3. ASSUME NEW c \in Settings, Update(c) PROVE StaleInv'
  <2>1. UNCHANGED <<subscribed, cancel, run, cancelled, down>> /\ updates' > 0
    BY <1>3 DEF Update, link, TypeOK
  <2> QED
    BY <2>1 DEF StaleInv, Cancelled, Announced
<1>4. ASSUME NEW c \in Settings, UpdateNotSaved(c) PROVE StaleInv'
  <2>1. /\ UNCHANGED <<subscribed, cancel, run, cancelled, down>>
        /\ run.at \in {"snapshot", "dial", "up"} => missed' = "unsaved"
    BY <1>4 DEF UpdateNotSaved
  <2> QED
    BY <2>1 DEF StaleInv, Cancelled
<1>5. CASE Notify
  <2>1. UNCHANGED <<cfg, subscribed, subscriber, cancel, run, cancelled, missed, down>>
    BY <1>5 DEF Notify, link
  <2>2. subscribed = TRUE => notes' > 0
    BY <1>5 DEF Notify, TypeOK, LinkAssumption
  <2> QED
    BY <2>1, <2>2 DEF StaleInv, Cancelled, Announced
<1>6. CASE HearChange
  <2>1. UNCHANGED <<cfg, subscribed, cancel, run, cancelled, missed, down>> /\ subscriber' = "drop"
    BY <1>6 DEF HearChange, link
  <2> QED
    BY <2>1 DEF StaleInv, Cancelled, Announced
<1>7. CASE DropSession
  <2>1. /\ UNCHANGED <<cfg, updates, notes, subscribed, run, down>>
        /\ cancelled' = cancelled \cup ({cancel} \ {None})
        /\ missed' = IF run.at = "snapshot" THEN "heard" ELSE missed
    BY <1>7 DEF DropSession
  <2>2. run.at \in {"dial", "up"} => Cancelled(run.session)'
    BY <2>1 DEF StaleInv, Cancelled, Placed, Sessions, LinkAssumption
  <2> QED
    BY <2>1, <2>2 DEF StaleInv
<1>8. CASE SubscriberEnds
  <2>1. UNCHANGED <<cfg, updates, notes, subscribed, cancel, run, cancelled, missed, down>>
        /\ subscriber # "drop"
    BY <1>8 DEF SubscriberEnds, link
  <2> QED
    BY <2>1 DEF StaleInv, Cancelled, Announced
<1>9. CASE Loop
  <2>1. CASE down \/ cfg.device = None
    <3>1. PICK place \in {After("loop"), "wait"} : run' = Between(place)
      BY <1>9, <2>1 DEF Loop, Go
    <3>2. run'.at \notin {"snapshot", "dial", "up"} /\ UNCHANGED subscribed /\ run.at = "loop"
      BY <1>9, <3>1 DEF Loop, At, Between, After, settings
    <3> QED
      BY <1>2, <3>2 DEF StaleInv
  <2>2. CASE ~(down \/ cfg.device = None)
    <3>1. /\ run' = [run EXCEPT !.at = "snapshot", !.snap = cfg]
          /\ UNCHANGED <<cfg, subscribed>> /\ run.at = "loop"
      BY <1>9, <2>2 DEF Loop, At, settings
    <3>2. run'.at = "snapshot" /\ run'.snap = cfg
      BY <3>1 DEF TypeOK
    <3> QED
      BY <3>1, <3>2 DEF StaleInv
  <2> QED
    BY <2>1, <2>2
<1>10. CASE Wake \/ DialFails \/ Close \/ JoinSubscriber \/ ReadEnds \/ Unsubscribe
  <2>1. \A place : Between(place).at = place
    BY DEF Between
  <2>2. CASE Wake \/ DialFails \/ Close
    <3>1. run'.at \in {"loop", "wait"}
      <4>1. CASE Wake
        BY <4>1, <2>1 DEF Wake, Go
      <4>2. CASE DialFails
        BY <4>2, <2>1 DEF DialFails, Go, Again
      <4>3. CASE Close
        BY <4>3, <2>1 DEF Close, Go, TypeOK
      <4> QED
        BY <2>2, <4>1, <4>2, <4>3
    <3>2. UNCHANGED subscribed /\ run.at \notin {"join", "gone"}
      BY <2>2 DEF Wake, DialFails, Close, At, settings
    <3> QED
      BY <1>2, <3>1, <3>2 DEF StaleInv
  <2>3. CASE JoinSubscriber
    BY <1>2, <2>1, <2>3 DEF JoinSubscriber, Go, After
  <2>4. CASE Unsubscribe
    <3>1. run'.at = After("unsubscribe")
      BY <2>1, <2>4 DEF Unsubscribe, Go
    <3>2. After("unsubscribe") = "join"
      BY DEF After
    <3> QED
      BY <1>2, <3>1, <3>2
  <2>5. CASE ReadEnds
    <3>1. run'.at = "stopping" /\ run.at = "up" /\ UNCHANGED subscribed
      BY <2>5 DEF ReadEnds, At, TypeOK, settings
    <3> QED
      BY <1>2, <3>1 DEF StaleInv
  <2> QED
    BY <1>10, <2>2, <2>3, <2>4, <2>5
<1>11. CASE Open
  <2>1. \A s \in Slots : writer[s] = Stopped
    BY <1>11 DEF Open, At, OneWriter
  <2>2. PICK s \in Slots : /\ run' = [run EXCEPT !.at = "dial", !.session = s]
                           /\ cancel' = s
    BY <1>11, <2>1 DEF Open, PublishedFirst, LinkAssumption
  <2>3. /\ UNCHANGED <<cfg, updates, notes, subscribed, subscriber, missed>> /\ run.at = "snapshot"
        /\ run'.at = "dial" /\ run'.session = s /\ run'.snap = run.snap
    BY <1>11, <2>2 DEF Open, At, settings, TypeOK
  <2> QED
    BY <2>2, <2>3 DEF StaleInv, Announced
<1>12. CASE Connect
  <2>1. /\ UNCHANGED <<cfg, updates, notes, subscribed, subscriber, missed, cancel, cancelled, down>>
        /\ run.at = "dial"
        /\ run'.at = "up" /\ run'.session = run.session /\ run'.snap = run.snap
    BY <1>12 DEF Connect, At, settings, TypeOK
  <2> QED
    BY <2>1 DEF StaleInv, Cancelled, Announced
<1>13. CASE WatcherCloses \/ Shutdown \/ TX
  BY <1>1, <1>13 DEF WatcherCloses, Shutdown, TX, settings, link
<1>14. ASSUME NEW s \in Slots, WriterStep(s) PROVE StaleInv'
  BY <1>1, <1>14 DEF WriterStep, Take, Spaced, WriterStops, SpacingCancelled, WriteFails,
     Lose, Write, settings, link
<1>15. CASE UNCHANGED vars
  BY <1>1, <1>15 DEF vars
<1> QED
  BY <1>3, <1>4, <1>5, <1>6, <1>7, <1>8, <1>9, <1>10, <1>11, <1>12, <1>13, <1>14, <1>15
  DEF Next, RunStep, SubscriberStep

\* Run drops a session on a device that is not configured any more, except in
\* the two cases the code misses.
THEOREM StaleOnlyIfMissedHolds == Spec => []StaleOnlyIfMissed
<1>1. Init => StaleInv
  BY DEF Init, StaleInv, Between
<1>2. StaleInv => StaleOnlyIfMissed
  BY DEF StaleInv, StaleOnlyIfMissed, Announced
<1> QED
  BY <1>1, <1>2, LinkAssumption, TInvHolds, StaleNext, PTL DEF Spec

-----------------------------------------------------------------------------
(* The queue keeps its promise: the link implements SendQueue.             *)

LEMMA FirstOfSeq ==
  ASSUME NEW S, NEW x \in S, NEW q \in Seq(S)
  PROVE  /\ <<x>> \o q \in Seq(S) /\ <<x>> \o q # << >>
         /\ Head(<<x>> \o q) = x /\ Tail(<<x>> \o q) = q /\ Len(<<x>> \o q) = Len(q) + 1
<1> DEFINE p == <<x>> \o q
<1>1. <<x>> \in Seq(S) /\ Len(<<x>>) = 1 /\ <<x>>[1] = x
  OBVIOUS
<1>2. /\ p \in Seq(S) /\ Len(p) = Len(q) + 1 /\ Len(q) \in Nat
      /\ \A i \in 1..Len(q) + 1 : p[i] = IF i <= 1 THEN x ELSE q[i - 1]
  BY <1>1, ConcatProperties, LenProperties
<1> HIDE DEF p
<1>3. p # << >> /\ Head(p) = x
  BY <1>2
<1>4. Tail(p) = q
  <2>1. Tail(p) \in Seq(S) /\ Len(Tail(p)) = Len(q) /\ \A i \in 1..Len(q) : Tail(p)[i] = p[i + 1]
    BY <1>2, <1>3, HeadTailProperties
  <2>2. \A i \in 1..Len(q) : Tail(p)[i] = q[i]
    BY <1>2, <2>1
  <2> QED
    BY <2>1, <2>2, SeqEqual
<1> QED
  BY <1>2, <1>3, <1>4 DEF p

LEMMA HeadThenTail ==
  ASSUME NEW S, NEW q \in Seq(S), q # << >>
  PROVE  <<Head(q)>> \o Tail(q) = q
<1> DEFINE p == <<Head(q)>> \o Tail(q)
<1>1. /\ Head(q) \in S /\ Head(q) = q[1] /\ Tail(q) \in Seq(S) /\ Len(Tail(q)) = Len(q) - 1
      /\ \A i \in 1..Len(Tail(q)) : Tail(q)[i] = q[i + 1]
      /\ <<Head(q)>> \in Seq(S) /\ Len(<<Head(q)>>) = 1 /\ <<Head(q)>>[1] = Head(q)
  BY HeadTailProperties
<1>2. Len(q) \in Nat
  BY LenProperties
<1>3. /\ p \in Seq(S) /\ Len(p) = Len(q)
      /\ \A i \in 1..Len(q) : p[i] = IF i <= 1 THEN q[1] ELSE Tail(q)[i - 1]
  BY <1>1, <1>2, ConcatProperties
<1> HIDE DEF p
<1>4. \A i \in 1..Len(q) : p[i] = q[i]
  BY <1>1, <1>2, <1>3
<1>5. p = q
  BY <1>3, <1>4, SeqEqual
<1> QED
  BY <1>5 DEF p

LEMMA AppendBehind ==
  ASSUME NEW S, NEW p \in Seq(S), NEW q \in Seq(S), NEW x \in S
  PROVE  Append(p \o q, x) = p \o Append(q, x)
<1>1. p \o q \in Seq(S) /\ <<x>> \in Seq(S)
  BY ConcatProperties
<1>2. Append(p \o q, x) = (p \o q) \o <<x>> /\ Append(q, x) = q \o <<x>>
  BY <1>1, AppendIsConcat
<1> QED
  BY <1>1, <1>2, ConcatAssociative

\* A writer has a frame in its hands while it waits to write it or writes it.
HandInv == \A s \in Slots : writer[s].frame = NoFrame <=> writer[s].step \in {"none", "idle"}

LEMMA HandNext == ASSUME LinkAssumption, TInv, HandInv, [Next]_vars PROVE HandInv'
<1> USE DEF TInv
<1>1. CASE UNCHANGED writer
  BY <1>1 DEF HandInv
<1>2. ASSUME NEW s \in Slots, \A t \in Slots \ {s} : writer'[t] = writer[t],
             writer'[s].frame = NoFrame <=> writer'[s].step \in {"none", "idle"}
      PROVE  HandInv'
  BY <1>2 DEF HandInv
<1>3. CASE Connect
  <2>1. run.session \in Slots /\ writer' = [writer EXCEPT ![run.session] = Waiting]
    BY <1>3 DEF Connect, At, Placed, Sessions
  <2> QED
    BY <1>2, <2>1 DEF TypeOK, Waiting
<1>4. ASSUME NEW s \in Slots, WriterStep(s) PROVE HandInv'
  <2>1. \A t \in Slots \ {s} : writer'[t] = writer[t]
    BY <1>4 DEF WriterStep, Take, Spaced, WriterStops, SpacingCancelled, WriteFails, Lose, LoseAndEnd,
       Write, TypeOK
  <2>2. CASE Take(s)
    <3>1. Head(txq) # NoFrame
      BY <2>2, HeadTailProperties DEF Take, TypeOK, NoFrame
    <3>2. writer'[s].frame = Head(txq) /\ writer'[s].step \in {"space", "write"}
      BY <2>2 DEF Take, TypeOK
    <3> QED
      BY <1>2, <2>1, <3>1, <3>2
  <2>3. CASE Spaced(s)
    <3>1. writer[s].step = "space" /\ writer'[s].step = "write" /\ writer'[s].frame = writer[s].frame
      BY <2>3 DEF Spaced, TypeOK
    <3> QED
      BY <1>2, <2>1, <3>1 DEF HandInv
  <2>4. CASE WriterStops(s) \/ SpacingCancelled(s) \/ WriteFails(s) \/ Write(s)
    <3>1. writer'[s] \in {Stopped, Waiting}
      BY <2>4 DEF WriterStops, SpacingCancelled, WriteFails, Lose, LoseAndEnd, Write, TypeOK
    <3> QED
      BY <1>2, <2>1, <3>1 DEF Stopped, Waiting
  <2> QED
    BY <1>4, <2>2, <2>3, <2>4 DEF WriterStep
<1> QED
  <2>1. ASSUME NEW c \in Settings, Update(c) \/ UpdateNotSaved(c) PROVE UNCHANGED writer
    BY <2>1 DEF Update, UpdateNotSaved
  <2>2. CASE Notify \/ SubscriberStep \/ WatcherCloses \/ ReadEnds \/ Shutdown \/ TX
    BY <1>1, <2>2 DEF Notify, SubscriberStep, HearChange, DropSession, SubscriberEnds, WatcherCloses,
       ReadEnds, Shutdown, TX
  <2>3. CASE Loop \/ Wake \/ Open \/ DialFails \/ Close \/ Unsubscribe \/ JoinSubscriber
    BY <1>1, <2>3 DEF Loop, Wake, Open, DialFails, Close, Unsubscribe, JoinSubscriber
  <2>4. CASE UNCHANGED vars
    BY <1>1, <2>4 DEF vars
  <2> QED
    BY <1>1, <1>3, <1>4, <2>1, <2>2, <2>3, <2>4 DEF Next, RunStep

LEMMA PendingTypes ==
  ASSUME LinkAssumption, TInv
  PROVE  /\ txq \in Seq(1..Frames) /\ Len(txq) \in Nat /\ InHand \in 0..Frames
         /\ Len(Pending) \in {Len(txq), Len(txq) + 1}
         /\ InHand = NoFrame => Pending = txq
         /\ InHand # NoFrame => /\ InHand \in 1..Frames
                                /\ Pending # << >> /\ Head(Pending) = InHand /\ Tail(Pending) = txq
<1>1. txq \in Seq(1..Frames) /\ Len(txq) \in Nat
  BY LenProperties DEF TInv, TypeOK
<1>2. InHand \in 0..Frames
  <2>1. run.session \in Slots \cup {None}
    BY DEF TInv, TypeOK
  <2>2. \A s \in Slots : writer[s].frame \in 0..Frames
    BY DEF TInv, TypeOK
  <2>3. 0 \in 0..Frames
    BY DEF LinkAssumption
  <2> QED
    BY <2>1, <2>2, <2>3 DEF InHand, NoFrame
<1>3. CASE InHand = NoFrame
  BY <1>1, <1>2, <1>3, ConcatEmptySeq DEF Pending
<1>4. CASE InHand # NoFrame
  <2>1. InHand \in 1..Frames
    BY <1>2, <1>4 DEF NoFrame
  <2> QED
    BY <1>1, <1>2, <1>4, <2>1, FirstOfSeq DEF Pending
<1> QED
  BY <1>3, <1>4

LEMMA PendingAppend ==
  ASSUME LinkAssumption, TInv, NEW n \in 1..Frames
  PROVE  Append(Pending, n) = (IF InHand = NoFrame THEN << >> ELSE <<InHand>>) \o Append(txq, n)
<1>1. txq \in Seq(1..Frames)
  BY PendingTypes
<1>2. CASE InHand = NoFrame
  <2>1. Append(txq, n) \in Seq(1..Frames)
    BY <1>1, AppendProperties
  <2>2. << >> \o txq = txq /\ << >> \o Append(txq, n) = Append(txq, n)
    BY <1>1, <2>1, ConcatEmptySeq
  <2> QED
    BY <1>2, <2>2 DEF Pending
<1>3. CASE InHand # NoFrame
  <2>1. <<InHand>> \in Seq(1..Frames)
    BY <1>3, PendingTypes
  <2>2. Append(<<InHand>> \o txq, n) = <<InHand>> \o Append(txq, n)
    BY <1>1, <2>1, AppendBehind
  <2> QED
    BY <1>3, <2>2 DEF Pending
<1> QED
  BY <1>2, <1>3

LEMMA QueueInit == ASSUME LinkAssumption, Init PROVE Queue!Init
<1>1. InHand = NoFrame /\ Spent = FALSE /\ txq = << >>
  BY DEF Init, Between, InHand, Spent
<1>2. Pending = << >>
  BY <1>1, ConcatEmptySeq DEF Pending
<1> QED
  BY <1>1, <1>2 DEF Init, Queue!Init, Enabled, Settings, NoFrame

\* The promise is left alone by what moves no frame, and renewed by what lets go of a
\* session whose writer has ended.
Untouched == UNCHANGED <<txq, offered, written, Enabled>>

LEMMA QueueStays ==
  ASSUME Untouched, InHand' = InHand, Spent' = Spent PROVE [Queue!Next]_(Queue!qvars)
<1>1. Pending' = Pending
  BY DEF Untouched, Pending
<1> QED
  BY <1>1 DEF Untouched, Queue!qvars

LEMMA QueueRenewed ==
  ASSUME Untouched, InHand = NoFrame, InHand' = NoFrame, Spent' = FALSE
  PROVE  [Queue!Next]_(Queue!qvars)
<1>1. Pending' = Pending
  BY DEF Untouched, Pending
<1>2. CASE Spent
  BY <1>1, <1>2 DEF Untouched, Queue!Next, Queue!NewSession
<1>3. CASE ~Spent
  BY <1>3, QueueStays DEF Spent
<1> QED
  BY <1>2, <1>3

LEMMA TXKeepsQueue ==
  ASSUME LinkAssumption, TInv, TX PROVE [Queue!Next]_(Queue!qvars)
<1>1. /\ offered' = offered + 1 /\ offered' \in 1..Frames
      /\ txq' = IF Takes THEN Append(txq, offered') ELSE txq
      /\ UNCHANGED <<cfg, run, writer, written, lost>>
  BY DEF TX, TInv, TypeOK, LinkAssumption, settings, link
<1>2. Enabled' = Enabled /\ InHand' = InHand /\ Spent' = Spent
  BY <1>1 DEF Enabled, InHand, Spent
<1>3. CASE Takes
  <2>1. Pending' = Append(Pending, offered')
    BY <1>1, <1>2, <1>3, PendingAppend DEF Pending
  <2>2. Enabled /\ Len(Pending) <= QueueDepth
    BY <1>3, PendingTypes DEF Takes, LinkAssumption
  <2> QED
    BY <1>1, <1>2, <2>1, <2>2 DEF Queue!Next, Queue!Accept
<1>4. CASE ~Takes
  <2>1. Pending' = Pending
    BY <1>1, <1>2, <1>4 DEF Pending
  <2>2. ~Enabled \/ Len(Pending) >= QueueDepth
    BY <1>4, PendingTypes DEF Takes, LinkAssumption
  <2> QED
    BY <1>1, <1>2, <2>1, <2>2 DEF Queue!Next, Queue!Refuse
<1> QED
  BY <1>3, <1>4

LEMMA WriterKeepsQueue ==
  ASSUME LinkAssumption, TInv, LossInv, HandInv, NEW s \in Slots, WriterStep(s)
  PROVE  [Queue!Next]_(Queue!qvars)
<1> USE DEF TInv
<1>1. writer[s] # Stopped /\ UNCHANGED <<cfg, run, offered>>
  BY WriterTypes DEF WriterStep, Take, Spaced, WriterStops, StopsWaiting, SpacingCancelled, WriteFails,
     Lose, Write, settings, link, traffic, Stopped, Waiting
<1>2. run.session = s /\ run'.session = s /\ s # None
  BY <1>1 DEF OneWriter, LinkAssumption
<1>3. /\ InHand = writer[s].frame /\ InHand' = writer'[s].frame
      /\ ~Spent /\ (lost' = lost => Spent' = Spent) /\ (lost'[s] = 1 => Spent') /\ lost[s] = 0
  <2>1. lost[s] = 0
    BY <1>1 DEF LossInv
  <2> QED
    BY <1>2, <2>1 DEF InHand, Spent
<1>4. Enabled' = Enabled
  BY <1>1 DEF Enabled
<1>5. CASE Take(s)
  <2>1. /\ InHand = NoFrame /\ InHand' = Head(txq) /\ txq # << >> /\ txq' = Tail(txq)
        /\ UNCHANGED <<written, lost>>
    BY <1>3, <1>5 DEF Take, Waiting, TypeOK
  <2>2. Head(txq) \in 1..Frames /\ <<Head(txq)>> \o Tail(txq) = txq
    BY <2>1, HeadTailProperties, HeadThenTail DEF TypeOK
  <2>3. InHand' # NoFrame
    BY <2>1, <2>2 DEF NoFrame
  <2>4. Pending' = <<Head(txq)>> \o Tail(txq)
    BY <2>1, <2>3 DEF Pending
  <2>5. Pending' = Pending
    BY <2>1, <2>2, <2>4, PendingTypes
  <2> QED
    BY <1>1, <1>3, <1>4, <2>1, <2>5 DEF Queue!qvars
<1>6. CASE Spaced(s)
  BY <1>1, <1>3, <1>4, <1>6, QueueStays DEF Spaced, traffic, Untouched, TypeOK
<1>7. CASE WriterStops(s)
  <2>1. InHand' = InHand
    BY <1>3, <1>7 DEF WriterStops, StopsWaiting, Waiting, Stopped, TypeOK
  <2> QED
    BY <1>1, <1>3, <1>4, <1>7, <2>1, QueueStays DEF WriterStops, traffic, Untouched
<1>8. CASE Write(s) \/ SpacingCancelled(s) \/ WriteFails(s)
  <2>1. InHand # NoFrame
    BY <1>3, <1>8 DEF Write, SpacingCancelled, WriteFails, HandInv
  <2>2. InHand' = NoFrame /\ UNCHANGED txq
    BY <1>3, <1>8 DEF Write, SpacingCancelled, WriteFails, Lose, LoseAndEnd, Waiting, Stopped, TypeOK
  <2>3. Pending # << >> /\ Head(Pending) = InHand /\ Tail(Pending) = txq /\ Pending' = txq
    <3>1. txq \in Seq(1..Frames)
      BY PendingTypes
    <3> QED
      BY <2>1, <2>2, <3>1, PendingTypes, ConcatEmptySeq DEF Pending
  <2>4. CASE Write(s)
    <3>1. written' = InHand /\ Spent' = Spent
      BY <1>3, <2>4 DEF Write
    <3> QED
      BY <1>1, <1>3, <1>4, <2>3, <3>1 DEF Queue!Next, Queue!Deliver
  <2>5. CASE SpacingCancelled(s) \/ WriteFails(s)
    <3>1. lost'[s] = 1 /\ UNCHANGED written
      BY <1>3, <2>5 DEF SpacingCancelled, WriteFails, Lose, TypeOK
    <3>2. Spent' = TRUE
      BY <1>3, <3>1 DEF Spent
    <3> QED
      BY <1>1, <1>3, <1>4, <2>3, <3>1, <3>2 DEF Queue!Next, Queue!Lose
  <2> QED
    BY <1>8, <2>4, <2>5
<1> QED
  BY <1>5, <1>6, <1>7, <1>8 DEF WriterStep

LEMMA QueueNext ==
  ASSUME LinkAssumption, TInv, LossInv, HandInv, [Next]_vars PROVE [Queue!Next]_(Queue!qvars)
<1> USE DEF TInv
<1>1. ASSUME UNCHANGED <<txq, offered, written, lost, writer>>, run'.session = run.session
      PROVE  UNCHANGED <<txq, offered, written>> /\ InHand' = InHand /\ Spent' = Spent
  BY <1>1 DEF InHand, Spent
<1>2. ASSUME NEW c \in Settings, Update(c) \/ UpdateNotSaved(c) PROVE [Queue!Next]_(Queue!qvars)
  <2>1. UNCHANGED <<txq, offered, written>> /\ InHand' = InHand /\ Spent' = Spent
    BY <1>1, <1>2 DEF Update, UpdateNotSaved, link, traffic
  <2>2. CASE Enabled' = Enabled
    BY <2>1, <2>2, QueueStays DEF Untouched
  <2>3. CASE Enabled' # Enabled
    <3>1. Enabled' = ~Enabled
      BY <1>2, <2>3 DEF Update, UpdateNotSaved, Settings, Enabled, TypeOK
    <3>2. Pending' = Pending
      BY <2>1 DEF Pending
    <3> QED
      BY <2>1, <3>1, <3>2 DEF Queue!Next, Queue!Switch
  <2> QED
    BY <2>2, <2>3
<1>3. CASE Notify \/ SubscriberStep \/ WatcherCloses \/ Shutdown
  <2>1. UNCHANGED <<txq, offered, written, lost, writer, run, cfg>>
    BY <1>3 DEF Notify, SubscriberStep, HearChange, DropSession, SubscriberEnds, WatcherCloses,
       Shutdown, settings, link, traffic
  <2> QED
    BY <1>1, <2>1, QueueStays DEF Untouched, Enabled
<1>4. CASE ReadEnds
  <2>1. UNCHANGED <<txq, offered, written, lost, writer, cfg>> /\ run'.session = run.session
    BY <1>4 DEF ReadEnds, settings, traffic, TypeOK
  <2> QED
    BY <1>1, <2>1, QueueStays DEF Untouched, Enabled
<1>5. ASSUME NEW place, Go(place), UNCHANGED <<txq, offered, written, cfg>>,
             run.session # None => writer[run.session] = Stopped
      PROVE  [Queue!Next]_(Queue!qvars)
  <2>1. InHand = NoFrame /\ InHand' = NoFrame /\ Spent' = FALSE
    BY <1>5 DEF Go, Between, InHand, Spent, Stopped
  <2> QED
    BY <1>5, <2>1, QueueRenewed DEF Untouched, Enabled
<1>6. CASE run.at \notin {"up", "stopping"} /\ (Loop \/ Wake \/ DialFails \/ Unsubscribe \/ JoinSubscriber)
  <2>1. UNCHANGED <<txq, offered, written, lost, writer, cfg>>
    BY <1>6 DEF Loop, Wake, DialFails, Unsubscribe, JoinSubscriber, settings, traffic
  <2>2. run.session # None => writer[run.session] = Stopped
    BY <1>6 DEF OneWriter, TypeOK
  <2>3. CASE \E place : Go(place)
    BY <1>5, <2>1, <2>2, <2>3
  <2>4. CASE run'.session = run.session
    BY <1>1, <2>1, <2>4, QueueStays DEF Untouched, Enabled
  <2> QED
    BY <1>6, <2>3, <2>4 DEF Loop, Wake, DialFails, Unsubscribe, JoinSubscriber, TypeOK
<1>7. CASE Close
  BY <1>5, <1>7 DEF Close, Joined, settings, traffic
<1>8. CASE Open
  <2>1. run.at = "snapshot" /\ \A s \in Slots : writer[s] = Stopped
    BY <1>8 DEF Open, At, OneWriter
  <2>2. /\ run'.session \in Slots /\ lost'[run'.session] = 0
        /\ UNCHANGED <<txq, offered, written, writer, cfg>>
    BY <1>8, <2>1 DEF Open, LinkAssumption, TypeOK, settings
  <2>3. InHand = NoFrame /\ InHand' = NoFrame /\ Spent' = FALSE
    BY <2>1, <2>2 DEF InHand, Spent, Stopped, TypeOK
  <2> QED
    BY <2>2, <2>3, QueueRenewed DEF Untouched, Enabled
<1>9. CASE Connect
  <2>1. /\ run.at = "dial" /\ run.session \in Slots /\ run'.session = run.session
        /\ writer' = [writer EXCEPT ![run.session] = Waiting]
        /\ UNCHANGED <<txq, offered, written, lost, cfg>>
    BY <1>9 DEF Connect, At, Placed, Sessions, TypeOK, settings, traffic
  <2>2. InHand = NoFrame /\ InHand' = NoFrame /\ Spent' = Spent
    BY <2>1 DEF InHand, Spent, OneWriter, Stopped, Waiting, TypeOK, LinkAssumption
  <2> QED
    BY <2>1, <2>2, QueueStays DEF Untouched, Enabled
<1>10. CASE UNCHANGED vars
  BY <1>1, <1>10, QueueStays DEF vars, Untouched, Enabled
<1> QED
  <2>1. Loop \/ Wake \/ DialFails \/ Unsubscribe \/ JoinSubscriber => run.at \notin {"up", "stopping"}
    BY DEF Loop, Wake, DialFails, Unsubscribe, JoinSubscriber, At
  <2> QED
    BY <1>2, <1>3, <1>4, <1>6, <1>7, <1>8, <1>9, <1>10, <2>1, TXKeepsQueue, WriterKeepsQueue
    DEF Next, RunStep

\* A frame TX took is transmitted in its turn, in whichever session, unless a writer had it
\* in its hands when its session ended; TX refuses only while the queue is full, no TNC is
\* configured or transmission is off.
THEOREM QueueKeptHolds == Spec => QueueKept
<1>1. Init => LossInv /\ HandInv
  BY DEF Init, LossInv, HandInv, Between, Stopped
<1> QED
  BY <1>1, QueueInit, QueueNext, TInvHolds, LossNext, HandNext, LinkAssumption, PTL
  DEF Spec, QueueKept, Queue!Spec
=============================================================================
