------------------------------- MODULE RFLink -------------------------------
(***************************************************************************)
(* The link to the TNC: rf.Run, which snapshots the settings, dials and    *)
(* runs one session after another; each session's writer, close watcher    *)
(* and reader; the goroutine that drops the session when the settings      *)
(* change; the transmit queue, which outlives sessions; and shutdown.      *)
(*                                                                         *)
(* A session is a slot, free again once its writer is gone, so that two    *)
(* could overlap if the code let them.  Its context is cancelled by        *)
(* dropSession, by its own end, or with the whole program.                 *)
(*                                                                         *)
(* The second between transmissions is a wait of any length.  What is only *)
(* displayed (last error, interface, health of the TNC) is left out.       *)
(***************************************************************************)
EXTENDS Naturals, Sequences, FiniteSets

CONSTANTS
  Devices,     \* devices a TNC may be on
  None,        \* no TNC; no slot
  Slots,       \* contexts of sessions
  Frames,      \* how many frames are offered for transmission
  QueueDepth,  \* txQueueDepth
  NotesDepth,  \* buffer of a settings subscription
  MaxUpdates   \* settings updates committed and not announced yet

ASSUME LinkAssumption ==
  /\ None \notin Devices /\ None \notin Slots /\ Slots # {}
  /\ Frames \in Nat
  /\ QueueDepth \in Nat \ {0} /\ NotesDepth \in Nat \ {0} /\ MaxUpdates \in Nat \ {0}

VARIABLES
  cfg,        \* the settings in force: device and TXEnable
  updates,    \* Update calls between commit and notify
  notes,      \* settings waiting in the subscription's channel
  subscribed, \* the subscription is open
  subscriber, \* the goroutine that drops sessions
  cancel,     \* sessionCancel: the session it cancels
  run,        \* rf.Run: where it is, its snapshot, its session
  cancelled,  \* sessions whose context is done
  conn,       \* per session: its connection
  writer,     \* per session: its writeLoop, with the frame it took
  txq,        \* txCh
  down,       \* the program is shutting down
  offered,    \* frames offered so far, the number of the latest
  written,    \* history: the frame written last
  lost,       \* history: per session, frames taken and not written
  missed      \* history: how the session in progress missed a change

vars == <<cfg, updates, notes, subscribed, subscriber, cancel, run, cancelled, conn,
          writer, txq, down, offered, written, lost, missed>>

settings == <<cfg, updates, notes, subscribed, subscriber>>
link     == <<cancel, run, cancelled, conn, missed>>
traffic  == <<txq, offered, written, lost>>

NoFrame  == 0
Settings == [device : Devices \cup {None}, tx : BOOLEAN]
NoSnap   == [device |-> None, tx |-> FALSE]
Stopped  == [step |-> "none", frame |-> NoFrame]
Waiting  == [step |-> "idle", frame |-> NoFrame]

Cancelled(s) == s \in cancelled \/ down

-----------------------------------------------------------------------------
(* The settings store, as its callers see it: an update is in force before *)
(* it is announced.                                                        *)

Update(c) ==
  /\ updates < MaxUpdates
  /\ cfg' = c
  /\ updates' = updates + 1
  /\ UNCHANGED <<notes, subscribed, subscriber, link, writer, traffic, down>>

\* The save fails: the change is in force and nobody is told.
UpdateNotSaved(c) ==
  /\ cfg' = c
  /\ missed' = IF run.at \in {"snapshot", "dial", "up"} THEN "unsaved" ELSE missed
  /\ UNCHANGED <<updates, notes, subscribed, subscriber, cancel, run, cancelled, conn,
                 writer, traffic, down>>

\* A full channel misses the announcement; after Unsubscribe there is none.
Notify ==
  /\ updates > 0
  /\ updates' = updates - 1
  /\ notes' = IF subscribed /\ notes < NotesDepth THEN notes + 1 ELSE notes
  /\ UNCHANGED <<cfg, subscribed, subscriber, link, writer, traffic, down>>

-----------------------------------------------------------------------------
(* dropSession, by the subscriber                                          *)

HearChange ==
  /\ subscriber = "idle" /\ notes > 0
  /\ notes' = notes - 1
  /\ subscriber' = "drop"
  /\ UNCHANGED <<cfg, updates, subscribed, link, writer, traffic, down>>

DropSession ==
  /\ subscriber = "drop"
  /\ subscriber' = "idle"
  /\ cancelled' = cancelled \cup ({cancel} \ {None})
  /\ cancel' = None
  /\ missed' = IF run.at = "snapshot" THEN "heard" ELSE missed
  /\ UNCHANGED <<cfg, updates, notes, subscribed, run, conn, writer, traffic, down>>

\* The channel is closed and read to its end.
SubscriberEnds ==
  /\ ~subscribed /\ subscriber = "idle" /\ notes = 0
  /\ subscriber' = "gone"
  /\ UNCHANGED <<cfg, updates, notes, subscribed, link, writer, traffic, down>>

-----------------------------------------------------------------------------
(* rf.Run and session                                                      *)

Between(place) ==
  [at |-> place, snap |-> NoSnap, session |-> None, next |-> "wait"]

At(place) == run.at = place
Go(place) == run' = Between(place)

\* Deferred calls of Run: the subscription is closed, then the subscriber
\* is waited for.
AfterSwapped(place) ==
  CASE place = "loop" -> "join" [] place = "join" -> "unsubscribe" [] OTHER -> "gone"
After(place) ==
  CASE place = "loop" -> "unsubscribe" [] place = "unsubscribe" -> "join" [] OTHER -> "gone"

Loop ==
  /\ At("loop")
  /\ IF down THEN Go(After("loop")) /\ UNCHANGED missed
     ELSE IF cfg.device = None THEN Go("wait") /\ UNCHANGED missed
     ELSE run' = [run EXCEPT !.at = "snapshot", !.snap = cfg] /\ missed' = "none"
  /\ UNCHANGED <<settings, cancel, cancelled, conn, writer, traffic, down>>

\* The wait before another try, for a timer or shutdown.
Wake ==
  /\ At("wait")
  /\ Go("loop")
  /\ UNCHANGED <<settings, cancel, cancelled, conn, missed, writer, traffic, down>>

PublishedLate(s)  == cancel
PublishedFirst(s) == s

\* A new session: its cancel function is published before it dials.
Open ==
  /\ At("snapshot")
  /\ LET s == CHOOSE s \in Slots : writer[s] = Stopped
     IN  /\ run' = [run EXCEPT !.at = "dial", !.session = s]
         /\ cancel' = PublishedFirst(s)
         /\ cancelled' = cancelled \ {s}
         /\ conn' = [conn EXCEPT ![s] = "none"]
         /\ lost' = [lost EXCEPT ![s] = 0]
  /\ UNCHANGED <<settings, missed, writer, txq, offered, written, down>>

\* A session that ends by cancellation is followed without a wait.
Again(s) == {"wait"} \cup (IF Cancelled(s) THEN {"loop"} ELSE {})

DialFails ==
  /\ At("dial")
  /\ \E place \in Again(run.session) : Go(place)
  /\ cancelled' = cancelled \cup {run.session}
  /\ UNCHANGED <<settings, cancel, conn, missed, writer, traffic, down>>

\* Connected; the writer starts.
Connect ==
  /\ At("dial")
  /\ run' = [run EXCEPT !.at = "up"]
  /\ conn' = [conn EXCEPT ![run.session] = "open"]
  /\ writer' = [writer EXCEPT ![run.session] = Waiting]
  /\ UNCHANGED <<settings, cancel, cancelled, missed, traffic, down>>

\* The watcher closes the connection of a cancelled session.
WatcherCloses ==
  /\ At("up") /\ Cancelled(run.session) /\ conn[run.session] = "open"
  /\ conn' = [conn EXCEPT ![run.session] = "closed"]
  /\ UNCHANGED <<settings, cancel, run, cancelled, missed, writer, traffic, down>>

\* The read loop ends, by cancellation or when the link breaks; the session
\* cancels itself and closes its connection.
ReadEnds ==
  /\ At("up")
  /\ \E place \in Again(run.session) :
       run' = [run EXCEPT !.at = "stopping", !.next = place]
  /\ cancelled' = cancelled \cup {run.session}
  /\ conn' = [conn EXCEPT ![run.session] = "closed"]
  /\ UNCHANGED <<settings, cancel, missed, writer, traffic, down>>

Joined(s) == writer[s] = Stopped

\* The writer is waited for; then the deferred calls run, the last FEND to
\* the TNC among them.
Close ==
  /\ At("stopping")
  /\ Joined(run.session)
  /\ Go(run.next)
  /\ UNCHANGED <<settings, cancel, cancelled, conn, missed, writer, traffic, down>>

Unsubscribe ==
  /\ At("unsubscribe")
  /\ Go(After("unsubscribe"))
  /\ subscribed' = FALSE
  /\ UNCHANGED <<cfg, updates, notes, subscriber, cancel, cancelled, conn, missed,
                 writer, traffic, down>>

JoinSubscriber ==
  /\ At("join") /\ subscriber = "gone"
  /\ Go(After("join"))
  /\ UNCHANGED <<settings, cancel, cancelled, conn, missed, writer, traffic, down>>

Shutdown ==
  /\ ~down
  /\ down' = TRUE
  /\ UNCHANGED <<settings, link, writer, traffic>>

-----------------------------------------------------------------------------
(* TX and writeLoop                                                        *)

Enabled == cfg.device # None /\ cfg.tx
TakesAny == Len(txq) < QueueDepth
Takes    == Enabled /\ Len(txq) < QueueDepth

\* With the settings of the moment it is offered; a full queue refuses it.
TX ==
  /\ offered < Frames
  /\ offered' = offered + 1
  /\ txq' = IF Takes THEN Append(txq, offered') ELSE txq
  /\ UNCHANGED <<settings, link, writer, written, lost, down>>

\* select: a frame is taken also when the context is done.
Take(s) ==
  /\ writer[s] = Waiting /\ txq # << >>
  /\ \E step \in {"space", "write"} :
       writer' = [writer EXCEPT ![s] = [step |-> step, frame |-> Head(txq)]]
  /\ txq' = Tail(txq)
  /\ UNCHANGED <<settings, link, offered, written, lost, down>>

Spaced(s) ==
  /\ writer[s].step = "space"
  /\ writer' = [writer EXCEPT ![s].step = "write"]
  /\ UNCHANGED <<settings, link, traffic, down>>

StopsWaiting(s) == writer[s] = Waiting /\ Cancelled(s)

WriterStops(s) ==
  /\ StopsWaiting(s)
  /\ writer' = [writer EXCEPT ![s] = Stopped]
  /\ UNCHANGED <<settings, link, traffic, down>>

\* The frame in hand is gone when the wait is cancelled or the write fails.
LoseAndEnd(s) == writer' = [writer EXCEPT ![s] = Stopped]

LoseRequeued(s) ==
  /\ LoseAndEnd(s)
  /\ txq' = Append(txq, writer[s].frame)
  /\ UNCHANGED <<settings, link, offered, written, lost, down>>

Lose(s) ==
  /\ LoseAndEnd(s)
  /\ lost' = [lost EXCEPT ![s] = @ + 1]
  /\ UNCHANGED <<settings, link, txq, offered, written, down>>

SpacingCancelled(s) == writer[s].step = "space" /\ Cancelled(s) /\ Lose(s)

WriteFails(s) == writer[s].step = "write" /\ Lose(s)

Write(s) ==
  /\ writer[s].step = "write"
  /\ conn[s] = "open"
  /\ written' = writer[s].frame
  /\ writer' = [writer EXCEPT ![s] = Waiting]
  /\ UNCHANGED <<settings, link, txq, offered, lost, down>>

WriterStep(s) ==
  Take(s) \/ Spaced(s) \/ WriterStops(s) \/ SpacingCancelled(s) \/ WriteFails(s) \/ Write(s)

-----------------------------------------------------------------------------
Init ==
  /\ cfg \in Settings
  /\ updates = 0 /\ notes = 0 /\ subscribed = TRUE /\ subscriber = "idle"
  /\ cancel = None
  /\ run = Between("loop")
  /\ cancelled = {}
  /\ conn = [s \in Slots |-> "none"]
  /\ writer = [s \in Slots |-> Stopped]
  /\ txq = << >>
  /\ down = FALSE
  /\ offered = 0 /\ written = NoFrame /\ lost = [s \in Slots |-> 0]
  /\ missed = "none"

RunStep ==
  \/ Loop \/ Wake \/ Open \/ DialFails \/ Connect \/ Close
  \/ Unsubscribe \/ JoinSubscriber

SubscriberStep == HearChange \/ DropSession \/ SubscriberEnds

Next ==
  \/ \E c \in Settings : Update(c) \/ UpdateNotSaved(c)
  \/ Notify
  \/ SubscriberStep
  \/ RunStep \/ WatcherCloses \/ ReadEnds
  \/ Shutdown
  \/ TX
  \/ \E s \in Slots : WriterStep(s)

Spec == Init /\ [][Next]_vars

\* Started goroutines go on; a read returns once its connection is closed,
\* a write and a dial return.  Nobody need change settings or shut down.
Fairness ==
  /\ WF_vars(Notify)
  /\ WF_vars(SubscriberStep)
  /\ WF_vars(RunStep)
  /\ WF_vars(WatcherCloses)
  /\ WF_vars(ReadEnds /\ conn[run.session] = "closed")
  /\ \A s \in Slots : WF_vars(WriterStep(s))

FairSpec == Spec /\ Fairness

-----------------------------------------------------------------------------
Places == {"loop", "wait", "snapshot", "dial", "up", "stopping", "unsubscribe", "join", "gone"}

TypeOK ==
  /\ cfg \in Settings
  /\ updates \in 0..MaxUpdates /\ notes \in 0..NotesDepth
  /\ subscribed \in BOOLEAN
  /\ subscriber \in {"idle", "drop", "gone"}
  /\ cancel \in Slots \cup {None}
  /\ run \in [at : Places, snap : Settings, session : Slots \cup {None},
              next : {"wait", "loop"}]
  /\ cancelled \subseteq Slots
  /\ conn \in [Slots -> {"none", "open", "closed"}]
  /\ writer \in [Slots -> [step : {"none", "idle", "space", "write"},
                           frame : 0..Frames]]
  /\ txq \in Seq(1..Frames) /\ Len(txq) <= QueueDepth
  /\ down \in BOOLEAN
  /\ offered \in 0..Frames /\ written \in 0..Frames
  /\ lost \in [Slots -> Nat]
  /\ missed \in {"none", "heard", "unsaved"}

\* One goroutine takes frames from the queue, that of the session in
\* progress, however sessions end and new ones follow: two would transmit
\* past each other's spacing.
OneWriter ==
  \A s \in Slots : writer[s] # Stopped => s = run.session /\ run.at \in {"up", "stopping"}

\* Frames reach the TNC in the order they were accepted and once each, across
\* sessions: what was written, what a writer holds and what is queued follow
\* each other.
InOrder ==
  LET held == {writer[s].frame : s \in Slots} \ {NoFrame}
  IN  /\ \A f \in held : written < f
      /\ \A k \in DOMAIN txq : /\ written < txq[k]
                               /\ \A f \in held : f < txq[k]
                               /\ \A m \in DOMAIN txq : k < m => txq[k] < txq[m]

\* A session costs at most one accepted frame, whether its link breaks under
\* the writer or it is cancelled while the writer waits.
OneLossPerSession == \A s \in Slots : lost[s] <= 1

\* What TX took and the TNC did not get yet: the frame in the hands of the session's
\* writer comes first.
InHand == IF run.session = None THEN NoFrame ELSE writer[run.session].frame
Pending == (IF InHand = NoFrame THEN << >> ELSE <<InHand>>) \o txq
Spent == run.session # None /\ lost[run.session] > 0

Queue == INSTANCE SendQueue WITH
  Depth <- QueueDepth, open <- Enabled, pending <- Pending, delivered <- written, spent <- Spent

\* TX, the writers and Run together keep the queue's promise: a frame TX took is not lost
\* with its session, overtaken or transmitted twice, however sessions end and settings
\* change; but for the one a writer had in its hands.
QueueKept == Queue!Spec

\* A session runs on a device that is no longer configured only while the
\* change is being announced, or when it missed it: announced between the
\* session's snapshot and the publication of its cancel function, or never
\* announced because it could not be saved.
StaleOnlyIfMissed ==
  /\ run.at = "up"
  /\ ~Cancelled(run.session)
  /\ run.snap # cfg
  => updates > 0 \/ notes > 0 \/ subscriber = "drop" \/ missed # "none"

CancelEnds ==
  run.at \in {"dial", "up"} /\ Cancelled(run.session) ~> run.at \notin {"dial", "up", "stopping"}

KeepsTrying == []<>(run.at \in {"dial", "up"} \/ cfg.device = None \/ down)

ShutdownCompletes ==
  down ~> At("gone") /\ subscriber = "gone" /\ \A s \in Slots : writer[s] = Stopped

\* What must end, ends, whatever the writer, the reader and the subscriber are
\* doing: a cancelled session; the time without a session while a TNC is
\* configured; and after a shutdown the session, its writer, the subscriber
\* and Run itself.
EndsCome == CancelEnds /\ KeepsTrying /\ ShutdownCompletes
================================================================================
