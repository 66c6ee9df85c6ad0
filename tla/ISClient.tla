------------------------------ MODULE ISClient ------------------------------
(***************************************************************************)
(* The client of the APRS-IS server (package igate): Run, which snapshots  *)
(* the settings, dials, logs in and runs one session after another with a  *)
(* growing wait between them; the goroutine that drops the session at any  *)
(* change of settings; the session's reader, close watcher and writer; the *)
(* bounded queue of lines, which outlives sessions; and shutdown.          *)
(*                                                                         *)
(* Unlike the link to the TNC, the reader here does not learn that the     *)
(* writer has died: the session stands as long as the server talks.  What  *)
(* the operator is shown, the last error and the server's verdict on the   *)
(* passcode, is part of the model; a line the server sends is a frame for  *)
(* Inbox.                                                                  *)
(***************************************************************************)
EXTENDS Naturals, Sequences

CONSTANTS
  Servers,     \* settings that name a server and a login
  None,        \* settings without
  Lines,       \* bound: lines offered by Send
  QueueDepth,  \* outQueueDepth (256)
  NotesDepth,  \* buffer of a settings subscription (4)
  MaxBackoff,  \* the longest wait, in units of the first (20)
  MaxUpdates,  \* bound: updates of the settings
  MaxSessions  \* bound: sessions dialled

ASSUME ClientAssumption ==
  /\ None \notin Servers
  /\ {QueueDepth, NotesDepth, MaxBackoff} \subseteq Nat \ {0}
  /\ {Lines, MaxUpdates, MaxSessions} \subseteq Nat

VARIABLES
  cfg,          \* the settings in force
  updates,      \* updates made, and how many of them are not announced yet
  unannounced,
  notes,        \* announcements waiting in the subscription's channel
  subscriber,   \* the goroutine that drops sessions: "idle", "drop", "gone"
  silentDrop,   \* the next error is put down to a change of settings
  at, snap,     \* where Run is, and its snapshot
  cancel,       \* sessionCancel: "none", of "this" session, or of an "old" one
  cancelled,    \* the session's context is done
  conn,         \* its connection: "open", "broken" (no more to read), "closed"
  writer,       \* its writer: "gone", "idle", "holding" a line, "died"
  held,         \* the line the writer holds, or 0
  backoff,      \* the wait after the next error
  lastError,    \* what the operator sees: "none", "dial", "session"
  verification, \* and the server's verdict: "unknown", "verified", "unverified"
  outQ,         \* lines waiting for the writer, numbered as offered
  down,         \* the program is shutting down
  offered, sessions,  \* what the bounds count
  written,      \* history: the line written last
  lost,         \* history: lines the present session took and did not write
  missed        \* history: a change came that cannot drop the session

settings == <<cfg, updates, unannounced, notes>>
session == <<cancel, cancelled, conn>>
shown == <<lastError, verification>>
told == <<silentDrop, backoff, shown>>
lines == <<outQ, held, offered, written, lost>>
rest == <<down, sessions, missed>>
vars == <<settings, subscriber, silentDrop, at, snap, session, writer, backoff, shown, lines, rest>>

Done == cancelled \/ down

Init ==
  /\ cfg \in Servers \cup {None} /\ updates = 0 /\ unannounced = 0 /\ notes = 0
  /\ subscriber = "idle" /\ silentDrop = FALSE
  /\ at = "loop" /\ snap = None /\ cancel = "none" /\ cancelled = FALSE /\ conn = "closed"
  /\ writer = "gone" /\ backoff = 1
  /\ lastError = "none" /\ verification = "unknown"
  /\ outQ = <<>> /\ held = 0 /\ offered = 0 /\ written = 0 /\ lost = 0
  /\ down = FALSE /\ sessions = 0 /\ missed = FALSE

-----------------------------------------------------------------------------
(* The settings and the subscriber.                                        *)

\* Any update is announced, whether or not it touches the login; an update that says
\* the same is one too.
Update(c) ==
  /\ updates < MaxUpdates
  /\ cfg' = c /\ updates' = updates + 1 /\ unannounced' = unannounced + 1
  /\ UNCHANGED <<notes, subscriber, told, at, snap, session, writer, lines, rest>>

\* The save failed: in force, and never announced.
UpdateNotSaved(c) ==
  /\ updates < MaxUpdates
  /\ cfg' = c /\ updates' = updates + 1
  /\ missed' = (missed \/ at \in {"snapshot", "dial", "up"})
  /\ UNCHANGED <<unannounced, notes, subscriber, told, at, snap, session, writer, lines, down,
                 sessions>>

Announce ==
  /\ unannounced > 0
  /\ unannounced' = unannounced - 1
  /\ notes' = IF notes < NotesDepth /\ at \notin {"join", "gone"} THEN notes + 1 ELSE notes
  /\ UNCHANGED <<cfg, updates, subscriber, told, at, snap, session, writer, lines, rest>>

HearChange ==
  /\ subscriber = "idle" /\ notes > 0
  /\ notes' = notes - 1
  /\ subscriber' = "drop" /\ silentDrop' = TRUE
  /\ UNCHANGED <<cfg, updates, unannounced, at, snap, session, writer, backoff, shown,
                 lines, rest>>

\* The cancel function may still be that of a session that is over.
DropSession ==
  /\ subscriber = "drop"
  /\ subscriber' = "idle"
  /\ cancelled' = (cancelled \/ cancel = "this")
  /\ cancel' = "none"
  /\ missed' = (missed \/ at = "snapshot")
  /\ UNCHANGED <<settings, told, at, snap, conn, writer, lines, down, sessions>>

SubscriberEnds ==
  /\ at = "join" /\ subscriber = "idle" /\ notes = 0
  /\ subscriber' = "gone"
  /\ UNCHANGED <<settings, told, at, snap, session, writer, lines, rest>>

-----------------------------------------------------------------------------
(* Run.                                                                    *)

\* A wait, for the settings to name a server or after an error, ends with the program.
Loop ==
  /\ at = "loop" /\ (sessions < MaxSessions \/ down)
  /\ at' = IF down THEN "join" ELSE IF cfg = None THEN "wait" ELSE "snapshot"
  /\ snap' = cfg
  /\ missed' = FALSE
  /\ UNCHANGED <<settings, subscriber, told, session, writer, lines, down, sessions>>

Wake ==
  /\ at = "wait"
  /\ at' = IF down THEN "join" ELSE "loop"
  /\ UNCHANGED <<settings, subscriber, told, snap, session, writer, lines, rest>>

PublishLate == cancel' = cancel
PublishFirst == cancel' = "this"

\* The cancel function is published before the client dials.
Open ==
  /\ at = "snapshot"
  /\ at' = "dial" /\ sessions' = sessions + 1
  /\ PublishFirst
  /\ cancelled' = FALSE /\ conn' = "closed" /\ lost' = 0
  /\ UNCHANGED <<settings, subscriber, told, snap, writer, outQ, held, offered, written,
                 down, missed>>

\* Longer after each error, whatever the session that ended had achieved.
Longer == IF 2 * backoff < MaxBackoff THEN 2 * backoff ELSE MaxBackoff

\* The first error after a change of settings is not shown, whichever session it ends.
HandleError(kind) ==
  /\ at' = "wait"
  /\ silentDrop' = FALSE
  /\ lastError' = IF silentDrop THEN lastError ELSE kind
  /\ backoff' = Longer
  /\ cancel' = IF cancel = "this" THEN "old" ELSE cancel
  /\ cancelled' = TRUE

DialFails ==
  /\ at = "dial"
  /\ HandleError("dial")
  /\ UNCHANGED <<settings, subscriber, snap, conn, writer, verification, lines, rest>>

\* Only a dial that was cancelled is no error; the next follows at once.
DialCancelled ==
  /\ at = "dial" /\ Done
  /\ at' = "loop" /\ backoff' = 1
  /\ cancel' = IF cancel = "this" THEN "old" ELSE cancel
  /\ UNCHANGED <<settings, subscriber, silentDrop, snap, cancelled, conn, writer, shown,
                 lines, rest>>

Login ==
  /\ at = "dial"
  /\ at' = "up" /\ conn' = "open" /\ writer' = "idle"
  /\ lastError' = "none" /\ verification' = "unknown"
  /\ UNCHANGED <<settings, subscriber, silentDrop, snap, cancel, cancelled, backoff,
                 lines, rest>>

\* A "# logresp" line; other comments and frames change nothing here.
Logresp ==
  /\ at = "up" /\ conn = "open"
  /\ \E verdict \in {"verified", "unverified"} : verification' = verdict
  /\ UNCHANGED <<settings, subscriber, silentDrop, at, snap, session, writer, backoff,
                 lastError, lines, rest>>

\* The server closes the connection, or says nothing for a minute.
ServerGone ==
  /\ at = "up" /\ conn = "open"
  /\ conn' = "broken"
  /\ UNCHANGED <<settings, subscriber, told, at, snap, cancel, cancelled, writer, lines,
                 rest>>

WatcherIdle == FALSE /\ UNCHANGED vars

WatcherCloses ==
  /\ at = "up" /\ Done /\ conn # "closed"
  /\ conn' = "closed"
  /\ UNCHANGED <<settings, subscriber, told, at, snap, cancel, cancelled, writer, lines,
                 rest>>

\* The reader cancels the session and waits for its writer.
ReadEnds ==
  /\ at = "up" /\ conn # "open"
  /\ at' = "closing" /\ cancelled' = TRUE
  /\ UNCHANGED <<settings, subscriber, told, snap, cancel, conn, writer, lines, rest>>

JoinWriter == writer \in {"gone", "died"}

Close ==
  /\ at = "closing" /\ JoinWriter
  /\ HandleError("session")
  /\ conn' = "closed"
  /\ UNCHANGED <<settings, subscriber, snap, writer, verification, lines, rest>>

JoinSubscriber ==
  /\ at = "join" /\ subscriber = "gone"
  /\ at' = "gone"
  /\ UNCHANGED <<settings, subscriber, told, snap, session, writer, lines, rest>>

Shutdown ==
  /\ ~down /\ down' = TRUE
  /\ UNCHANGED <<settings, subscriber, told, at, snap, session, writer, lines, sessions,
                 missed>>

-----------------------------------------------------------------------------
(* Send and the writer.                                                    *)

OldestOut == Append(Tail(outQ), offered + 1)
Refused == outQ

\* Connected or not: a full queue refuses the line.
Send ==
  /\ offered < Lines
  /\ offered' = offered + 1
  /\ outQ' = IF Len(outQ) < QueueDepth THEN Append(outQ, offered') ELSE Refused
  /\ UNCHANGED <<settings, subscriber, told, at, snap, session, writer, held, written,
                 lost, rest>>

\* A select with both ready takes either: a line is taken after the end too.
Take ==
  /\ writer = "idle" /\ outQ # <<>>
  /\ writer' = "holding" /\ held' = Head(outQ) /\ outQ' = Tail(outQ)
  /\ UNCHANGED <<settings, subscriber, told, at, snap, session, offered, written, lost,
                 rest>>

Write ==
  /\ writer = "holding" /\ conn # "closed"
  /\ written' = held /\ held' = 0 /\ writer' = "idle"
  /\ UNCHANGED <<settings, subscriber, told, at, snap, session, outQ, offered, lost, rest>>

LoseLine == outQ' = outQ /\ lost' = lost + 1

\* The connection is closed, or the server takes nothing for thirty seconds: the
\* writer ends.  Its error waits in a channel nobody reads before the reader ends.
WriteFails ==
  /\ writer = "holding"
  /\ writer' = "died" /\ held' = 0
  /\ LoseLine
  /\ UNCHANGED <<settings, subscriber, told, at, snap, session, offered, written, rest>>

WriterStops ==
  /\ writer = "idle" /\ Done
  /\ writer' = "gone"
  /\ UNCHANGED <<settings, subscriber, told, at, snap, session, lines, rest>>

RunStep ==
  \/ Loop \/ Wake \/ Open \/ DialFails \/ DialCancelled \/ Login
  \/ ReadEnds \/ Close \/ JoinSubscriber
WriterStep == Take \/ Write \/ WriteFails \/ WriterStops
SubscriberStep == HearChange \/ DropSession \/ SubscriberEnds

Next ==
  \/ \E c \in Servers \cup {None} : Update(c) \/ UpdateNotSaved(c)
  \/ Announce \/ SubscriberStep
  \/ RunStep \/ WatcherCloses \/ Logresp \/ ServerGone
  \/ Send \/ WriterStep
  \/ Shutdown

Spec == Init /\ [][Next]_vars

\* Goroutines that can run do; timers, dials and writes end.  The server need not
\* close, nor fall silent.
Fairness ==
  /\ WF_vars(Announce) /\ WF_vars(SubscriberStep)
  /\ WF_vars(RunStep) /\ WF_vars(WatcherCloses) /\ WF_vars(WriterStep)

FairSpec == Spec /\ Fairness
-----------------------------------------------------------------------------
(* Properties.                                                             *)

Places == {"loop", "wait", "snapshot", "dial", "up", "closing", "join", "gone"}

TypeOK ==
  /\ cfg \in Servers \cup {None} /\ snap \in Servers \cup {None}
  /\ updates \in 0..MaxUpdates /\ unannounced \in Nat /\ notes \in 0..NotesDepth
  /\ subscriber \in {"idle", "drop", "gone"} /\ at \in Places
  /\ cancel \in {"none", "this", "old"} /\ conn \in {"open", "broken", "closed"}
  /\ {silentDrop, cancelled, down, missed} \subseteq BOOLEAN
  /\ writer \in {"gone", "idle", "holding", "died"}
  /\ backoff \in 1..MaxBackoff /\ sessions \in Nat /\ lost \in Nat
  /\ lastError \in {"none", "dial", "session"}
  /\ verification \in {"unknown", "verified", "unverified"}
  /\ outQ \in Seq(1..Lines) /\ Len(outQ) <= QueueDepth
  /\ {held, offered, written} \subseteq 0..Lines

\* The server gets the lines in the order Send accepted them, each at most once, and a
\* session costs at most one: across sessions, whether a write failed, the server went
\* or the settings changed under the writer.
LinesInOrder ==
  /\ held # 0 => written < held
  /\ \A k \in DOMAIN outQ : /\ written < outQ[k] /\ held < outQ[k]
                           /\ \A m \in DOMAIN outQ : k < m => outQ[k] < outQ[m]
  /\ lost <= 1

\* What Send took and no server got yet: the line in the writer's hands comes first.
Pending == (IF held = 0 THEN << >> ELSE <<held>>) \o outQ

Queue == INSTANCE SendQueue WITH
  Depth <- QueueDepth, open <- TRUE, pending <- Pending, delivered <- written, spent <- lost > 0

\* Send, the writer and Run together keep the queue's promise: a line Send took is not
\* lost with its session, overtaken or written twice, whichever way sessions end; but for
\* the one a writer had in its hands, and one only.
QueueKept == Queue!Spec

\* A session under settings no longer in force is one whose change is on its way to
\* the subscriber, was heard between its snapshot and its cancel function, or could not
\* be saved.
StaleOnlyIfMissed ==
  at = "up" /\ ~Done /\ snap # cfg => unannounced > 0 \/ notes > 0 \/ subscriber = "drop" \/ missed

\* Shutdown ends Run, its writer and its subscriber, wherever they are.
ShutdownCompletes == down ~> at = "gone" /\ subscriber = "gone" /\ writer \in {"gone", "died"}
=============================================================================
