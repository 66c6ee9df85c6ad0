------------------------------ MODULE Process -------------------------------
(***************************************************************************)
(* The life of the process (Server.Run) and the one thing every part of it *)
(* adds to, the statistics counters (stats.go): counters are loaded before *)
(* the first frame is counted, saved once a minute and once more at the    *)
(* end; every background task runs under a supervisor that recovers its    *)
(* panics; and a shutdown stops the HTTP servers, waits for the tasks and  *)
(* closes the database.                                                    *)
(*                                                                         *)
(* One counter stands for all of them.  Of the tasks, the parse loop,      *)
(* which counts, and the counter flusher are told apart; the others only   *)
(* have to leave.  What the tasks do is the subject of the other modules.  *)
(***************************************************************************)
EXTENDS Naturals

CONSTANTS
  Others,      \* the tasks that neither count nor save
  MaxFrames,   \* bound: frames counted
  MaxPanics,   \* bound: panics recovered
  MaxDeaths    \* bound: times the process ends

ASSUME ProcessAssumption ==
  /\ {"parse", "flush"} \cap Others = {}
  /\ {MaxFrames, MaxPanics, MaxDeaths} \subseteq Nat

VARIABLES
  life,       \* "starting", "up", "draining" HTTP, "joining" tasks, "closed", "dead"
  signalled,  \* the context is cancelled
  listeners,  \* "up", or "failed": one of them has ended
  handler,    \* a request that takes its time is being served
  task,       \* each task: "on", "recovered" from a panic, "leaving", "gone"
  counter, base, \* the counter, and its value when the process started
  inHand,     \* the snapshot being saved, or Nothing
  stored,     \* the value in the database
  frames, panics, deaths,  \* what the bounds count
  unsaved,    \* history: frames counted since the last snapshot that was saved
  afterSnap,  \* history: those of them counted since the snapshot in hand
  forgotten,  \* history: frames that were unsaved when a process ended
  unread      \* history: a process could not load the counter

counters == <<counter, base, inHand, stored, unsaved, afterSnap>>
bounds == <<frames, panics, deaths>>
processVars == <<life, signalled, listeners, handler, task, counters, bounds, forgotten, unread>>

Tasks == {"parse", "flush"} \cup Others
Nothing == MaxFrames + 1
Running == life \notin {"closed", "dead"}

ProcessInit ==
  /\ life = "dead" /\ signalled = FALSE /\ listeners = "up" /\ handler = FALSE
  /\ task = [t \in Tasks |-> "gone"]
  /\ counter = 0 /\ base = 0 /\ inHand = Nothing /\ stored = 0
  /\ frames = 0 /\ panics = 0 /\ deaths = 0
  /\ unsaved = 0 /\ afterSnap = 0 /\ forgotten = 0 /\ unread = FALSE

-----------------------------------------------------------------------------
(* Starting.                                                               *)

HydrateNone == counter' = 0 /\ base' = 0
Hydrate == counter' = stored /\ base' = stored

\* The counter is loaded before any task runs; one that cannot be read starts from zero.
Start ==
  /\ life = "dead" /\ deaths < MaxDeaths
  /\ life' = "starting"
  /\ signalled' = FALSE /\ listeners' = "up"
  /\ \/ Hydrate /\ UNCHANGED unread
     \/ counter' = 0 /\ base' = 0 /\ unread' = TRUE
  /\ task' = [t \in Tasks |-> "on"]
  /\ UNCHANGED <<handler, inHand, stored, unsaved, afterSnap, bounds, forgotten>>

Listen ==
  /\ life = "starting"
  /\ life' = "up"
  /\ UNCHANGED <<signalled, listeners, handler, task, counters, bounds, forgotten, unread>>

-----------------------------------------------------------------------------
(* The end of a process, clean or not: memory is lost, the database is not. *)

Die ==
  /\ life' = "dead" /\ deaths' = deaths + 1
  /\ task' = [t \in Tasks |-> "gone"] /\ handler' = FALSE
  /\ inHand' = Nothing
  /\ forgotten' = forgotten + unsaved /\ unsaved' = 0 /\ afterSnap' = 0
  /\ UNCHANGED <<signalled, listeners, counter, base, stored, frames, panics, unread>>

\* Without a certificate Run returns at once, with its tasks running.
NoCertificate == life = "starting" /\ Die
Crash == life # "dead" /\ Die
Exit == life = "closed" /\ Die

-----------------------------------------------------------------------------
(* The tasks.                                                              *)

Count ==
  /\ Running /\ task["parse"] = "on" /\ frames < MaxFrames
  /\ frames' = frames + 1
  /\ counter' = counter + 1 /\ unsaved' = unsaved + 1 /\ afterSnap' = afterSnap + 1
  /\ UNCHANGED <<life, signalled, listeners, handler, task, base, inHand, stored, panics,
                 deaths, forgotten, unread>>

\* Every minute, and when the flusher sees the end.
Snapshot ==
  /\ Running /\ task["flush"] \in {"on", "leaving"} /\ inHand = Nothing
  /\ task["flush"] = "leaving" => signalled
  /\ inHand' = counter /\ afterSnap' = 0
  /\ UNCHANGED <<life, signalled, listeners, handler, task, counter, base, stored, unsaved,
                 bounds, forgotten, unread>>

\* Saved or, the database willing otherwise, not; the last snapshot ends the task.
Save(ok) ==
  /\ Running /\ inHand # Nothing
  /\ stored' = IF ok THEN inHand ELSE stored
  /\ unsaved' = IF ok THEN afterSnap ELSE unsaved
  /\ inHand' = Nothing
  /\ task' = IF task["flush"] = "leaving" THEN [task EXCEPT !["flush"] = "gone"] ELSE task
  /\ UNCHANGED <<life, signalled, listeners, handler, counter, base, afterSnap, bounds,
                 forgotten, unread>>

\* The supervisor recovers, and calls the task again unless the process is ending.
Panic(t) ==
  /\ Running /\ task[t] = "on" /\ panics < MaxPanics
  /\ panics' = panics + 1
  /\ task' = [task EXCEPT ![t] = "recovered"]
  /\ inHand' = IF t = "flush" THEN Nothing ELSE inHand
  /\ UNCHANGED <<life, signalled, listeners, handler, counter, base, stored, unsaved,
                 afterSnap, frames, deaths, forgotten, unread>>

CallAgain == IF signalled THEN "gone" ELSE "on"

Recover(t) ==
  /\ Running /\ task[t] = "recovered"
  /\ task' = [task EXCEPT ![t] = CallAgain]
  /\ UNCHANGED <<life, signalled, listeners, handler, counters, bounds, forgotten, unread>>

\* The flusher leaves by way of one more snapshot.
Leave(t) ==
  /\ Running /\ signalled /\ task[t] = "on"
  /\ t = "flush" => inHand = Nothing
  /\ task' = [task EXCEPT ![t] = IF t = "flush" THEN "leaving" ELSE "gone"]
  /\ UNCHANGED <<life, signalled, listeners, handler, counters, bounds, forgotten, unread>>

-----------------------------------------------------------------------------
(* HTTP, and the shutdown.                                                 *)

ListenerFails ==
  /\ life = "up" /\ listeners = "up"
  /\ listeners' = "failed"
  /\ UNCHANGED <<life, signalled, handler, task, counters, bounds, forgotten, unread>>

Serve(busy) ==
  /\ Running /\ life # "starting" /\ handler # busy
  /\ busy => life = "up"
  /\ handler' = busy
  /\ UNCHANGED <<life, signalled, listeners, task, counters, bounds, forgotten, unread>>

Signal ==
  /\ Running /\ ~signalled
  /\ signalled' = TRUE
  /\ UNCHANGED <<life, listeners, handler, task, counters, bounds, forgotten, unread>>

\* Only the signal ends the wait: a listener that has failed is remembered until then.
Drain ==
  /\ life = "up" /\ signalled
  /\ life' = "draining"
  /\ UNCHANGED <<signalled, listeners, handler, task, counters, bounds, forgotten, unread>>

DrainedForSure == ~handler
Drained == TRUE

\* A request has five seconds to end; one that takes longer is left alone.
Join ==
  /\ life = "draining" /\ Drained
  /\ life' = "joining"
  /\ UNCHANGED <<signalled, listeners, handler, task, counters, bounds, forgotten, unread>>

CloseStore ==
  /\ life = "joining" /\ \A t \in Tasks : task[t] = "gone"
  /\ life' = "closed"
  /\ UNCHANGED <<signalled, listeners, handler, task, counters, bounds, forgotten, unread>>

Shutdown ==
  \/ Drain \/ Join \/ CloseStore \/ Exit
  \/ \E ok \in BOOLEAN : Save(ok)
  \/ task["flush"] = "leaving" /\ Snapshot
  \/ \E t \in Tasks : Recover(t)

ProcessNext ==
  \/ Start \/ Listen \/ NoCertificate \/ Crash \/ Signal \/ ListenerFails
  \/ Count \/ Snapshot
  \/ \E t \in Tasks : Panic(t) \/ Leave(t)
  \/ \E busy \in BOOLEAN : Serve(busy)
  \/ Shutdown

ProcessSpec == ProcessInit /\ [][ProcessNext]_processVars

\* What Run and the supervisor do, they do; a task that may always leave leaves, though it
\* may first take whatever else is ready; a request may take for ever.
FairProcessSpec ==
  /\ ProcessSpec /\ WF_processVars(Shutdown) /\ WF_processVars(Listen)
  /\ \A t \in Tasks : SF_processVars(Leave(t))

-----------------------------------------------------------------------------
ProcessTypeOK ==
  /\ life \in {"starting", "up", "draining", "joining", "closed", "dead"}
  /\ {signalled, handler, unread} \subseteq BOOLEAN /\ listeners \in {"up", "failed"}
  /\ task \in [Tasks -> {"on", "recovered", "leaving", "gone"}]
  /\ {counter, base, inHand, stored, unsaved, afterSnap, forgotten} \subseteq Nat
  /\ frames \in 0..MaxFrames /\ panics \in 0..MaxPanics /\ deaths \in 0..MaxDeaths

\* The stored counter never goes back, over panics, restarts, crashes and saves that
\* fail, unless a process could not read it (server.go:297-306, stats.go:94-109).
NeverBackwards == [][stored' < stored => unread]_processVars

\* What the operator reads as the total is what was ever counted, less what was not saved
\* when a process ended: a crash or a shutdown costs the frames since the last snapshot
\* and no others (server.go:876-903).
TotalIsAccounted ==
  Running /\ ~unread => counter + forgotten = frames

\* A signal ends the process, whatever panics, whatever cannot be saved and however long
\* a request takes (server.go:398-435).
SignalEnds == signalled /\ Running ~> life = "dead"
=============================================================================
