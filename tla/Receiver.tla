------------------------------ MODULE Receiver ------------------------------
(***************************************************************************)
(* The GPS supervisor (package gps): it hears the settings, stops the      *)
(* session of the old source and waits for it to end before it starts the  *)
(* new one; the session reads reports from a serial receiver or from gpsd  *)
(* and folds them into the one fix the program has.                        *)
(*                                                                         *)
(* Serial and gpsd differ in how a report is decoded and in nothing else;  *)
(* speed, course and satellites are left out.  A receiver stands for the   *)
(* source together with its device, speed or address (configKey).  How     *)
(* announcements get lost or swapped on their way is the subject of        *)
(* StateStore; here one is lost when the channel is full.                  *)
(***************************************************************************)
EXTENDS Naturals, Sequences

CONSTANTS
  Receivers,  \* GPS sources that can be configured
  Off,        \* the fixed position is the source
  Settings,   \* the settings the operator chooses from (see Beacon)
  NotesDepth, \* buffer of a settings subscription (4)
  LiveWindow, \* liveWindow, in ticks of the clock
  MaxFixAge   \* GPSMaxFixAgeS, in ticks

ASSUME ReceiverAssumption ==
  /\ Off \notin Receivers
  /\ \A s \in Settings : s.source \in Receivers \cup {Off}
  /\ {NotesDepth, LiveWindow, MaxFixAge} \subseteq Nat \ {0}

VARIABLES
  settings, notes, \* the settings, and the announcements the supervisor has not heard
  current,         \* the source the supervisor has applied
  stopping,        \* it waits for the old session to end
  sess,            \* each source's session: "gone", "dial", "reading", "wait", "holding"
                   \* a report it has not applied yet
  locked, fix      \* the lock; the last fix: whose, and how many ticks ago

receiverVars == <<settings, notes, current, stopping, sess, locked, fix>>

\* A fix older than this is of no more use, whatever the settings say.
Useless == IF LiveWindow > MaxFixAge THEN LiveWindow ELSE MaxFixAge + 1
NoFix == [of |-> Off, age |-> Useless]

ReceiverInit ==
  /\ settings \in Settings /\ notes = <<>>
  /\ current = settings.source /\ stopping = FALSE
  /\ sess = [r \in Receivers |-> IF r = current THEN "dial" ELSE "gone"]
  /\ locked = FALSE /\ fix = NoFix

\* An update is announced, unless the channel is full.
Change(s) ==
  /\ settings' = s
  /\ notes' = IF Len(notes) < NotesDepth THEN Append(notes, s.source) ELSE notes
  /\ UNCHANGED <<current, stopping, sess, locked, fix>>

-----------------------------------------------------------------------------
(* The supervisor.                                                         *)

\* Only a change of source matters; a session that runs is cancelled.
HearSettings ==
  /\ ~stopping /\ notes # <<>>
  /\ notes' = Tail(notes)
  /\ current' = Head(notes) /\ stopping' = (current' # current)
  /\ UNCHANGED <<settings, sess, locked, fix>>

Live(r) == r = current /\ ~stopping

EndedNotAwaited == TRUE
SessionEnded == \A r \in Receivers : sess[r] = "gone"

\* Idle, and on to the new source.  The last fix stays, whosever it is.
StartSession ==
  /\ stopping /\ SessionEnded
  /\ stopping' = FALSE /\ locked' = FALSE
  /\ sess' = [r \in Receivers |-> IF r = current THEN "dial" ELSE sess[r]]
  /\ UNCHANGED <<settings, notes, current, fix>>

-----------------------------------------------------------------------------
(* A session, and the reconnecting loop around it.                         *)

Step(r, from, to) == sess[r] = from /\ sess' = [sess EXCEPT ![r] = to]

Opened(r) ==
  /\ Step(r, "dial", "reading")
  /\ UNCHANGED <<settings, notes, current, stopping, locked, fix>>

\* The source does not open, or the stream ends, by itself or because the session was
\* cancelled: no lock, and a retry only if it was not.
SessionFails(r) ==
  /\ \E at \in {"dial", "reading"} : Step(r, at, IF Live(r) THEN "wait" ELSE "gone")
  /\ locked' = FALSE
  /\ UNCHANGED <<settings, notes, current, stopping, fix>>

Retry(r) ==
  /\ Step(r, "wait", IF Live(r) THEN "dial" ELSE "gone")
  /\ UNCHANGED <<settings, notes, current, stopping, locked, fix>>

ReadReport(r) ==
  /\ Live(r) /\ Step(r, "reading", "holding")
  /\ UNCHANGED <<settings, notes, current, stopping, locked, fix>>

\* A sentence (RMC, GGA, GLL) or a TPV report vouches for a fix, denies one or says
\* nothing of it, and carries a position or none; what else there is says nothing.
Reports == [says : {"fix", "no fix", "nothing"}, position : BOOLEAN]
Usable(d) == d.says = "fix" /\ d.position

\* A report that is in hand is applied even if the session was cancelled meanwhile.  One
\* that vouches for a fix and does not say where is a loss of lock, too.
ApplyReport(r) ==
  /\ Step(r, "holding", "reading")
  /\ \E d \in Reports :
       /\ fix' = IF Usable(d) THEN [of |-> r, age |-> 0] ELSE fix
       /\ locked' = (Usable(d) \/ (locked /\ d.says = "nothing"))
  /\ UNCHANGED <<settings, notes, current, stopping>>

ReceiverNext ==
  \/ HearSettings \/ StartSession
  \/ \E r \in Receivers : Opened(r) \/ SessionFails(r) \/ Retry(r) \/ ReadReport(r)
                          \/ ApplyReport(r)

-----------------------------------------------------------------------------
(* What the beacons ask for.                                               *)

AnyLock == locked
LiveFix == locked /\ fix.age < LiveWindow

Older == [fix EXCEPT !.age = IF @ < Useless THEN @ + 1 ELSE @]

-----------------------------------------------------------------------------
ReceiverTypeOK ==
  /\ settings \in Settings /\ notes \in Seq(Receivers \cup {Off}) /\ Len(notes) <= NotesDepth
  /\ current \in Receivers \cup {Off} /\ {stopping, locked} \subseteq BOOLEAN
  /\ sess \in [Receivers -> {"gone", "dial", "reading", "wait", "holding"}]
  /\ fix \in [of : Receivers \cup {Off}, age : 0..Useless]

\* Whenever the program believes in a lock, the receiver that gave it is connected, and
\* it is the one the supervisor runs, unless that one is just being stopped: no change
\* of source, and no report that was on its way, leaves a lock behind (gps.go:108-136).
LockIsEarned ==
  locked => /\ fix.of \in Receivers /\ sess[fix.of] \in {"reading", "holding"}
            /\ stopping \/ fix.of = current
=============================================================================
