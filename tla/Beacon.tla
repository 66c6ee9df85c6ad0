------------------------------- MODULE Beacon -------------------------------
(***************************************************************************)
(* The station's own transmissions (package beacon): the scheduler, which  *)
(* at every tick of its clock considers the beacons of the settings it     *)
(* finds, and the answer to a general query, which transmits out of turn.  *)
(* Both sample the position at the moment of transmission and put it on    *)
(* the radio or, in a station without one, on APRS-IS.                     *)
(*                                                                         *)
(* Time is counted in ticks of the scheduler; a pass over the beacons      *)
(* takes none.  A queue that is full, or a beacon that cannot be encoded,  *)
(* is a transmission that may fail at any time.                            *)
(***************************************************************************)
EXTENDS Receiver, Integers

CONSTANTS
  Names,       \* names of beacons
  MinInterval, \* minInterval, in ticks
  Idle,        \* the scheduler has no snapshot: it waits for the clock
  JitterPart,  \* an interval's jitter is at most this part of it (10)
  Cap,         \* ticks are counted up to here
  MaxQueries   \* bound: queries waiting for their answer

\* A setting lists beacons, each with the ticks between its transmissions, 0 when it is
\* disabled; it has TXEnable, a radio or none, and a fixed position or none.
ASSUME BeaconAssumption ==
  /\ \A s \in Settings : /\ s.listed \subseteq Names /\ s.every \in [Names -> 0..(Cap - 1)]
                         /\ {s.tx, s.tnc, s.placed} \subseteq BOOLEAN
                         /\ s.fallback \in {"skip", "fixed", "last"}
  /\ {MinInterval, JitterPart, Cap} \subseteq Nat \ {0} /\ MaxQueries \in Nat
  /\ \A s \in Settings, n \in Names : s.every[n] + s.every[n] \div JitterPart <= Cap

VARIABLES
  snap, todo,  \* the scheduler's snapshot, and the beacons it has yet to consider
  fires,       \* fires: for the beacons registered, ticks since the last firing, jitter
  queries,     \* queries that will be answered
  sent,        \* output: the position the step sent, and the fallback it was chosen by
  gap, before  \* history: ticks since each beacon's last scheduled transmission, and the
               \* interval it had then

scheduleVars == <<snap, todo, fires, queries, gap, before>>
vars == <<receiverVars, scheduleVars, sent>>

Unsent == [from |-> "nowhere", age |-> 0, fallback |-> "skip"]
Later(age) == IF age < Cap THEN age + 1 ELSE Cap

Init ==
  /\ ReceiverInit
  /\ snap = Idle /\ todo = {}
  /\ fires = << >> /\ queries = 0 /\ sent = Unsent
  /\ gap = [n \in Names |-> Cap] /\ before = [n \in Names |-> 0]

Silence == sent' = Unsent

Save(s) == s # settings /\ Change(s) /\ Silence /\ UNCHANGED scheduleVars
Receive == ReceiverNext /\ Silence /\ UNCHANGED scheduleVars

-----------------------------------------------------------------------------
(* A transmission.                                                         *)

\* The position the settings s call for: the fixed one, the receiver's, or none.
Resolve(s) ==
  IF s.source = Off THEN "fixed"
  ELSE IF LiveFix THEN "live"
  ELSE IF s.fallback = "skip" THEN "none"
  ELSE IF s.fallback = "last" /\ fix # NoFix /\ fix.age <= MaxFixAge THEN "last"
  ELSE "fixed"

\* What the radio needs, it needs at that moment; the rest is as the snapshot has it.
Transmit(s) ==
  /\ Resolve(s) # "none"
  /\ Resolve(s) = "fixed" => s.placed
  /\ s.tnc => settings.tx
  /\ sent' = [from |-> Resolve(s), age |-> IF Resolve(s) = "fixed" THEN 0 ELSE fix.age,
              fallback |-> s.fallback]

-----------------------------------------------------------------------------
(* The scheduler.                                                          *)

\* Without TXEnable the tick is skipped, and with it the removal of old entries.
Tick ==
  /\ snap = Idle
  /\ snap' = IF settings.tx THEN settings ELSE Idle
  /\ todo' = {n \in settings.listed : settings.tx /\ settings.every[n] >= MinInterval}
  /\ fires' = [n \in DOMAIN fires |-> [fires[n] EXCEPT !.since = Later(@)]]
  /\ gap' = [n \in Names |-> Later(gap[n])]
  /\ fix' = Older /\ Silence
  /\ UNCHANGED <<settings, notes, current, stopping, sess, locked, queries, before>>

Considered(n) == n \in todo /\ todo' = todo \ {n} /\ UNCHANGED snap

Set(n, entry) == [m \in DOMAIN fires \cup {n} |-> IF m = n THEN entry ELSE fires[m]]

RegisterDue == Cap
FirstWait == 0

\* A beacon first fires one interval after it was registered.
Register(n) ==
  /\ Considered(n) /\ n \notin DOMAIN fires
  /\ fires' = Set(n, [since |-> FirstWait, jitter |-> 0]) /\ Silence
  /\ UNCHANGED <<receiverVars, queries, gap, before>>

Due(n) == n \in DOMAIN fires /\ fires[n].since >= snap.every[n] + fires[n].jitter

NotDue(n) ==
  /\ Considered(n) /\ n \in DOMAIN fires /\ ~Due(n)
  /\ Silence /\ UNCHANGED <<receiverVars, fires, queries, gap, before>>

Jitters(n) == LET j == snap.every[n] \div JitterPart IN (0 - j)..j

Fire(n) ==
  /\ Considered(n) /\ Due(n)
  /\ Transmit(snap)
  /\ \E j \in Jitters(n) : fires' = Set(n, [since |-> 0, jitter |-> j])
  /\ gap' = [gap EXCEPT ![n] = 0] /\ before' = [before EXCEPT ![n] = snap.every[n]]
  /\ UNCHANGED <<receiverVars, queries>>

\* It stays due, and is tried again at the next tick.
FireFails(n) ==
  /\ Considered(n) /\ Due(n) /\ Silence
  /\ UNCHANGED <<receiverVars, fires, queries, gap, before>>

\* The entries of beacons that are listed no more go, those of disabled ones stay.
Prune ==
  /\ snap # Idle /\ todo = {}
  /\ snap' = Idle /\ Silence
  /\ fires' = [n \in DOMAIN fires \cap snap.listed |-> fires[n]]
  /\ UNCHANGED <<receiverVars, todo, queries, gap, before>>

-----------------------------------------------------------------------------
(* A general query heard on the radio.                                     *)

HearQuery ==
  /\ settings.tx /\ settings.tnc /\ queries < MaxQueries
  /\ queries' = queries + 1 /\ Silence
  /\ UNCHANGED <<receiverVars, snap, todo, fires, gap, before>>

\* ?APRS? is answered after a random delay, under the settings of then and without a
\* word to the schedule, by the enabled beacon named "position".
TransmitNow(n) == n \in settings.listed /\ settings.every[n] > 0 /\ Transmit(settings)

Answer(n) ==
  /\ queries > 0 /\ queries' = queries - 1
  /\ TransmitNow(n) \/ Silence
  /\ UNCHANGED <<receiverVars, snap, todo, fires, gap, before>>

\* ?IGATE? is answered with two counts, in a frame that is no beacon.
AnswerCapabilities ==
  /\ queries > 0 /\ queries' = queries - 1
  /\ Silence
  /\ UNCHANGED <<receiverVars, snap, todo, fires, gap, before>>

-----------------------------------------------------------------------------
Schedule ==
  \/ Tick \/ Prune
  \/ \E n \in Names : Register(n) \/ NotDue(n) \/ Fire(n) \/ FireFails(n)

Next ==
  \/ \E s \in Settings : Save(s)
  \/ Receive \/ Schedule
  \/ HearQuery \/ AnswerCapabilities \/ \E n \in Names : Answer(n)

Spec == Init /\ [][Next]_vars

-----------------------------------------------------------------------------
\* Types, and while beacons are left to consider there is a snapshot to consider them by.
TypeOK ==
  /\ ReceiverTypeOK
  /\ snap \in Settings \cup {Idle} /\ todo \subseteq Names /\ (todo # {} => snap \in Settings)
  /\ DOMAIN fires \subseteq Names
  /\ \A n \in DOMAIN fires : fires[n] \in [since : 0..Cap, jitter : Int]
  /\ queries \in 0..MaxQueries
  /\ sent \in [from : {"nowhere", "fixed", "live", "last"}, age : 0..Useless,
               fallback : {"skip", "fixed", "last"}]
  /\ gap \in [Names -> 0..Cap] /\ before \in [Names -> 0..Cap]

\* However beacons are disabled, removed, listed again or given another interval between
\* two scheduled transmissions of one, and whatever fails, the second comes no sooner
\* than its interval less the jitter that the first one left behind (beacon.go:160-190).
Spaced ==
  [][\A n \in Names :
       gap'[n] = 0 /\ gap[n] # 0 => gap[n] >= snap.every[n] - before[n] \div JitterPart]_vars

\* A position from a receiver is sent while it is being received or, if the settings
\* accept the last one known, before it is too old for them: a receiver that falls
\* silent without a word does not keep the station beaconing (beacon.go:102-124).
PositionIsFresh ==
  /\ sent.from = "live" => sent.age < LiveWindow
  /\ sent.from = "last" => sent.fallback = "last" /\ sent.age <= MaxFixAge
=============================================================================
