---------------------------- MODULE BeaconProofs ----------------------------
(***************************************************************************)
(* Theorems about Beacon and the receiver it composes, for any receivers,  *)
(* beacons and settings, any depth of the subscription and any windows.    *)
(***************************************************************************)
EXTENDS Beacon, SequenceTheorems, TLAPS

ReceiverStep(r) == Opened(r) \/ SessionFails(r) \/ Retry(r) \/ ReadReport(r) \/ ApplyReport(r)

\* What an interval's jitter is cut from.
LEMMA PartIsNat == \A every \in Nat, part \in Nat \ {0} : every \div part \in Nat
OBVIOUS

LEMMA UselessIsNat == ASSUME ReceiverAssumption PROVE Useless \in Nat
BY DEF ReceiverAssumption, Useless

-----------------------------------------------------------------------------
(* Type correctness.                                                       *)

LEMMA ReceiverTypeNext ==
  ASSUME ReceiverAssumption, ReceiverTypeOK, ReceiverNext PROVE ReceiverTypeOK'
<1> USE ReceiverAssumption
<1>1. CASE HearSettings
  <2>1. Head(notes) \in Receivers \cup {Off} /\ Tail(notes) \in Seq(Receivers \cup {Off})
        /\ Len(Tail(notes)) <= Len(notes)
    <3>1. notes \in Seq(Receivers \cup {Off}) /\ notes # <<>>
      BY <1>1 DEF HearSettings, ReceiverTypeOK
    <3>2. Len(Tail(notes)) = Len(notes) - 1 /\ Len(notes) \in Nat
      BY <3>1
    <3> QED
      BY <3>1, <3>2
  <2>2. Len(notes) \in Nat /\ Len(Tail(notes)) \in Nat /\ NotesDepth \in Nat
    BY <2>1, LenProperties DEF ReceiverTypeOK, ReceiverAssumption
  <2>3. stopping' \in BOOLEAN
    BY <1>1 DEF HearSettings
  <2> QED
    BY <1>1, <2>1, <2>2, <2>3 DEF HearSettings, ReceiverTypeOK
<1>2. CASE StartSession
  BY <1>2 DEF StartSession, ReceiverTypeOK
<1>3. ASSUME NEW r \in Receivers, Opened(r) \/ Retry(r) \/ ReadReport(r) PROVE ReceiverTypeOK'
  BY <1>3 DEF Opened, Retry, ReadReport, Step, ReceiverTypeOK
<1>4. ASSUME NEW r \in Receivers, SessionFails(r) PROVE ReceiverTypeOK'
  BY <1>4 DEF SessionFails, Step, ReceiverTypeOK
<1>5. ASSUME NEW r \in Receivers, ApplyReport(r) PROVE ReceiverTypeOK'
  <2>1. PICK d \in Reports : /\ fix' = IF Usable(d) THEN [of |-> r, age |-> 0] ELSE fix
                             /\ locked' = (Usable(d) \/ (locked /\ d.says = "nothing"))
    BY <1>5 DEF ApplyReport
  <2>2. fix' \in [of : Receivers \cup {Off}, age : 0..Useless]
    BY <2>1, UselessIsNat DEF ReceiverTypeOK
  <2>3. locked' \in BOOLEAN
    BY <2>1
  <2> QED
    BY <1>5, <2>2, <2>3 DEF ApplyReport, Step, ReceiverTypeOK
<1> QED
  BY <1>1, <1>2, <1>3, <1>4, <1>5 DEF ReceiverNext

LEMMA LaterType ==
  ASSUME BeaconAssumption, NEW age \in 0..Cap PROVE Later(age) \in 1..Cap /\ Later(age) >= age
BY DEF BeaconAssumption, Later

\* What a transmission reports of its position.
LEMMA TransmitType ==
  ASSUME ReceiverAssumption, BeaconAssumption, ReceiverTypeOK, NEW s \in Settings, Transmit(s)
  PROVE  sent' \in [from : {"nowhere", "fixed", "live", "last"}, age : 0..Useless,
                    fallback : {"skip", "fixed", "last"}]
<1>1. Resolve(s) \in {"fixed", "live", "last"}
  BY DEF Transmit, Resolve
<1>2. s.fallback \in {"skip", "fixed", "last"}
  BY DEF BeaconAssumption
<1>3. 0 \in 0..Useless /\ fix.age \in 0..Useless
  BY UselessIsNat DEF ReceiverTypeOK
<1> QED
  BY <1>1, <1>2, <1>3 DEF Transmit

LEMMA UnsentType ==
  ASSUME ReceiverAssumption
  PROVE  Unsent \in [from : {"nowhere", "fixed", "live", "last"}, age : 0..Useless,
                     fallback : {"skip", "fixed", "last"}]
BY UselessIsNat DEF Unsent

\* An entry of the schedule, made or replaced.
LEMMA EntryType ==
  ASSUME BeaconAssumption, TypeOK, NEW n \in Names, NEW since \in 0..Cap, NEW j \in Int,
         fires' = Set(n, [since |-> since, jitter |-> j])
  PROVE  /\ DOMAIN fires' \subseteq Names
         /\ \A m \in DOMAIN fires' : fires'[m] \in [since : 0..Cap, jitter : Int]
<1>1. DOMAIN fires' = DOMAIN fires \cup {n}
  BY DEF Set
<1>2. ASSUME NEW m \in DOMAIN fires'
      PROVE  fires'[m] = IF m = n THEN [since |-> since, jitter |-> j] ELSE fires[m]
  BY <1>1, <1>2 DEF Set
<1> QED
  BY <1>1, <1>2 DEF TypeOK

LEMMA JittersAreIntegers ==
  ASSUME BeaconAssumption, NEW n \in Names, snap \in Settings, NEW j \in Jitters(n)
  PROVE  /\ snap.every[n] \in 0..Cap /\ snap.every[n] \div JitterPart \in Nat
         /\ j \in Int /\ j >= 0 - snap.every[n] \div JitterPart
<1>1. Cap \in Nat /\ JitterPart \in Nat \ {0} /\ snap.every[n] \in 0..(Cap - 1)
  BY DEF BeaconAssumption
<1>2. snap.every[n] \in Nat /\ snap.every[n] <= Cap
  BY <1>1
<1>3. snap.every[n] \div JitterPart \in Nat
  BY <1>1, <1>2, PartIsNat
<1>4. PICK part \in Nat : part = snap.every[n] \div JitterPart
  BY <1>3
<1>5. j \in (0 - part)..part
  BY <1>4 DEF Jitters
<1> QED
  BY <1>1, <1>2, <1>4, <1>5

LEMMA TypeNext ==
  ASSUME ReceiverAssumption, BeaconAssumption, TypeOK, [Next]_vars PROVE TypeOK'
<1> USE ReceiverAssumption, BeaconAssumption
<1>1. ASSUME NEW s \in Settings, Save(s) PROVE TypeOK'
  <2>1. notes' \in Seq(Receivers \cup {Off}) /\ Len(notes') <= NotesDepth
    <3>1. /\ s.source \in Receivers \cup {Off} /\ NotesDepth \in Nat
          /\ notes \in Seq(Receivers \cup {Off}) /\ Len(notes) \in Nat /\ Len(notes) <= NotesDepth
      BY LenProperties DEF TypeOK, ReceiverTypeOK, ReceiverAssumption
    <3>2. Append(notes, s.source) \in Seq(Receivers \cup {Off})
          /\ Len(Append(notes, s.source)) = Len(notes) + 1
      BY <3>1, AppendProperties
    <3> QED
      BY <1>1, <3>1, <3>2 DEF Save, Change
  <2>2. ReceiverTypeOK'
    BY <1>1, <2>1 DEF Save, Change, TypeOK, ReceiverTypeOK
  <2> QED
    BY <1>1, <2>2, UnsentType DEF Save, Silence, scheduleVars, TypeOK
<1>2. CASE Receive
  BY <1>2, ReceiverTypeNext, UnsentType DEF Receive, Silence, scheduleVars, TypeOK
<1>3. CASE Tick
  <2>1. settings \in Settings /\ settings.tx \in BOOLEAN /\ settings.listed \subseteq Names
    BY DEF TypeOK, ReceiverTypeOK, BeaconAssumption
  <2>2. snap' \in Settings \cup {Idle} /\ todo' \subseteq Names /\ (todo' # {} => snap' \in Settings)
    BY <1>3, <2>1 DEF Tick
  <2>3. /\ DOMAIN fires' \subseteq Names
        /\ \A n \in DOMAIN fires' : fires'[n] \in [since : 0..Cap, jitter : Int]
    <3>1. DOMAIN fires' = DOMAIN fires
      BY <1>3 DEF Tick
    <3>2. ASSUME NEW n \in DOMAIN fires PROVE fires'[n] \in [since : 0..Cap, jitter : Int]
      <4>1. fires[n] \in [since : 0..Cap, jitter : Int] /\ Later(fires[n].since) \in 0..Cap
        BY <3>2, LaterType DEF TypeOK, BeaconAssumption
      <4>2. fires'[n] = [fires[n] EXCEPT !.since = Later(@)]
        BY <1>3, <3>2 DEF Tick
      <4> QED
        BY <4>1, <4>2
    <3> QED
      BY <3>1, <3>2 DEF TypeOK
  <2>4. gap' \in [Names -> 0..Cap]
    BY <1>3, LaterType DEF Tick, TypeOK, BeaconAssumption
  <2>5. fix' \in [of : Receivers \cup {Off}, age : 0..Useless]
    <3>1. /\ fix \in [of : Receivers \cup {Off}, age : 0..Useless] /\ Useless \in Nat
          /\ fix' = [fix EXCEPT !.age = IF fix.age < Useless THEN fix.age + 1 ELSE fix.age]
      BY <1>3, UselessIsNat DEF Tick, Older, TypeOK, ReceiverTypeOK
    <3>2. (IF fix.age < Useless THEN fix.age + 1 ELSE fix.age) \in 0..Useless
      BY <3>1
    <3> QED
      BY <3>1, <3>2
  <2>6. ReceiverTypeOK'
    BY <1>3, <2>5 DEF Tick, TypeOK, ReceiverTypeOK
  <2> QED
    BY <1>3, <2>2, <2>3, <2>4, <2>6, UnsentType DEF Tick, Silence, TypeOK
<1>4. CASE Prune
  <2>1. /\ DOMAIN fires' \subseteq Names
        /\ \A n \in DOMAIN fires' : fires'[n] \in [since : 0..Cap, jitter : Int]
    BY <1>4 DEF Prune, TypeOK
  <2>2. ReceiverTypeOK'
    BY <1>4 DEF Prune, TypeOK, ReceiverTypeOK, receiverVars
  <2> QED
    BY <1>4, <2>1, <2>2, UnsentType DEF Prune, Silence, TypeOK
<1>5. ASSUME NEW n \in Names, Register(n) PROVE TypeOK'
  <2>1. FirstWait \in 0..Cap /\ 0 \in Int
    BY DEF FirstWait, BeaconAssumption
  <2>2. /\ DOMAIN fires' \subseteq Names
        /\ \A m \in DOMAIN fires' : fires'[m] \in [since : 0..Cap, jitter : Int]
    BY <1>5, <2>1, EntryType DEF Register
  <2>3. ReceiverTypeOK'
    BY <1>5 DEF Register, TypeOK, ReceiverTypeOK, receiverVars
  <2> QED
    BY <1>5, <2>2, <2>3, UnsentType DEF Register, Considered, Silence, TypeOK
<1>6. ASSUME NEW n \in Names, NotDue(n) \/ FireFails(n) PROVE TypeOK'
  <2>1. ReceiverTypeOK'
    BY <1>6 DEF NotDue, FireFails, TypeOK, ReceiverTypeOK, receiverVars
  <2> QED
    BY <1>6, <2>1, UnsentType DEF NotDue, FireFails, Considered, Silence, TypeOK
<1>7. ASSUME NEW n \in Names, Fire(n) PROVE TypeOK'
  <2>1. snap \in Settings /\ ReceiverTypeOK
    BY <1>7 DEF Fire, Considered, TypeOK
  <2>2. PICK j \in Jitters(n) : fires' = Set(n, [since |-> 0, jitter |-> j])
    BY <1>7 DEF Fire
  <2>3. j \in Int /\ snap.every[n] \in 0..Cap /\ 0 \in 0..Cap
    BY <2>1, <2>2, JittersAreIntegers DEF BeaconAssumption
  <2>4. /\ DOMAIN fires' \subseteq Names
        /\ \A m \in DOMAIN fires' : fires'[m] \in [since : 0..Cap, jitter : Int]
    BY <2>2, <2>3, EntryType
  <2>5. gap' \in [Names -> 0..Cap] /\ before' \in [Names -> 0..Cap]
    BY <1>7, <2>3 DEF Fire, TypeOK
  <2>6. ReceiverTypeOK'
    BY <1>7, <2>1 DEF Fire, ReceiverTypeOK, receiverVars
  <2>7. sent' \in [from : {"nowhere", "fixed", "live", "last"}, age : 0..Useless,
                   fallback : {"skip", "fixed", "last"}]
    BY <1>7, <2>1, TransmitType DEF Fire
  <2> QED
    BY <1>7, <2>4, <2>5, <2>6, <2>7 DEF Fire, Considered, TypeOK
<1>8. CASE HearQuery
  <2>1. queries' \in 0..MaxQueries
    BY <1>8 DEF HearQuery, TypeOK, BeaconAssumption
  <2>2. ReceiverTypeOK'
    BY <1>8 DEF HearQuery, TypeOK, ReceiverTypeOK, receiverVars
  <2> QED
    BY <1>8, <2>1, <2>2, UnsentType DEF HearQuery, Silence, TypeOK
<1>9. ASSUME NEW n \in Names, Answer(n) PROVE TypeOK'
  <2>1. queries' \in 0..MaxQueries
    BY <1>9 DEF Answer, TypeOK, BeaconAssumption
  <2>2. ReceiverTypeOK'
    BY <1>9 DEF Answer, TypeOK, ReceiverTypeOK, receiverVars
  <2>3. sent' \in [from : {"nowhere", "fixed", "live", "last"}, age : 0..Useless,
                   fallback : {"skip", "fixed", "last"}]
    BY <1>9, UnsentType, TransmitType
    DEF Answer, TransmitNow, Silence, TypeOK, ReceiverTypeOK
  <2> QED
    BY <1>9, <2>1, <2>2, <2>3 DEF Answer, TypeOK
<1>10. CASE AnswerCapabilities
  <2>1. queries' \in 0..MaxQueries
    BY <1>10 DEF AnswerCapabilities, TypeOK, BeaconAssumption
  <2>2. ReceiverTypeOK'
    BY <1>10 DEF AnswerCapabilities, TypeOK, ReceiverTypeOK, receiverVars
  <2> QED
    BY <1>10, <2>1, <2>2, UnsentType DEF AnswerCapabilities, Silence, TypeOK
<1>11. CASE UNCHANGED vars
  <2>1. ReceiverTypeOK'
    BY <1>11 DEF vars, receiverVars, TypeOK, ReceiverTypeOK
  <2> QED
    BY <1>11, <2>1 DEF vars, scheduleVars, TypeOK
<1> QED
  BY <1>1, <1>2, <1>3, <1>4, <1>5, <1>6, <1>7, <1>8, <1>9, <1>10, <1>11 DEF Next, Schedule

LEMMA TypeInit == ASSUME ReceiverAssumption, BeaconAssumption, Init PROVE TypeOK
<1>1. Useless \in Nat /\ NotesDepth \in Nat /\ Cap \in Nat /\ MaxQueries \in Nat
  BY UselessIsNat DEF ReceiverAssumption, BeaconAssumption
<1>2. notes \in Seq(Receivers \cup {Off}) /\ Len(notes) = 0
  BY DEF Init, ReceiverInit
<1>3. ReceiverTypeOK
  <2>1. current \in Receivers \cup {Off} /\ settings \in Settings
    BY DEF Init, ReceiverInit, ReceiverAssumption
  <2>2. sess \in [Receivers -> {"gone", "dial", "reading", "wait", "holding"}]
    BY DEF Init, ReceiverInit
  <2>3. fix \in [of : Receivers \cup {Off}, age : 0..Useless]
    BY <1>1 DEF Init, ReceiverInit, NoFix
  <2>4. Len(notes) <= NotesDepth
    BY <1>1, <1>2
  <2>5. {stopping, locked} \subseteq BOOLEAN
    BY DEF Init, ReceiverInit
  <2> QED
    BY <1>2, <2>1, <2>2, <2>3, <2>4, <2>5 DEF ReceiverTypeOK
<1>4. DOMAIN fires = {}
  BY DEF Init
<1> QED
  BY <1>1, <1>3, <1>4, UnsentType DEF Init, TypeOK

\* Whatever is announced, lost, received, considered and asked, the state keeps its types,
\* and the scheduler considers a beacon only while it holds a snapshot (beacon.go:148-160).
THEOREM TypeCorrect == Spec => []TypeOK
<1> USE ReceiverAssumption, BeaconAssumption
<1>1. Init => TypeOK
  BY TypeInit
<1>2. TypeOK /\ [Next]_vars => TypeOK'
  BY TypeNext
<1> QED
  BY <1>1, <1>2, PTL DEF Spec

-----------------------------------------------------------------------------
(* A lock belongs to a receiver that is connected, and to the one that is  *)
(* configured.  The supervisor waits for the old session before it starts  *)
(* the next, so while it does not wait, no other session is left that      *)
(* could apply a report of its own.                                        *)

OneSession == ~stopping => \A r \in Receivers \ {current} : sess[r] = "gone"

LockInv == LockIsEarned /\ OneSession

LEMMA LockReceiver ==
  ASSUME ReceiverAssumption, ReceiverTypeOK, LockInv, ReceiverNext PROVE LockInv'
<1> USE DEF ReceiverTypeOK
<1>1. CASE HearSettings
  <2>1. LockIsEarned'
    BY <1>1 DEF HearSettings, LockInv, LockIsEarned
  <2>2. OneSession'
    BY <1>1 DEF HearSettings, LockInv, OneSession
  <2> QED
    BY <2>1, <2>2 DEF LockInv
<1>2. CASE StartSession
  <2>1. ASSUME NEW r \in Receivers \ {current'} PROVE sess'[r] = "gone"
    BY <1>2 DEF StartSession, SessionEnded
  <2> QED
    BY <1>2, <2>1 DEF StartSession, LockInv, LockIsEarned, OneSession
<1>3. ASSUME NEW r \in Receivers, Opened(r) \/ Retry(r) \/ ReadReport(r) PROVE LockInv'
  <2>1. LockIsEarned'
    BY <1>3 DEF Opened, Retry, ReadReport, Step, LockInv, LockIsEarned
  <2>2. OneSession'
    BY <1>3 DEF Opened, Retry, ReadReport, Step, LockInv, OneSession
  <2> QED
    BY <2>1, <2>2 DEF LockInv
<1>4. ASSUME NEW r \in Receivers, SessionFails(r) PROVE LockInv'
  <2>1. LockIsEarned'
    BY <1>4 DEF SessionFails, LockIsEarned
  <2>2. OneSession'
    BY <1>4 DEF SessionFails, Step, Live, LockInv, OneSession
  <2> QED
    BY <2>1, <2>2 DEF LockInv
<1>5. ASSUME NEW r \in Receivers, ApplyReport(r) PROVE LockInv'
  <2>1. sess[r] = "holding" /\ sess' = [sess EXCEPT ![r] = "reading"]
        /\ UNCHANGED <<current, stopping>>
    BY <1>5 DEF ApplyReport, Step
  <2>2. PICK d \in Reports : /\ fix' = IF Usable(d) THEN [of |-> r, age |-> 0] ELSE fix
                             /\ locked' = (Usable(d) \/ (locked /\ d.says = "nothing"))
    BY <1>5 DEF ApplyReport
  <2>3. stopping \/ r = current
    BY <2>1 DEF LockInv, OneSession
  <2>4. CASE Usable(d)
    BY <2>1, <2>2, <2>3, <2>4 DEF LockInv, LockIsEarned, OneSession
  <2>5. CASE ~Usable(d)
    <3>1. fix' = fix
      BY <2>2, <2>5
    <3>2. locked' => locked
      BY <2>2, <2>5
    <3> QED
      BY <2>1, <3>1, <3>2 DEF LockInv, LockIsEarned, OneSession
  <2> QED
    BY <2>4, <2>5
<1> QED
  BY <1>1, <1>2, <1>3, <1>4, <1>5 DEF ReceiverNext

LEMMA LockNext == ASSUME ReceiverAssumption, TypeOK, LockInv, [Next]_vars PROVE LockInv'
<1>1. CASE Receive
  BY <1>1, LockReceiver DEF Receive, TypeOK
<1>2. CASE Tick
  <2>1. fix'.of = fix.of
    BY <1>2 DEF Tick, Older, TypeOK, ReceiverTypeOK
  <2> QED
    BY <1>2, <2>1 DEF Tick, LockInv, LockIsEarned, OneSession
<1>3. CASE UNCHANGED <<current, stopping, sess, locked, fix>>
  BY <1>3 DEF LockInv, LockIsEarned, OneSession
<1>4. [Next]_vars => Receive \/ Tick \/ UNCHANGED <<current, stopping, sess, locked, fix>>
  BY DEF Next, Schedule, Save, Change, Prune, Register, NotDue, Fire, FireFails, HearQuery, Answer,
         AnswerCapabilities, vars, receiverVars
<1> QED
  BY <1>1, <1>2, <1>3, <1>4

\* A lock was given by a receiver that is connected and, unless it is just being stopped,
\* the one the supervisor runs (gps.go:108-136).
THEOREM LockIsEarnedHolds == Spec => []LockIsEarned
<1> USE ReceiverAssumption, BeaconAssumption
<1>1. Init => LockInv
  BY DEF Init, ReceiverInit, LockInv, LockIsEarned, OneSession
<1>2. TypeOK /\ LockInv /\ [Next]_vars => LockInv'
  BY LockNext
<1>3. LockInv => LockIsEarned
  BY DEF LockInv
<1> QED
  BY <1>1, <1>2, <1>3, TypeCorrect, PTL DEF Spec

-----------------------------------------------------------------------------
(* No position is sent that is too old for the settings.                   *)

LEMMA FreshTransmit ==
  ASSUME ReceiverAssumption, ReceiverTypeOK, NEW s, Transmit(s) PROVE PositionIsFresh'
BY DEF Transmit, Resolve, LiveFix, PositionIsFresh, ReceiverTypeOK, ReceiverAssumption

LEMMA FreshNext ==
  ASSUME ReceiverAssumption, TypeOK, PositionIsFresh, [Next]_vars PROVE PositionIsFresh'
<1>1. CASE sent' \in {Unsent, sent}
  BY <1>1 DEF PositionIsFresh, Unsent
<1>2. CASE \E s \in Settings \cup {Idle} : Transmit(s)
  BY <1>2, FreshTransmit DEF TypeOK
<1>3. [Next]_vars => sent' \in {Unsent, sent} \/ \E s \in Settings \cup {Idle} : Transmit(s)
  BY DEF TypeOK, ReceiverTypeOK, Next, Receive, Schedule, Save, Tick, Prune, Register, NotDue, Fire,
         FireFails, HearQuery, Answer, TransmitNow, AnswerCapabilities, Silence, vars
<1> QED
  BY <1>1, <1>2, <1>3

\* A position from a receiver goes out while it is received or, if the settings accept
\* the last one, before it is too old for them (beacon.go:102-124).
THEOREM PositionIsFreshHolds == Spec => []PositionIsFresh
<1> USE ReceiverAssumption, BeaconAssumption
<1>1. Init => PositionIsFresh
  BY DEF Init, Unsent, PositionIsFresh
<1>2. TypeOK /\ PositionIsFresh /\ [Next]_vars => PositionIsFresh'
  BY FreshNext
<1> QED
  BY <1>1, <1>2, TypeCorrect, PTL DEF Spec

-----------------------------------------------------------------------------
(* Two scheduled transmissions of a beacon are an interval apart.  The     *)
(* entry that is due need not be the one the last transmission left: it    *)
(* may have been removed and made again.  Either way it was made no        *)
(* earlier than that transmission, and its jitter is no deeper than what   *)
(* the interval of then allowed.                                           *)

SpacedInv ==
  \A n \in DOMAIN fires : /\ fires[n].since <= gap[n]
                          /\ fires[n].jitter >= 0 - before[n] \div JitterPart

\* Making an entry keeps this, if the entry that is made has it.
LEMMA SpacedSet ==
  ASSUME TypeOK, SpacedInv, NEW n \in Names, NEW entry, fires' = Set(n, entry),
         \A m \in Names \ {n} : gap'[m] = gap[m] /\ before'[m] = before[m],
         entry.since <= gap'[n], entry.jitter >= 0 - before'[n] \div JitterPart
  PROVE  SpacedInv'
<1>1. DOMAIN fires' = DOMAIN fires \cup {n} /\ DOMAIN fires \subseteq Names
  BY DEF Set, TypeOK
<1>2. ASSUME NEW m \in DOMAIN fires' PROVE fires'[m] = IF m = n THEN entry ELSE fires[m]
  BY <1>1, <1>2 DEF Set
<1>3. ASSUME NEW m \in DOMAIN fires'
      PROVE  fires'[m].since <= gap'[m] /\ fires'[m].jitter >= 0 - before'[m] \div JitterPart
  <2>1. CASE m = n
    BY <1>2, <2>1
  <2>2. CASE m # n
    <3>1. m \in DOMAIN fires /\ gap'[m] = gap[m] /\ before'[m] = before[m] /\ fires'[m] = fires[m]
      BY <1>1, <1>2, <2>2
    <3> QED
      BY <3>1 DEF SpacedInv
  <2> QED
    BY <2>1, <2>2
<1> QED
  BY <1>3 DEF SpacedInv

LEMMA SpacedNext ==
  ASSUME BeaconAssumption, TypeOK, SpacedInv, [Next]_vars PROVE SpacedInv'
<1> USE BeaconAssumption
<1>1. CASE Tick
  <2>1. ASSUME NEW n \in DOMAIN fires
        PROVE  fires'[n].since <= gap'[n] /\ fires'[n].jitter >= 0 - before'[n] \div JitterPart
    <3>1. /\ fires[n] \in [since : 0..Cap, jitter : Int] /\ gap[n] \in 0..Cap /\ n \in Names
          /\ fires[n].since <= gap[n] /\ fires[n].jitter >= 0 - before[n] \div JitterPart
      BY <2>1 DEF TypeOK, SpacedInv
    <3>2. fires'[n] = [fires[n] EXCEPT !.since = Later(@)] /\ gap'[n] = Later(gap[n])
          /\ before' = before
      BY <1>1, <2>1, <3>1 DEF Tick
    <3>3. Later(fires[n].since) <= Later(gap[n])
      BY <3>1 DEF Later, BeaconAssumption
    <3>4. fires'[n].since = Later(fires[n].since) /\ fires'[n].jitter = fires[n].jitter
      BY <3>1, <3>2
    <3> QED
      BY <3>1, <3>2, <3>3, <3>4
  <2>2. DOMAIN fires' = DOMAIN fires
    BY <1>1 DEF Tick
  <2> QED
    BY <2>1, <2>2 DEF SpacedInv
<1>2. CASE Prune
  BY <1>2 DEF Prune, SpacedInv
<1>3. ASSUME NEW n \in Names, Register(n) PROVE SpacedInv'
  <2>1. gap[n] \in Nat /\ before[n] \in Nat /\ JitterPart \in Nat \ {0}
    BY DEF TypeOK, BeaconAssumption
  <2>2. before[n] \div JitterPart \in Nat
    BY <2>1, PartIsNat
  <2>3. 0 <= gap[n] /\ 0 >= 0 - before[n] \div JitterPart
    BY <2>1, <2>2
  <2>4. gap' = gap /\ before' = before
    BY <1>3 DEF Register
  <2>5. PICK entry \in [since : {0}, jitter : {0}] : fires' = Set(n, entry)
    BY <1>3 DEF Register, FirstWait
  <2>6. entry.since = 0 /\ entry.jitter = 0
    BY <2>5
  <2> QED
    BY <2>3, <2>4, <2>5, <2>6, SpacedSet
<1>4. ASSUME NEW n \in Names, Fire(n) PROVE SpacedInv'
  <2>1. snap \in Settings
    BY <1>4 DEF Fire, Considered, TypeOK
  <2>2. PICK j \in Jitters(n) : fires' = Set(n, [since |-> 0, jitter |-> j])
    BY <1>4 DEF Fire
  <2>3. j >= 0 - snap.every[n] \div JitterPart
    BY <2>1, <2>2, JittersAreIntegers
  <2>4. /\ gap'[n] = 0 /\ before'[n] = snap.every[n]
        /\ \A m \in Names \ {n} : gap'[m] = gap[m] /\ before'[m] = before[m]
    BY <1>4 DEF Fire, TypeOK
  <2>5. PICK entry \in [since : {0}, jitter : {j}] : fires' = Set(n, entry)
    BY <2>2
  <2>6. entry.since <= gap'[n] /\ entry.jitter >= 0 - before'[n] \div JitterPart
    BY <2>3, <2>4, <2>5
  <2> QED
    BY <2>4, <2>5, <2>6, SpacedSet
<1>5. CASE UNCHANGED <<fires, gap, before>>
  BY <1>5 DEF SpacedInv
<1>6. \/ Tick \/ Prune \/ \E n \in Names : Register(n) \/ Fire(n)
      \/ UNCHANGED <<fires, gap, before>>
  BY DEF Next, Schedule, Save, Receive, NotDue, FireFails, HearQuery, Answer, AnswerCapabilities,
         vars, scheduleVars
<1> QED
  BY <1>1, <1>2, <1>3, <1>4, <1>5, <1>6

\* Only a transmission of the scheduler starts a gap, and it is one that was due.
LEMMA SpacedStep ==
  ASSUME BeaconAssumption, TypeOK, SpacedInv, [Next]_vars, NEW n \in Names,
         gap'[n] = 0, gap[n] # 0
  PROVE  gap[n] >= snap.every[n] - before[n] \div JitterPart
<1>1. ~Tick
  <2>1. Later(gap[n]) # 0 /\ Later(gap[n]) \in Nat
    BY LaterType DEF TypeOK, BeaconAssumption
  <2> QED
    BY <2>1 DEF Tick
<1>2. gap' # gap
  OBVIOUS
<1>3. PICK m \in Names : Fire(m)
  BY <1>1, <1>2 DEF Next, Schedule, Save, Receive, Prune, Register, NotDue, FireFails, HearQuery,
                    Answer, AnswerCapabilities, vars, scheduleVars
<1>4. m = n
  BY <1>2, <1>3 DEF Fire, TypeOK
<1>5. /\ n \in DOMAIN fires /\ fires[n].since >= snap.every[n] + fires[n].jitter
      /\ snap \in Settings
  BY <1>3, <1>4 DEF Fire, Considered, Due, TypeOK
<1>6. /\ fires[n] \in [since : 0..Cap, jitter : Int] /\ gap[n] \in Nat /\ Cap \in Nat
      /\ snap.every[n] \in Nat /\ before[n] \div JitterPart \in Nat
  BY <1>5, PartIsNat DEF TypeOK, BeaconAssumption
<1>7. PICK part \in Nat : part = before[n] \div JitterPart
  BY <1>6
<1>8. fires[n].since <= gap[n] /\ fires[n].jitter >= 0 - part
  BY <1>5, <1>7 DEF SpacedInv
<1> QED
  BY <1>5, <1>6, <1>7, <1>8

\* Two scheduled transmissions of a beacon are its interval less the first one's jitter
\* apart, whatever was removed, listed again or changed in between (beacon.go:160-190).
THEOREM SpacedHolds == Spec => Spaced
<1> USE ReceiverAssumption, BeaconAssumption
<1>1. Init => SpacedInv
  <2>1. Init => DOMAIN fires = {}
    BY DEF Init
  <2> QED
    BY <2>1 DEF SpacedInv
<1>2. TypeOK /\ SpacedInv /\ [Next]_vars => SpacedInv'
  BY SpacedNext
<1>3. TypeOK /\ SpacedInv /\ [Next]_vars =>
        [\A n \in Names :
           gap'[n] = 0 /\ gap[n] # 0 => gap[n] >= snap.every[n] - before[n] \div JitterPart]_vars
  BY SpacedStep
<1> QED
  BY <1>1, <1>2, <1>3, TypeCorrect, PTL DEF Spec, Spaced
=============================================================================
