---------------------------- MODULE RFPathProofs -----------------------------
(***************************************************************************)
(* Theorems about RFPath, for any contents, timers, senders and settings   *)
(* and any window, holds and echo delay that RFPathAssumption admits.      *)
(***************************************************************************)
EXTENDS RFPath, FiniteSetTheorems, TLAPS

-----------------------------------------------------------------------------
(* The cache and the table, as the proofs use them.                        *)

\* A new mark makes room for itself at the cost of marks beyond the window only.
LEMMA RecordFacts ==
  ASSUME TypeOK, NEW c \in Contents, Record(c)
  PROVE  /\ c \in DOMAIN seen' /\ seen'[c] = 0
         /\ DOMAIN seen' \subseteq DOMAIN seen \cup {c}
         /\ \A k \in DOMAIN seen' \ {c} : seen'[k] = seen[k]
         /\ \A k \in DOMAIN seen : seen[k] <= Window => k \in DOMAIN seen'
         /\ lastGC' \in Nat
<1> DEFINE marked == [k \in DOMAIN seen \cup {c} |-> IF k = c THEN 0 ELSE seen[k]]
           kept   == {k \in DOMAIN marked : k = c \/ ~Garbage(marked[k])}
<1>1. /\ DOMAIN marked = DOMAIN seen \cup {c} /\ marked[c] = 0
      /\ \A k \in DOMAIN seen \ {c} : marked[k] = seen[k]
  OBVIOUS
<1>2. CASE seen' = marked /\ lastGC' = lastGC
  BY <1>1, <1>2 DEF TypeOK
<1>3. CASE seen' = [k \in kept |-> marked[k]] /\ lastGC' = Cardinality(kept)
  <2>1. c \in kept /\ kept \subseteq DOMAIN seen \cup {c}
    BY <1>1
  <2>2. ASSUME NEW k \in DOMAIN seen, seen[k] <= Window PROVE k \in kept
    <3>1. CASE k # c
      BY <1>1, <2>2, <3>1, RFPathAssumption DEF Garbage, TypeOK
    <3> QED
      BY <2>1, <3>1
  <2>3. IsFiniteSet(kept)
    BY <2>1, FS_AddElement, FS_Subset DEF TypeOK
  <2>4. lastGC' \in Nat
    BY <1>3, <2>3, FS_CardinalityType
  <2>5. DOMAIN seen' = kept /\ \A k \in kept : seen'[k] = marked[k]
    BY <1>3
  <2> QED
    BY <1>1, <2>1, <2>2, <2>4, <2>5
<1> QED
  BY <1>2, <1>3 DEF Record

LEMMA MarkFacts ==
  ASSUME TypeOK, NEW c \in Contents, CheckAndMark(c)
  PROVE  /\ DOMAIN seen' \subseteq DOMAIN seen \cup {c} /\ c \in DOMAIN seen'
         /\ IF Duplicate(c) THEN seen' = seen ELSE seen'[c] = 0
         /\ \A k \in DOMAIN seen' \ {c} : seen'[k] = seen[k]
         /\ \A k \in DOMAIN seen : seen[k] <= Window => k \in DOMAIN seen'
         /\ IsFiniteSet(DOMAIN seen') /\ DOMAIN seen' \subseteq Contents
         /\ \A k \in DOMAIN seen' : seen'[k] \in 0..Window + 1
         /\ lastGC' \in Nat
<1>1. CASE Duplicate(c)
  BY <1>1 DEF CheckAndMark, Duplicate, TypeOK
<1>2. CASE ~Duplicate(c)
  <2>1. Record(c)
    BY <1>2 DEF CheckAndMark
  <2>2. IsFiniteSet(DOMAIN seen')
    BY <2>1, RecordFacts, FS_AddElement, FS_Subset DEF TypeOK
  <2>3. DOMAIN seen' \subseteq Contents
    BY <2>1, RecordFacts DEF TypeOK
  <2>4. \A k \in DOMAIN seen' : seen'[k] \in 0..Window + 1
    BY <2>1, RecordFacts, RFPathAssumption DEF TypeOK
  <2> QED
    BY <1>2, <2>1, <2>2, <2>3, <2>4, RecordFacts
<1> QED
  BY <1>1, <1>2

\* What is done to timers: nothing, or those in T are silenced, and freed if they wait.
LEMMA StopFacts ==
  ASSUME TypeOK, NEW T \in SUBSET Timers, StopTimers(T)
  PROVE  /\ DOMAIN hold' = Timers /\ silenced' = silenced \cup T
         /\ \A t \in Timers : hold'[t] = IF t \in T /\ hold[t].state = "armed" THEN Free ELSE hold[t]
BY DEF StopTimers

IsTimer(h) ==
  h \in [state : {"free", "armed", "running"}, content : Contents \cup {None},
         path : {h.path}, left : 0..MaxHold]

LEMMA FreeType == IsTimer(Free) /\ Free.state = "free"
BY RFPathAssumption DEF Free, IsTimer

LEMMA CancelFacts ==
  ASSUME TypeOK, NEW c \in Contents, CancelIfQueued(c)
  PROVE  /\ DOMAIN entries' = DOMAIN entries \ {c}
         /\ \A k \in DOMAIN entries' : entries'[k] = entries[k]
         /\ DOMAIN hold' = Timers
         /\ IF Held(c) THEN /\ entries[c] \in Timers /\ silenced' = silenced \cup {entries[c]}
                            /\ \A t \in Timers : hold'[t] = IF t = entries[c] /\ hold[t].state = "armed"
                                                            THEN Free ELSE hold[t]
            ELSE UNCHANGED <<entries, hold, silenced>>
<1>1. CASE Held(c)
  <2>1. entries[c] \in Timers
    BY <1>1 DEF Held, TypeOK
  <2>2. StopTimers({entries[c]}) /\ entries' = Drop(entries, c)
    BY <1>1 DEF CancelIfQueued
  <2> QED
    BY <1>1, <2>1, <2>2, StopFacts DEF Drop
<1>2. CASE ~Held(c)
  BY <1>2 DEF CancelIfQueued, Held, TypeOK
<1> QED
  BY <1>1, <1>2

\* A held content gets a timer of its own, free until then.
NewHold(c, path, t, n) ==
  /\ ~closed /\ ~Held(c) /\ hold[t] = Free /\ job[t] = NoJob
  /\ DOMAIN hold' = Timers
  /\ hold'[t] = [state |-> "armed", content |-> c, path |-> path, left |-> n]
  /\ \A u \in Timers \ {t} : hold'[u] = hold[u]
  /\ DOMAIN entries' = DOMAIN entries \cup {c} /\ entries'[c] = t
  /\ \A k \in DOMAIN entries : entries'[k] = entries[k]
  /\ silenced' = silenced \ {t}

LEMMA HoldFacts ==
  ASSUME TypeOK, NEW c \in Contents, NEW path, Hold(c, path)
  PROVE  \/ Refused(c) /\ UNCHANGED <<entries, hold, silenced>>
         \/ \E t \in Timers, n \in MinHold..MaxHold : NewHold(c, path, t, n)
<1>1. CASE Refused(c)
  BY <1>1 DEF Hold
<1>2. CASE ~Refused(c)
  <2>1. PICK t \in Timers, n \in MinHold..MaxHold :
          /\ hold[t] = Free /\ job[t] = NoJob
          /\ hold' = [hold EXCEPT ![t] =
                        [state |-> "armed", content |-> c, path |-> path, left |-> n]]
          /\ entries' = [k \in DOMAIN entries \cup {c} |-> IF k = c THEN t ELSE entries[k]]
          /\ silenced' = silenced \ {t}
    BY <1>2 DEF Hold
  <2>2. ~closed /\ ~Held(c) /\ DOMAIN hold = Timers
    BY <1>2 DEF Refused, TypeOK
  <2>3. \A k \in DOMAIN entries : k # c
    BY <2>2 DEF Held
  <2> QED
    BY <2>1, <2>2, <2>3 DEF NewHold
<1> QED
  BY <1>1, <1>2

-----------------------------------------------------------------------------
(* Type correctness.                                                       *)

SeenType ==
  /\ DOMAIN seen \subseteq Contents /\ IsFiniteSet(DOMAIN seen)
  /\ \A c \in DOMAIN seen : seen[c] \in 0..Window + 1
  /\ lastGC \in Nat
TableType ==
  /\ DOMAIN entries \subseteq Contents
  /\ \A c \in DOMAIN entries : entries[c] \in Timers
  /\ DOMAIN hold = Timers
  /\ \A t \in Timers : IsTimer(hold[t])
  /\ closed \in BOOLEAN
  /\ silenced \subseteq Timers
IsParse(p) ==
  /\ p \in [step : {"idle", "cancel", "mark", "decide", "dispatch"},
            content : Contents \cup {None}, path : {p.path}, cfg : {p.cfg}, echo : BOOLEAN]
  /\ p.step # "idle" => p.content \in Contents
IsJob(j) ==
  /\ j \in [step : {"none", "mark", "tx"}, content : Contents \cup {None},
            path : {j.path}, digi : BOOLEAN]
  /\ IF j.step = "none" THEN j = NoJob ELSE j.content \in Contents
JobType ==
  /\ IsParse(parse)
  /\ DOMAIN job = Dispatchers
  /\ \A d \in Dispatchers : IsJob(job[d])
  /\ parse.step = "dispatch" <=> job[Parser] # NoJob
OutType ==
  /\ \A f \in out : f \in [content : Contents, path : {f.path}, age : 0..EchoDelay]
  /\ accepted \in [Contents -> Ages]
  /\ digied \in [Contents -> Ages]
  /\ sentOwn \in [Contents -> Ages]

LEMMA TypeParts ==
  /\ TypeOK <=> SeenType /\ TableType /\ JobType /\ OutType
  /\ TypeOK' <=> SeenType' /\ TableType' /\ JobType' /\ OutType'
BY DEF TypeOK, SeenType, TableType, JobType, OutType, IsTimer, IsParse, IsJob

LEMMA NoJobType == IsJob(NoJob) /\ NoJob.step = "none" /\ NoJob.digi = FALSE
BY DEF IsJob, NoJob

LEMMA JobStepType ==
  ASSUME NEW j, IsJob(j), j.step # "none"
  PROVE  LET k == [j EXCEPT !.step = "tx"]
         IN  /\ IsJob(k) /\ k.step = "tx" /\ k.content = j.content /\ k.digi = j.digi
             /\ k # NoJob
BY DEF IsJob, NoJob

LEMMA NewJobType ==
  ASSUME NEW step \in {"mark", "tx"}, NEW c \in Contents, NEW path, NEW digi \in BOOLEAN
  PROVE  LET j == [step |-> step, content |-> c, path |-> path, digi |-> digi]
         IN  IsJob(j) /\ j # NoJob /\ j.step = step /\ j.content = c /\ j.digi = digi
BY DEF IsJob, NoJob

LEMMA ParsedType == IsParse(Parsed) /\ Parsed.step = "idle"
BY DEF IsParse, Parsed

LEMMA ParseStepType ==
  ASSUME NEW p, IsParse(p), p.step # "idle", NEW step \in {"mark", "decide", "dispatch"}
  PROVE  LET q == [p EXCEPT !.step = step]
         IN  /\ IsParse(q) /\ q.step = step /\ q.content = p.content /\ q.echo = p.echo
BY DEF IsParse

LEMMA Goroutines ==
  /\ Parser \in Dispatchers /\ Timers \subseteq Dispatchers /\ Senders \subseteq Dispatchers
  /\ Parser \notin Timers /\ Parser \notin Senders /\ Timers \cap Senders = {}
BY RFPathAssumption DEF Dispatchers

\* Most actions leave three of the four alone.
LEMMA TableTypeCancel ==
  ASSUME TypeOK, NEW c \in Contents, CancelIfQueued(c), UNCHANGED closed
  PROVE  TableType'
<1>1. \A k \in DOMAIN entries' : entries'[k] \in Timers /\ k \in Contents
  BY CancelFacts DEF TypeOK
<1>2. DOMAIN hold' = Timers
  BY CancelFacts
<1>3. ASSUME NEW t \in Timers PROVE IsTimer(hold'[t])
  <2>1. hold'[t] = Free \/ hold'[t] = hold[t]
    BY CancelFacts
  <2> QED
    BY <2>1, FreeType, TypeParts DEF TableType
<1>4. silenced' \subseteq Timers
  <2>1. CASE Held(c)
    <3>1. entries[c] \in Timers /\ silenced' = silenced \cup {entries[c]}
      BY <2>1, CancelFacts
    <3> QED
      BY <3>1 DEF TypeOK
  <2>2. CASE ~Held(c)
    BY <2>2, CancelFacts DEF TypeOK
  <2> QED
    BY <2>1, <2>2
<1> QED
  BY <1>1, <1>2, <1>3, <1>4 DEF TableType, TypeOK

LEMMA TableTypeHold ==
  ASSUME TypeOK, NEW c \in Contents, NEW path, Hold(c, path), UNCHANGED closed
  PROVE  TableType'
<1>1. CASE UNCHANGED <<entries, hold, silenced>>
  BY <1>1, TypeParts DEF TableType
<1>2. CASE ~UNCHANGED <<entries, hold, silenced>>
  <2>1. PICK t \in Timers, n \in MinHold..MaxHold : NewHold(c, path, t, n)
    BY <1>2, HoldFacts
  <2>2. IsTimer(hold'[t])
    BY <2>1, RFPathAssumption DEF IsTimer, NewHold
  <2>3. \A u \in Timers : IsTimer(hold'[u])
    BY <2>1, <2>2, TypeParts DEF TableType, NewHold
  <2> QED
    BY <2>1, <2>3, TypeParts DEF TableType, NewHold
<1> QED
  BY <1>1, <1>2

LEMMA JobTypeNew ==
  ASSUME TypeOK, NEW d \in Dispatchers, NEW j, IsJob(j), job' = [job EXCEPT ![d] = j],
         IsParse(parse'), parse'.step = "dispatch" <=> job'[Parser] # NoJob
  PROVE  JobType'
BY TypeParts DEF JobType

LEMMA JobTypeParse ==
  ASSUME TypeOK, UNCHANGED job, IsParse(parse'),
         parse.step # "dispatch", parse'.step # "dispatch"
  PROVE  JobType'
BY TypeParts DEF JobType

LEMMA TypeNext == ASSUME TypeOK, [Next]_vars PROVE TypeOK'
<1>0. SeenType /\ TableType /\ JobType /\ OutType
  BY TypeParts
<1>1. ASSUME UNCHANGED <<seen, lastGC>> PROVE SeenType'
  BY <1>0, <1>1 DEF SeenType
<1>2. ASSUME UNCHANGED <<entries, hold, closed, silenced>> PROVE TableType'
  BY <1>0, <1>2 DEF TableType
<1>3. ASSUME UNCHANGED <<parse, job>> PROVE JobType'
  BY <1>0, <1>3 DEF JobType
<1>4. ASSUME UNCHANGED <<out, accepted, digied, sentOwn>> PROVE OutType'
  BY <1>0, <1>4 DEF OutType
<1>5. ASSUME NEW c \in Contents, NEW path, NEW echo \in BOOLEAN, Take(c, path, echo)
      PROVE  TypeOK'
  <2>1. PICK r \in Roles :
          parse' = [step |-> "cancel", content |-> c, path |-> path, cfg |-> r, echo |-> echo]
    BY <1>5 DEF Take
  <2>2. IsParse(parse') /\ parse'.step # "dispatch"
    BY <1>5, <2>1 DEF IsParse
  <2>3. UNCHANGED job /\ parse.step # "dispatch"
    BY <1>5, ParsedType DEF Take
  <2> QED
    BY <1>1, <1>2, <1>4, <1>5, <2>2, <2>3, JobTypeParse, TypeParts DEF Take
<1>6. ASSUME NEW c \in Foreign, Hear(c) PROVE TypeOK'
  BY <1>5, <1>6 DEF Hear, Foreign
<1>7. CASE HearEcho
  <2> PICK f \in out : \E path : Take(f.content, path, TRUE)
    BY <1>7 DEF HearEcho
  <2>1. PICK path : Take(f.content, path, TRUE)
    OBVIOUS
  <2>2. f.content \in Contents
    BY <2>1 DEF TypeOK
  <2> QED
    BY <1>5, <2>1, <2>2
<1>8. CASE ParseCancel
  <2>1. parse.content \in Contents
    BY <1>8 DEF ParseCancel, TypeOK
  <2>2. IsParse(parse') /\ parse'.step = "mark" /\ parse.step = "cancel" /\ UNCHANGED job
    BY <1>0, <1>8, ParseStepType DEF ParseCancel, JobType
  <2>3. TableType' /\ JobType'
    BY <1>8, <2>1, <2>2, TableTypeCancel, JobTypeParse DEF ParseCancel
  <2> QED
    BY <1>1, <1>4, <1>8, <2>3, TypeParts DEF ParseCancel
<1>9. CASE ParseMark
  <2>1. parse.content \in Contents /\ parse.step = "mark"
    BY <1>9 DEF ParseMark, TypeOK
  <2>2. SeenType'
    BY <1>9, <2>1, MarkFacts DEF ParseMark, SeenType
  <2>3. IsParse(parse') /\ parse'.step # "dispatch" /\ UNCHANGED job
    BY <1>0, <1>9, <2>1, ParseStepType, ParsedType DEF ParseMark, JobType
  <2>4. accepted' \in [Contents -> Ages]
    BY <1>0, <1>9, <2>1, RFPathAssumption DEF ParseMark, OutType, Ages
  <2>5. OutType'
    BY <1>0, <1>9, <2>4 DEF ParseMark, OutType
  <2>6. JobType'
    BY <2>1, <2>3, JobTypeParse
  <2> QED
    BY <1>2, <1>9, <2>2, <2>5, <2>6, TypeParts DEF ParseMark
<1>10. CASE ParseDrop \/ ParseIgnore
  <2>1. JobType'
    BY <1>10, JobTypeParse, ParsedType DEF ParseDrop, ParseIgnore
  <2> QED
    BY <1>1, <1>2, <1>4, <1>10, <2>1, TypeParts DEF ParseDrop, ParseIgnore
<1>11. CASE ParseHold
  <2>1. parse.content \in Contents
    BY <1>11 DEF ParseHold, TypeOK
  <2>2. TableType'
    BY <1>11, <2>1, TableTypeHold DEF ParseHold
  <2>3. JobType'
    BY <1>11, JobTypeParse, ParsedType DEF ParseHold
  <2> QED
    BY <1>1, <1>4, <1>11, <2>2, <2>3, TypeParts DEF ParseHold
<1>12. CASE ParseDigipeat
  <2>1. parse.content \in Contents /\ parse.step = "decide"
    BY <1>12 DEF ParseDigipeat, TypeOK
  <2>2. PICK path : job' = [job EXCEPT ![Parser] = [step |-> "mark", content |-> parse.content,
                                                    path |-> path, digi |-> TRUE]]
    BY <1>12 DEF ParseDigipeat
  <2>3. IsParse(parse') /\ parse'.step = "dispatch"
    BY <1>0, <1>12, <2>1, ParseStepType DEF ParseDigipeat, JobType
  <2>4. job'[Parser] # NoJob
    <3>1. job'[Parser] = [step |-> "mark", content |-> parse.content, path |-> path, digi |-> TRUE]
      BY <1>0, <2>2, Goroutines DEF JobType
    <3> QED
      BY <3>1 DEF NoJob
  <2>5. JobType'
    BY <2>1, <2>2, <2>3, <2>4, NewJobType, JobTypeNew, Goroutines
  <2> QED
    BY <1>1, <1>2, <1>4, <1>12, <2>5, TypeParts DEF ParseDigipeat
<1>13. ASSUME NEW d \in Dispatchers, DispatchMark(d) PROVE TypeOK'
  <2>1. IsJob(job[d]) /\ job[d].step = "mark" /\ job[d].content \in Contents
    BY <1>0, <1>13 DEF DispatchMark, JobType, IsJob
  <2>2. SeenType'
    BY <1>13, <2>1, MarkFacts DEF DispatchMark, SeenType
  <2>3. job' = [job EXCEPT ![d] = [job[d] EXCEPT !.step = "tx"]] /\ UNCHANGED parse
    BY <1>13 DEF DispatchMark
  <2>4. job'[Parser] # NoJob <=> job[Parser] # NoJob
    BY <1>0, <2>1, <2>3, JobStepType, NoJobType, Goroutines DEF JobType
  <2>5. JobType'
    BY <1>0, <2>1, <2>3, <2>4, JobStepType, JobTypeNew DEF JobType
  <2> QED
    BY <1>2, <1>4, <1>13, <2>2, <2>5, TypeParts DEF DispatchMark
<1>14. ASSUME NEW d \in Dispatchers, DispatchTX(d) PROVE TypeOK'
  <2>1. IsJob(job[d]) /\ job[d].step = "tx" /\ job[d].content \in Contents
    BY <1>0, <1>14 DEF DispatchTX, JobType, IsJob
  <2>2. JobType'
    <3>1. job' = [job EXCEPT ![d] = NoJob] /\ parse' = IF d = Parser THEN Parsed ELSE parse
      BY <1>14 DEF DispatchTX, Finish
    <3>2. IsParse(parse') /\ (parse'.step = "dispatch" <=> job'[Parser] # NoJob)
      BY <1>0, <3>1, ParsedType, Goroutines DEF JobType
    <3> QED
      BY <3>1, <3>2, NoJobType, JobTypeNew
  <2>3. OutType'
    <3>1. digied' \in [Contents -> Ages]
      BY <1>0, <1>14, <2>1, RFPathAssumption DEF DispatchTX, OutType, Ages
    <3>2. ASSUME NEW f \in out'
          PROVE  f \in [content : Contents, path : {f.path}, age : 0..EchoDelay]
      <4>1. f \in out \/ f = [content |-> job[d].content, path |-> job[d].path, age |-> 0]
        BY <1>14, <3>2 DEF DispatchTX
      <4>2. ASSUME f = [content |-> job[d].content, path |-> job[d].path, age |-> 0]
            PROVE  f \in [content : Contents, path : {f.path}, age : 0..EchoDelay]
        BY <2>1, <4>2, RFPathAssumption
      <4> QED
        BY <1>0, <4>1, <4>2 DEF OutType
    <3> QED
      BY <1>0, <1>14, <3>1, <3>2 DEF DispatchTX, OutType
  <2> QED
    BY <1>1, <1>2, <1>14, <2>2, <2>3, TypeParts DEF DispatchTX
<1>15. ASSUME NEW t \in Timers, Expire(t) PROVE TypeOK'
  <2>1. IsTimer([hold[t] EXCEPT !.state = "running"])
    BY <1>0 DEF TableType, IsTimer
  <2>2. TableType'
    BY <1>0, <1>15, <2>1 DEF Expire, TableType
  <2> QED
    BY <1>1, <1>3, <1>4, <1>15, <2>2, TypeParts DEF Expire
<1>16. ASSUME NEW t \in Timers, Callback(t) PROVE TypeOK'
  <2>1. TableType'
    <3>1. DOMAIN entries' \subseteq DOMAIN entries /\ \A c \in DOMAIN entries' : entries'[c] = entries[c]
      BY <1>16 DEF Callback, Drop
    <3>2. DOMAIN hold' = Timers /\ \A u \in Timers : hold'[u] \in {Free, hold[u]}
      BY <1>0, <1>16 DEF Callback, TableType
    <3>3. \A u \in Timers : IsTimer(hold'[u])
      BY <1>0, <3>2, FreeType DEF TableType
    <3> QED
      BY <1>0, <1>16, <3>1, <3>2, <3>3 DEF Callback, TableType
  <2>2. JobType'
    <3>1. CASE UNCHANGED job
      BY <1>3, <1>16, <3>1 DEF Callback
    <3>2. CASE StillHeld(t) /\ job' = [job EXCEPT ![t] = [step |-> "mark", content |-> hold[t].content,
                                                          path |-> hold[t].path, digi |-> TRUE]]
      <4>1. hold[t].content \in Contents
        BY <1>0, <3>2 DEF StillHeld, Held, TableType
      <4>2. UNCHANGED parse /\ t # Parser /\ job'[Parser] = job[Parser] /\ t \in Dispatchers
        BY <1>0, <1>16, <3>2, Goroutines DEF Callback, JobType
      <4>3. IsParse(parse') /\ (parse'.step = "dispatch" <=> job'[Parser] # NoJob)
        BY <1>0, <4>2 DEF JobType
      <4> QED
        BY <3>2, <4>1, <4>2, <4>3, NewJobType, JobTypeNew
    <3> QED
      BY <1>16, <3>1, <3>2 DEF Callback
  <2> QED
    BY <1>1, <1>4, <1>16, <2>1, <2>2, TypeParts DEF Callback
<1>17. ASSUME NEW h \in Senders, NEW c \in Contents, NEW first \in {"mark", "tx"},
              Originate(h, c, first)
       PROVE  TypeOK'
  <2>1. job' = [job EXCEPT ![h] = [step |-> first, content |-> c, path |-> SentPath[c],
                                   digi |-> FALSE]]
        /\ UNCHANGED parse
    BY <1>17 DEF Originate
  <2>2. IsParse(parse') /\ (parse'.step = "dispatch" <=> job'[Parser] # NoJob) /\ h \in Dispatchers
    BY <1>0, <2>1, Goroutines DEF JobType
  <2>3. JobType'
    BY <2>1, <2>2, NewJobType, JobTypeNew
  <2>4. OutType'
    <3>1. sentOwn' \in [Contents -> Ages]
      BY <1>0, <1>17, RFPathAssumption DEF Originate, OutType, Ages
    <3> QED
      BY <1>0, <1>17, <3>1 DEF Originate, OutType
  <2> QED
    BY <1>1, <1>2, <1>17, <2>3, <2>4, TypeParts DEF Originate
<1>18. CASE Stop
  <2>1. {entries[c] : c \in DOMAIN entries} \in SUBSET Timers
    BY <1>0 DEF TableType
  <2>2. DOMAIN hold' = Timers /\ silenced' \subseteq Timers
        /\ \A t \in Timers : hold'[t] \in {Free, hold[t]}
    BY <1>18, <2>1, StopFacts, TypeParts DEF Stop, TypeOK
  <2>3. \A t \in Timers : IsTimer(hold'[t])
    BY <1>0, <2>2, FreeType DEF TableType
  <2>4. DOMAIN entries' = {} /\ closed' \in BOOLEAN
    BY <1>18 DEF Stop
  <2>5. TableType'
    BY <2>2, <2>3, <2>4 DEF TableType
  <2> QED
    BY <1>1, <1>3, <1>4, <1>18, <2>5, TypeParts DEF Stop
<1>19. CASE Tick
  <2>1. SeenType'
    <3>1. ASSUME NEW c \in DOMAIN seen PROVE Capped(seen[c], Window + 1) \in 0..Window + 1
      BY <1>0, RFPathAssumption DEF SeenType, Capped
    <3> QED
      BY <1>0, <1>19, <3>1 DEF Tick, SeenType
  <2>2. TableType'
    <3>1. ASSUME NEW t \in Timers PROVE IsTimer(hold'[t])
      <4>1. CASE hold[t].state = "armed"
        <5>1. hold'[t] = [hold[t] EXCEPT !.left = @ - 1]
          BY <1>19, <4>1 DEF Tick
        <5>2. hold[t].left \in 0..MaxHold /\ hold[t].left # 0 /\ MaxHold \in Nat
          BY <1>0, <1>19, <4>1, RFPathAssumption DEF Tick, Busy, TableType, IsTimer
        <5>3. hold[t].left - 1 \in 0..MaxHold
          BY <5>2
        <5> QED
          BY <1>0, <5>1, <5>3 DEF TableType, IsTimer
      <4>2. CASE hold[t].state # "armed"
        BY <1>0, <1>19, <4>2 DEF Tick, TableType
      <4> QED
        BY <4>1, <4>2
    <3> QED
      BY <1>0, <1>19, <3>1 DEF Tick, TableType
  <2>3. OutType'
    <3>1. \A n \in Ages : Capped(n, Window) \in Ages
      BY RFPathAssumption DEF Ages, Capped
    <3>2. /\ accepted' \in [Contents -> Ages] /\ digied' \in [Contents -> Ages]
          /\ sentOwn' \in [Contents -> Ages]
      BY <1>0, <1>19, <3>1 DEF Tick, OutType
    <3>3. ASSUME NEW f \in out'
          PROVE  f \in [content : Contents, path : {f.path}, age : 0..EchoDelay]
      <4>1. PICK g \in out : g.age < EchoDelay /\ f = [g EXCEPT !.age = @ + 1]
        BY <1>19, <3>3 DEF Tick
      <4>2. g \in [content : Contents, path : {g.path}, age : 0..EchoDelay]
        BY <1>0 DEF OutType
      <4>3. g.age + 1 \in 0..EchoDelay
        BY <4>1, <4>2, RFPathAssumption
      <4> QED
        BY <4>1, <4>2, <4>3
    <3> QED
      BY <3>2, <3>3 DEF OutType
  <2> QED
    BY <1>3, <1>19, <2>1, <2>2, <2>3, TypeParts DEF Tick
<1>20. CASE UNCHANGED vars
  BY <1>1, <1>2, <1>3, <1>4, <1>20, TypeParts DEF vars
<1> QED
  BY <1>6, <1>7, <1>8, <1>9, <1>10, <1>11, <1>12, <1>13, <1>14, <1>15, <1>16, <1>17, <1>18,
     <1>19, <1>20, RFPathAssumption
  DEF Next, ParseStep, Dispatch, Timer, Send, Beacon, SendFirst

LEMMA TypeInit == Init => TypeOK
<1>1. ASSUME Init PROVE TypeOK
  <2>1. SeenType
    BY <1>1, FS_EmptySet DEF Init, SeenType
  <2>2. TableType
    <3>1. DOMAIN entries = {}
      BY <1>1 DEF Init
    <3> QED
      BY <1>1, <3>1, FreeType DEF Init, TableType
  <2>3. JobType
    BY <1>1, ParsedType, NoJobType, Goroutines DEF Init, JobType
  <2>4. OutType
    BY <1>1, RFPathAssumption DEF Init, OutType, Ages
  <2> QED
    BY <2>1, <2>2, <2>3, <2>4, TypeParts
<1> QED
  BY <1>1

\* Every variable keeps to its type, for any tables, timers and goroutines: a job has a
\* content, and parseLoop waits exactly while the frame it sends is in dispatch.
THEOREM TypeCorrect == Spec => []TypeOK
BY TypeInit, TypeNext, PTL DEF Spec

-----------------------------------------------------------------------------
(* Holds.                                                                  *)

\* A cancelled timer is silent because nothing leads back to it: no entry has it, and
\* only a timer without work of its own is given to an entry.
Silent == \A t \in silenced : job[t] = NoJob /\ \A c \in DOMAIN entries : entries[c] # t
OneWork == \A t \in Timers : job[t] # NoJob => hold[t].state = "free"

HoldInv == HoldsAreArmed /\ Silent /\ OneWork /\ QuietAfterStop

LEMMA HoldNext == ASSUME TypeOK, HoldInv, [Next]_vars PROVE HoldInv'
<1> USE TypeParts, Goroutines DEF TableType
<1>1. ASSUME UNCHANGED <<entries, hold, closed, silenced>>,
             \A t \in Timers : job'[t] = job[t] \/ (hold[t].state = "free" /\ t \notin silenced)
                               \/ job'[t] = NoJob
      PROVE  HoldInv'
  <2>1. HoldsAreArmed' /\ QuietAfterStop'
    BY <1>1 DEF HoldInv, HoldsAreArmed, QuietAfterStop, Held
  <2>2. Silent'
    BY <1>1 DEF HoldInv, Silent
  <2>3. OneWork'
    BY <1>1 DEF HoldInv, OneWork
  <2> QED
    BY <2>1, <2>2, <2>3 DEF HoldInv
<1>2. ASSUME UNCHANGED <<entries, hold, closed, silenced, job>> PROVE HoldInv'
  BY <1>1, <1>2
<1>3. CASE ParseCancel
  <2> DEFINE c == parse.content
  <2>1. c \in Contents /\ CancelIfQueued(c) /\ UNCHANGED <<closed, job>>
    BY <1>3 DEF ParseCancel, TypeOK
  <2>2. CASE Held(c)
    <3> DEFINE u == entries[c]
    <3>1. /\ u \in Timers /\ silenced' = silenced \cup {u}
          /\ \A t \in Timers : hold'[t] = IF t = u /\ hold[t].state = "armed" THEN Free ELSE hold[t]
          /\ DOMAIN entries' = DOMAIN entries \ {c}
          /\ \A k \in DOMAIN entries' : entries'[k] = entries[k]
      BY <2>1, <2>2, CancelFacts
    <3>2. \A k \in DOMAIN entries : entries[k] \in Timers /\ hold[entries[k]].content = k
                                    /\ hold[entries[k]].state # "free"
      BY DEF HoldInv, HoldsAreArmed
    <3>3. \A k \in DOMAIN entries' : k \in DOMAIN entries /\ entries'[k] = entries[k] /\ entries[k] # u
      BY <2>2, <3>1, <3>2 DEF Held
    <3>4. HoldsAreArmed'
      <4>1. \A k \in DOMAIN entries' : hold'[entries'[k]] = hold[entries[k]]
        BY <3>1, <3>2, <3>3
      <4>2. ASSUME NEW t \in Timers, hold'[t].state = "armed"
            PROVE  hold'[t].content \in DOMAIN entries' /\ entries'[hold'[t].content] = t
        <5>1. hold'[t] = hold[t] /\ t # u
          BY <3>1, <4>2, FreeType
        <5>2. hold[t].content \in DOMAIN entries /\ entries[hold[t].content] = t
          BY <4>2, <5>1 DEF HoldInv, HoldsAreArmed, Held
        <5>3. hold[t].content # c
          BY <5>1, <5>2
        <5> QED
          BY <3>1, <5>1, <5>2, <5>3
      <4> QED
        BY <3>2, <3>3, <4>1, <4>2 DEF HoldsAreArmed, Held
    <3>5. Silent'
      <4>1. job[u] = NoJob
        BY <2>2, <3>1, <3>2 DEF HoldInv, OneWork, Held
      <4> QED
        BY <2>1, <3>1, <3>3, <4>1 DEF HoldInv, Silent
    <3>6. OneWork'
      BY <2>1, <3>1, FreeType DEF HoldInv, OneWork
    <3>7. QuietAfterStop'
      BY <2>1, <3>1 DEF HoldInv, QuietAfterStop
    <3> QED
      BY <3>4, <3>5, <3>6, <3>7 DEF HoldInv
  <2>3. CASE ~Held(c)
    BY <1>2, <2>1, <2>3, CancelFacts
  <2> QED
    BY <2>2, <2>3
<1>4. CASE ParseHold
  <2> DEFINE c == parse.content
  <2>1. PICK path : Hold(c, path) /\ UNCHANGED <<closed, job>>
    BY <1>4 DEF ParseHold
  <2>2. c \in Contents
    BY <1>4 DEF ParseHold, TypeOK
  <2>3. CASE UNCHANGED <<entries, hold, silenced>>
    BY <1>2, <2>1, <2>3
  <2>4. CASE ~UNCHANGED <<entries, hold, silenced>>
    <3>1. PICK t \in Timers, n \in MinHold..MaxHold : NewHold(c, path, t, n)
      BY <2>1, <2>2, <2>4, HoldFacts
    <3>2. /\ ~closed /\ c \notin DOMAIN entries /\ hold[t] = Free /\ job[t] = NoJob
          /\ hold'[t].state = "armed" /\ hold'[t].content = c
          /\ \A u \in Timers \ {t} : hold'[u] = hold[u]
          /\ DOMAIN entries' = DOMAIN entries \cup {c} /\ entries'[c] = t
          /\ \A k \in DOMAIN entries : entries'[k] = entries[k]
          /\ silenced' = silenced \ {t}
      BY <3>1 DEF NewHold, Held
    <3>3. \A k \in DOMAIN entries : entries[k] \in Timers /\ entries[k] # t
      BY <3>2, FreeType DEF HoldInv, HoldsAreArmed
    <3>4. HoldsAreArmed'
      <4>1. ASSUME NEW k \in DOMAIN entries'
            PROVE  hold'[entries'[k]].state # "free" /\ hold'[entries'[k]].content = k
        BY <3>2, <3>3 DEF HoldInv, HoldsAreArmed
      <4>2. ASSUME NEW u \in Timers, hold'[u].state = "armed"
            PROVE  hold'[u].content \in DOMAIN entries' /\ entries'[hold'[u].content] = u
        <5>1. CASE u = t
          BY <3>2, <5>1
        <5>2. CASE u # t
          BY <3>2, <4>2, <5>2 DEF HoldInv, HoldsAreArmed, Held
        <5> QED
          BY <5>1, <5>2
      <4> QED
        BY <4>1, <4>2 DEF HoldsAreArmed, Held
    <3>5. Silent'
      <4>1. ASSUME NEW u \in silenced' PROVE job[u] = NoJob /\ \A k \in DOMAIN entries' : entries'[k] # u
        <5>1. u \in silenced /\ u # t
          BY <3>2, <4>1
        <5> QED
          BY <3>2, <5>1 DEF HoldInv, Silent
      <4> QED
        BY <2>1, <4>1 DEF Silent
    <3>6. OneWork'
      BY <2>1, <3>2 DEF HoldInv, OneWork
    <3>7. QuietAfterStop'
      BY <2>1, <3>2 DEF QuietAfterStop
    <3> QED
      BY <3>4, <3>5, <3>6, <3>7 DEF HoldInv
  <2> QED
    BY <2>3, <2>4
<1>5. ASSUME NEW d \in Dispatchers, DispatchMark(d) \/ DispatchTX(d) PROVE HoldInv'
  <2>1. UNCHANGED <<entries, hold, closed, silenced>>
    BY <1>5 DEF DispatchMark, DispatchTX
  <2>2. /\ job[d] # NoJob
        /\ \A t \in Timers : job'[t] = job[t] \/ t = d
    BY <1>5, NoJobType DEF DispatchMark, DispatchTX, JobType
  <2>3. \A t \in Timers : t = d => hold[t].state = "free" /\ t \notin silenced
    BY <2>2 DEF HoldInv, OneWork, Silent
  <2> QED
    BY <1>1, <2>1, <2>2, <2>3
<1>6. ASSUME NEW t \in Timers, Expire(t) PROVE HoldInv'
  <2>1. /\ hold[t].state = "armed" /\ UNCHANGED <<entries, closed, silenced, job>>
        /\ hold' = [hold EXCEPT ![t] = [hold[t] EXCEPT !.state = "running"]]
    BY <1>6 DEF Expire
  <2>2. /\ hold'[t].state = "running" /\ hold'[t].content = hold[t].content
        /\ \A u \in Timers \ {t} : hold'[u] = hold[u]
    BY <2>1 DEF IsTimer
  <2>3. HoldsAreArmed'
    BY <2>1, <2>2 DEF HoldInv, HoldsAreArmed, Held
  <2>4. OneWork' /\ Silent' /\ QuietAfterStop'
    BY <2>1, <2>2 DEF HoldInv, OneWork, Silent, QuietAfterStop
  <2> QED
    BY <2>3, <2>4 DEF HoldInv
<1>7. ASSUME NEW t \in Timers, Callback(t) PROVE HoldInv'
  <2> DEFINE c == hold[t].content
  <2>1. /\ hold[t].state = "running" /\ UNCHANGED <<closed, silenced>>
        /\ hold' = [hold EXCEPT ![t] = Free]
    BY <1>7 DEF Callback
  <2>2. hold'[t].state = "free" /\ \A u \in Timers \ {t} : hold'[u] = hold[u]
    BY <2>1, FreeType
  <2>3. /\ DOMAIN entries' \subseteq DOMAIN entries
        /\ \A k \in DOMAIN entries' : entries'[k] = entries[k]
        /\ \A k \in DOMAIN entries : entries[k] # t => k \in DOMAIN entries'
    BY <1>7 DEF Callback, Drop, StillHeld
  <2>4. \A k \in DOMAIN entries' : entries[k] # t
    <3>1. ASSUME NEW k \in DOMAIN entries, entries[k] = t PROVE k \notin DOMAIN entries'
      <4>1. c = k
        BY <3>1 DEF HoldInv, HoldsAreArmed
      <4>2. StillHeld(t)
        BY <3>1, <4>1 DEF StillHeld, Held
      <4> QED
        BY <1>7, <4>1, <4>2 DEF Callback, Drop
    <3> QED
      BY <2>3, <3>1
  <2>5. HoldsAreArmed'
    <3>1. ASSUME NEW k \in DOMAIN entries'
          PROVE  hold'[entries'[k]].state # "free" /\ hold'[entries'[k]].content = k
      BY <2>2, <2>3, <2>4, <3>1 DEF HoldInv, HoldsAreArmed
    <3>2. ASSUME NEW u \in Timers, hold'[u].state = "armed"
          PROVE  hold'[u].content \in DOMAIN entries' /\ entries'[hold'[u].content] = u
      <4>1. u # t /\ hold'[u] = hold[u]
        BY <2>2, <3>2
      <4> QED
        BY <2>3, <3>2, <4>1 DEF HoldInv, HoldsAreArmed, Held
    <3> QED
      BY <3>1, <3>2 DEF HoldsAreArmed, Held
  <2>6. \A u \in Dispatchers : job'[u] = job[u] \/ (u = t /\ StillHeld(t))
    BY <1>7 DEF Callback, JobType
  <2>7. Silent'
    <3>1. ASSUME StillHeld(t) PROVE t \notin silenced
      BY <3>1 DEF HoldInv, Silent, StillHeld, Held
    <3> QED
      BY <2>1, <2>3, <2>6, <3>1 DEF HoldInv, Silent
  <2>8. OneWork'
    BY <2>2, <2>6 DEF HoldInv, OneWork
  <2>9. QuietAfterStop'
    BY <2>1, <2>3 DEF HoldInv, QuietAfterStop
  <2> QED
    BY <2>5, <2>7, <2>8, <2>9 DEF HoldInv
<1>8. ASSUME NEW h \in Senders, NEW c, NEW first, Originate(h, c, first) PROVE HoldInv'
  BY <1>1, <1>8 DEF Originate, JobType
<1>9. CASE ParseDigipeat
  BY <1>1, <1>9 DEF ParseDigipeat, JobType
<1>10. CASE Stop
  <2> DEFINE T == {entries[c] : c \in DOMAIN entries}
  <2>1. T \in SUBSET Timers /\ closed' /\ DOMAIN entries' = {} /\ UNCHANGED job
    BY <1>10 DEF Stop
  <2>2. /\ silenced' = silenced \cup T
        /\ \A t \in Timers : hold'[t] = IF t \in T /\ hold[t].state = "armed" THEN Free ELSE hold[t]
    BY <1>10, <2>1, StopFacts DEF Stop
  <2>3. \A t \in Timers : hold[t].state = "armed" => t \in T
    BY DEF HoldInv, HoldsAreArmed, Held
  <2>4. HoldsAreArmed'
    BY <2>1, <2>2, <2>3, FreeType DEF HoldsAreArmed
  <2>5. ASSUME NEW t \in T PROVE job[t] = NoJob
    BY <2>5 DEF HoldInv, HoldsAreArmed, OneWork
  <2>6. Silent' /\ QuietAfterStop'
    BY <2>1, <2>2, <2>5 DEF HoldInv, Silent, QuietAfterStop
  <2>7. OneWork'
    BY <2>1, <2>2, FreeType DEF HoldInv, OneWork
  <2> QED
    BY <2>4, <2>6, <2>7 DEF HoldInv
<1>11. CASE Tick
  <2>1. \A t \in Timers : hold'[t].state = hold[t].state /\ hold'[t].content = hold[t].content
    BY <1>11 DEF Tick, IsTimer
  <2>2. UNCHANGED <<entries, closed, job, silenced>>
    BY <1>11 DEF Tick
  <2>3. HoldsAreArmed'
    BY <2>1, <2>2 DEF HoldInv, HoldsAreArmed, Held
  <2>4. Silent' /\ OneWork' /\ QuietAfterStop'
    BY <2>1, <2>2 DEF HoldInv, Silent, OneWork, QuietAfterStop
  <2> QED
    BY <2>3, <2>4 DEF HoldInv
<1>12. CASE UNCHANGED vars
  BY <1>2, <1>12 DEF vars
<1> QED
  <2>1. ASSUME NEW c, NEW path, NEW echo, Take(c, path, echo) PROVE HoldInv'
    BY <1>2, <2>1 DEF Take
  <2>2. (\E c \in Foreign : Hear(c)) \/ HearEcho => HoldInv'
    BY <2>1 DEF Hear, HearEcho
  <2>3. CASE ParseMark \/ ParseDrop \/ ParseIgnore
    BY <1>2, <2>3 DEF ParseMark, ParseDrop, ParseIgnore
  <2> QED
    BY <1>3, <1>4, <1>5, <1>6, <1>7, <1>8, <1>9, <1>10, <1>11, <1>12, <2>2, <2>3
    DEF Next, ParseStep, Dispatch, Timer, Send, Beacon

\* An entry of the viscous table and its timer stand and fall together, a cancelled hold
\* sends nothing even if its callback had begun, and nothing is held after Stop.
THEOREM HoldsAreSoundHolds == Spec => []HoldsAreSound
<1>1. Init => HoldInv
  <2>1. ASSUME Init PROVE HoldInv
    <3>1. DOMAIN entries = {}
      BY <2>1 DEF Init
    <3> QED
      BY <2>1, <3>1, FreeType, Goroutines
      DEF Init, HoldInv, HoldsAreArmed, Silent, OneWork, QuietAfterStop
  <2> QED
    BY <2>1
<1>2. HoldInv => HoldsAreSound
  BY DEF HoldInv, HoldsAreSound, CancelledStaysSilent, Silent
<1> QED
  BY <1>1, <1>2, TypeCorrect, HoldNext, PTL DEF Spec

-----------------------------------------------------------------------------
(* Marks.                                                                  *)

\* The mark of a content is no older than its acceptance, as long as that counts: a
\* refusal leaves it alone, a renewal makes it younger, and it is not collected yet.
AcceptInv ==
  \A c \in Contents : accepted[c] < Window => c \in DOMAIN seen /\ seen[c] <= accepted[c]

LEMMA Numbers ==
  ASSUME TypeOK
  PROVE  /\ \A c \in DOMAIN seen : c \in Contents /\ seen[c] \in Nat
         /\ \A c \in Contents : accepted[c] \in Nat /\ accepted[c] <= Window
                                /\ digied[c] \in Nat /\ digied[c] <= Window
                                /\ sentOwn[c] \in Nat /\ sentOwn[c] <= Window
         /\ Window \in Nat /\ MaxHold \in Nat /\ EchoDelay \in Nat
         /\ MaxHold + EchoDelay < Window
BY RFPathAssumption DEF TypeOK, Ages

\* How a step of time ages a count, cut off at m.
LEMMA CappedFacts ==
  ASSUME NEW n \in Nat, NEW m \in Nat, n <= m
  PROVE  /\ Capped(n, m) \in Nat /\ Capped(n, m) <= m /\ n <= Capped(n, m)
         /\ n < m => Capped(n, m) = n + 1
         /\ n = m => Capped(n, m) = m
BY DEF Capped

LEMMA AcceptNext == ASSUME TypeOK, AcceptInv, [Next]_vars PROVE AcceptInv'
<1>1. CASE UNCHANGED <<seen, accepted>>
  BY <1>1 DEF AcceptInv
<1>2. ASSUME NEW c \in Contents, CheckAndMark(c),
             \A k \in Contents : accepted'[k] = accepted[k] \/ (k = c /\ ~Duplicate(c) /\ accepted'[k] = 0)
      PROVE  AcceptInv'
  <2>1. ASSUME NEW k \in Contents, accepted'[k] < Window
        PROVE  k \in DOMAIN seen' /\ seen'[k] <= accepted'[k]
    <3>1. CASE k = c /\ ~Duplicate(c)
      BY <1>2, <2>1, <3>1, MarkFacts, Numbers
    <3>2. CASE ~(k = c /\ ~Duplicate(c))
      <4>1. k \in DOMAIN seen /\ seen[k] <= accepted[k] /\ accepted'[k] = accepted[k]
        BY <1>2, <2>1, <3>2 DEF AcceptInv
      <4>2. seen[k] <= Window
        BY <4>1, Numbers
      <4>3. k \in DOMAIN seen' /\ seen'[k] = seen[k]
        BY <1>2, <3>2, <4>1, <4>2, MarkFacts
      <4> QED
        BY <4>1, <4>3
    <3> QED
      BY <3>1, <3>2
  <2> QED
    BY <2>1 DEF AcceptInv
<1>3. CASE ParseMark
  <2>1. parse.content \in Contents
    BY <1>3 DEF ParseMark, TypeOK
  <2>2. \A k \in Contents : accepted'[k] = accepted[k]
              \/ (k = parse.content /\ ~Duplicate(parse.content) /\ accepted'[k] = 0)
    BY <1>3 DEF ParseMark, TypeOK
  <2> QED
    BY <1>2, <1>3, <2>1, <2>2 DEF ParseMark
<1>4. ASSUME NEW d \in Dispatchers, DispatchMark(d) PROVE AcceptInv'
  <2>1. job[d].content \in Contents
    BY <1>4 DEF DispatchMark, TypeOK
  <2> QED
    BY <1>2, <1>4, <2>1 DEF DispatchMark
<1>5. CASE Tick
  <2>1. ASSUME NEW c \in Contents, accepted'[c] < Window
        PROVE  c \in DOMAIN seen' /\ seen'[c] <= accepted'[c]
    <3>1. accepted'[c] = Capped(accepted[c], Window)
      BY <1>5 DEF Tick
    <3>2. accepted[c] < Window /\ accepted'[c] = accepted[c] + 1
      BY <2>1, <3>1, CappedFacts, Numbers
    <3>3. c \in DOMAIN seen /\ seen[c] <= accepted[c]
      BY <3>2 DEF AcceptInv
    <3>4. c \in DOMAIN seen' /\ seen'[c] = Capped(seen[c], Window + 1)
      BY <1>5, <3>3 DEF Tick
    <3>5. seen'[c] = seen[c] + 1
      BY <3>2, <3>3, <3>4, Numbers DEF Capped
    <3> QED
      BY <3>2, <3>3, <3>4, <3>5, Numbers
  <2> QED
    BY <2>1 DEF AcceptInv
<1>6. ASSUME NEW d \in Dispatchers, DispatchTX(d) PROVE UNCHANGED <<seen, accepted>>
  BY <1>6 DEF DispatchTX
<1>7. ASSUME NEW t \in Timers, Timer(t) PROVE UNCHANGED <<seen, accepted>>
  BY <1>7 DEF Timer, Expire, Callback
<1>8. CASE ParseCancel \/ ParseDrop \/ ParseIgnore \/ ParseHold \/ ParseDigipeat \/ Stop
  BY <1>1, <1>8 DEF ParseCancel, ParseDrop, ParseIgnore, ParseHold, ParseDigipeat, Stop
<1>9. ASSUME NEW h, NEW c, NEW first, Originate(h, c, first) PROVE UNCHANGED <<seen, accepted>>
  BY <1>9 DEF Originate
<1> QED
  <2>1. (\E c \in Foreign : Hear(c)) \/ HearEcho => UNCHANGED <<seen, accepted>>
    BY DEF Hear, HearEcho, Take
  <2>2. CASE UNCHANGED vars
    BY <1>1, <2>2 DEF vars
  <2> QED
    BY <1>1, <1>3, <1>4, <1>5, <1>6, <1>7, <1>8, <1>9, <2>1, <2>2
    DEF Next, ParseStep, Dispatch, Send, Beacon

LEMMA AcceptHolds == Spec => []AcceptInv
<1>1. Init => AcceptInv
  BY RFPathAssumption DEF Init, AcceptInv
<1> QED
  BY <1>1, AcceptNext, TypeCorrect, PTL DEF Spec

\* No content is taken as new twice within the window: what parseLoop, the callbacks and
\* the senders mark, refresh and collect in between never forgets an acceptance early.
THEOREM NoSecondAcceptanceHolds == Spec => NoSecondAcceptance
<1> DEFINE Once == \A c \in Contents : accepted[c] < Window => accepted'[c] # 0 \/ accepted[c] = 0
<1>1. ASSUME TypeOK, AcceptInv, [Next]_vars PROVE Once
  <2> SUFFICES ASSUME NEW c \in Contents, accepted[c] < Window PROVE accepted'[c] # 0 \/ accepted[c] = 0
    OBVIOUS
  <2>1. CASE UNCHANGED accepted
    BY <2>1
  <2>2. CASE ParseMark
    <3>1. CASE parse.content = c
      <4>1. Duplicate(c)
        BY <1>1, <3>1, Numbers DEF AcceptInv, Duplicate, TooFresh
      <4> QED
        BY <2>2, <3>1, <4>1 DEF ParseMark
    <3>2. CASE parse.content # c
      BY <1>1, <2>2, <3>2 DEF ParseMark, TypeOK
    <3> QED
      BY <3>1, <3>2
  <2>3. CASE Tick
    <3>1. accepted'[c] = Capped(accepted[c], Window)
      BY <2>3 DEF Tick
    <3> QED
      BY <1>1, <3>1, Numbers DEF Capped
  <2>4. ASSUME NEW d \in Dispatchers, Dispatch(d) PROVE UNCHANGED accepted
    BY <2>4 DEF Dispatch, DispatchMark, DispatchTX
  <2>5. ASSUME NEW t \in Timers, Timer(t) PROVE UNCHANGED accepted
    BY <2>5 DEF Timer, Expire, Callback
  <2>6. ASSUME NEW h, NEW k, NEW first, Originate(h, k, first) PROVE UNCHANGED accepted
    BY <2>6 DEF Originate
  <2>7. (\E k \in Foreign : Hear(k)) \/ HearEcho => UNCHANGED accepted
    BY DEF Hear, HearEcho, Take
  <2>8. CASE ParseCancel \/ ParseDrop \/ ParseIgnore \/ ParseHold \/ ParseDigipeat \/ Stop
    BY <2>1, <2>8 DEF ParseCancel, ParseDrop, ParseIgnore, ParseHold, ParseDigipeat, Stop
  <2>9. CASE UNCHANGED vars
    BY <2>1, <2>9 DEF vars
  <2> QED
    BY <1>1, <2>1, <2>2, <2>3, <2>4, <2>5, <2>6, <2>7, <2>8, <2>9 DEF Next, ParseStep, Send, Beacon
<1>2. ASSUME TypeOK, AcceptInv, [Next]_vars PROVE [Once]_vars
  BY <1>1, <1>2
<1> QED
  BY <1>2, TypeCorrect, AcceptHolds, PTL DEF Spec, NoSecondAcceptance

-----------------------------------------------------------------------------
(* Digipeats.                                                              *)

\* The three places a digipeat of a content can be waiting in.
ParserHas(c) == parse.step = "decide" /\ parse.content = c
JobHas(d, c) == job[d].digi /\ job[d].content = c
Pending(c)   == ParserHas(c) \/ Held(c) \/ \E d \in Dispatchers : JobHas(d, c)

OnePlace(c) ==
  /\ ParserHas(c) => ~Held(c) /\ \A d \in Dispatchers : ~JobHas(d, c)
  /\ Held(c) => \A d \in Dispatchers : ~JobHas(d, c)
  /\ \A d, e \in Dispatchers : JobHas(d, c) /\ JobHas(e, c) => d = e

\* What is pending was accepted lately, so nothing of that content is accepted meanwhile.
InTime(c) ==
  /\ ParserHas(c) => accepted[c] = 0
  /\ Held(c) => accepted[c] + hold[entries[c]].left <= MaxHold
  /\ \A d \in Dispatchers : JobHas(d, c) => accepted[c] <= MaxHold

\* And the last digipeat followed an earlier acceptance, within the longest hold.
LastApart(c) ==
  /\ accepted[c] <= digied[c] + MaxHold
  /\ Pending(c) => Window <= digied[c] + MaxHold

DigiOf(c) == OnePlace(c) /\ InTime(c) /\ LastApart(c)
DigiInv == \A c \in Contents : DigiOf(c)

\* Nothing new is pending.
LEMMA DigiKept ==
  ASSUME NEW c \in Contents, DigiOf(c), accepted'[c] = accepted[c], digied'[c] = digied[c],
         ParserHas(c)' => ParserHas(c),
         Held(c)' => Held(c) /\ hold'[entries'[c]].left = hold[entries[c]].left,
         \A d \in Dispatchers : JobHas(d, c)' => JobHas(d, c)
  PROVE  DigiOf(c)'
<1>1. OnePlace(c)'
  BY DEF DigiOf, OnePlace
<1>2. InTime(c)'
  BY DEF DigiOf, InTime
<1>3. Pending(c)' => Pending(c)
  BY DEF Pending
<1>4. LastApart(c)'
  BY <1>3 DEF DigiOf, LastApart
<1> QED
  BY <1>1, <1>2, <1>4 DEF DigiOf

\* Pending from being accepted to being sent takes no longer than the longest hold.
LEMMA PendingIsYoung ==
  ASSUME TypeOK, NEW c \in Contents, DigiOf(c), Pending(c)
  PROVE  accepted[c] <= MaxHold /\ Window <= digied[c] + MaxHold
<1>1. Held(c) => hold[entries[c]].left \in Nat
  BY RFPathAssumption DEF Held, TypeOK
<1> QED
  BY <1>1, Numbers DEF DigiOf, InTime, LastApart, Pending

LEMMA DigiNext == ASSUME TypeOK, HoldInv, AcceptInv, DigiInv, [Next]_vars PROVE DigiInv'
<1> USE TypeParts, Goroutines DEF TableType
<1>1. ASSUME UNCHANGED <<entries, job, accepted, digied>>,
             parse'.step # "decide" \/ UNCHANGED parse,
             \A t \in Timers : hold'[t].left = hold[t].left
      PROVE  DigiInv'
  BY <1>1, DigiKept DEF DigiInv, ParserHas, JobHas, Held
<1>2. CASE ParseCancel
  <2> DEFINE k == parse.content
  <2>1. k \in Contents /\ CancelIfQueued(k) /\ UNCHANGED <<job, accepted, digied>>
        /\ parse'.step = "mark"
    BY <1>2, ParseStepType DEF ParseCancel, TypeOK, JobType
  <2>2. ASSUME NEW c \in Contents, Held(c)'
        PROVE  Held(c) /\ hold'[entries'[c]].left = hold[entries[c]].left
    <3>1. c \in DOMAIN entries /\ entries'[c] = entries[c] /\ entries[c] \in Timers /\ c # k
      BY <2>1, <2>2, CancelFacts DEF Held
    <3>2. Held(k) => entries[c] # entries[k]
      BY <3>1 DEF HoldInv, HoldsAreArmed, Held
    <3>3. hold'[entries[c]] = hold[entries[c]]
      BY <2>1, <3>1, <3>2, CancelFacts
    <3> QED
      BY <3>1, <3>3 DEF Held
  <2> QED
    BY <2>1, <2>2, DigiKept DEF DigiInv, ParserHas, JobHas
<1>3. CASE ParseMark
  <2>0. PICK k \in Contents : k = parse.content
    BY <1>3 DEF ParseMark, TypeOK
  <2>1. k \in Contents /\ UNCHANGED <<entries, hold, job, digied>>
    BY <2>0, <1>3 DEF ParseMark, TypeOK
  <2>2. CASE Duplicate(k)
    BY <2>0, <1>1, <1>3, <2>1, <2>2, ParsedType DEF ParseMark
  <2>3. CASE ~Duplicate(k)
    <3>1. /\ parse'.step = "decide" /\ parse'.content = k
          /\ accepted' = [accepted EXCEPT ![k] = 0]
      BY <2>0, <1>3, <2>3, ParseStepType DEF ParseMark, JobType
    <3>2. accepted[k] = Window
      <4>1. ~(accepted[k] < Window)
        BY <2>0, <2>1, <2>3, Numbers DEF AcceptInv, Duplicate, TooFresh
      <4> QED
        BY <2>0, <2>1, <4>1, Numbers
    <3>3. ~Pending(k)
      BY <2>0, <2>1, <3>2, PendingIsYoung, Numbers DEF DigiInv
    <3>4. DigiOf(k)'
      <4>1. ParserHas(k)' /\ ~Held(k)' /\ \A d \in Dispatchers : ~JobHas(d, k)'
        BY <2>0, <2>1, <3>1, <3>3 DEF Pending, ParserHas, Held, JobHas
      <4>2. accepted'[k] = 0 /\ digied'[k] = digied[k] /\ Window <= digied[k] + MaxHold
        BY <2>0, <2>1, <3>1, <3>2 DEF TypeOK, DigiInv, DigiOf, LastApart
      <4>3. accepted'[k] <= digied'[k] + MaxHold
        BY <2>0, <2>1, <4>2, Numbers
      <4> QED
        BY <2>0, <4>1, <4>2, <4>3 DEF DigiOf, OnePlace, InTime, LastApart
    <3>5. ASSUME NEW c \in Contents, c # k PROVE DigiOf(c)'
      BY <2>0, <2>1, <3>1, <3>5, DigiKept DEF DigiInv, ParserHas, Held, JobHas
    <3> QED
      BY <2>0, <3>4, <3>5 DEF DigiInv
  <2> QED
    BY <2>0, <2>2, <2>3
<1>4. CASE ParseHold
  <2>0. PICK k \in Contents : k = parse.content
    BY <1>4 DEF ParseHold, TypeOK
  <2>1. PICK path : Hold(k, path) /\ UNCHANGED <<job, accepted, digied>> /\ parse' = Parsed
    BY <2>0, <1>4 DEF ParseHold
  <2>2. k \in Contents /\ parse.step = "decide"
    BY <2>0, <1>4 DEF ParseHold, TypeOK
  <2>3. CASE UNCHANGED <<entries, hold, silenced>>
    BY <2>0, <1>1, <2>1, <2>3, ParsedType
  <2>4. CASE ~UNCHANGED <<entries, hold, silenced>>
    <3>1. PICK t \in Timers, n \in MinHold..MaxHold : NewHold(k, path, t, n)
      BY <2>0, <2>1, <2>2, <2>4, HoldFacts
    <3>2. /\ k \notin DOMAIN entries /\ hold[t] = Free
          /\ hold'[t].left = n /\ n <= MaxHold /\ n \in Nat
          /\ \A u \in Timers \ {t} : hold'[u] = hold[u]
          /\ DOMAIN entries' = DOMAIN entries \cup {k} /\ entries'[k] = t
          /\ \A c \in DOMAIN entries : entries'[c] = entries[c]
      BY <2>0, <3>1, RFPathAssumption DEF NewHold, Held
    <3>3. ParserHas(k) /\ DigiOf(k)
      BY <2>0, <2>2 DEF ParserHas, DigiInv
    <3>4. DigiOf(k)'
      <4>1. Held(k)' /\ ~ParserHas(k)' /\ \A d \in Dispatchers : ~JobHas(d, k)'
        BY <2>0, <2>1, <3>2, <3>3, ParsedType DEF Held, ParserHas, JobHas, DigiOf, OnePlace
      <4>2. accepted'[k] = 0 /\ Window <= digied'[k] + MaxHold
            /\ accepted'[k] <= digied'[k] + MaxHold
        BY <2>0, <2>1, <3>3 DEF DigiOf, InTime, LastApart, Pending
      <4>3. accepted'[k] + hold'[entries'[k]].left <= MaxHold
        BY <2>0, <3>2, <4>2
      <4> QED
        BY <2>0, <4>1, <4>2, <4>3 DEF DigiOf, OnePlace, InTime, LastApart
    <3>5. ASSUME NEW c \in Contents, c # k PROVE DigiOf(c)'
      <4>1. ASSUME Held(c)' PROVE Held(c) /\ hold'[entries'[c]].left = hold[entries[c]].left
        <5>1. c \in DOMAIN entries /\ entries[c] \in Timers /\ hold[entries[c]].state # "free"
          BY <2>0, <3>2, <3>5, <4>1 DEF Held, HoldInv, HoldsAreArmed
        <5>2. entries[c] # t
          BY <2>0, <3>2, <5>1, FreeType
        <5> QED
          BY <2>0, <3>2, <5>1, <5>2 DEF Held
      <4> QED
        BY <2>0, <2>1, <3>5, <4>1, DigiKept, ParsedType DEF DigiInv, ParserHas, JobHas
    <3> QED
      BY <2>0, <3>4, <3>5 DEF DigiInv
  <2> QED
    BY <2>0, <2>3, <2>4
<1>5. CASE ParseDigipeat
  <2>0. PICK k \in Contents : k = parse.content
    BY <1>5 DEF ParseDigipeat, TypeOK
  <2>1. k \in Contents /\ parse.step = "decide" /\ UNCHANGED <<entries, hold, accepted, digied>>
    BY <2>0, <1>5 DEF ParseDigipeat, TypeOK
  <2>2. PICK path : job' = [job EXCEPT ![Parser] = [step |-> "mark", content |-> k, path |-> path,
                                                    digi |-> TRUE]]
    BY <2>0, <1>5 DEF ParseDigipeat
  <2>3. /\ job'[Parser].digi /\ job'[Parser].content = k
        /\ \A d \in Dispatchers \ {Parser} : job'[d] = job[d]
    BY <2>0, <2>2 DEF JobType
  <2>4. parse'.step = "dispatch"
    BY <2>0, <1>5, ParseStepType DEF ParseDigipeat, JobType
  <2>5. ParserHas(k) /\ DigiOf(k)
    BY <2>0, <2>1 DEF ParserHas, DigiInv
  <2>6. DigiOf(k)'
    <3>1. ~Held(k)' /\ ~ParserHas(k)' /\ \A d \in Dispatchers : JobHas(d, k)' => d = Parser
      BY <2>0, <2>1, <2>3, <2>4, <2>5 DEF Held, ParserHas, JobHas, DigiOf, OnePlace
    <3>2. accepted'[k] = 0 /\ Window <= digied'[k] + MaxHold
          /\ accepted'[k] <= digied'[k] + MaxHold
      BY <2>0, <2>1, <2>5 DEF DigiOf, InTime, LastApart, Pending
    <3> QED
      BY <2>0, <3>1, <3>2, Numbers DEF DigiOf, OnePlace, InTime, LastApart
  <2>7. ASSUME NEW c \in Contents, c # k PROVE DigiOf(c)'
    BY <2>0, <2>1, <2>3, <2>4, <2>7, DigiKept DEF DigiInv, ParserHas, JobHas, Held
  <2> QED
    BY <2>0, <2>6, <2>7 DEF DigiInv
<1>6. ASSUME NEW d \in Dispatchers, DispatchMark(d) PROVE DigiInv'
  <2>1. /\ UNCHANGED <<entries, hold, parse, accepted, digied>>
        /\ job' = [job EXCEPT ![d] = [job[d] EXCEPT !.step = "tx"]] /\ job[d].step = "mark"
    BY <1>6 DEF DispatchMark
  <2>2. \A e \in Dispatchers : job'[e].digi = job[e].digi /\ job'[e].content = job[e].content
    BY <2>1, JobStepType DEF JobType
  <2> QED
    BY <2>1, <2>2, DigiKept DEF DigiInv, ParserHas, JobHas, Held
<1>7. ASSUME NEW d \in Dispatchers, DispatchTX(d) PROVE DigiInv'
  <2>0. PICK k \in Contents : k = job[d].content
    BY <1>7 DEF DispatchTX, TypeOK
  <2>1. /\ UNCHANGED <<entries, hold, accepted>> /\ k \in Contents
        /\ job' = [job EXCEPT ![d] = NoJob]
        /\ UNCHANGED digied \/ (job[d].digi /\ digied' = [digied EXCEPT ![k] = 0])
        /\ parse' = parse \/ parse' = Parsed
    BY <2>0, <1>7 DEF DispatchTX, Finish, TypeOK
  <2>2. ~job'[d].digi /\ \A e \in Dispatchers \ {d} : job'[e] = job[e]
    BY <2>0, <2>1, NoJobType DEF JobType
  <2>3. CASE UNCHANGED digied
    BY <2>0, <2>1, <2>2, <2>3, DigiKept, ParsedType DEF DigiInv, ParserHas, JobHas, Held
  <2>4. CASE job[d].digi /\ digied' = [digied EXCEPT ![k] = 0]
    <3>1. JobHas(d, k) /\ DigiOf(k)
      BY <2>0, <2>1, <2>4 DEF JobHas, DigiInv
    <3>2. DigiOf(k)'
      <4>1. ~Held(k)' /\ ~ParserHas(k)' /\ \A e \in Dispatchers : ~JobHas(e, k)'
        BY <2>0, <2>1, <2>2, <3>1, ParsedType DEF Held, ParserHas, JobHas, DigiOf, OnePlace
      <4>2. digied'[k] = 0 /\ accepted'[k] = accepted[k] /\ accepted[k] <= MaxHold
        BY <2>0, <2>1, <2>4, <3>1 DEF DigiOf, InTime, TypeOK
      <4>3. accepted'[k] <= digied'[k] + MaxHold
        BY <2>0, <2>1, <4>2, Numbers
      <4> QED
        BY <2>0, <4>1, <4>3 DEF DigiOf, OnePlace, InTime, LastApart, Pending
    <3>3. ASSUME NEW c \in Contents, c # k PROVE DigiOf(c)'
      <4>1. digied'[c] = digied[c]
        BY <2>0, <2>4, <3>3 DEF TypeOK
      <4> QED
        BY <2>0, <2>1, <2>2, <4>1, DigiKept, ParsedType DEF DigiInv, ParserHas, JobHas, Held
    <3> QED
      BY <2>0, <3>2, <3>3 DEF DigiInv
  <2> QED
    BY <2>0, <2>1, <2>3, <2>4
<1>8. ASSUME NEW t \in Timers, Expire(t) PROVE DigiInv'
  <2>1. hold' = [hold EXCEPT ![t] = [hold[t] EXCEPT !.state = "running"]]
        /\ UNCHANGED <<entries, job, accepted, digied, parse>>
    BY <1>8 DEF Expire
  <2>2. \A u \in Timers : hold'[u].left = hold[u].left
    BY <2>1 DEF IsTimer
  <2> QED
    BY <1>1, <2>1, <2>2
<1>9. ASSUME NEW t \in Timers, Callback(t) PROVE DigiInv'
  <2>0. PICK k : k = hold[t].content
    OBVIOUS
  <2>1. UNCHANGED <<accepted, digied, parse>> /\ hold' = [hold EXCEPT ![t] = Free]
    BY <2>0, <1>9 DEF Callback
  <2>2. \A u \in Timers \ {t} : hold'[u] = hold[u]
    BY <2>0, <2>1
  <2>3. CASE StillHeld(t)
    <3>1. /\ k \in Contents /\ Held(k) /\ entries[k] = t
          /\ DOMAIN entries' = DOMAIN entries \ {k}
          /\ \A c \in DOMAIN entries' : entries'[c] = entries[c]
          /\ job'[t].digi /\ job'[t].content = k
          /\ \A e \in Dispatchers \ {t} : job'[e] = job[e]
      BY <2>0, <1>9, <2>3 DEF Callback, Drop, StillHeld, Held, JobType
    <3>2. DigiOf(k) /\ accepted[k] <= MaxHold /\ Window <= digied[k] + MaxHold
      BY <2>0, <3>1, PendingIsYoung DEF DigiInv, Pending
    <3>3. DigiOf(k)'
      <4>1. ~Held(k)' /\ ~ParserHas(k)' /\ \A e \in Dispatchers : JobHas(e, k)' => e = t
        BY <2>0, <2>1, <3>1, <3>2 DEF Held, ParserHas, JobHas, DigiOf, OnePlace
      <4> QED
        BY <2>0, <2>1, <3>2, <4>1 DEF DigiOf, OnePlace, InTime, LastApart
    <3>4. ASSUME NEW c \in Contents, c # k PROVE DigiOf(c)'
      <4>1. ASSUME Held(c)' PROVE Held(c) /\ hold'[entries'[c]].left = hold[entries[c]].left
        <5>1. c \in DOMAIN entries /\ entries'[c] = entries[c] /\ entries[c] \in Timers
              /\ hold[entries[c]].content = c
          BY <2>0, <3>1, <3>4, <4>1 DEF Held, HoldInv, HoldsAreArmed
        <5> QED
          BY <2>0, <2>2, <3>4, <5>1 DEF Held
      <4>2. \A e \in Dispatchers : JobHas(e, c)' => JobHas(e, c)
        BY <2>0, <3>1, <3>4 DEF JobHas
      <4> QED
        BY <2>0, <2>1, <4>1, <4>2, DigiKept DEF DigiInv, ParserHas
    <3> QED
      BY <2>0, <3>3, <3>4 DEF DigiInv
  <2>4. CASE ~StillHeld(t)
    <3>1. UNCHANGED <<entries, job>>
      BY <2>0, <1>9, <2>4 DEF Callback
    <3>2. \A c \in DOMAIN entries : entries[c] # t
      BY <2>0, <2>4 DEF StillHeld, Held, HoldInv, HoldsAreArmed
    <3>3. ASSUME NEW c \in Contents, Held(c)'
          PROVE  Held(c) /\ hold'[entries'[c]].left = hold[entries[c]].left
      BY <2>0, <2>2, <3>1, <3>2, <3>3 DEF Held
    <3> QED
      BY <2>0, <2>1, <3>1, <3>3, DigiKept DEF DigiInv, ParserHas, JobHas
  <2> QED
    BY <2>0, <2>3, <2>4
<1>10. ASSUME NEW h \in Senders, NEW c, NEW first, Originate(h, c, first) PROVE DigiInv'
  <2>1. UNCHANGED <<entries, hold, parse, accepted, digied>> /\ ~job'[h].digi
        /\ \A d \in Dispatchers \ {h} : job'[d] = job[d]
    BY <1>10 DEF Originate, JobType
  <2> QED
    BY <2>1, DigiKept DEF DigiInv, ParserHas, JobHas, Held
<1>11. CASE Stop
  <2>1. DOMAIN entries' = {} /\ UNCHANGED <<parse, job, accepted, digied>>
    BY <1>11 DEF Stop
  <2> QED
    BY <2>1, DigiKept DEF DigiInv, ParserHas, JobHas, Held
<1>12. CASE Tick
  <2>1. UNCHANGED <<entries, parse, job>> /\ parse.step = "idle"
        /\ \A d \in Dispatchers : ~job[d].digi
    BY <1>12, ParsedType, NoJobType DEF Tick, Busy
  <2>2. ASSUME NEW c \in Contents PROVE DigiOf(c)'
    <3>1. accepted'[c] = Capped(accepted[c], Window) /\ digied'[c] = Capped(digied[c], Window)
      BY <1>12 DEF Tick
    <3>2. ~ParserHas(c)' /\ (\A d \in Dispatchers : ~JobHas(d, c)') /\ (Held(c)' <=> Held(c))
      BY <2>1 DEF ParserHas, JobHas, Held
    <3>3. digied[c] <= digied'[c] /\ digied'[c] \in Nat
      BY <3>1, Numbers, CappedFacts
    <3>4. accepted'[c] <= digied'[c] + MaxHold
      <4>1. accepted[c] <= digied[c] + MaxHold
        BY DEF DigiInv, DigiOf, LastApart
      <4> QED
        BY <3>1, <4>1, Numbers DEF Capped
    <3>5. ASSUME Held(c)
          PROVE  accepted'[c] + hold'[entries'[c]].left <= MaxHold /\ Window <= digied'[c] + MaxHold
      <4> DEFINE t == entries[c]
      <4>1. t \in Timers /\ hold[t].state # "free" /\ IsTimer(hold[t])
        BY <3>5 DEF Held, HoldInv, HoldsAreArmed
      <4>2. hold[t].state = "armed" /\ hold[t].left # 0
        BY <1>12, <4>1 DEF Tick, Busy, IsTimer
      <4>3. hold'[t] = [hold[t] EXCEPT !.left = @ - 1]
        BY <1>12, <4>1, <4>2 DEF Tick
      <4>4. hold[t].left \in Nat /\ hold'[t].left = hold[t].left - 1
        BY <4>1, <4>3, RFPathAssumption DEF IsTimer
      <4>5. accepted[c] + hold[t].left <= MaxHold /\ Window <= digied[c] + MaxHold
        BY <3>5 DEF DigiInv, DigiOf, InTime, LastApart, Pending
      <4>6. accepted'[c] = accepted[c] + 1
        BY <3>1, <4>4, <4>5, Numbers DEF Capped
      <4>7. entries'[c] = t
        BY <2>1
      <4>8. accepted'[c] + hold'[t].left <= MaxHold
        BY <4>4, <4>5, <4>6, Numbers
      <4>9. Window <= digied'[c] + MaxHold
        BY <3>3, <4>5, Numbers
      <4> QED
        BY <4>7, <4>8, <4>9
    <3> QED
      BY <3>2, <3>4, <3>5 DEF DigiOf, OnePlace, InTime, LastApart, Pending
  <2> QED
    BY <2>2 DEF DigiInv
<1> QED
  <2>1. ASSUME NEW c, NEW path, NEW echo, Take(c, path, echo) PROVE DigiInv'
    BY <1>1, <2>1 DEF Take
  <2>2. (\E c \in Foreign : Hear(c)) \/ HearEcho => DigiInv'
    BY <2>1 DEF Hear, HearEcho
  <2>3. CASE ParseDrop \/ ParseIgnore
    BY <1>1, <2>3, ParsedType DEF ParseDrop, ParseIgnore
  <2>4. CASE UNCHANGED vars
    BY <1>1, <2>4 DEF vars
  <2> QED
    BY <1>2, <1>3, <1>4, <1>5, <1>6, <1>7, <1>8, <1>9, <1>10, <1>11, <1>12, <2>2, <2>3, <2>4
    DEF Next, ParseStep, Dispatch, Timer, Send, Beacon

-----------------------------------------------------------------------------
(* Echoes.                                                                 *)

Marked(c, n) == c \in DOMAIN seen /\ seen[c] <= n
Sending(d)   == job[d].step # "none" /\ ~job[d].digi

\* What the station sends of its own is sent by one goroutine at a time; it is marked by
\* nobody else, so the mark of the time before is no longer in force.
SendersApart ==
  /\ \A d \in Dispatchers : Sending(d) =>
       /\ job[d].content \in Own \cup Beacons
       /\ job[d].step = "mark" => job[d].content \in Own /\ ~Duplicate(job[d].content)
       /\ job[d].content \in Own =>
            /\ sentOwn[job[d].content] = 0
            /\ \A e \in Dispatchers : Sending(e) /\ job[e].content = job[d].content => e = d
  /\ \A c \in Own : c \in DOMAIN seen => sentOwn[c] <= seen[c]
  /\ parse.step # "idle" /\ parse.content \in Own => parse.echo

\* A frame in dispatch is marked for the longest hold at least, a frame on the air for that
\* and its age, and so the echo it gives rise to finds the mark in force.
EchoesMarked ==
  /\ \A d \in Dispatchers :
       job[d].step = "tx" /\ job[d].content \notin Beacons => Marked(job[d].content, MaxHold)
  /\ \A f \in out : f.content \notin Beacons => Marked(f.content, f.age + MaxHold)
  /\ parse.step \in {"cancel", "mark"} /\ parse.echo /\ parse.content \notin Beacons =>
       Duplicate(parse.content)
  /\ EchoIsDuplicate

EchoInv == SendersApart /\ EchoesMarked

\* A mark in force stays so but for the passing of time.
LEMMA MarkedKept ==
  ASSUME TypeOK, NEW c \in Contents, CheckAndMark(c), NEW k \in Contents, NEW n \in Nat,
         n <= Window, Marked(k, n)
  PROVE  Marked(k, n)'
<1>1. k \in DOMAIN seen /\ seen[k] <= n /\ seen[k] <= Window
  BY Numbers DEF Marked
<1>2. k \in DOMAIN seen' /\ (seen'[k] = seen[k] \/ seen'[k] = 0)
  BY <1>1, MarkFacts
<1> QED
  BY <1>1, <1>2 DEF Marked

LEMMA DuplicateKept ==
  ASSUME TypeOK, NEW c \in Contents, CheckAndMark(c), NEW k \in Contents
  PROVE  /\ Duplicate(k) => Duplicate(k)'
         /\ Duplicate(c) \/ k # c => (Duplicate(k)' => Duplicate(k))
<1>1. k \in DOMAIN seen /\ seen[k] < Window
      => k \in DOMAIN seen' /\ (seen'[k] = seen[k] \/ seen'[k] = 0)
  BY MarkFacts, Numbers
<1>2. (Duplicate(c) \/ k # c) /\ k \in DOMAIN seen' => k \in DOMAIN seen /\ seen'[k] = seen[k]
  BY MarkFacts
<1> QED
  BY <1>1, <1>2, Numbers DEF Duplicate, TooFresh

\* Marking leaves EchoInv alone if what the station sends of its own is marked by the
\* goroutine that sends it.
LEMMA EchoMark ==
  ASSUME TypeOK, EchoInv, NEW c \in Contents, CheckAndMark(c),
         UNCHANGED <<out, sentOwn>>,
         c \in Own => Duplicate(c) \/ (sentOwn[c] = 0 /\ \A e \in Dispatchers :
                                         ~(Sending(e)' /\ job'[e].step = "mark" /\ job[e].content = c)),
         \A e \in Dispatchers :
           /\ job'[e].content = job[e].content /\ job'[e].digi = job[e].digi
           /\ job[e].step = "none" <=> job'[e].step = "none"
           /\ job'[e].step = "mark" => job[e].step = "mark"
           /\ \/ job'[e].step = "tx" => job[e].step = "tx"
              \/ job[e].content \notin Beacons => Marked(job[e].content, MaxHold)',
         parse' = parse \/ parse'.step = "idle" \/
           (parse'.content = parse.content /\ parse'.echo = parse.echo /\ parse.step = "mark"
            /\ parse'.step = "decide" /\ (parse.echo => parse.content \in Beacons))
  PROVE  EchoInv'
<1>1. \A e \in Dispatchers : Sending(e)' <=> Sending(e)
  BY DEF Sending
<1>2. ASSUME NEW e \in Dispatchers, Sending(e)'
      PROVE  /\ job'[e].content \in Own \cup Beacons
             /\ job'[e].step = "mark" => job'[e].content \in Own /\ ~Duplicate(job[e].content)'
             /\ job'[e].content \in Own =>
                  /\ sentOwn'[job'[e].content] = 0
                  /\ \A d \in Dispatchers : Sending(d)' /\ job'[d].content = job'[e].content => d = e
  <2>1. Sending(e) /\ job[e].content \in Own \cup Beacons /\ job[e].content \in Contents
    BY <1>1, <1>2, RFPathAssumption DEF EchoInv, SendersApart
  <2>2. ASSUME job'[e].step = "mark" PROVE job[e].content \in Own /\ ~Duplicate(job[e].content)
    BY <2>1, <2>2 DEF EchoInv, SendersApart
  <2>3. ASSUME job'[e].step = "mark" PROVE ~Duplicate(job[e].content)'
    <3>1. PICK k \in Contents : k = job[e].content
      BY <2>1
    <3>2. Duplicate(c) \/ k # c
      BY <1>2, <2>2, <2>3, <3>1
    <3>3. ~Duplicate(k)'
      BY <2>2, <2>3, <3>1, <3>2, DuplicateKept
    <3>4. k = job'[e].content
      BY <3>1
    <3> QED
      BY <3>3, <3>4 DEF Duplicate
  <2> QED
    BY <1>1, <2>1, <2>2, <2>3 DEF EchoInv, SendersApart
<1>3. ASSUME NEW k \in Own, k \in DOMAIN seen' PROVE sentOwn'[k] <= seen'[k]
  <2>0. k \in Contents
    BY RFPathAssumption
  <2>1. CASE k = c /\ ~Duplicate(c)
    BY <1>3, <2>1, MarkFacts
  <2>2. CASE ~(k = c /\ ~Duplicate(c))
    <3>1. k \in DOMAIN seen /\ seen'[k] = seen[k]
      BY <1>3, <2>0, <2>2, MarkFacts
    <3> QED
      BY <3>1 DEF EchoInv, SendersApart
  <2> QED
    BY <2>1, <2>2
<1>4. ASSUME NEW e \in Dispatchers, job'[e].step = "tx", job'[e].content \notin Beacons
      PROVE  Marked(job[e].content, MaxHold)'
  <2>1. PICK k : k = job[e].content
    OBVIOUS
  <2>2. k = job'[e].content
    BY <2>1
  <2>3. Marked(k, MaxHold)'
    <3>1. CASE Marked(job[e].content, MaxHold)'
      BY <2>1, <2>2, <3>1 DEF Marked
    <3>2. CASE job[e].step = "tx"
      <4>1. Marked(k, MaxHold)
        BY <1>4, <2>1, <3>2 DEF EchoInv, EchoesMarked
      <4>2. k \in Contents /\ MaxHold \in Nat /\ MaxHold <= Window
        BY <4>1, Numbers DEF Marked
      <4> QED
        BY <4>1, <4>2, MarkedKept
    <3> QED
      BY <1>4, <3>1, <3>2
  <2> QED
    BY <2>2, <2>3 DEF Marked
<1>5. ASSUME NEW f \in out', f.content \notin Beacons PROVE Marked(f.content, f.age + MaxHold)'
  <2>1. f \in out /\ Marked(f.content, f.age + MaxHold)
    BY <1>5 DEF EchoInv, EchoesMarked
  <2>2. f.content \in Contents /\ f.age \in 0..EchoDelay
    BY <2>1 DEF TypeOK
  <2>3. f.age + MaxHold \in Nat /\ f.age + MaxHold <= Window
    BY <2>2, Numbers
  <2> QED
    BY <2>1, <2>2, <2>3, MarkedKept
<1>6. /\ parse'.step # "idle" /\ parse'.content \in Own => parse'.echo
      /\ EchoIsDuplicate'
  BY DEF EchoInv, SendersApart, EchoesMarked, EchoIsDuplicate
<1>7. ASSUME parse'.step \in {"cancel", "mark"}, parse'.echo, parse'.content \notin Beacons
      PROVE  Duplicate(parse.content)'
  <2>1. PICK k : k = parse.content
    OBVIOUS
  <2>2. parse' = parse
    BY <1>7
  <2>3. Duplicate(k)
    BY <1>7, <2>1, <2>2 DEF EchoInv, EchoesMarked
  <2>4. Duplicate(k)'
    BY <2>3, DuplicateKept, Numbers DEF Duplicate
  <2> QED
    BY <2>1, <2>2, <2>4 DEF Duplicate
<1>8. SendersApart'
  BY <1>2, <1>3, <1>6 DEF SendersApart
<1>9. EchoesMarked'
  BY <1>4, <1>5, <1>6, <1>7 DEF EchoesMarked
<1> QED
  BY <1>8, <1>9 DEF EchoInv

\* Nothing is marked, and no goroutine starts to send or to transmit.
LEMMA EchoKept ==
  ASSUME TypeOK, EchoInv, UNCHANGED <<seen, sentOwn>>, out' \subseteq out,
         \A d \in Dispatchers : job'[d] = job[d] \/ job'[d].step = "none"
                                \/ (job'[d].digi /\ job'[d].step = "mark"),
         parse'.step # "idle" /\ parse'.content \in Own => parse'.echo,
         parse'.step \in {"cancel", "mark"} /\ parse'.echo /\ parse'.content \notin Beacons =>
           Duplicate(parse.content)',
         EchoIsDuplicate'
  PROVE  EchoInv'
<1>1. \A d \in Dispatchers : Sending(d)' => Sending(d) /\ job'[d] = job[d]
  BY DEF Sending
<1>2. SendersApart'
  BY <1>1 DEF EchoInv, SendersApart, Duplicate
<1>3. EchoesMarked'
  <2>1. ASSUME NEW d \in Dispatchers, job'[d].step = "tx" PROVE job'[d] = job[d]
    BY <2>1
  <2> QED
    BY <2>1 DEF EchoInv, EchoesMarked, Marked
<1> QED
  BY <1>2, <1>3 DEF EchoInv

LEMMA EchoNext == ASSUME TypeOK, AcceptInv, DigiInv, EchoInv, [Next]_vars PROVE EchoInv'
<1> USE TypeParts, Goroutines
<1>1. ASSUME NEW c \in Contents, NEW path, NEW echo \in BOOLEAN, Take(c, path, echo),
             c \in Own => echo, echo /\ c \notin Beacons => Duplicate(c)
      PROVE  EchoInv'
  <2>1. parse'.step = "cancel" /\ parse'.content = c /\ parse'.echo = echo
        /\ UNCHANGED <<seen, sentOwn, out, job>>
    BY <1>1 DEF Take
  <2>2. EchoIsDuplicate'
    BY <2>1 DEF EchoIsDuplicate
  <2>3. parse'.content \notin Beacons /\ parse'.echo => Duplicate(parse.content)'
    BY <1>1, <2>1 DEF Duplicate
  <2> QED
    BY <1>1, <2>1, <2>2, <2>3, EchoKept
<1>2. CASE \E c \in Foreign : Hear(c)
  <2> PICK c \in Foreign : \E path : Take(c, path, FALSE)
    BY <1>2 DEF Hear
  <2>1. PICK path : Take(c, path, FALSE)
    OBVIOUS
  <2> QED
    BY <1>1, <2>1 DEF Foreign
<1>3. CASE HearEcho
  <2> PICK f \in out : \E path : Take(f.content, path, TRUE)
    BY <1>3 DEF HearEcho
  <2>1. PICK path : Take(f.content, path, TRUE)
    OBVIOUS
  <2>2. f.content \in Contents /\ f.age \in 0..EchoDelay
    BY <2>1 DEF TypeOK
  <2>3. f.content \notin Beacons => Duplicate(f.content)
    <3>1. f.content \notin Beacons => Marked(f.content, f.age + MaxHold)
      BY <2>1 DEF EchoInv, EchoesMarked
    <3> QED
      BY <2>2, <3>1, Numbers DEF Marked, Duplicate, TooFresh
  <2> QED
    BY <1>1, <2>1, <2>2, <2>3
<1>4. CASE ParseCancel
  <2>1. parse'.step = "mark" /\ parse'.content = parse.content /\ parse'.echo = parse.echo
        /\ parse.step = "cancel" /\ UNCHANGED <<seen, sentOwn, out, job>>
    BY <1>4, ParseStepType DEF ParseCancel, JobType
  <2>2. EchoIsDuplicate'
    BY <2>1 DEF EchoIsDuplicate
  <2>3. parse'.content \notin Beacons /\ parse'.echo => Duplicate(parse.content)'
    BY <2>1 DEF Duplicate, EchoInv, EchoesMarked
  <2>4. parse'.content \in Own => parse'.echo
    BY <2>1 DEF EchoInv, SendersApart
  <2> QED
    BY <2>1, <2>2, <2>3, <2>4, EchoKept
<1>5. CASE ParseMark
  <2>1. parse.content \in Contents /\ parse.step = "mark" /\ CheckAndMark(parse.content)
        /\ UNCHANGED <<out, sentOwn, job>>
    BY <1>5 DEF ParseMark, TypeOK
  <2>2. parse.content \in Own => Duplicate(parse.content)
    BY <2>1, RFPathAssumption DEF EchoInv, SendersApart, EchoesMarked
  <2>3. \/ parse'.step = "idle"
        \/ /\ parse'.content = parse.content /\ parse'.echo = parse.echo
           /\ parse'.step = "decide" /\ ~Duplicate(parse.content)
    <3>1. CASE Duplicate(parse.content)
      BY <1>5, <3>1, ParsedType DEF ParseMark
    <3>2. CASE ~Duplicate(parse.content)
      <4>1. parse' = [parse EXCEPT !.step = "decide"] /\ IsParse(parse)
        BY <1>5, <3>2 DEF ParseMark, JobType
      <4> QED
        BY <2>1, <3>2, <4>1, ParseStepType
    <3> QED
      BY <3>1, <3>2
  <2>4. ~Duplicate(parse.content) => (parse.echo => parse.content \in Beacons)
    BY <2>1 DEF EchoInv, EchoesMarked
  <2> QED
    BY <2>1, <2>2, <2>3, <2>4, EchoMark
<1>6. CASE ParseDrop \/ ParseIgnore \/ ParseHold
  <2>1. parse'.step = "idle" /\ UNCHANGED <<seen, sentOwn, out, job>>
    BY <1>6, ParsedType DEF ParseDrop, ParseIgnore, ParseHold
  <2>2. EchoIsDuplicate'
    BY <2>1 DEF EchoIsDuplicate
  <2> QED
    BY <2>1, <2>2, EchoKept
<1>7. CASE ParseDigipeat
  <2>1. parse.step = "decide" /\ parse'.step = "dispatch" /\ parse'.content = parse.content
        /\ parse'.echo = parse.echo /\ UNCHANGED <<seen, sentOwn, out>>
    BY <1>7, ParseStepType DEF ParseDigipeat, JobType
  <2>2. \A d \in Dispatchers : job'[d] = job[d] \/ (job'[d].digi /\ job'[d].step = "mark")
    BY <1>7 DEF ParseDigipeat, JobType
  <2>3. EchoIsDuplicate'
    BY <2>1 DEF EchoIsDuplicate, EchoInv, EchoesMarked
  <2>4. parse'.content \in Own => parse'.echo
    BY <2>1 DEF EchoInv, SendersApart
  <2> QED
    BY <2>1, <2>2, <2>3, <2>4, EchoKept
<1>8. ASSUME NEW d \in Dispatchers, DispatchMark(d) PROVE EchoInv'
  <2>1. PICK c : c = job[d].content
    OBVIOUS
  <2>2. /\ c \in Contents /\ job[d].step = "mark" /\ CheckAndMark(c)
        /\ UNCHANGED <<out, sentOwn, parse>>
        /\ job' = [job EXCEPT ![d] = [job[d] EXCEPT !.step = "tx"]]
    BY <1>8, <2>1 DEF DispatchMark, TypeOK
  <2>3. /\ job'[d].step = "tx" /\ job'[d].content = job[d].content /\ job'[d].digi = job[d].digi
        /\ \A e \in Dispatchers \ {d} : job'[e] = job[e]
    BY <2>2, JobStepType DEF JobType
  <2>4. job[d].digi => Duplicate(c) /\ Marked(c, MaxHold)
    <3>1. job[d].digi => accepted[c] <= MaxHold
      BY <2>1, <2>2 DEF DigiInv, DigiOf, InTime, JobHas
    <3> QED
      BY <2>2, <3>1, Numbers DEF AcceptInv, Duplicate, TooFresh, Marked
  <2>5. ~job[d].digi => ~Duplicate(c) /\ c \in Own /\ sentOwn[c] = 0
    BY <2>1, <2>2 DEF EchoInv, SendersApart, Sending
  <2>6. Marked(c, MaxHold)'
    <3>1. CASE job[d].digi
      BY <2>2, <2>4, <3>1, MarkedKept, Numbers
    <3>2. CASE ~job[d].digi
      BY <2>2, <2>5, <3>2, MarkFacts, Numbers DEF Marked
    <3> QED
      BY <3>1, <3>2
  <2>7. ~job[d].digi => \A e \in Dispatchers :
                          ~(Sending(e)' /\ job'[e].step = "mark" /\ job[e].content = c)
    <3>1. ASSUME ~job[d].digi, NEW e \in Dispatchers, Sending(e)', job'[e].step = "mark",
                 job[e].content = c
          PROVE  FALSE
      <4>1. e # d /\ Sending(e) /\ Sending(d)
        BY <2>2, <2>3, <3>1 DEF Sending
      <4> QED
        BY <2>1, <2>5, <3>1, <4>1 DEF EchoInv, SendersApart
    <3> QED
      BY <3>1
  <2>8. \A e \in Dispatchers :
          /\ job'[e].content = job[e].content /\ job'[e].digi = job[e].digi
          /\ job[e].step = "none" <=> job'[e].step = "none"
          /\ job'[e].step = "mark" => job[e].step = "mark"
          /\ \/ job'[e].step = "tx" => job[e].step = "tx"
             \/ job[e].content \notin Beacons => Marked(job[e].content, MaxHold)'
    <3>1. Marked(job[d].content, MaxHold)'
      BY <2>1, <2>3, <2>6 DEF Marked
    <3> QED
      BY <2>2, <2>3, <3>1
  <2> QED
    BY <2>2, <2>4, <2>5, <2>7, <2>8, EchoMark
<1>9. ASSUME NEW d \in Dispatchers, DispatchTX(d) PROVE EchoInv'
  <2>1. PICK c : c = job[d].content
    OBVIOUS
  <2>2. /\ c \in Contents /\ job[d].step = "tx" /\ UNCHANGED <<seen, sentOwn>>
        /\ job' = [job EXCEPT ![d] = NoJob] /\ parse' \in {parse, Parsed}
    BY <1>9, <2>1 DEF DispatchTX, Finish, TypeOK
  <2>3. \A e \in Dispatchers : job'[e] = job[e] \/ job'[e].step = "none"
    BY <2>2, NoJobType DEF JobType
  <2>4. c \notin Beacons => Marked(c, MaxHold)
    BY <2>1, <2>2 DEF EchoInv, EchoesMarked
  <2>5. SendersApart'
    <3>1. \A e \in Dispatchers : Sending(e)' => Sending(e) /\ job'[e] = job[e]
      BY <2>3 DEF Sending
    <3>2. parse'.step # "idle" => parse' = parse
      BY <2>2, ParsedType
    <3> QED
      BY <2>2, <3>1, <3>2 DEF EchoInv, SendersApart, Duplicate
  <2>6. EchoesMarked'
    <3>1. ASSUME NEW f \in out', f.content \notin Beacons PROVE Marked(f.content, f.age + MaxHold)'
      <4>1. f \in out \/ (f.content = c /\ f.age = 0)
        BY <1>9, <2>1, <3>1 DEF DispatchTX
      <4>2. Marked(f.content, f.age + MaxHold)
        BY <2>4, <3>1, <4>1, Numbers DEF EchoInv, EchoesMarked
      <4> QED
        BY <2>2, <4>2 DEF Marked
    <3>2. parse'.step # "idle" => parse' = parse
      BY <2>2, ParsedType
    <3>3. EchoIsDuplicate'
      BY <3>2 DEF EchoInv, EchoesMarked, EchoIsDuplicate
    <3>4. ASSUME NEW e \in Dispatchers, job'[e].step = "tx" PROVE job'[e] = job[e]
      BY <2>3, <3>4
    <3>5. parse'.step \in {"cancel", "mark"} /\ parse'.echo /\ parse'.content \notin Beacons =>
            Duplicate(parse.content)'
      BY <2>2, <3>2 DEF EchoInv, EchoesMarked, Duplicate
    <3> QED
      BY <2>2, <3>1, <3>3, <3>4, <3>5 DEF EchoInv, EchoesMarked, Marked
  <2> QED
    BY <2>5, <2>6 DEF EchoInv
<1>10. ASSUME UNCHANGED <<seen, sentOwn, out, parse>>,
              \A d \in Dispatchers : job'[d] = job[d] \/ (job'[d].digi /\ job'[d].step = "mark")
       PROVE  EchoInv'
  <2>1. EchoIsDuplicate'
    BY <1>10 DEF EchoInv, EchoesMarked, EchoIsDuplicate
  <2>2. parse'.step \in {"cancel", "mark"} /\ parse'.echo /\ parse'.content \notin Beacons =>
           Duplicate(parse.content)'
    BY <1>10 DEF EchoInv, EchoesMarked, Duplicate
  <2>3. parse'.step # "idle" /\ parse'.content \in Own => parse'.echo
    BY <1>10 DEF EchoInv, SendersApart
  <2> QED
    BY <1>10, <2>1, <2>2, <2>3, EchoKept
<1>11. ASSUME NEW t \in Timers, Timer(t) PROVE EchoInv'
  <2>1. UNCHANGED <<seen, sentOwn, out, parse>>
    BY <1>11 DEF Timer, Expire, Callback
  <2>2. \A d \in Dispatchers : job'[d] = job[d] \/ (job'[d].digi /\ job'[d].step = "mark")
    <3>1. CASE UNCHANGED job
      BY <3>1
    <3>2. CASE ~UNCHANGED job
      <4>1. job' = [job EXCEPT ![t] = [step |-> "mark", content |-> hold[t].content,
                                       path |-> hold[t].path, digi |-> TRUE]]
        BY <1>11, <3>2 DEF Timer, Expire, Callback
      <4> QED
        BY <4>1 DEF JobType
    <3> QED
      BY <3>1, <3>2
  <2> QED
    BY <1>10, <2>1, <2>2
<1>12. ASSUME NEW h \in Senders, NEW c \in Contents, NEW first, Originate(h, c, first),
              (c \in Own /\ first = "mark") \/ (c \in Beacons /\ first = "tx")
       PROVE  EchoInv'
  <2>1. /\ job[h] = NoJob /\ sentOwn[c] = Window /\ UNCHANGED <<seen, out, parse>>
        /\ job'[h] = [step |-> first, content |-> c, path |-> SentPath[c], digi |-> FALSE]
        /\ \A d \in Dispatchers \ {h} : job'[d] = job[d]
        /\ sentOwn'[c] = 0 /\ \A k \in Contents \ {c} : sentOwn'[k] = sentOwn[k]
    BY <1>12 DEF Originate, JobType, TypeOK
  <2>2. c \in Own => c \notin Beacons /\ ~Duplicate(c)
    BY <2>1, Numbers, RFPathAssumption DEF EchoInv, SendersApart, Duplicate, TooFresh
  <2>3. \A d \in Dispatchers \ {h} : Sending(d) /\ c \in Own => job[d].content # c
    BY <2>1, Numbers DEF EchoInv, SendersApart
  <2>4. SendersApart'
    <3>1. ASSUME NEW d \in Dispatchers, Sending(d)'
          PROVE  /\ job'[d].content \in Own \cup Beacons
                 /\ job'[d].step = "mark" => job'[d].content \in Own /\ ~Duplicate(job[d].content)'
                 /\ job'[d].content \in Own =>
                      /\ sentOwn'[job'[d].content] = 0
                      /\ \A e \in Dispatchers : Sending(e)' /\ job'[e].content = job'[d].content => e = d
      <4>1. CASE d = h
        <5>1. job'[d].content = c /\ job'[d].step = first
          BY <2>1, <4>1
        <5>2. \A e \in Dispatchers : Sending(e)' /\ job'[e].content = c /\ c \in Own => e = d
          BY <2>1, <2>3, <4>1 DEF Sending
        <5> QED
          BY <1>12, <2>1, <2>2, <5>1, <5>2 DEF Duplicate
      <4>2. CASE d # h
        <5>1. job'[d] = job[d] /\ Sending(d)
          BY <2>1, <3>1, <4>2 DEF Sending
        <5>2. job[d].content \in Own => job[d].content # c /\ job[d].content \in Contents
          BY <1>12, <2>3, <4>2, <5>1, RFPathAssumption
        <5>3. \A e \in Dispatchers : Sending(e)' /\ job'[e].content = job[d].content
                                     /\ job[d].content \in Own => e = d
          <6>1. ASSUME NEW e \in Dispatchers, Sending(e)', job'[e].content = job[d].content,
                       job[d].content \in Own
                PROVE  e = d
            <7>1. e # h
              BY <2>1, <5>2, <6>1
            <7>2. Sending(e) /\ job[e].content = job[d].content
              BY <2>1, <6>1, <7>1 DEF Sending
            <7> QED
              BY <5>1, <6>1, <7>2 DEF EchoInv, SendersApart
          <6> QED
            BY <6>1
        <5> QED
          BY <2>1, <5>1, <5>2, <5>3 DEF EchoInv, SendersApart, Duplicate
      <4> QED
        BY <4>1, <4>2
    <3>2. ASSUME NEW k \in Own, k \in DOMAIN seen' PROVE sentOwn'[k] <= seen'[k]
      <4>1. k \in Contents /\ seen[k] \in Nat /\ seen' = seen
        BY <2>1, <3>2, Numbers, RFPathAssumption
      <4> QED
        BY <2>1, <3>2, <4>1 DEF EchoInv, SendersApart
    <3> QED
      BY <2>1, <3>1, <3>2 DEF EchoInv, SendersApart
  <2>5. EchoesMarked'
    <3>1. ASSUME NEW d \in Dispatchers, job'[d].step = "tx", job'[d].content \notin Beacons
          PROVE  job'[d] = job[d]
      BY <1>12, <2>1, <3>1
    <3>2. EchoIsDuplicate'
      BY <2>1 DEF EchoInv, EchoesMarked, EchoIsDuplicate
    <3> QED
      BY <2>1, <3>1, <3>2 DEF EchoInv, EchoesMarked, Marked, Duplicate
  <2> QED
    BY <2>4, <2>5 DEF EchoInv
<1>13. CASE Stop
  BY <1>10, <1>13 DEF Stop
<1>14. CASE Tick
  <2>1. UNCHANGED <<parse, job>> /\ parse.step = "idle"
        /\ \A d \in Dispatchers : job[d].step = "none"
    BY <1>14, ParsedType, NoJobType DEF Tick, Busy
  <2>2. DOMAIN seen' = DOMAIN seen /\ \A c \in DOMAIN seen : seen'[c] = Capped(seen[c], Window + 1)
    BY <1>14 DEF Tick
  <2>3. ASSUME NEW c \in Own, c \in DOMAIN seen' PROVE sentOwn'[c] <= seen'[c]
    <3>1. c \in Contents /\ c \in DOMAIN seen /\ sentOwn[c] <= seen[c]
      BY <2>2, <2>3, RFPathAssumption DEF EchoInv, SendersApart
    <3>2. sentOwn'[c] = Capped(sentOwn[c], Window) /\ seen'[c] = Capped(seen[c], Window + 1)
      BY <1>14, <2>2, <3>1 DEF Tick
    <3>3. seen[c] <= Window + 1
      BY <3>1, Numbers DEF TypeOK
    <3> QED
      BY <3>1, <3>2, <3>3, Numbers DEF Capped
  <2>4. ASSUME NEW f \in out', f.content \notin Beacons PROVE Marked(f.content, f.age + MaxHold)'
    <3>1. PICK g \in out : g.age < EchoDelay /\ f = [g EXCEPT !.age = @ + 1]
      BY <1>14, <2>4 DEF Tick
    <3>2. g \in [content : Contents, path : {g.path}, age : 0..EchoDelay]
      BY DEF TypeOK
    <3>3. f.content = g.content /\ f.age = g.age + 1 /\ g.age \in Nat
      BY <3>1, <3>2, Numbers
    <3>4. Marked(g.content, g.age + MaxHold)
      BY <2>4, <3>3 DEF EchoInv, EchoesMarked
    <3>5. seen'[f.content] = seen[f.content] + 1
      BY <2>2, <3>1, <3>3, <3>4, Numbers DEF Marked, Capped
    <3> QED
      BY <2>2, <3>3, <3>4, <3>5, Numbers DEF Marked
  <2>5. SendersApart'
    BY <2>1, <2>3 DEF SendersApart, Sending
  <2>6. EchoesMarked'
    BY <2>1, <2>4 DEF EchoesMarked, EchoIsDuplicate
  <2> QED
    BY <2>5, <2>6 DEF EchoInv
<1>15. CASE UNCHANGED vars
  BY <1>10, <1>15 DEF vars
<1> QED
  BY <1>2, <1>3, <1>4, <1>5, <1>6, <1>7, <1>8, <1>9, <1>11, <1>12, <1>13, <1>14, <1>15,
     RFPathAssumption
  DEF Next, ParseStep, Dispatch, Send, Beacon, SendFirst

\* Two digipeats of a content are a window apart, less the longest hold, whichever of
\* parseLoop and the timers' callbacks makes them; and no echo of what the station sent
\* is taken as new, a digipeat's included, whose mark dates from its reception.
THEOREM MarksAreSoundHolds == Spec => []MarksAreSound
<1>1. ASSUME Init PROVE HoldInv /\ AcceptInv /\ DigiInv /\ EchoInv
  <2>1. DOMAIN entries = {} /\ DOMAIN seen = {}
    BY <1>1 DEF Init
  <2>2. HoldInv
    BY <1>1, <2>1, FreeType, Goroutines
    DEF Init, HoldInv, HoldsAreArmed, Silent, OneWork, QuietAfterStop
  <2>3. AcceptInv
    BY <1>1, RFPathAssumption DEF Init, AcceptInv
  <2>4. DigiInv
    BY <1>1, <2>1, NoJobType, ParsedType, RFPathAssumption
    DEF Init, DigiInv, DigiOf, OnePlace, InTime, LastApart, Pending, ParserHas, JobHas, Held
  <2>5. EchoInv
    BY <1>1, <2>1, NoJobType, ParsedType
    DEF Init, EchoInv, SendersApart, EchoesMarked, EchoIsDuplicate, Sending
  <2> QED
    BY <2>2, <2>3, <2>4, <2>5
<1>2. ASSUME TypeOK, DigiInv, EchoInv PROVE MarksAreSound
  <2>1. DigisApart
    <3>1. ASSUME NEW d \in Dispatchers, job[d].digi
          PROVE  /\ digied[job[d].content] >= Window - MaxHold
                 /\ \A e \in Dispatchers \ {d} : ~(job[e].digi /\ job[e].content = job[d].content)
      <4>1. job[d].content \in Contents
        BY <1>2, <3>1, NoJobType DEF TypeOK
      <4>2. DigiOf(job[d].content) /\ JobHas(d, job[d].content)
        BY <1>2, <3>1, <4>1 DEF DigiInv, JobHas
      <4>3. Window <= digied[job[d].content] + MaxHold
        BY <4>2 DEF DigiOf, LastApart, Pending
      <4> QED
        BY <1>2, <4>1, <4>2, <4>3, Numbers DEF DigiOf, OnePlace, JobHas
    <3> QED
      BY <3>1 DEF DigisApart
  <2> QED
    BY <1>2, <2>1 DEF EchoInv, EchoesMarked, MarksAreSound
<1> QED
  BY <1>1, <1>2, TypeCorrect, HoldNext, AcceptNext, DigiNext, EchoNext, PTL DEF Spec
=============================================================================
