------------------------------- MODULE RFPath -------------------------------
(***************************************************************************)
(* The radio side of one station: parseLoop with the duplicate cache, the  *)
(* viscous table with its timers, and everything that hands frames to the  *)
(* TNC (the digipeater, timer callbacks, the station's own senders).  The  *)
(* gate's decisions are those of module Gate.                              *)
(*                                                                         *)
(* The cache and the table have a mutex each, held for one step here; the  *)
(* steps of parseLoop, callbacks, senders and Stop interleave.             *)
(*                                                                         *)
(* Time passes in ticks, and goroutines are prompt: a tick waits for the   *)
(* steps that are ready to run.  Times are kept as ages, cut off where no  *)
(* comparison tells them apart.                                            *)
(***************************************************************************)
EXTENDS Gate, FiniteSets

CONSTANTS
  Contents,  \* source, destination and text of a frame: the key of both tables
  Own,       \* contents this station sends by txRF: messages, acks, answers
  Beacons,   \* contents this station sends as beacons, past txRF
  Source,    \* source callsign of each content
  SentPath,  \* path each content is sent with
  Me,        \* the station's callsign
  Roles,     \* settings the operator may choose
  Neighbour, NeighbourRole,  \* another digipeater within earshot
  Timers,    \* timers of viscous entries; bounds how many there are at once
  Senders,   \* goroutines that send the station's own frames
  Parser,    \* the parseLoop goroutine
  Window,    \* the cache's window, in ticks
  MinHold, MaxHold,  \* viscousMinHold, viscousMaxHold
  EchoDelay, \* longest time from the TNC queue taking a frame to its echo
  GcTrigger  \* cache size up to which no garbage is collected

ASSUME RFPathAssumption ==
  /\ Own \subseteq Contents /\ Beacons \subseteq Contents \ Own
  /\ Window \in Nat /\ MinHold \in Nat \ {0} /\ MaxHold \in Nat
  /\ EchoDelay \in Nat /\ GcTrigger \in Nat
  /\ MinHold <= MaxHold /\ MaxHold + EchoDelay < Window
  /\ Timers \cap Senders = {} /\ Parser \notin Timers \cup Senders

VARIABLES
  seen,     \* dupeTable.seen: content -> age of its mark
  lastGC,   \* dupeTable.lastGCSize
  entries,  \* viscousQueue.entries: content -> timer
  hold,     \* the timers, each with the packet its callback would send
  closed,   \* viscousQueue.closed
  parse,    \* the frame parseLoop works on
  job,      \* per goroutine: the frame it is handing to the TNC
  out,      \* frames the TNC has taken and whose echo may still come
  accepted, \* history: ticks since a frame of the content was taken as new
  digied,   \* history: ticks since the content was digipeated
  silenced, \* history: timers whose entry was cancelled since they were set
  sentOwn   \* ticks since the station sent each content of its own

vars == <<seen, lastGC, entries, hold, closed, parse, job, out,
          accepted, digied, silenced, sentOwn>>

Dispatchers == Timers \cup Senders \cup {Parser}
Foreign == Contents \ (Own \cup Beacons)

Packet(c, path) ==
  [src |-> Source[c], kind |-> "other", to |-> None, wraps |-> 0, path |-> path]

Free   == [state |-> "free", content |-> None, path |-> << >>, left |-> 0]
NoJob  == [step |-> "none", content |-> None, path |-> << >>, digi |-> FALSE]
Parsed == [step |-> "idle", content |-> None, path |-> << >>, cfg |-> None, echo |-> FALSE]

Drop(f, c) == [k \in DOMAIN f \ {c} |-> f[k]]
Capped(n, max) == IF n < max THEN n + 1 ELSE max

-----------------------------------------------------------------------------
(* dupeTable                                                               *)

TooFreshLess(age) == age < Window - 1
TooFresh(age)     == age < Window

Duplicate(c) == c \in DOMAIN seen /\ TooFresh(seen[c])

Garbage(age) == age > Window

\* The marking half of CheckAndMark, with its occasional collection.
Record(c) ==
  LET marked == [k \in DOMAIN seen \cup {c} |-> IF k = c THEN 0 ELSE seen[k]]
      kept   == {k \in DOMAIN marked : k = c \/ ~Garbage(marked[k])}
      size   == Cardinality(DOMAIN marked)
  IN  IF size > 2 * lastGC /\ size > GcTrigger
      THEN /\ seen' = [k \in kept |-> marked[k]]
           /\ lastGC' = Cardinality(kept)
      ELSE seen' = marked /\ UNCHANGED lastGC

CheckAndMark(c) == IF Duplicate(c) THEN UNCHANGED <<seen, lastGC>> ELSE Record(c)

-----------------------------------------------------------------------------
(* viscousQueue                                                            *)

Held(c) == c \in DOMAIN entries

\* Stop the timer; one that runs already cannot be stopped.
StopTimers(T) ==
  /\ hold' = [t \in Timers |-> IF t \in T /\ hold[t].state = "armed" THEN Free
                            ELSE hold[t]]
  /\ silenced' = silenced \cup T

CancelKeepingEntry(c) ==
  IF Held(c) THEN UNCHANGED entries /\ StopTimers({entries[c]})
  ELSE UNCHANGED <<entries, hold, silenced>>

CancelIfQueued(c) ==
  IF Held(c) THEN entries' = Drop(entries, c) /\ StopTimers({entries[c]})
  ELSE UNCHANGED <<entries, hold, silenced>>

Refused(c) == closed \/ Held(c)

\* enqueue.
Hold(c, path) ==
  IF Refused(c) THEN UNCHANGED <<entries, hold, silenced>>
  ELSE \E t \in Timers, n \in MinHold..MaxHold :
         /\ hold[t] = Free /\ job[t] = NoJob
         /\ hold' = [hold EXCEPT ![t] =
                       [state |-> "armed", content |-> c, path |-> path, left |-> n]]
         /\ entries' = [k \in DOMAIN entries \cup {c} |-> IF k = c THEN t ELSE entries[k]]
         /\ silenced' = silenced \ {t}

\* The runtime starts the callback.
Expire(t) ==
  /\ hold[t].state = "armed" /\ hold[t].left = 0
  /\ hold' = [hold EXCEPT ![t].state = "running"]
  /\ UNCHANGED <<seen, lastGC, entries, closed, parse, job, out,
                 accepted, digied, silenced, sentOwn>>

StillHeldAny(t) == TRUE
StillHeld(t)    == Held(hold[t].content) /\ entries[hold[t].content] = t

\* The callback takes its entry out of the table, and sends only if it was
\* still there.
Callback(t) ==
  /\ hold[t].state = "running"
  /\ IF StillHeld(t)
     THEN /\ entries' = Drop(entries, hold[t].content)
          /\ job' = [job EXCEPT ![t] = [step |-> "mark", content |-> hold[t].content,
                                        path |-> hold[t].path, digi |-> TRUE]]
     ELSE UNCHANGED <<entries, job>>
  /\ hold' = [hold EXCEPT ![t] = Free]
  /\ UNCHANGED <<seen, lastGC, closed, parse, out,
                 accepted, digied, silenced, sentOwn>>

\* Shutdown.
Stop ==
  /\ ~closed
  /\ closed' = TRUE
  /\ StopTimers({entries[c] : c \in DOMAIN entries})
  /\ entries' = << >>
  /\ UNCHANGED <<seen, lastGC, parse, job, out, accepted, digied, sentOwn>>

-----------------------------------------------------------------------------
(* Frames to the TNC: dispatchSendRF, txRF, and the beacon's direct call.  *)

\* The mark comes before the transmission; one that is in force stays as it
\* is.
DispatchMark(d) ==
  /\ job[d].step = "mark"
  /\ CheckAndMark(job[d].content)
  /\ job' = [job EXCEPT ![d].step = "tx"]
  /\ UNCHANGED <<entries, hold, closed, parse, out,
                 accepted, digied, silenced, sentOwn>>

Finish(d) == parse' = IF d = Parser THEN Parsed ELSE parse

\* rf.TX refuses when transmission is off or its queue is full.
DispatchTX(d) ==
  /\ job[d].step = "tx"
  /\ \/ /\ out' = out \cup {[content |-> job[d].content, path |-> job[d].path, age |-> 0]}
        /\ digied' = IF job[d].digi THEN [digied EXCEPT ![job[d].content] = 0] ELSE digied
     \/ UNCHANGED <<out, digied>>
  /\ job' = [job EXCEPT ![d] = NoJob]
  /\ Finish(d)
  /\ UNCHANGED <<seen, lastGC, entries, hold, closed, accepted, silenced, sentOwn>>

SendUnmarked == "tx"
SendFirst    == "mark"

Originate(h, c, first) ==
  /\ job[h] = NoJob
  /\ sentOwn[c] = Window
  /\ job' = [job EXCEPT ![h] = [step |-> first, content |-> c, path |-> SentPath[c],
                                digi |-> FALSE]]
  /\ sentOwn' = [sentOwn EXCEPT ![c] = 0]
  /\ UNCHANGED <<seen, lastGC, entries, hold, closed, parse, out, accepted, digied, silenced>>

\* A message, ack or answer, by any handler or worker.  The same content is
\* sent again a window later at the earliest: retransmissions are 30 seconds
\* apart, and a repeated message is acked again once the cache lets it pass.
Send(h, c) == Originate(h, c, SendFirst)

\* A beacon goes to rf.TX unmarked.
Beacon(h, c) == Originate(h, c, "tx")

-----------------------------------------------------------------------------
(* parseLoop, for frames from the radio                                    *)

\* With the settings of that moment; the operator may change them at any time.
Take(c, path, echo) ==
  /\ parse = Parsed
  /\ \E r \in Roles :
       parse' = [step |-> "cancel", content |-> c, path |-> path, cfg |-> r, echo |-> echo]
  /\ UNCHANGED <<seen, lastGC, entries, hold, closed, job, out,
                 accepted, digied, silenced, sentOwn>>

\* A copy repeated by the neighbour, if it repeats it.
Repeated(c, path) ==
  {p.path : p \in {[Packet(c, path) EXCEPT !.path = q]
                     : q \in Digipeat(Packet(c, path), Neighbour, NeighbourRole)}}

\* Somebody else's frame, from its sender or from the neighbour.
Hear(c) == \E path \in {SentPath[c]} \cup Repeated(c, SentPath[c]) : Take(c, path, FALSE)

\* What the neighbour makes of a frame of ours.
HearEcho ==
  \E f \in out : \E path \in Repeated(f.content, f.path) : Take(f.content, path, TRUE)

\* The table comes before the cache, so that a copy the cache would drop
\* still cancels.
ParseCancel ==
  /\ parse.step = "cancel"
  /\ CancelIfQueued(parse.content)
  /\ parse' = [parse EXCEPT !.step = "mark"]
  /\ UNCHANGED <<seen, lastGC, closed, job, out, accepted, digied, sentOwn>>

ParseMark ==
  /\ parse.step = "mark"
  /\ CheckAndMark(parse.content)
  /\ IF Duplicate(parse.content) THEN parse' = Parsed /\ UNCHANGED accepted
     ELSE /\ parse' = [parse EXCEPT !.step = "decide"]
          /\ accepted' = [accepted EXCEPT ![parse.content] = 0]
  /\ UNCHANGED <<entries, hold, closed, job, out, digied, silenced, sentOwn>>

\* Too far away, or too many from its source.
ParseDrop ==
  /\ parse.step = "decide"
  /\ parse' = Parsed
  /\ UNCHANGED <<seen, lastGC, entries, hold, closed, job, out,
                 accepted, digied, silenced, sentOwn>>

Decided == Digipeat(Packet(parse.content, parse.path), Me, parse.cfg)
Delayed == IsViscous(Packet(parse.content, parse.path), Me, parse.cfg)

ParseIgnore ==
  /\ parse.step = "decide"
  /\ Decided = {}
  /\ parse' = Parsed
  /\ UNCHANGED <<seen, lastGC, entries, hold, closed, job, out,
                 accepted, digied, silenced, sentOwn>>

ParseHold ==
  /\ parse.step = "decide"
  /\ \E path \in Decided : Delayed /\ Hold(parse.content, path)
  /\ parse' = Parsed
  /\ UNCHANGED <<seen, lastGC, closed, job, out, accepted, digied, sentOwn>>

ParseDigipeat ==
  /\ parse.step = "decide"
  /\ \E path \in Decided :
       /\ ~Delayed
       /\ job' = [job EXCEPT ![Parser] = [step |-> "mark", content |-> parse.content,
                                          path |-> path, digi |-> TRUE]]
  /\ parse' = [parse EXCEPT !.step = "dispatch"]
  /\ UNCHANGED <<seen, lastGC, entries, hold, closed, out,
                 accepted, digied, silenced, sentOwn>>

-----------------------------------------------------------------------------
Busy ==
  \/ parse # Parsed
  \/ \E d \in Dispatchers : job[d] # NoJob
  \/ \E t \in Timers : hold[t].state = "running" \/ (hold[t].state = "armed" /\ hold[t].left = 0)

Tick ==
  /\ ~Busy
  /\ seen' = [c \in DOMAIN seen |-> Capped(seen[c], Window + 1)]
  /\ hold' = [t \in Timers |->
                IF hold[t].state = "armed" THEN [hold[t] EXCEPT !.left = @ - 1] ELSE hold[t]]
  /\ out' = {[f EXCEPT !.age = @ + 1] : f \in {g \in out : g.age < EchoDelay}}
  /\ accepted' = [c \in Contents |-> Capped(accepted[c], Window)]
  /\ digied' = [c \in Contents |-> Capped(digied[c], Window)]
  /\ sentOwn' = [c \in Contents |-> Capped(sentOwn[c], Window)]
  /\ UNCHANGED <<lastGC, entries, closed, parse, job, silenced>>

Init ==
  /\ seen = << >> /\ lastGC = 0
  /\ entries = << >>
  /\ hold = [t \in Timers |-> Free]
  /\ closed = FALSE
  /\ parse = Parsed
  /\ job = [d \in Dispatchers |-> NoJob]
  /\ out = {}
  /\ accepted = [c \in Contents |-> Window]
  /\ digied = [c \in Contents |-> Window]
  /\ silenced = {}
  /\ sentOwn = [c \in Contents |-> Window]

ParseStep == ParseCancel \/ ParseMark \/ ParseDrop \/ ParseIgnore \/ ParseHold \/ ParseDigipeat
Dispatch(d) == DispatchMark(d) \/ DispatchTX(d)
Timer(t) == Expire(t) \/ Callback(t)

Next ==
  \/ \E c \in Foreign : Hear(c)
  \/ HearEcho
  \/ ParseStep
  \/ \E d \in Dispatchers : Dispatch(d)
  \/ \E t \in Timers : Timer(t)
  \/ \E h \in Senders : (\E c \in Own : Send(h, c)) \/ (\E c \in Beacons : Beacon(h, c))
  \/ Stop
  \/ Tick

Spec == Init /\ [][Next]_vars

\* Started work goes on, and time passes however much is heard.
Fairness ==
  /\ WF_vars(ParseStep)
  /\ \A d \in Dispatchers : WF_vars(Dispatch(d))
  /\ \A t \in Timers : WF_vars(Timer(t))
  /\ SF_vars(Tick)

FairSpec == Spec /\ Fairness

-----------------------------------------------------------------------------
Ages == 0..Window

\* Types; no goroutine has a job without a content, and a frame is in dispatch exactly
\* while the parser has one.
TypeOK ==
  /\ DOMAIN seen \subseteq Contents /\ IsFiniteSet(DOMAIN seen)
  /\ \A c \in DOMAIN seen : seen[c] \in 0..Window + 1
  /\ lastGC \in Nat
  /\ DOMAIN entries \subseteq Contents
  /\ \A c \in DOMAIN entries : entries[c] \in Timers
  /\ DOMAIN hold = Timers
  /\ \A t \in Timers :
       hold[t] \in [state : {"free", "armed", "running"}, content : Contents \cup {None},
                    path : {hold[t].path}, left : 0..MaxHold]
  /\ closed \in BOOLEAN
  /\ parse \in [step : {"idle", "cancel", "mark", "decide", "dispatch"},
                content : Contents \cup {None}, path : {parse.path}, cfg : {parse.cfg},
                echo : BOOLEAN]
  /\ parse.step # "idle" => parse.content \in Contents
  /\ DOMAIN job = Dispatchers
  /\ \A d \in Dispatchers :
       /\ job[d] \in [step : {"none", "mark", "tx"}, content : Contents \cup {None},
                      path : {job[d].path}, digi : BOOLEAN]
       /\ IF job[d].step = "none" THEN job[d] = NoJob ELSE job[d].content \in Contents
  /\ parse.step = "dispatch" <=> job[Parser] # NoJob
  /\ \A f \in out : f \in [content : Contents, path : {f.path}, age : 0..EchoDelay]
  /\ accepted \in [Contents -> Ages]
  /\ digied \in [Contents -> Ages]
  /\ silenced \subseteq Timers
  /\ sentOwn \in [Contents -> Ages]

HoldsAreArmed ==
  /\ \A c \in DOMAIN entries :
       LET t == entries[c] IN hold[t].state # "free" /\ hold[t].content = c
  /\ \A t \in Timers :
       hold[t].state = "armed" => Held(hold[t].content) /\ entries[hold[t].content] = t

CancelledStaysSilent == \A t \in silenced : job[t] = NoJob

QuietAfterStop == closed => DOMAIN entries = {}

\* Held contents and waiting timers are one to one, through cancels, expiries
\* and Stop in any order: no timer is lost with its entry left behind, which
\* would refuse the content for ever, and none is left armed without one.  A
\* hold that a copy from elsewhere has cancelled sends nothing, also when its
\* callback was running at that moment; after Stop nothing is held, whatever
\* parseLoop had decided before.
HoldsAreSound == HoldsAreArmed /\ CancelledStaysSilent /\ QuietAfterStop

\* No content is taken as new twice within the window, whatever was marked,
\* refreshed or collected in between.
NoSecondAcceptance ==
  [][\A c \in Contents : accepted[c] < Window => accepted'[c] # 0 \/ accepted[c] = 0]_vars

DigisApart ==
  \A d \in Dispatchers : job[d].digi =>
    /\ digied[job[d].content] >= Window - MaxHold
    /\ \A e \in Dispatchers \ {d} : ~(job[e].digi /\ job[e].content = job[d].content)

EchoIsDuplicate ==
  parse.echo /\ parse.content \notin Beacons => parse.step \in {"idle", "cancel", "mark"}

\* The duplicate cache does what its two users need.  Two digipeats of one
\* content are apart by the window less the longest hold, whichever of
\* parseLoop and the callbacks makes them; and an echo of a frame that this
\* station sent (but for beacons) is never taken as new, though the mark of a
\* digipeated frame dates from its reception and is not refreshed when the
\* frame is sent at last.
MarksAreSound == DigisApart /\ EchoIsDuplicate

\* Every hold ends: sent, or cancelled.
HoldEnds == \A c \in Contents : Held(c) ~> ~Held(c)
=============================================================================
