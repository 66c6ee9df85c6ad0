------------------------------ MODULE Webhook -------------------------------
(***************************************************************************)
(* The delivery of packets to outside HTTP endpoints (package webhook):    *)
(* the parse loop publishes the packets worth showing on a topic, Run      *)
(* takes them, matches each against the configured webhooks and puts a job *)
(* for each match on a bounded channel, and a pool of workers delivers the *)
(* jobs with a few attempts each.  Nothing here may hold up the loop:      *)
(* a full channel drops.                                                   *)
(*                                                                         *)
(* Events are counted per webhook name, as the status line does: what was  *)
(* matched is delivered, recorded as failed, still under way, or lost to a *)
(* shutdown.                                                               *)
(***************************************************************************)
EXTENDS Naturals, Sequences, FiniteSets

CONSTANTS
  Traffic,      \* packets the parse loop handles: [origin, type, src, to, text]
  Configs,      \* the lists of webhooks the operator may save
  Us,           \* our callsign
  Local,        \* stations heard on RF lately
  RunBuffer,    \* packets the topic keeps for Run (64)
  QueueDepth,   \* jobs waiting for a worker (256)
  PoolSize,     \* workers of one Run (4)
  MaxAttempts,  \* deliveries tried for one job (3)
  MaxPackets,   \* bound: packets handled
  MaxSaves,     \* bound: saves of the webhook settings
  MaxPanics     \* bound: panics of Run

Hooks == UNION {{config[i] : i \in DOMAIN config} : config \in Configs}

ASSUME WebhookAssumption ==
  /\ {RunBuffer, QueueDepth, PoolSize, MaxAttempts} \subseteq Nat \ {0}
  /\ {MaxPackets, MaxSaves, MaxPanics} \subseteq Nat
  /\ Configs # {} /\ Configs \subseteq Seq(Hooks)

VARIABLES
  hooks,        \* the saved webhooks
  feed,          \* packets on their way to Run
  hand,         \* the webhooks that Run has still to try, with the packet
  jobs,         \* the channel
  worker,       \* what each worker does
  sent, failed, \* the status of each webhook name
  run,          \* "on", "stopping" when the context is cancelled, "returned"
  handled, saves, panics,  \* what the bounds count
  matched,      \* history: events matched for each name
  lost          \* history: events a shutdown took

bounds == <<handled, saves, panics>>
webhookVars == <<hooks, feed, hand, jobs, worker, sent, failed, run, bounds, matched, lost>>

Workers == (0..MaxPanics) \X (1..PoolSize)  \* w[1] is the Run it works for
Names == {wh.name : wh \in Hooks}
Jobs == [name : Names, pkt : Traffic]

Off == [is |-> "off"]
Idle == [is |-> "idle"]
Trying(job, attempt) == [is |-> "trying", job |-> job, attempt |-> attempt]
Waiting(job, attempt) == [is |-> "waiting", job |-> job, attempt |-> attempt]
Busy(w) == worker[w].is \in {"trying", "waiting"}

Zero == [n \in Names |-> 0]

WebhookInit ==
  /\ hooks \in Configs
  /\ feed = <<>> /\ hand = <<>> /\ jobs = <<>>
  /\ worker = [w \in Workers |-> IF w[1] = 0 THEN Idle ELSE Off]
  /\ sent = Zero /\ failed = Zero /\ matched = Zero /\ lost = Zero
  /\ run = "on" /\ handled = 0 /\ saves = 0 /\ panics = 0

-----------------------------------------------------------------------------
(* Matching.                                                               *)

\* An allow-list entry is the set of callsigns it covers: one, or all with a prefix.
CallsignMatches(list, call) == \E entry \in list : call \in entry

SourceMatches(wh, p) ==
  IF p.origin = "tx" THEN wh.includeTX ELSE wh.source \in {"both", p.origin}

\* A filter on text or addressee admits only messages.
TextMatches(wh, p) == wh.text = {} \/ (p.type = "message" /\ p.text \in wh.text)

Match(wh, p) ==
  /\ SourceMatches(wh, p)
  /\ wh.types # {} => p.type \in wh.types
  /\ wh.callsigns # {} => CallsignMatches(wh.callsigns, p.src)
  /\ wh.toCallsigns # {} => CallsignMatches(wh.toCallsigns, p.to)
  /\ TextMatches(wh, p)

-----------------------------------------------------------------------------
(* The parse loop and the operator.                                        *)

\* Of the server's stream, only messages to us or to a station on our channel.
Shown(p) == p.origin = "is" => p.type = "message" /\ p.to \in Local \cup {Us}

PublishToRun(p) ==
  /\ handled < MaxPackets
  /\ handled' = handled + 1
  /\ Shown(p) /\ run # "returned" /\ Len(feed) < RunBuffer
  /\ feed' = Append(feed, p)
  /\ UNCHANGED <<hooks, hand, jobs, worker, sent, failed, run, saves, panics, matched, lost>>

SaveWebhooks(config) ==
  /\ saves < MaxSaves /\ config # hooks
  /\ saves' = saves + 1
  /\ hooks' = config
  /\ UNCHANGED <<feed, hand, jobs, worker, sent, failed, run, handled, panics, matched, lost>>

-----------------------------------------------------------------------------
(* Run.                                                                    *)

\* A select with both ready takes either: packets are dispatched while stopping too.  The
\* settings are those of the moment, for all the webhooks.
Dispatch ==
  /\ run \in {"on", "stopping"} /\ hand = <<>> /\ feed # <<>>
  /\ feed' = Tail(feed)
  /\ hand' = [i \in DOMAIN hooks |-> [hook |-> hooks[i], pkt |-> Head(feed)]]
  /\ UNCHANGED <<hooks, jobs, worker, sent, failed, run, bounds, matched, lost>>

DropSilently(job) ==
  IF Len(jobs) < QueueDepth
  THEN jobs' = Append(jobs, job) /\ UNCHANGED failed
  ELSE UNCHANGED <<jobs, failed>>

\* A full channel costs the newest event, which counts as a failure.
EnqueueOrDrop(job) ==
  IF Len(jobs) < QueueDepth
  THEN jobs' = Append(jobs, job) /\ UNCHANGED failed
  ELSE failed' = [failed EXCEPT ![job.name] = @ + 1] /\ UNCHANGED jobs

\* One round of dispatch's loop.
TryWebhook ==
  LET wh == Head(hand).hook  pkt == Head(hand).pkt IN
  /\ hand # <<>>
  /\ hand' = Tail(hand)
  /\ IF wh.enabled /\ Match(wh, pkt)
     THEN /\ matched' = [matched EXCEPT ![wh.name] = @ + 1]
          /\ EnqueueOrDrop([name |-> wh.name, pkt |-> pkt])
     ELSE UNCHANGED <<matched, jobs, failed>>
  /\ UNCHANGED <<hooks, feed, worker, sent, run, bounds, lost>>

\* A panic of Run is recovered by the supervisor, which calls Run again, with a new
\* subscription and a new pool, unless the context is cancelled.  The old pool works on.
Panic ==
  /\ hand # <<>> /\ panics < MaxPanics
  /\ panics' = panics + 1
  /\ hand' = <<>> /\ feed' = <<>>
  /\ run' = IF run = "on" THEN "on" ELSE "returned"
  /\ worker' = [w \in Workers |->
                 IF run = "on" /\ w[1] = panics' THEN Idle ELSE worker[w]]
  /\ UNCHANGED <<hooks, jobs, sent, failed, handled, saves, matched, lost>>

Stop ==
  /\ run = "on"
  /\ run' = "stopping"
  /\ UNCHANGED <<hooks, feed, hand, jobs, worker, sent, failed, bounds, matched, lost>>

\* Run waits for its own pool.
Return ==
  /\ run = "stopping" /\ hand = <<>>
  /\ \A w \in Workers : w[1] = panics => worker[w] = Off
  /\ run' = "returned" /\ feed' = <<>>
  /\ UNCHANGED <<hooks, hand, jobs, worker, sent, failed, bounds, matched, lost>>

Named(s, n) == Cardinality({i \in DOMAIN s : s[i].name = n})

\* What is on the channel when the last worker has left is never delivered.
Abandon ==
  /\ run = "returned" /\ jobs # <<>> /\ \A w \in Workers : worker[w] = Off
  /\ lost' = [n \in Names |-> lost[n] + Named(jobs, n)]
  /\ jobs' = <<>>
  /\ UNCHANGED <<hooks, feed, hand, worker, sent, failed, run, bounds, matched>>

-----------------------------------------------------------------------------
(* The workers.                                                            *)

Take(w) ==
  /\ worker[w] = Idle /\ jobs # <<>>
  /\ worker' = [worker EXCEPT ![w] = Trying(Head(jobs), 1)]
  /\ jobs' = Tail(jobs)
  /\ UNCHANGED <<hooks, feed, hand, sent, failed, run, bounds, matched, lost>>

Delivered(w) ==
  /\ worker[w].is = "trying"
  /\ sent' = [sent EXCEPT ![worker[w].job.name] = @ + 1]
  /\ worker' = [worker EXCEPT ![w] = Idle]
  /\ UNCHANGED <<hooks, feed, hand, jobs, failed, run, bounds, matched, lost>>

RetryForever(w) ==
  LET job == worker[w].job  attempt == worker[w].attempt IN
  /\ worker[w].is = "trying"
  /\ worker' = [worker EXCEPT ![w] = Waiting(job, IF attempt < MaxAttempts THEN attempt ELSE 0)]
  /\ UNCHANGED <<hooks, feed, hand, jobs, sent, failed, run, bounds, matched, lost>>

\* An answer other than 2xx, a transport error, or ten seconds without either.
Refused(w) ==
  LET job == worker[w].job  attempt == worker[w].attempt IN
  /\ worker[w].is = "trying"
  /\ IF attempt < MaxAttempts
     THEN worker' = [worker EXCEPT ![w] = Waiting(job, attempt)] /\ UNCHANGED failed
     ELSE /\ worker' = [worker EXCEPT ![w] = Idle]
          /\ failed' = [failed EXCEPT ![job.name] = @ + 1]
  /\ UNCHANGED <<hooks, feed, hand, jobs, sent, run, bounds, matched, lost>>

TryAgain(w) ==
  /\ worker[w].is = "waiting"
  /\ worker' = [worker EXCEPT ![w] = Trying(@.job, @.attempt + 1)]
  /\ UNCHANGED <<hooks, feed, hand, jobs, sent, failed, run, bounds, matched, lost>>

\* The wait between attempts ends at once at a shutdown, and no record is made.
GiveUp(w) ==
  /\ run # "on" /\ worker[w].is = "waiting"
  /\ worker' = [worker EXCEPT ![w] = Idle]
  /\ lost' = [lost EXCEPT ![worker[w].job.name] = @ + 1]
  /\ UNCHANGED <<hooks, feed, hand, jobs, sent, failed, run, bounds, matched>>

Exit(w) ==
  /\ run # "on" /\ worker[w] = Idle
  /\ worker' = [worker EXCEPT ![w] = Off]
  /\ UNCHANGED <<hooks, feed, hand, jobs, sent, failed, run, bounds, matched, lost>>

WebhookNext ==
  \/ \E p \in Traffic : PublishToRun(p)
  \/ \E config \in Configs : SaveWebhooks(config)
  \/ Dispatch \/ TryWebhook \/ Panic \/ Stop \/ Return \/ Abandon
  \/ \E w \in Workers :
       Take(w) \/ Delivered(w) \/ Refused(w) \/ TryAgain(w) \/ GiveUp(w) \/ Exit(w)

WebhookSpec == WebhookInit /\ [][WebhookNext]_webhookVars

\* Go runs every goroutine that can run; the client's timeout ends every attempt and a
\* timer every wait.  A publication, a save, a panic and the shutdown need not happen.
WebhookFairness ==
  /\ WF_webhookVars(Dispatch) /\ WF_webhookVars(TryWebhook)
  /\ WF_webhookVars(Return) /\ WF_webhookVars(Abandon)
  /\ \A w \in Workers :
       /\ WF_webhookVars(Take(w)) /\ WF_webhookVars(Delivered(w) \/ Refused(w))
       /\ WF_webhookVars(TryAgain(w) \/ GiveUp(w)) /\ WF_webhookVars(Exit(w))

FairWebhookSpec == WebhookSpec /\ WebhookFairness
-----------------------------------------------------------------------------
(* Properties.                                                             *)

WorkerStates ==
  {Off, Idle} \cup [is : {"trying", "waiting"}, job : Jobs, attempt : 1..MaxAttempts]

WebhookTypeOK ==
  /\ hooks \in Configs /\ feed \in Seq(Traffic) /\ Len(feed) <= RunBuffer
  /\ hand \in Seq([hook : Hooks, pkt : Traffic])
  /\ jobs \in Seq(Jobs) /\ Len(jobs) <= QueueDepth
  /\ worker \in [Workers -> WorkerStates]
  /\ \A w \in Workers : worker[w].is = "waiting" => worker[w].attempt < MaxAttempts
  /\ {sent, failed, matched, lost} \subseteq [Names -> Nat]
  /\ run \in {"on", "stopping", "returned"}
  /\ handled \in 0..MaxPackets /\ saves \in 0..MaxSaves /\ panics \in 0..MaxPanics

AtWork(n) == {w \in Workers : Busy(w) /\ worker[w].job.name = n}
UnderWay(n) == Named(jobs, n) + Cardinality(AtWork(n))

\* The status line tells the truth: every event that matched a webhook is delivered,
\* recorded as failed, under way, or was lost to a shutdown, and is exactly one of these,
\* whichever worker of whichever pool had it and whatever the operator saved meanwhile
\* (webhook.go:139-226, 278-303).
EventsAccounted ==
  \A n \in Names : matched[n] = sent[n] + failed[n] + UnderWay(n) + lost[n]

\* However slow or dead the endpoints, no event stays under way for ever; a shutdown
\* with jobs waiting ends too, which the closing of the database waits for.
EventsSettle == \A n \in Names : UnderWay(n) > 0 ~> UnderWay(n) = 0
=============================================================================
