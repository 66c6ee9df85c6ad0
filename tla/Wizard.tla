------------------------------- MODULE Wizard -------------------------------
(***************************************************************************)
(* The setup wizard and the settings form, used from several browser tabs  *)
(* that share a session: a draft of the configuration per session, filled  *)
(* in step by step and committed as a whole at the last step, while        *)
(* another tab may post an old page, switch to another wizard, pair a      *)
(* radio, or save the settings form.                                       *)
(*                                                                         *)
(* A request is two steps where the code finds its draft under s.wmu and   *)
(* works on it under d.mu later.  wizardRouter works on it with no lock.   *)
(* What the forms hold is reduced to what the properties tell apart: that  *)
(* a callsign and a place are given, the mode, whether there is a radio,   *)
(* whose preset the flags are, and the beacon list.                        *)
(***************************************************************************)
EXTENDS Naturals, Sequences, FiniteSets, FiniteSetsExt

CONSTANTS
  Tabs,      \* browser tabs of the session
  Flavors,   \* the wizards used, among DOMAIN Steps
  Modes,     \* the operating modes used, among Presets and "advanced"
  SetUp,     \* starts: TRUE for a station set up, FALSE for a new one
  Arrays,    \* addresses of beacon lists
  Objs,      \* addresses of drafts
  MaxSaves,  \* bound: saves of the settings form
  MaxCommits,\* bound: commits after which no step is posted
  Strays     \* bound: a draft is followed after a step was posted out of turn

Presets == {"rx-only", "tx-igate", "fill-in", "digi", "messaging", "offline", "is"}
NoObj   == 0
NoList  == 0
FirstList == 1  \* where the list of a station set up is

\* wizardSteps
Steps ==
  [f \in {"first-run", "tnc", "location", "mode"} |->
     CASE f = "first-run" -> <<"identity", "location", "mode", "tnc", "advanced-flags",
                               "beacon", "done">>
       [] f = "tnc"       -> <<"tnc", "done">>
       [] f = "location"  -> <<"location", "done">>
       [] f = "mode"      -> <<"mode", "advanced-flags", "done">>]

ASSUME WizardAssumption ==
  /\ Modes \subseteq Presets \cup {"advanced"}
  /\ SetUp \subseteq BOOLEAN /\ {MaxSaves, MaxCommits} \subseteq Nat /\ Strays \in BOOLEAN
  /\ Arrays \subseteq Nat \ {NoList} /\ Objs \subseteq Nat \ {NoObj}
  /\ IsFiniteSet(Arrays) /\ Cardinality(Arrays) > 3 /\ FirstList \in Arrays  \* never used up
  /\ "first-run" \in Flavors /\ Flavors \subseteq DOMAIN Steps /\ "none" \notin Tabs

VARIABLES
  cfg,      \* the configuration in force
  lists,    \* the beacon lists in memory: whether the position beacon is enabled
  drafts,   \* the drafts in memory
  mine,     \* the session's entry of Server.wdrafts
  page,     \* the page each tab shows
  req,      \* the request that has found its draft: whose, which, and dropped at the time
  job,      \* the session's pairing job
  saves,    \* settings forms committed
  dropped,  \* the latest of them whose handler has dropped the drafts
  late,     \* history: a draft was committed that a request found before the drop
  enabled,  \* history: the position beacon was on in the last update
  room      \* commits left before the bound

wizardVars == <<cfg, lists, drafts, mine, page, req, job, saves, dropped, late, enabled, room>>

\* A configuration: flags is the preset the flags are those of, or "own"; prefs the
\* settings save it goes back to; skewed, history, that a step was posted out of turn.
Conf == [mode : Presets \cup {"", "advanced"}, flags : Presets \cup {"", "own"},
         tnc : BOOLEAN, id : BOOLEAN, loc : BOOLEAN,
         beacons : Arrays \cup {NoList}, prefs : Nat, complete : BOOLEAN, skewed : BOOLEAN]
Draft == [flavor : Flavors, idx : Nat, idle : BOOLEAN, conf : Conf]
Pages == {"none", "settings", "pairing", "confirm"} \cup {"identity", "location", "mode", "tnc",
          "advanced-flags", "beacon", "done"}

NoReq == [by |-> "none", d |-> NoObj, since |-> 0]

WizardTypeOK ==
  /\ cfg \in Conf /\ lists \in [Arrays -> BOOLEAN]
  /\ DOMAIN drafts \subseteq Objs /\ \A o \in DOMAIN drafts : drafts[o] \in Draft
  /\ mine \in Objs \cup {NoObj} /\ page \in [Tabs -> Pages]
  /\ req \in [by : Tabs \cup {"none"}, d : Objs \cup {NoObj}, since : Nat]
  /\ job \in {"none", "running", "ok"}
  /\ saves \in 0..MaxSaves /\ dropped \in 0..saves /\ room \in 0..MaxCommits
  /\ late \in BOOLEAN /\ enabled \in BOOLEAN

Blank ==
  [mode |-> "", flags |-> "", tnc |-> FALSE, id |-> FALSE, loc |-> FALSE,
   beacons |-> NoList, prefs |-> 0, complete |-> FALSE, skewed |-> FALSE]
Working ==
  [mode |-> "tx-igate", flags |-> "tx-igate", tnc |-> TRUE, id |-> TRUE, loc |-> TRUE,
   beacons |-> FirstList, prefs |-> 0, complete |-> TRUE, skewed |-> FALSE]

WizardInit ==
  /\ cfg \in {IF s THEN Working ELSE Blank : s \in SetUp}
  /\ lists = [a \in Arrays |-> a = cfg.beacons]
  /\ drafts = << >> /\ mine = NoObj
  /\ page = [t \in Tabs |-> "none"] /\ req = NoReq
  /\ job = "none" /\ saves = 0 /\ dropped = 0 /\ late = FALSE /\ enabled = cfg.complete
  /\ room = MaxCommits

-----------------------------------------------------------------------------
(* Steps                                                                   *)

Skip(step, m) ==
  \/ step = "tnc" /\ m = "is"
  \/ step = "beacon" /\ m = "rx-only"
  \/ step = "advanced-flags" /\ m # "advanced"

\* The visible steps of flavor f in mode m, by position.
Visible(f, m) == {i \in DOMAIN Steps[f] : ~Skip(Steps[f][i], m)}
Last(f)       == Len(Steps[f])

\* Forward past hidden steps, possibly past the end; back to a visible one or the first.
After(f, m, i)  == Min({j \in Visible(f, m) : j > i} \cup {Last(f) + 1})
Before(f, m, i) == Max({j \in Visible(f, m) : j < i} \cup {1})
\* renderStep: the position, clamped, moved forward to a visible step.
Shown(f, m, i)  == Min({j \in Visible(f, m) : j >= Min({i, Last(f)})})

HasVisibleWork(f, m) == Visible(f, m) # {Last(f)}

-----------------------------------------------------------------------------
(* Drafts                                                                  *)

Live == mine # NoObj

\* The addresses no one refers to: the least of them is allocated next.
FreeObjs  == Objs \ ({mine, req.d})
FreeLists == Arrays \ ({cfg.beacons} \cup {drafts[o].conf.beacons : o \in DOMAIN drafts})
NewList   == Min(FreeLists)

\* What an address no one refers to holds does not matter: it is kept at FALSE.
Tidy(ls, c, ds) ==
  [a \in Arrays |-> ls[a] /\ a \in {c.beacons} \cup {ds[o].conf.beacons : o \in DOMAIN ds}]

\* The drafts still referred to when the session's is m and the request's is d.
Reachable(ds, m, d) ==
  [o \in DOMAIN ds \cap {m, d} |-> ds[o]]

Release(m, d) ==
  /\ drafts' = Reachable(drafts, m, d)
  /\ lists' = Tidy(lists, cfg, drafts')

\* A beacon list is fixed at its address: a snapshot of the configuration shares it.
Opened(f) == [flavor |-> f, idx |-> 1, idle |-> FALSE, conf |-> cfg]

With(o, d) == [p \in DOMAIN drafts \cup {o} |-> IF p = o THEN d ELSE drafts[p]]

\* What wizardRouter makes of the session's draft: recycled for another wizard, or
\* walked again when it was finished more than ten seconds ago.
Routed(f, d) ==
  LET own == IF d.flavor = f THEN d ELSE [d EXCEPT !.flavor = f, !.idx = 1, !.conf = cfg]
  IN  IF own.idx = Last(f) /\ own.idle THEN Opened(f) ELSE own

\* wizardRouter with renderStep, at flavor f.
Visit(t, f) ==
  /\ req.by # t /\ (Live \/ FreeObjs # {})
  /\ LET o == IF Live THEN mine ELSE Min(FreeObjs)
         d == IF Live THEN Routed(f, drafts[mine]) ELSE Opened(f)
         i == Shown(f, d.conf.mode, d.idx)
     IN  /\ mine' = o
         /\ IF HasVisibleWork(f, d.conf.mode)
            THEN /\ drafts' = Reachable(With(o, [d EXCEPT !.idx = i]), o, req.d)
                 /\ page' = [page EXCEPT ![t] = Steps[f][i]]
            ELSE /\ drafts' = Reachable(With(o, d), o, req.d)
                 /\ page' = [page EXCEPT ![t] = "settings"]
  /\ lists' = Tidy(lists, cfg, drafts')
  /\ UNCHANGED <<cfg, req, job, saves, dropped, late, enabled, room>>

\* wizardStart, where everything leads until the station is set up; later, links.
StartWizard(t) == Visit(t, IF Live THEN drafts[mine].flavor ELSE "first-run")
Link(t)        == cfg.complete /\ \E f \in Flavors : Visit(t, f)

\* wizardBack; with no draft the tab is sent to /setup.
Back(t) ==
  /\ req.by # t /\ Live
  /\ LET d == drafts[mine]
     IN  drafts' = [drafts EXCEPT ![mine] =
                      [d EXCEPT !.idx = IF @ > 1 THEN Before(d.flavor, d.conf.mode, @) ELSE @,
                                !.idle = FALSE]]
  /\ UNCHANGED <<cfg, lists, mine, page, req, job, saves, dropped, late, enabled, room>>

\* Ten seconds at the last step without a change: what wizardRouter tells apart.
Idle ==
  /\ Live /\ drafts[mine].idx = Last(drafts[mine].flavor)
  /\ drafts' = [drafts EXCEPT ![mine].idle = TRUE]
  /\ UNCHANGED <<cfg, lists, mine, page, req, job, saves, dropped, late, enabled, room>>

\* Thirty minutes without a change: draftFor ignores the draft, wdraftsJanitor removes it.
Expire ==
  /\ Live
  /\ mine' = NoObj
  /\ Release(NoObj, req.d)
  /\ UNCHANGED <<cfg, page, req, job, saves, dropped, late, enabled, room>>

-----------------------------------------------------------------------------
(* Posting a step                                                          *)

Formed == {"identity", "location", "mode", "tnc", "advanced-flags", "beacon", "confirm"}

\* wizardSave, handleTNCConfirm: find the draft.
Post(t) ==
  /\ page[t] \in Formed /\ req = NoReq /\ Live /\ room > 0
  /\ drafts[mine].conf.skewed => Strays
  /\ req' = [by |-> t, d |-> mine, since |-> dropped]
  /\ UNCHANGED <<cfg, lists, drafts, mine, page, job, saves, dropped, late, enabled, room>>

\* applyModeDefaults, for what is not a beacon.
ModeDefaults(c, m) ==
  [c EXCEPT !.mode = m,
            !.flags = IF m = "advanced" THEN @ ELSE m,
            !.tnc = m # "is" /\ @]

\* The drafts a valid form of step can make of conf c, but for the beacons.
Filled(c, step) ==
  CASE step = "identity"       -> {[c EXCEPT !.id = TRUE]}
    [] step = "location"       -> {[c EXCEPT !.loc = TRUE]}
    [] step = "tnc"            -> {c, [c EXCEPT !.tnc = TRUE]}
    [] step = "mode"           -> {ModeDefaults(c, m) : m \in Modes}
    [] step = "advanced-flags" -> {[c EXCEPT !.flags = "own"]}
    [] OTHER                   -> {c}

\* What the step does to the beacons of c: <<the list, whether it is enabled>>.  Turning
\* the beacons off, and the beacon step, write through the list; the other presets and
\* the beacon step add a position beacon to an empty one.
Beacons(c, step) ==
  CASE step = "mode" /\ c.mode = "rx-only" /\ c.beacons # NoList -> <<c.beacons, FALSE>>
    [] step = "mode" /\ c.mode \notin {"rx-only", "advanced"} /\ c.beacons = NoList
                                                   -> <<NewList, TRUE>>
    [] step = "beacon" -> <<IF c.beacons = NoList THEN NewList ELSE c.beacons, TRUE>>
    [] OTHER -> <<c.beacons, c.beacons # NoList /\ lists[c.beacons]>>

\* commitWizardDraft: every field of the model is among the 24 it copies.
Committed(c) == [c EXCEPT !.complete = TRUE]

RefuseNoReturn(t) ==
  /\ req.by = t /\ page[t] \in {"identity", "location", "tnc"}
  /\ req' = NoReq
  /\ drafts' = [drafts EXCEPT ![req.d].idx = After(drafts[req.d].flavor, cfg.mode, @)]
  /\ UNCHANGED <<cfg, lists, mine, page, job, saves, dropped, late, enabled, room>>

\* The form is refused: the step is shown again, or an error.
Refuse(t) ==
  /\ req.by = t /\ page[t] \in {"identity", "location", "tnc"}
  /\ req' = NoReq
  /\ Release(mine, NoObj)
  /\ UNCHANGED <<cfg, mine, page, job, saves, dropped, late, enabled, room>>

\* Whether the page posted is that of the step the draft is at, one its mode shows: a
\* wizard with nothing to show leaves its draft at a step that is hidden.
InTurn(d, p) ==
  /\ d.idx \in Visible(d.flavor, d.conf.mode)
  /\ Steps[d.flavor][d.idx] = IF p = "confirm" THEN "tnc" ELSE p

\* Under d.mu: the form, whatever step the draft is at; the next step; and the commit
\* when that is the last.  When state.json cannot be written the commit is in force
\* (StateStore) and the answer an error.
Take(t) ==
  LET d == drafts[req.d]
  IN  \E c \in Filled([d.conf EXCEPT !.skewed = @ \/ ~InTurn(d, page[t])], page[t]),
         saved \in BOOLEAN :
        LET after == Beacons(c, page[t])
            conf == [c EXCEPT !.beacons = after[1]]
            i == After(d.flavor, conf.mode, d.idx)
            done == i >= Last(d.flavor)
            next == [d EXCEPT !.conf = conf, !.idle = FALSE,
                              !.idx = IF done /\ saved THEN Last(d.flavor) ELSE i]
        IN  /\ req' = NoReq
            /\ drafts' = Reachable(With(req.d, next), mine, NoObj)
            /\ cfg' = IF done THEN Committed(conf) ELSE cfg
            /\ lists' = Tidy([x \in Arrays |-> IF x = after[1] THEN after[2] ELSE lists[x]],
                             cfg', drafts')
            /\ late' = (late \/ (done /\ req.since < saves))
            /\ enabled' = IF done THEN after[2] ELSE enabled
            /\ room' = IF done THEN room - 1 ELSE room
            /\ UNCHANGED <<mine, page, job, saves, dropped>>

\* wizardSave, and handleTNCConfirm after a pairing.
SaveStep(t) == req.by = t /\ page[t] # "confirm" /\ Take(t)
Confirm(t)  == req.by = t /\ page[t] = "confirm" /\ Take(t)

-----------------------------------------------------------------------------
(* Pairing a radio over Bluetooth                                          *)

\* startBTPair, from the tnc step: a new job replaces the one the session had.
StartPair(t) ==
  /\ req.by = t /\ page[t] = "tnc"
  /\ job' = "running"
  /\ req' = NoReq
  /\ Release(mine, NoObj)
  /\ page' = [page EXCEPT ![t] = "pairing"]
  /\ UNCHANGED <<cfg, mine, saves, dropped, late, enabled, room>>

\* runPair; of a failure nothing is left but the message.
PairEnds ==
  /\ job = "running"
  /\ job' \in {"ok", "none"}
  /\ UNCHANGED <<cfg, lists, drafts, mine, page, req, saves, dropped, late, enabled, room>>

\* handlePairStatus, polled by the pairing page: the radio goes into the draft the
\* session has by now, wherever that is.
Poll(t) ==
  /\ page[t] = "pairing" /\ req.by # t /\ job = "ok"
  /\ job' = "none"
  /\ page' = [page EXCEPT ![t] = "confirm"]
  /\ drafts' = IF Live THEN [drafts EXCEPT ![mine].conf.tnc = TRUE,
                         ![mine].conf.skewed = @ \/ ~InTurn(drafts[mine], "tnc")]
               ELSE drafts
  /\ UNCHANGED <<cfg, lists, mine, req, saves, dropped, late, enabled, room>>

-----------------------------------------------------------------------------
(* handleSettingsSave                                                      *)

OpenSettings(t) ==
  /\ cfg.complete /\ req.by # t
  /\ page' = [page EXCEPT ![t] = "settings"]
  /\ UNCHANGED <<cfg, lists, drafts, mine, req, job, saves, dropped, late, enabled, room>>

FlagsAnyway(c) == [c EXCEPT !.flags = "own"]
\* The flags are taken from the form in Advanced mode only.
FlagsOfForm(c) == IF c.mode = "advanced" THEN [c EXCEPT !.flags = "own"] ELSE c

\* The update: every field of the form, the beacons in a list of their own.
OfForm(c) == [FlagsOfForm(c) EXCEPT !.beacons = NewList, !.prefs = saves + 1]

\* A valid form; its page requires a callsign, without which the handler would clear it.
SaveSettings(t) ==
  /\ page[t] = "settings" /\ req.by # t /\ saves < MaxSaves
  /\ saves' = saves + 1
  /\ cfg' = OfForm(cfg)
  /\ lists' = Tidy([lists EXCEPT ![NewList] = TRUE], cfg', drafts)
  /\ enabled' = TRUE
  /\ page' = [page EXCEPT ![t] = "none"]
  /\ UNCHANGED <<drafts, mine, req, job, dropped, late, room>>

KeepDrafts ==
  /\ dropped < saves /\ dropped' = saves
  /\ UNCHANGED <<cfg, lists, drafts, mine, page, req, job, saves, late, enabled, room>>

\* Then every draft is dropped.
DropDrafts ==
  /\ dropped < saves /\ dropped' = saves
  /\ mine' = NoObj
  /\ Release(NoObj, req.d)
  /\ UNCHANGED <<cfg, page, req, job, saves, late, enabled, room>>

WizardNext ==
  \/ \E t \in Tabs :
       \/ StartWizard(t) \/ Link(t) \/ Back(t) \/ Post(t) \/ Refuse(t) \/ SaveStep(t)
       \/ Confirm(t) \/ StartPair(t) \/ Poll(t) \/ OpenSettings(t) \/ SaveSettings(t)
  \/ Idle \/ Expire \/ PairEnds \/ DropDrafts

WizardSpec == WizardInit /\ [][WizardNext]_wizardVars

-----------------------------------------------------------------------------
(* Properties                                                              *)

\* A wizard opened before a settings save does not undo it: its draft was dropped by
\* the save, and only a request that had found it before can still commit it
\* (handleSettingsSave drops the drafts after the update; wizardSave, handleTNCConfirm).
SettingsStand == cfg.prefs < dropped => late

\* A station that is not in Advanced mode has the flags of its mode, and an
\* internet-only one no radio, unless a step was taken out of turn: a page left open, a
\* second click, a pairing that ends when the draft has moved on (applyModeDefaults,
\* the Advanced-only guard of handleSettingsSave, shouldSkipStep, handlePairStatus).
LabelHonest ==
  cfg.mode \in Presets =>
    cfg.skewed \/ (cfg.flags = cfg.mode /\ (cfg.mode = "is" => ~cfg.tnc))

\* A station set up has a callsign, a place and a mode, with the same exception: no
\* order of back, refused forms, pairing and expiry gets past a step unanswered.
SetUpIsComplete == cfg.complete => (cfg.id /\ cfg.loc /\ cfg.mode # "") \/ cfg.skewed

\* What a draft holds has no effect until it is committed: "Holds a working copy of
\* state.State; only committed on the final step" (wizardDraft).
DraftIsPrivate == (cfg.beacons # NoList /\ lists[cfg.beacons]) = enabled
=============================================================================
