-------------------------------- MODULE Gate --------------------------------
(***************************************************************************)
(* The decisions of package gate: whether a packet heard on the radio is   *)
(* digipeated or gated to the internet, and whether a packet from the      *)
(* internet is put on the air.  Pure operators, for the modules that let   *)
(* packets meet stations.                                                  *)
(*                                                                         *)
(* A hop of a path is a token with its used mark; a flood token WIDEn-N or *)
(* SSn-N carries the width n it was sent with and the N hops left, any     *)
(* other token has zeros there.  Comparison ignores case in the code, so a *)
(* token is an atom here; aliases are taken to be free of common prefixes. *)
(*                                                                         *)
(* A decision is the set of its results: empty to refuse, else one.  The   *)
(* station is its callsign "me" and its settings "cfg".                    *)
(***************************************************************************)
EXTENDS Naturals, Sequences

CONSTANTS
  Wide,         \* the token WIDE
  OptOut,       \* tokens that keep a packet off the internet: NOGATE, RFONLY
  FromIS,       \* tokens of packets that came from it: TCPIP, TCPXX, q-constructs
  Bulletins,    \* recipients that begin with BLN
  WxSources,    \* callsigns of weather services
  MaxPathHops,  \* maxPathHops
  MaxWideHops,  \* maxWIDEHops
  None          \* no recipient

ASSUME GateAssumption ==
  /\ MaxPathHops \in Nat
  /\ MaxWideHops \in Nat

Hop(t, n, left) == [token |-> t, n |-> n, left |-> left, used |-> FALSE]
UsedBy(call)    == [token |-> call, n |-> 0, left |-> 0, used |-> TRUE]

MarkOver(hop)  == [hop EXCEPT !.used = TRUE]
CountDown(hop) == [hop EXCEPT !.left = @ - 1]

Least(S) == CHOOSE i \in S : \A j \in S : i <= j

FreeHops(path)    == {i \in DOMAIN path : ~path[i].used}
Mentions(path, c) == {i \in DOMAIN path : path[i].token = c}

-----------------------------------------------------------------------------
(* digipeatAction                                                          *)

\* WIDE1-1 for the fill-in role, WIDE2-1 and WIDE2-2 for the full role.
WideServed(hop, cfg) ==
  /\ hop.token = Wide
  /\ \/ hop.n = 1 /\ hop.left = 1 /\ cfg.wide1
     \/ hop.n = 2 /\ hop.left \in 1..MaxWideHops /\ cfg.wide2

\* A regional alias is served in the full role only, at any accepted width.
AliasServed(hop, cfg) ==
  /\ hop.token \in cfg.aliases
  /\ cfg.wide2
  /\ hop.n \in 1..MaxWideHops
  /\ hop.left \in 1..MaxWideHops

\* The last hop of a flood token becomes our used mark; an earlier one is
\* counted down behind it.
ConsumeHopKept(path, i, me) ==
  [j \in 1..Len(path) + 1 |->
     IF j < i THEN path[j]
     ELSE IF j = i THEN UsedBy(me)
     ELSE path[j - 1]]

ConsumeHop(path, i, me) ==
  IF path[i].left <= 1
  THEN [path EXCEPT ![i] = UsedBy(me)]
  ELSE [j \in 1..Len(path) + 1 |->
          IF j < i THEN path[j]
          ELSE IF j = i THEN UsedBy(me)
          ELSE IF j = i + 1 THEN CountDown(path[i])
          ELSE path[j - 1]]

\* MARK mode: every hop before ours counts as used.
BuildPreemptPath(path, i, me) ==
  [j \in DOMAIN path |->
     IF j < i THEN MarkOver(path[j])
     ELSE IF j = i THEN UsedBy(me)
     ELSE path[j]]

Fitting(path) == IF Len(path) <= MaxPathHops THEN {path} ELSE {}

PreemptPathAgain(path, me, cfg) ==
  LET i == Least(Mentions(path, me))
  IN  IF ~cfg.preempt THEN {} ELSE Fitting(BuildPreemptPath(path, i, me))

PreemptPath(path, me, cfg) ==
  LET i == Least(Mentions(path, me))
  IN  IF path[i].used \/ ~cfg.preempt THEN {}
      ELSE Fitting(BuildPreemptPath(path, i, me))

FloodPath(path, me, cfg) ==
  LET i == Least(FreeHops(path))
  IN  IF FreeHops(path) # {} /\ (WideServed(path[i], cfg) \/ AliasServed(path[i], cfg))
      THEN Fitting(ConsumeHop(path, i, me)) ELSE {}

\* The paths with which a station sends a packet on: none or one.
Digipeat(pkt, me, cfg) ==
  IF ~cfg.tx \/ ~(cfg.wide1 \/ cfg.wide2 \/ cfg.preempt) \/ pkt.src = me THEN {}
  ELSE IF Mentions(pkt.path, me) # {} THEN PreemptPath(pkt.path, me, cfg)
  ELSE FloodPath(pkt.path, me, cfg)

\* The fill-in politeness delay goes by the width alone.
IsViscous(pkt, me, cfg) ==
  /\ cfg.viscous
  /\ Mentions(pkt.path, me) = {}
  /\ pkt.path[Least(FreeHops(pkt.path))].n = 1

-----------------------------------------------------------------------------
(* rfToISAction                                                            *)

\* Bodies the parser takes for a message to someone; a declaration of
\* telemetry that does not parse is one of them.
Messages == {"message", "misdeclared"}

GateableFree(path) == \A i \in FreeHops(path) : path[i].token \notin OptOut \cup FromIS
Gateable(path)     == \A i \in DOMAIN path : path[i].token \notin OptOut \cup FromIS

\* A packet that carries another ("}" in front) came from the internet.
WrappedNever(pkt) == FALSE
Wrapped(pkt)      == pkt.wraps > 0

ToIS(pkt, me, cfg) ==
  /\ cfg.rfToIS
  /\ pkt.src # me
  /\ cfg.msgOnly => pkt.kind \in Messages
  /\ Gateable(pkt.path)
  /\ pkt.kind \notin {"empty", "query"}
  /\ ~Wrapped(pkt)

-----------------------------------------------------------------------------
(* decideFromIS                                                            *)

FromISAllowed(pkt, me, cfg) ==
  /\ cfg.isToRF /\ cfg.tx
  /\ pkt.src # me
  /\ ~Wrapped(pkt)

\* Consume: the correspondent is on the list until its first position.
IsCourtesy(pkt, tracked) == pkt.kind = "position" /\ pkt.src \in tracked

\* The recipient of a message must be a station, not us, not the sender,
\* and within reach, unless a weather service speaks.
IsRelayed(pkt, me, heard) ==
  /\ pkt.kind = "message"
  /\ pkt.to \notin {None, me, pkt.src}
  /\ pkt.src \in WxSources \/ (pkt.to \notin Bulletins /\ pkt.to \in heard)

\* The third-party packet a gateway puts on the air.
ThirdParty(pkt, me, path) ==
  [pkt EXCEPT !.src = me, !.wraps = @ + 1, !.path = path]
=============================================================================
