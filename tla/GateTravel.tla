----------------------------- MODULE GateTravel -----------------------------
(***************************************************************************)
(* One copy of a packet travelling through stations that all run package   *)
(* gate, on the radio and on the internet.  A station may hear the copy,   *)
(* decide with whatever settings its operator has chosen by then, and the  *)
(* packet it sends is the copy followed from there; or what it sends is    *)
(* lost (transmit queue full, socket down), or is followed by nobody, and  *)
(* the copy stays.  Following one copy at a time reaches every copy that   *)
(* a packet can give rise to.                                              *)
(*                                                                         *)
(* The duplicate cache is left out: what is checked here holds for copies  *)
(* that arrive after its window as well.                                   *)
(***************************************************************************)
EXTENDS Gate, FiniteSets

CONSTANTS
  Stations,  \* callsigns of the stations
  Roles,     \* settings a station may have
  Calls,     \* callsigns of senders and recipients, the stations' included
  Tokens,    \* tokens a path may hold
  Originals  \* packets as their senders emit them, each with its medium

HopSet == [token : Tokens, n : 0..7, left : 0..7, used : BOOLEAN]
Kinds  == Messages \cup {"position", "query", "empty", "other"}
Media  == {"rf", "is"}

\* A callsign is no flood token.
IsPath(path) ==
  /\ path \in Seq(HopSet)
  /\ Len(path) <= MaxPathHops
  /\ \A i \in DOMAIN path : path[i].token \in Stations => path[i].n = 0

IsPacket(p) ==
  /\ p \in [src : Calls, kind : Kinds, to : Calls \cup {None}, wraps : {0, 1},
            path : {p.path}]
  /\ IsPath(p.path)

ASSUME TravelAssumption ==
  /\ Stations \subseteq Calls
  /\ Stations \subseteq Tokens
  /\ Stations \cap ({Wide} \cup OptOut \cup FromIS) = {}
  /\ \A r \in Roles :
       /\ r.aliases \cap (Stations \cup OptOut \cup FromIS) = {}
       /\ IsPath(r.txPath)
  /\ Wide \notin OptOut \cup FromIS
  /\ \A o \in Originals : IsPacket(o.pkt) /\ o.medium \in Media

VARIABLES
  pkt,      \* the copy: source, kind, recipient, wrappings, path
  medium,   \* where it can be heard
  tracked,  \* MessagedRecipientTracker of each station: sources owed a position
  origin,   \* history: the original this copy comes from
  asked,    \* history: repeats requested when the packet was put on the radio
  repeats,  \* history: repeats since then
  by,       \* history: the stations that made them
  climbs,   \* history: how often the packet went from radio to internet
  owed      \* history: sources relayed to the radio with no position passed since

vars == <<pkt, medium, tracked, origin, asked, repeats, by, climbs, owed>>

\* Repeats a path still asks for: one per callsign, N per flood token.
Weight(hop) == IF hop.n = 0 THEN 1 ELSE hop.left

Requests(path) ==
  {h \in (DOMAIN path) \X (1..7) : ~path[h[1]].used /\ h[2] <= Weight(path[h[1]])}

Asked(path) == Cardinality(Requests(path))

\* A packet put on the air, by its sender or by a gateway.
OnAir(p) ==
  /\ pkt' = p
  /\ medium' = "rf"
  /\ asked' = Asked(p.path)
  /\ repeats' = 0
  /\ by' = {}

-----------------------------------------------------------------------------
\* Another packet, as the trackers remember earlier ones.  They matter to
\* packets from the internet only; Init has the others.
Originate(o) ==
  /\ o.medium = "is"
  /\ pkt' = o.pkt
  /\ medium' = o.medium
  /\ origin' = o
  /\ asked' = Asked(o.pkt.path)
  /\ repeats' = 0
  /\ by' = {}
  /\ climbs' = 0
  /\ UNCHANGED <<tracked, owed>>

Repeat(s, r) ==
  /\ medium = "rf"
  /\ \E path \in Digipeat(pkt, s, r) : pkt' = [pkt EXCEPT !.path = path]
  /\ repeats' = repeats + 1
  /\ by' = by \cup {s}
  /\ UNCHANGED <<medium, tracked, origin, asked, climbs, owed>>

Climb(s, r) ==
  /\ medium = "rf"
  /\ ToIS(pkt, s, r)
  /\ medium' = "is"
  /\ climbs' = climbs + 1
  /\ UNCHANGED <<pkt, tracked, origin, asked, repeats, by, owed>>

\* Sent, and followed from there; or not sent, or not followed.
Emit(p) ==
  \/ OnAir(p)
  \/ UNCHANGED <<pkt, medium, asked, repeats, by>>

\* Recorded when decided, whatever becomes of the transmission.
Relay(s, r) ==
  /\ medium = "is"
  /\ FromISAllowed(pkt, s, r)
  /\ IsRelayed(pkt, s, Calls)   \* any recipient may have been heard lately
  /\ Emit(ThirdParty(pkt, s, << >>))
  /\ tracked' = [tracked EXCEPT ![s] = @ \cup {pkt.src}]
  /\ owed' = [owed EXCEPT ![s] = @ \cup {pkt.src}]
  /\ UNCHANGED <<origin, climbs>>

ConsumeForgotten(s, c) == UNCHANGED tracked
Consume(s, c) == tracked' = [tracked EXCEPT ![s] = @ \ {c}]

Courtesy(s, r) ==
  /\ medium = "is"
  /\ FromISAllowed(pkt, s, r)
  /\ IsCourtesy(pkt, tracked[s])
  /\ Emit(ThirdParty(pkt, s, r.txPath))
  /\ Consume(s, pkt.src)
  /\ owed' = [owed EXCEPT ![s] = @ \ {pkt.src}]
  /\ UNCHANGED <<origin, climbs>>

\* An entry expires, or makes room at the cap.
Forget(s) ==
  /\ \E c \in tracked[s] : tracked' = [tracked EXCEPT ![s] = @ \ {c}]
  /\ UNCHANGED <<pkt, medium, origin, asked, repeats, by, climbs, owed>>

Hear(s, r) == Repeat(s, r) \/ Climb(s, r) \/ Relay(s, r) \/ Courtesy(s, r)

Init ==
  /\ origin \in Originals
  /\ pkt = origin.pkt
  /\ medium = origin.medium
  /\ asked = Asked(pkt.path)
  /\ repeats = 0
  /\ by = {}
  /\ climbs = 0
  /\ tracked = [s \in Stations |-> {}]
  /\ owed = [s \in Stations |-> {}]

Next ==
  \/ \E o \in Originals : Originate(o)
  \/ \E s \in Stations, r \in Roles : Hear(s, r)
  \/ \E s \in Stations : Forget(s)

Spec == Init /\ [][Next]_vars

-----------------------------------------------------------------------------
\* In particular a path never outgrows the AX.25 limit and a packet from the
\* internet is never wrapped twice.
TypeOK ==
  /\ IsPacket(pkt)
  /\ medium \in Media
  /\ origin \in Originals
  /\ asked \in Nat /\ repeats \in Nat /\ climbs \in Nat
  /\ by \in SUBSET Stations
  /\ tracked \in [Stations -> SUBSET Calls]
  /\ owed \in [Stations -> SUBSET Calls]

\* A copy has never been repeated more often than its path asked for when it
\* was put on the air, whichever roles the stations play, whatever they do to
\* the path (count down, replace, mark over) and in whichever order they hear.
WithinRequest == repeats + Asked(pkt.path) <= asked

\* No station repeats its own repeat, at any number of hops in between: the
\* mark it leaves survives whatever the stations after it do to the path.
NoStationTwice == repeats = Cardinality(by)

\* What came from the internet never returns to it, whichever gateway put it
\* on the air and whichever hears it there, so no packet runs in a circle.
NoReturnToIS ==
  climbs <= (IF origin.medium = "is" \/ origin.pkt.wraps > 0 THEN 0 ELSE 1)

\* A sender's wish to stay off the internet is honoured at every hop, also
\* when a digipeater has marked the wish as used on the way.
OptOutHonoured == ~Gateable(origin.pkt.path) => climbs = 0

\* A station passes one position of a remote sender per exchange: only after
\* relaying a message of that sender since the last position it passed.
CourtesyIsOwed ==
  [][\A s \in Stations, r \in Roles : Courtesy(s, r) => pkt.src \in owed[s]]_vars
=============================================================================
