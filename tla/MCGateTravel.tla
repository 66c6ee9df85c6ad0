---------------------------- MODULE MCGateTravel ----------------------------
(***************************************************************************)
(* An instance of GateTravel for TLC: stations A and B in every role, and  *)
(* originals with the paths on which the roles differ.                     *)
(***************************************************************************)
EXTENDS GateTravel

CONSTANTS A, B, X, Y, Wx, Bln, Alias, NoGate, TcpIp

MCCalls  == {A, B, X, Y, Wx, Bln}
MCTokens == {A, B, Wide, Alias, NoGate, TcpIp}

Role(w1, w2, pre, al, toIS, toRF, only, path) ==
  [tx |-> TRUE, wide1 |-> w1, wide2 |-> w2, preempt |-> pre, aliases |-> al, viscous |-> FALSE,
   rfToIS |-> toIS, isToRF |-> toRF, msgOnly |-> only, txPath |-> path]

\* A fill-in gateway, a full digipeater, one that may be named in paths, a
\* messaging-only gateway, and one that may not transmit.
FillIn  == Role(TRUE, FALSE, FALSE, {}, TRUE, TRUE, FALSE, <<Hop(Wide, 1, 1)>>)
Full    == Role(TRUE, TRUE, FALSE, {Alias}, FALSE, FALSE, FALSE, << >>)
Named   == Role(FALSE, FALSE, TRUE, {}, TRUE, TRUE, FALSE, <<Hop(A, 0, 0), Hop(B, 0, 0)>>)
Chatter == Role(TRUE, TRUE, TRUE, {}, TRUE, TRUE, TRUE, << >>)
Silent  == [FillIn EXCEPT !.tx = FALSE]
MCRoles == {FillIn, Full, Named, Chatter, Silent}

Packet(src, kind, to, wraps, path) ==
  [src |-> src, kind |-> kind, to |-> to, wraps |-> wraps, path |-> path]

Hops == {Hop(Wide, 1, 1), Hop(Wide, 2, 1), Hop(Wide, 2, 2), Hop(Alias, 2, 2), Hop(Wide, 3, 3),
         Hop(A, 0, 0), Hop(B, 0, 0), UsedBy(A), Hop(NoGate, 0, 0)}

\* Positions with every path of up to three of these hops; messages, wrapped
\* packets and others with a few paths.
OnRadio ==
  [pkt : {Packet(X, "position", None, 0, path) :
            path \in UNION {[1..k -> Hops] : k \in 0..3}}
         \cup {Packet(src, kind, to, wraps, path) :
                 src \in {A, X}, kind \in {"message", "query", "empty", "other"},
                 to \in {Y, None}, wraps \in {0, 1},
                 path \in {<< >>, <<Hop(Wide, 2, 2)>>, <<Hop(TcpIp, 0, 0), Hop(A, 0, 0)>>}},
   medium : {"rf"}]

OnInternet ==
  [pkt : {Packet(src, kind, to, wraps, << >>) :
            src \in {A, X, Wx}, kind \in {"message", "misdeclared", "position"},
            to \in {X, Y, Bln, None}, wraps \in {0, 1}},
   medium : {"is"}]

MCOriginals == OnRadio \cup OnInternet
=============================================================================
