-------------------------- MODULE GateTravelProofs --------------------------
(***************************************************************************)
(* Theorems about GateTravel, for any set of stations, roles and original  *)
(* packets and any limit on paths.                                         *)
(*                                                                         *)
(* They rest on what a digipeater may do to a path, DigipeatShape: it      *)
(* replaces the first mention of its own callsign and marks over whatever  *)
(* precedes it, or it serves the first free hop, a flood token, when the   *)
(* path does not mention it.                                               *)
(***************************************************************************)
EXTENDS GateTravel, FiniteSetTheorems, TLAPS

Preempts(path, i, s) ==
  /\ path[i].token = s
  /\ \A j \in DOMAIN path : j < i => path[j].token # s

Floods(path, i, s) ==
  /\ \A j \in DOMAIN path : /\ path[j].token # s
                            /\ j < i => path[j].used
  /\ path[i].token \notin Stations \cup OptOut \cup FromIS
  /\ path[i].n # 0
  /\ path[i].left >= 1

LEMMA LeastIsLeast ==
  ASSUME NEW S \in SUBSET Nat, S # {}
  PROVE  Least(S) \in S /\ \A j \in S : Least(S) <= j
<1>1. PICK i \in S : \A j \in S : ~(<<j, i>> \in OpToRel(<, Nat))
  BY NatLessThanWellFounded, WFMin
<1>2. ASSUME NEW j \in S, j < i
      PROVE  FALSE
  <2>1. <<j, i>> \in OpToRel(<, Nat)
    BY <1>2 DEF OpToRel
  <2>2. QED
    BY <1>1, <2>1
<1>3. \A j \in S : i <= j
  BY <1>2
<1>4. QED
  BY <1>3 DEF Least

LEMMA DigipeatShape ==
  ASSUME TravelAssumption, NEW p, IsPath(p.path), NEW s \in Stations, NEW r \in Roles,
         NEW q \in Digipeat(p, s, r)
  PROVE  /\ Len(q) <= MaxPathHops
         /\ \E i \in DOMAIN p.path :
              /\ ~p.path[i].used
              /\ \/ Preempts(p.path, i, s) /\ q = BuildPreemptPath(p.path, i, s)
                 \/ Floods(p.path, i, s) /\ q = ConsumeHop(p.path, i, s)
<1> DEFINE path == p.path
           M == Mentions(path, s)
           F == FreeHops(path)
<1>1. DOMAIN path \subseteq Nat /\ \A j \in DOMAIN path : path[j] \in HopSet
  BY DEF IsPath
<1>2. \A j : j \in M <=> j \in DOMAIN path /\ path[j].token = s
  BY DEF Mentions
<1>3. \A j : j \in F <=> j \in DOMAIN path /\ ~path[j].used
  BY DEF FreeHops
<1>4. CASE M # {}
  <2>1. q \in PreemptPath(path, s, r)
    BY <1>4 DEF Digipeat
  <2>2. PICK i : i = Least(M)
    OBVIOUS
  <2>3. i \in M /\ \A j \in M : i <= j
    BY <1>1, <1>2, <1>4, <2>2, LeastIsLeast
  <2>4. i \in DOMAIN path /\ Preempts(path, i, s)
    <3> HIDE DEF M, path
    <3> QED
      BY <1>1, <1>2, <2>3 DEF Preempts
  <2>5. ~path[i].used /\ q = BuildPreemptPath(path, i, s) /\ Len(q) <= MaxPathHops
    BY <2>1, <2>2 DEF PreemptPath, Fitting
  <2> QED
    BY <2>4, <2>5
<1>5. CASE M = {}
  <2>1. q \in FloodPath(path, s, r)
    BY <1>5 DEF Digipeat
  <2>2. PICK i : i = Least(F)
    OBVIOUS
  <2>3. /\ F # {}
        /\ WideServed(path[i], r) \/ AliasServed(path[i], r)
        /\ q = ConsumeHop(path, i, s) /\ Len(q) <= MaxPathHops
    BY <2>1, <2>2 DEF FloodPath, Fitting
  <2>4. i \in F /\ \A j \in F : i <= j
    BY <1>1, <1>3, <2>2, <2>3, LeastIsLeast
  <2>5. i \in DOMAIN path /\ ~path[i].used
    BY <1>3, <2>4
  <2>6. \A j \in DOMAIN path : path[j].token # s /\ (j < i => path[j].used)
    <3> HIDE DEF M, F, path
    <3> QED
      BY <1>1, <1>2, <1>3, <1>5, <2>4
  <2>7. path[i].token \notin Stations \cup OptOut \cup FromIS /\ path[i].n # 0
    BY <2>3 DEF WideServed, AliasServed, TravelAssumption
  <2>8. path[i].left >= 1
    BY <1>1, <2>3, <2>5, GateAssumption DEF WideServed, AliasServed, HopSet
  <2> QED
    BY <2>3, <2>5, <2>6, <2>7, <2>8 DEF Floods
<1> QED
  BY <1>4, <1>5

-----------------------------------------------------------------------------
(* What a repeat does to a path                                            *)

LEMMA HopTypes ==
  ASSUME TravelAssumption, NEW s \in Stations
  PROVE  UsedBy(s) \in HopSet
BY DEF TravelAssumption, UsedBy, HopSet

LEMMA MarkedOver ==
  ASSUME NEW h \in HopSet
  PROVE  /\ MarkOver(h) \in HopSet
         /\ MarkOver(h).used /\ MarkOver(h).n = h.n /\ MarkOver(h).left = h.left
         /\ MarkOver(h).token = h.token
BY DEF HopSet, MarkOver

LEMMA CountedDown ==
  ASSUME NEW h \in HopSet, h.left >= 1
  PROVE  /\ CountDown(h) \in HopSet
         /\ CountDown(h).left = h.left - 1
         /\ CountDown(h).token = h.token /\ CountDown(h).n = h.n /\ CountDown(h).used = h.used
BY DEF HopSet, CountDown

\* A path stays a path, within the limit.
LEMMA DigipeatIsPath ==
  ASSUME TravelAssumption, NEW p, IsPath(p.path), NEW s \in Stations, NEW r \in Roles,
         NEW q \in Digipeat(p, s, r)
  PROVE  IsPath(q)
<1> DEFINE path == p.path
<1>1. /\ path \in Seq(HopSet)
      /\ \A j \in DOMAIN path : /\ path[j] \in HopSet
                                /\ path[j].token \in Stations => path[j].n = 0
  BY DEF IsPath
<1>2. PICK i \in DOMAIN path :
        \/ Preempts(path, i, s) /\ q = BuildPreemptPath(path, i, s)
        \/ Floods(path, i, s) /\ q = ConsumeHop(path, i, s)
  BY DigipeatShape
<1>3. Len(q) <= MaxPathHops
  BY DigipeatShape
<1>4. UsedBy(s) \in HopSet /\ UsedBy(s).n = 0
  BY HopTypes DEF UsedBy
<1> HIDE DEF path
<1>5. CASE Preempts(path, i, s) /\ q = BuildPreemptPath(path, i, s)
  <2>1. \A j \in DOMAIN path : /\ MarkOver(path[j]) \in HopSet
                               /\ MarkOver(path[j]).n = path[j].n
                               /\ MarkOver(path[j]).token = path[j].token
    BY <1>1, MarkedOver
  <2>2. DOMAIN q = 1..Len(path) /\ q = [j \in 1..Len(path) |-> q[j]]
    BY <1>1, <1>5 DEF BuildPreemptPath
  <2>3. \A j \in DOMAIN q :
          /\ j \in DOMAIN path
          /\ q[j] = (IF j < i THEN MarkOver(path[j]) ELSE IF j = i THEN UsedBy(s) ELSE path[j])
    BY <1>1, <1>5, <2>2 DEF BuildPreemptPath
  <2>5. \A j \in DOMAIN q : q[j] \in HopSet /\ (q[j].token \in Stations => q[j].n = 0)
    BY <1>1, <1>4, <2>1, <2>3
  <2>4. q \in Seq(HopSet)
    BY <1>1, <2>2, <2>5
  <2> QED
    BY <1>3, <2>4, <2>5 DEF IsPath
<1>6. CASE Floods(path, i, s) /\ q = ConsumeHop(path, i, s) /\ path[i].left <= 1
  <2>1. DOMAIN q = 1..Len(path) /\ q = [j \in 1..Len(path) |-> q[j]]
    BY <1>1, <1>6 DEF ConsumeHop
  <2>2. \A j \in DOMAIN q : q[j] \in HopSet /\ (q[j].token \in Stations => q[j].n = 0)
    BY <1>1, <1>4, <1>6, <2>1 DEF ConsumeHop
  <2>3. q \in Seq(HopSet)
    BY <1>1, <2>1, <2>2
  <2> QED
    BY <1>3, <2>2, <2>3 DEF IsPath
<1>7. CASE Floods(path, i, s) /\ q = ConsumeHop(path, i, s) /\ ~(path[i].left <= 1)
  <2> DEFINE rest == CountDown(path[i])
  <2>1. rest \in HopSet /\ rest.token \notin Stations
    BY <1>1, <1>7, CountedDown DEF Floods
  <2>2. DOMAIN q = 1..Len(path) + 1 /\ q = [j \in 1..Len(path) + 1 |-> q[j]]
    BY <1>1, <1>7 DEF ConsumeHop
  <2>3. \A j \in DOMAIN q :
          q[j] = (IF j < i THEN path[j] ELSE IF j = i THEN UsedBy(s)
                  ELSE IF j = i + 1 THEN rest ELSE path[j - 1])
    BY <1>1, <1>7, <2>2 DEF ConsumeHop
  <2> HIDE DEF rest
  <2>4. \A j \in DOMAIN q : q[j] \in HopSet /\ (q[j].token \in Stations => q[j].n = 0)
    BY <1>1, <1>4, <2>1, <2>2, <2>3
  <2>5. q \in Seq(HopSet)
    BY <1>1, <2>2, <2>4
  <2> QED
    BY <1>3, <2>4, <2>5 DEF IsPath
<1> QED
  BY <1>2, <1>5, <1>6, <1>7

\* No repeat removes a token that keeps a packet off the internet.
LEMMA DigipeatKeepsWish ==
  ASSUME TravelAssumption, NEW p, IsPath(p.path), NEW s \in Stations, NEW r \in Roles,
         NEW q \in Digipeat(p, s, r), Gateable(q)
  PROVE  Gateable(p.path)
<1> DEFINE path == p.path
           Kept == OptOut \cup FromIS
<1>1. path \in Seq(HopSet)
  BY DEF IsPath
<1>2. PICK i \in DOMAIN path :
        \/ Preempts(path, i, s) /\ q = BuildPreemptPath(path, i, s)
        \/ Floods(path, i, s) /\ q = ConsumeHop(path, i, s)
  BY DigipeatShape
<1>3. \A j \in DOMAIN q : q[j].token \notin Kept
  BY DEF Gateable
<1>4. s \notin Kept
  BY DEF TravelAssumption
<1> HIDE DEF path
<1>5. SUFFICES ASSUME NEW j \in DOMAIN path, path[j].token \in Kept
               PROVE  FALSE
  BY DEF Gateable, path
<1> HIDE DEF Kept
<1>6. CASE Preempts(path, i, s) /\ q = BuildPreemptPath(path, i, s)
  <2>1. j \in DOMAIN q /\ j # i
    BY <1>1, <1>4, <1>5, <1>6 DEF BuildPreemptPath, Preempts
  <2>2. path[j] \in HopSet
    BY <1>1
  <2>3. q[j].token = path[j].token
    BY <1>6, <2>1, <2>2, MarkedOver DEF BuildPreemptPath
  <2> QED
    BY <1>3, <1>5, <2>1, <2>3
<1>7. CASE Floods(path, i, s) /\ q = ConsumeHop(path, i, s)
  <2>1. j # i
    BY <1>5, <1>7 DEF Floods, Kept
  <2>2. \E k \in DOMAIN q : q[k] = path[j]
    <3>1. CASE path[i].left <= 1
      BY <1>1, <1>7, <2>1, <3>1 DEF ConsumeHop
    <3>2. CASE ~(path[i].left <= 1) /\ j < i
      BY <1>1, <1>7, <3>2 DEF ConsumeHop
    <3>3. CASE ~(path[i].left <= 1) /\ j > i
      <4>1. j + 1 \in DOMAIN q /\ q[j + 1] = path[j]
        BY <1>1, <1>7, <3>3 DEF ConsumeHop
      <4> QED
        BY <4>1
    <3> QED
      BY <1>1, <2>1, <3>1, <3>2, <3>3
  <2> QED
    BY <1>3, <1>5, <2>2
<1> QED
  BY <1>2, <1>6, <1>7

\* The three ways to repeat, hop by hop.
Overmarked(path, q, i, s) ==
  /\ Preempts(path, i, s)
  /\ Len(q) = Len(path)
  /\ q[i] = UsedBy(s)
  /\ \A j \in 1..Len(q) : /\ j < i => q[j] = MarkOver(path[j])
                          /\ j > i => q[j] = path[j]

Finished(path, q, i, s) ==
  /\ Floods(path, i, s)
  /\ Len(q) = Len(path)
  /\ q[i] = UsedBy(s)
  /\ \A j \in 1..Len(q) : j # i => q[j] = path[j]

Counted(path, q, i, s) ==
  /\ Floods(path, i, s)
  /\ path[i].left > 1
  /\ Len(q) = Len(path) + 1
  /\ q[i] = UsedBy(s)
  /\ q[i + 1] = CountDown(path[i])
  /\ \A j \in 1..Len(q) : /\ j < i => q[j] = path[j]
                          /\ j > i + 1 => q[j] = path[j - 1]

LEMMA DigipeatHops ==
  ASSUME TravelAssumption, NEW p, IsPath(p.path), NEW s \in Stations, NEW r \in Roles,
         NEW q \in Digipeat(p, s, r)
  PROVE  \E i \in 1..Len(p.path) :
           /\ ~p.path[i].used
           /\ \/ Overmarked(p.path, q, i, s)
              \/ Finished(p.path, q, i, s)
              \/ Counted(p.path, q, i, s)
<1> DEFINE path == p.path
<1>1. path \in Seq(HopSet) /\ q \in Seq(HopSet)
  BY DigipeatIsPath DEF IsPath
<1>2. PICK i \in DOMAIN path :
        /\ ~path[i].used
        /\ \/ Preempts(path, i, s) /\ q = BuildPreemptPath(path, i, s)
           \/ Floods(path, i, s) /\ q = ConsumeHop(path, i, s)
  BY DigipeatShape
<1>3. i \in 1..Len(path) /\ DOMAIN q = 1..Len(q) /\ path[i] \in HopSet
  BY <1>1
<1> HIDE DEF path
<1>4. SUFFICES \/ Overmarked(path, q, i, s)
               \/ Finished(path, q, i, s)
               \/ Counted(path, q, i, s)
  BY <1>2, <1>3 DEF path
<1>5. CASE Preempts(path, i, s) /\ q = BuildPreemptPath(path, i, s)
  <2>1. DOMAIN q = 1..Len(path) /\ Len(q) = Len(path)
    BY <1>1, <1>5 DEF BuildPreemptPath
  <2>2. q[i] = UsedBy(s)
    BY <1>1, <1>3, <1>5, <2>1 DEF BuildPreemptPath
  <2>3. \A j \in 1..Len(q) : /\ j < i => q[j] = MarkOver(path[j])
                             /\ j > i => q[j] = path[j]
    BY <1>1, <1>5, <2>1 DEF BuildPreemptPath
  <2>4. Overmarked(path, q, i, s)
    BY <1>5, <2>1, <2>2, <2>3 DEF Overmarked
  <2> QED
    BY <2>4
<1>6. CASE Floods(path, i, s) /\ q = ConsumeHop(path, i, s) /\ path[i].left <= 1
  <2>1. DOMAIN q = 1..Len(path) /\ Len(q) = Len(path)
    BY <1>1, <1>6 DEF ConsumeHop
  <2>2. q[i] = UsedBy(s) /\ \A j \in 1..Len(q) : j # i => q[j] = path[j]
    BY <1>1, <1>3, <1>6, <2>1 DEF ConsumeHop
  <2> QED
    BY <1>6, <2>1, <2>2 DEF Finished
<1>7. CASE Floods(path, i, s) /\ q = ConsumeHop(path, i, s) /\ ~(path[i].left <= 1)
  <2>1. path[i].left > 1
    BY <1>3, <1>7 DEF HopSet
  <2>2. DOMAIN q = 1..Len(path) + 1 /\ Len(q) = Len(path) + 1
    BY <1>1, <1>7 DEF ConsumeHop
  <2>3. q[i] = UsedBy(s) /\ q[i + 1] = CountDown(path[i])
    BY <1>1, <1>3, <1>7, <2>2 DEF ConsumeHop
  <2>4. \A j \in 1..Len(q) : /\ j < i => q[j] = path[j]
                             /\ j > i + 1 => q[j] = path[j - 1]
    BY <1>1, <1>3, <1>7, <2>2 DEF ConsumeHop
  <2>5. Counted(path, q, i, s)
    BY <1>7, <2>1, <2>2, <2>3, <2>4 DEF Counted
  <2> QED
    BY <2>5
<1> QED
  BY <1>2, <1>5, <1>6, <1>7

-----------------------------------------------------------------------------
\* A station that has repeated a packet: its mark, with nothing free in front.
Marked(path, c) ==
  \E k \in 1..Len(path) :
    /\ path[k].token = c
    /\ \A j \in 1..Len(path) : j <= k => path[j].used

LEMMA DigipeatKeepsMarks ==
  ASSUME TravelAssumption, NEW p, IsPath(p.path), NEW s \in Stations, NEW r \in Roles,
         NEW q \in Digipeat(p, s, r)
  PROVE  /\ ~Marked(p.path, s)
         /\ Marked(q, s)
         /\ \A c \in Stations : Marked(p.path, c) => Marked(q, c)
<1> DEFINE path == p.path
<1>1. /\ Len(path) \in Nat
      /\ \A j \in 1..Len(path) : path[j] \in HopSet
  BY DEF IsPath
<1>2. PICK i \in 1..Len(path) :
        /\ ~path[i].used
        /\ \/ Overmarked(path, q, i, s)
           \/ Finished(path, q, i, s)
           \/ Counted(path, q, i, s)
  BY DigipeatHops
<1> HIDE DEF path
<1>3. Len(q) \in {Len(path), Len(path) + 1} /\ DOMAIN path = 1..Len(path)
  BY <1>2 DEF Overmarked, Finished, Counted, path, IsPath
<1>4. \A j \in 1..Len(path) : j < i => path[j].token # s
  BY <1>2, <1>3 DEF Overmarked, Finished, Counted, Preempts, Floods
<1>5. q[i] = UsedBy(s) /\ i \in 1..Len(q)
  BY <1>1, <1>2, <1>3 DEF Overmarked, Finished, Counted
<1>6. \A j \in 1..Len(path) :
        j < i => q[j].token = path[j].token /\ q[j].used
  <2> SUFFICES ASSUME NEW j \in 1..Len(path), j < i
               PROVE  q[j].token = path[j].token /\ q[j].used
    OBVIOUS
  <2>1. j \in 1..Len(q)
    BY <1>1, <1>3
  <2>2. CASE Overmarked(path, q, i, s)
    BY <1>1, <2>1, <2>2, MarkedOver DEF Overmarked
  <2>3. CASE Finished(path, q, i, s) \/ Counted(path, q, i, s)
    BY <1>1, <1>3, <2>1, <2>3 DEF Finished, Counted, Floods
  <2> QED
    BY <1>2, <2>2, <2>3
<1>7. ~Marked(path, s)
  BY <1>1, <1>2, <1>4 DEF Marked
<1>8. Marked(q, s)
  <2>1. q[i].token = s /\ \A j \in 1..Len(q) : j <= i => q[j].used
    BY <1>1, <1>3, <1>5, <1>6 DEF UsedBy
  <2> QED
    BY <1>5, <2>1 DEF Marked
<1>9. ASSUME NEW c \in Stations, Marked(path, c)
      PROVE  Marked(q, c)
  <2>1. PICK k \in 1..Len(path) :
          path[k].token = c /\ \A j \in 1..Len(path) : j <= k => path[j].used
    BY <1>9 DEF Marked
  <2>2. k < i /\ k \in 1..Len(q)
    BY <1>1, <1>2, <1>3, <2>1
  <2> QED
    BY <1>1, <1>3, <1>6, <2>1, <2>2 DEF Marked
<1> QED
  BY <1>7, <1>8, <1>9 DEF path

-----------------------------------------------------------------------------
(* Every repeat uses up one request                                        *)

LEMMA RequestsFinite ==
  ASSUME NEW path, IsPath(path)
  PROVE  IsFiniteSet(Requests(path)) /\ Asked(path) \in Nat
<1>1. DOMAIN path = 1..Len(path) /\ Len(path) \in Nat
  BY DEF IsPath
<1>2. IsFiniteSet((DOMAIN path) \X (1..7))
  <2>1. IsFiniteSet(1..Len(path)) /\ IsFiniteSet(1..7)
    <3>1. \A n \in Nat : IsFiniteSet(1..n)
      BY FS_Interval
    <3>2. 7 \in Nat
      OBVIOUS
    <3> QED
      BY <1>1, <3>1, <3>2, Zenon
  <2> QED
    BY <1>1, <2>1, FS_Product
<1>3. IsFiniteSet(Requests(path))
  BY <1>2, FS_Subset DEF Requests
<1> QED
  BY <1>3, FS_CardinalityType DEF Asked

\* A request less: what is left maps one to one to what was there without x.
LEMMA OneLess ==
  ASSUME NEW S, IsFiniteSet(S), NEW x \in S, NEW R, NEW f \in Injection(R, S \ {x})
  PROVE  Cardinality(R) + 1 <= Cardinality(S)
<1>1. /\ IsFiniteSet(S \ {x})
      /\ Cardinality(S \ {x}) = Cardinality(S) - 1
  BY FS_RemoveElement
<1>2. IsFiniteSet(R) /\ Cardinality(R) <= Cardinality(S \ {x})
  BY <1>1, FS_Injection
<1>3. Cardinality(S) \in Nat /\ Cardinality(R) \in Nat
  BY <1>2, FS_CardinalityType
<1> QED
  BY <1>1, <1>2, <1>3

LEMMA DigipeatIsAsked ==
  ASSUME TravelAssumption, NEW p, IsPath(p.path), NEW s \in Stations, NEW r \in Roles,
         NEW q \in Digipeat(p, s, r)
  PROVE  Asked(q) + 1 <= Asked(p.path)
<1> DEFINE path == p.path
           R == Requests(q)
           S == Requests(path)
<1>1. /\ Len(path) \in Nat /\ DOMAIN path = 1..Len(path) /\ DOMAIN q = 1..Len(q)
      /\ \A j \in 1..Len(path) : /\ path[j] \in HopSet
                                 /\ path[j].token \in Stations => path[j].n = 0
      /\ IsFiniteSet(S)
  BY DigipeatIsPath, RequestsFinite DEF IsPath
<1>2. PICK i \in 1..Len(path) :
        /\ ~path[i].used
        /\ \/ Overmarked(path, q, i, s)
           \/ Finished(path, q, i, s)
           \/ Counted(path, q, i, s)
  BY DigipeatHops
<1> HIDE DEF path
<1>3. \A h : h \in S <=> /\ h \in (1..Len(path)) \X (1..7)
                         /\ ~path[h[1]].used /\ h[2] <= Weight(path[h[1]])
  BY <1>1 DEF Requests
<1>4. \A h : h \in R <=> /\ h \in (1..Len(q)) \X (1..7)
                         /\ ~q[h[1]].used /\ h[2] <= Weight(q[h[1]])
  BY <1>1 DEF Requests
<1> HIDE DEF R, S
<1>5. ASSUME NEW x \in S, R \subseteq S \ {x}
      PROVE  Cardinality(R) + 1 <= Cardinality(S)
  <2> DEFINE f == [h \in R |-> h]
  <2>1. f \in Injection(R, S \ {x})
    BY <1>5 DEF Injection, IsInjective
  <2> QED
    BY <1>1, <2>1, OneLess
<1>6. CASE Overmarked(path, q, i, s)
  <2>1. <<i, 1>> \in S
    <3>1. path[i].n = 0
      BY <1>1, <1>6 DEF Overmarked, Preempts
    <3>2. Weight(path[i]) = 1
      BY <3>1 DEF Weight
    <3> QED
      BY <1>2, <1>3, <3>2
  <2>2. ASSUME NEW h \in R
        PROVE  h \in S \ {<<i, 1>>}
    <3>1. h[1] \in 1..Len(path) /\ h[1] \in 1..Len(q) /\ h \in (1..Len(q)) \X (1..7)
      BY <1>4, <1>6 DEF Overmarked
    <3>2. ~(h[1] < i)
      <4>1. CASE h[1] < i
        <5>1. q[h[1]] = MarkOver(path[h[1]])
          BY <1>6, <3>1, <4>1 DEF Overmarked
        <5>2. q[h[1]].used
          BY <1>1, <3>1, <5>1, MarkedOver
        <5> QED
          BY <1>4, <5>2
      <4> QED
        BY <4>1
    <3>3. h[1] # i
      BY <1>4, <1>6, <3>1, <3>2 DEF Overmarked, UsedBy
    <3>4. q[h[1]] = path[h[1]]
      BY <1>6, <3>1, <3>2, <3>3 DEF Overmarked
    <3> QED
      BY <1>3, <1>4, <3>1, <3>3, <3>4
  <2> QED
    BY <1>5, <2>1, <2>2 DEF Asked, R, S, path
<1>7. CASE Finished(path, q, i, s)
  <2>1. <<i, 1>> \in S
    <3>1. Weight(path[i]) >= 1
      BY <1>7 DEF Finished, Floods, Weight
    <3> QED
      BY <1>2, <1>3, <3>1
  <2>2. ASSUME NEW h \in R
        PROVE  h \in S \ {<<i, 1>>}
    <3>1. h[1] \in 1..Len(path) /\ h[1] \in 1..Len(q) /\ h \in (1..Len(q)) \X (1..7)
      BY <1>4, <1>7 DEF Finished
    <3>2. h[1] # i
      BY <1>4, <1>7, <3>1 DEF Finished, UsedBy
    <3>3. q[h[1]] = path[h[1]]
      BY <1>7, <3>1, <3>2 DEF Finished
    <3> QED
      BY <1>3, <1>4, <3>1, <3>2, <3>3
  <2> QED
    BY <1>5, <2>1, <2>2 DEF Asked, R, S, path
<1>8. CASE Counted(path, q, i, s)
  <2> DEFINE last == path[i].left
             f == [h \in R |-> <<h[1] - 1, h[2]>>]
  <2>1. last \in 1..7 /\ Weight(path[i]) = last /\ <<i, last>> \in S
    <3>1. path[i].left \in 0..7 /\ path[i].left > 1
      BY <1>1, <1>8 DEF Counted, HopSet
    <3>2. Weight(path[i]) = last
      BY <1>8 DEF Counted, Floods, Weight
    <3> QED
      BY <1>2, <1>3, <3>1, <3>2
  <2>2. ASSUME NEW h \in R
        PROVE  f[h] \in S \ {<<i, last>>}
    <3>1. h \in (1..Len(path) + 1) \X (1..7) /\ h[1] \in 1..Len(q) /\ ~q[h[1]].used
      BY <1>4, <1>8 DEF Counted
    <3>2. ~(h[1] < i)
      BY <1>1, <1>8, <3>1 DEF Counted, Floods
    <3>3. h[1] # i
      BY <1>8, <3>1, <3>2 DEF Counted, UsedBy
    <3>4. CASE h[1] = i + 1
      <4>1. q[h[1]] = CountDown(path[i])
        BY <1>8, <3>1, <3>4 DEF Counted
      <4>2. q[h[1]].left = last - 1 /\ q[h[1]].n # 0
        BY <1>1, <1>8, <4>1, <2>1, CountedDown DEF Counted, Floods
      <4>3. h[2] <= last - 1
        BY <1>4, <4>2 DEF Weight
      <4>4. h[2] \in 1..7
        BY <3>1
      <4> DEFINE g == <<i, h[2]>>
      <4>5. g \in (1..Len(path)) \X (1..7) /\ g[1] = i /\ g[2] = h[2]
        BY <4>4
      <4>6. g \in S
        <5>1. h[2] <= Weight(path[i])
          BY <2>1, <4>3, <4>4
        <5> HIDE DEF g
        <5> QED
          BY <1>2, <1>3, <4>5, <5>1
      <4>7. g # <<i, last>>
        BY <2>1, <4>3, <4>4
      <4>8. f[h] = g
        <5>1. h[1] - 1 = i
          BY <3>4
        <5> QED
          BY <5>1
      <4> HIDE DEF f, g, last
      <4> QED
        BY <4>6, <4>7, <4>8
    <3>5. CASE h[1] > i + 1
      <4>1. q[h[1]] = path[h[1] - 1]
        BY <1>8, <3>1, <3>5 DEF Counted
      <4>2. h[1] - 1 \in 1..Len(path) /\ h[1] - 1 # i
        BY <1>1, <3>1, <3>5
      <4>3. h[2] <= Weight(path[h[1] - 1])
        BY <1>4, <4>1
      <4>4. h[2] \in 1..7
        BY <3>1
      <4> DEFINE g == <<h[1] - 1, h[2]>>
      <4>5. g \in (1..Len(path)) \X (1..7) /\ g[1] = h[1] - 1 /\ g[2] = h[2]
        BY <4>2, <4>4
      <4>6. g \in S
        <5> HIDE DEF g
        <5> QED
          BY <1>3, <3>1, <4>1, <4>3, <4>5
      <4>7. g # <<i, last>>
        BY <4>2
      <4>8. f[h] = g
        OBVIOUS
      <4> HIDE DEF f, g, last
      <4> QED
        BY <4>6, <4>7, <4>8
    <3> QED
      <4> HIDE DEF f, last
      <4>1. h[1] < i \/ h[1] = i \/ h[1] = i + 1 \/ h[1] > i + 1
        BY <3>1
      <4> QED
        BY <4>1, <3>2, <3>3, <3>4, <3>5
  <2>3. \A g, h \in R : f[g] = f[h] => g = h
    <3> SUFFICES ASSUME NEW g \in R, NEW h \in R, f[g] = f[h]
                 PROVE  g = h
      OBVIOUS
    <3>1. g \in (1..Len(q)) \X (1..7) /\ h \in (1..Len(q)) \X (1..7)
      BY <1>4
    <3>2. g[1] - 1 = h[1] - 1 /\ g[2] = h[2]
      OBVIOUS
    <3> QED
      BY <3>1, <3>2
  <2>4. f \in Injection(R, S \ {<<i, last>>})
    BY <2>2, <2>3 DEF Injection, IsInjective
  <2> HIDE DEF f, last
  <2> QED
    BY <1>1, <2>1, <2>4, OneLess DEF Asked, R, S, path
<1> QED
  BY <1>2, <1>6, <1>7, <1>8

-----------------------------------------------------------------------------
(* Type correctness                                                        *)

LEMMA RepeatedIsPacket ==
  ASSUME NEW p, IsPacket(p), NEW q, IsPath(q)
  PROVE  LET sent == [p EXCEPT !.path = q]
         IN  IsPacket(sent) /\ sent.path = q /\ sent.wraps = p.wraps
BY DEF IsPacket

LEMMA ThirdPartyIsPacket ==
  ASSUME TravelAssumption, NEW p, IsPacket(p), ~Wrapped(p), NEW s \in Stations,
         NEW path, IsPath(path)
  PROVE  LET sent == ThirdParty(p, s, path)
         IN  IsPacket(sent) /\ sent.path = path /\ sent.wraps = 1
<1>1. p.wraps = 0 /\ s \in Calls
  BY DEF IsPacket, Wrapped, TravelAssumption
<1>2. ThirdParty(p, s, path)
        = [src |-> s, kind |-> p.kind, to |-> p.to, wraps |-> 1, path |-> path]
  <2> DEFINE own == p.path
  <2>1. p \in [src : Calls, kind : Kinds, to : Calls \cup {None}, wraps : {0, 1}, path : {own}]
    BY DEF IsPacket
  <2> HIDE DEF own
  <2>2. p.wraps + 1 = 1
    BY <1>1
  <2>3. ThirdParty(p, s, path) = [p EXCEPT !.src = s, !.wraps = 1, !.path = path]
    BY <2>2 DEF ThirdParty
  <2> QED
    BY <2>1, <2>3
<1>3. p.kind \in Kinds /\ p.to \in Calls \cup {None}
  BY DEF IsPacket
<1> QED
  BY <1>1, <1>2, <1>3 DEF IsPacket

LEMMA NoPathIsPath == IsPath(<< >>)
BY GateAssumption DEF IsPath

LEMMA AskedType ==
  ASSUME NEW p, IsPacket(p)
  PROVE  Asked(p.path) \in Nat
BY RequestsFinite DEF IsPacket

LEMMA EmitType ==
  ASSUME TypeOK, NEW p, IsPacket(p), Emit(p)
  PROVE  /\ IsPacket(pkt') /\ medium' \in Media
         /\ asked' \in Nat /\ repeats' \in Nat /\ by' \in SUBSET Stations
<1>1. CASE OnAir(p)
  BY <1>1, AskedType DEF OnAir, Media
<1>2. CASE UNCHANGED <<pkt, medium, asked, repeats, by>>
  BY <1>2 DEF TypeOK
<1> QED
  BY <1>1, <1>2 DEF Emit

LEMMA TypeInit == Init => TypeOK
<1> SUFFICES ASSUME Init
             PROVE  TypeOK
  OBVIOUS
<1>1. IsPacket(pkt) /\ medium \in Media
  BY TravelAssumption DEF Init, TravelAssumption
<1>2. asked \in Nat
  BY <1>1, AskedType DEF Init
<1> QED
  BY <1>1, <1>2 DEF Init, TypeOK

LEMMA TypeStep == TypeOK /\ [Next]_vars => TypeOK'
<1> SUFFICES ASSUME TypeOK, [Next]_vars
             PROVE  TypeOK'
  OBVIOUS
<1> USE TravelAssumption
<1>1. ASSUME NEW o \in Originals, Originate(o)
      PROVE  TypeOK'
  <2>1. IsPacket(o.pkt) /\ o.medium \in Media
    BY DEF TravelAssumption
  <2>2. Asked(o.pkt.path) \in Nat
    BY <2>1, AskedType
  <2> QED
    BY <1>1, <2>1, <2>2 DEF Originate, TypeOK
<1>2. ASSUME NEW s \in Stations, NEW r \in Roles, Repeat(s, r)
      PROVE  TypeOK'
  <2>1. PICK q \in Digipeat(pkt, s, r) : pkt' = [pkt EXCEPT !.path = q]
    BY <1>2 DEF Repeat
  <2>2. IsPath(q)
    BY DigipeatIsPath DEF TypeOK, IsPacket
  <2>3. IsPacket(pkt')
    BY <2>1, <2>2, RepeatedIsPacket DEF TypeOK
  <2> QED
    BY <1>2, <2>3 DEF Repeat, TypeOK
<1>3. ASSUME NEW s \in Stations, NEW r \in Roles, Climb(s, r)
      PROVE  TypeOK'
  BY <1>3 DEF Climb, TypeOK, Media
<1>4. ASSUME NEW s \in Stations, NEW r \in Roles, Relay(s, r)
      PROVE  TypeOK'
  <2>1. IsPacket(ThirdParty(pkt, s, << >>)) /\ pkt.src \in Calls
    BY <1>4, NoPathIsPath, ThirdPartyIsPacket DEF Relay, FromISAllowed, TypeOK, IsPacket
  <2>2. /\ IsPacket(pkt') /\ medium' \in Media
        /\ asked' \in Nat /\ repeats' \in Nat /\ by' \in SUBSET Stations
    BY <1>4, <2>1, EmitType DEF Relay
  <2>3. tracked' \in [Stations -> SUBSET Calls] /\ owed' \in [Stations -> SUBSET Calls]
    BY <1>4, <2>1 DEF Relay, TypeOK
  <2> QED
    BY <1>4, <2>2, <2>3 DEF Relay, TypeOK
<1>5. ASSUME NEW s \in Stations, NEW r \in Roles, Courtesy(s, r)
      PROVE  TypeOK'
  <2>1. IsPacket(ThirdParty(pkt, s, r.txPath))
    BY <1>5, ThirdPartyIsPacket DEF Courtesy, FromISAllowed, TypeOK, TravelAssumption
  <2>2. /\ IsPacket(pkt') /\ medium' \in Media
        /\ asked' \in Nat /\ repeats' \in Nat /\ by' \in SUBSET Stations
    BY <1>5, <2>1, EmitType DEF Courtesy
  <2>3. tracked' \in [Stations -> SUBSET Calls] /\ owed' \in [Stations -> SUBSET Calls]
    BY <1>5 DEF Courtesy, Consume, TypeOK
  <2> QED
    BY <1>5, <2>2, <2>3 DEF Courtesy, TypeOK
<1>6. ASSUME NEW s \in Stations, Forget(s)
      PROVE  TypeOK'
  BY <1>6 DEF Forget, TypeOK
<1>7. CASE UNCHANGED vars
  BY <1>7 DEF vars, TypeOK
<1> QED
  BY <1>1, <1>2, <1>3, <1>4, <1>5, <1>6, <1>7 DEF Next, Hear

\* Types for any stations, roles and packets: no path ever outgrows
\* maxPathHops, and no packet is wrapped as third-party traffic twice.
THEOREM TypeCorrect == Spec => []TypeOK
<1>1. QED
  BY TypeInit, TypeStep, PTL DEF Spec

-----------------------------------------------------------------------------
(* On the air                                                              *)

\* What a gateway's step makes of the copy.
LEMMA GatewayStep ==
  ASSUME TypeOK, NEW s \in Stations, NEW r \in Roles, Relay(s, r) \/ Courtesy(s, r)
  PROVE  /\ UNCHANGED <<origin, climbs>>
         /\ \/ UNCHANGED <<pkt, medium, asked, repeats, by>>
            \/ /\ OnAir(pkt')
               /\ pkt'.wraps = 1
<1> USE TravelAssumption
<1>1. IsPacket(pkt) /\ ~Wrapped(pkt)
  BY DEF TypeOK, Relay, Courtesy, FromISAllowed
<1>2. PICK path : IsPath(path) /\ Emit(ThirdParty(pkt, s, path))
  <2>1. IsPath(<< >>) /\ IsPath(r.txPath)
    BY NoPathIsPath DEF TravelAssumption
  <2> QED
    BY <2>1 DEF Relay, Courtesy
<1>3. ThirdParty(pkt, s, path).wraps = 1
  BY <1>1, <1>2, ThirdPartyIsPacket
<1>4. UNCHANGED <<origin, climbs>>
  BY DEF Relay, Courtesy
<1>5. CASE OnAir(ThirdParty(pkt, s, path))
  <2>1. pkt' = ThirdParty(pkt, s, path)
    BY <1>5 DEF OnAir
  <2> QED
    BY <1>3, <1>4, <1>5, <2>1
<1>6. CASE UNCHANGED <<pkt, medium, asked, repeats, by>>
  BY <1>4, <1>6
<1> QED
  BY <1>2, <1>5, <1>6 DEF Emit

\* The steps as the properties below tell them apart: a new packet, a repeat,
\* a climb, a gateway's transmission, and those that leave the copy alone.
LEMMA NextSplit ==
  ASSUME TypeOK, [Next]_vars
  PROVE  \/ \E o \in Originals : Originate(o)
         \/ \E s \in Stations, r \in Roles : Repeat(s, r)
         \/ \E s \in Stations, r \in Roles : Climb(s, r)
         \/ /\ UNCHANGED <<origin, climbs>>
            /\ OnAir(pkt') /\ pkt'.wraps = 1
         \/ UNCHANGED <<pkt, medium, origin, asked, repeats, by, climbs>>
<1>1. ASSUME NEW s \in Stations, NEW r \in Roles, Relay(s, r) \/ Courtesy(s, r)
      PROVE  \/ /\ UNCHANGED <<origin, climbs>>
                /\ OnAir(pkt') /\ pkt'.wraps = 1
             \/ UNCHANGED <<pkt, medium, origin, asked, repeats, by, climbs>>
  BY <1>1, GatewayStep
<1>2. ASSUME NEW s \in Stations, Forget(s)
      PROVE  UNCHANGED <<pkt, medium, origin, asked, repeats, by, climbs>>
  BY <1>2 DEF Forget
<1>3. CASE UNCHANGED vars
  BY <1>3 DEF vars
<1> QED
  BY <1>1, <1>2, <1>3 DEF Next, Hear

\* For any roles and packets: a copy is never repeated more often than its
\* path asked for when it was put on the air.
THEOREM WithinRequestHolds == Spec => []WithinRequest
<1> USE TravelAssumption
<1>1. Init => WithinRequest
  <2> SUFFICES ASSUME Init
               PROVE  WithinRequest
    OBVIOUS
  <2>1. Asked(pkt.path) \in Nat
    BY TypeInit, AskedType DEF TypeOK
  <2> QED
    BY <2>1 DEF Init, WithinRequest
<1>2. TypeOK /\ TypeOK' /\ WithinRequest /\ [Next]_vars => WithinRequest'
  <2> SUFFICES ASSUME TypeOK, TypeOK', WithinRequest, [Next]_vars
               PROVE  WithinRequest'
    OBVIOUS
  <2>1. /\ Asked(pkt.path) \in Nat /\ Asked(pkt'.path) \in Nat
        /\ repeats \in Nat /\ asked \in Nat
    BY AskedType DEF TypeOK
  <2>2. ASSUME NEW o \in Originals, Originate(o)
        PROVE  WithinRequest'
    BY <2>1, <2>2 DEF Originate, WithinRequest
  <2>3. ASSUME NEW s \in Stations, NEW r \in Roles, Repeat(s, r)
        PROVE  WithinRequest'
    <3>1. PICK q \in Digipeat(pkt, s, r) : pkt' = [pkt EXCEPT !.path = q]
      BY <2>3 DEF Repeat
    <3>2. IsPath(q) /\ Asked(q) + 1 <= Asked(pkt.path)
      BY DigipeatIsPath, DigipeatIsAsked DEF TypeOK, IsPacket
    <3>3. pkt'.path = q
      BY <3>1, <3>2, RepeatedIsPacket DEF TypeOK
    <3> QED
      BY <2>1, <2>3, <3>2, <3>3 DEF Repeat, WithinRequest
  <2>4. ASSUME NEW s \in Stations, NEW r \in Roles, Climb(s, r)
        PROVE  WithinRequest'
    BY <2>4 DEF Climb, WithinRequest
  <2>5. CASE OnAir(pkt')
    BY <2>1, <2>5 DEF OnAir, WithinRequest
  <2>6. CASE UNCHANGED <<pkt, medium, origin, asked, repeats, by, climbs>>
    BY <2>6 DEF WithinRequest
  <2> QED
    BY <2>2, <2>3, <2>4, <2>5, <2>6, NextSplit
<1> QED
  BY <1>1, <1>2, TypeCorrect, PTL DEF Spec

(***************************************************************************)
(* NoStationTwice needs to know why a station does not repeat again: the   *)
(* mark of each station that has repeated stands in the path with nothing  *)
(* free before it.                                                         *)
(***************************************************************************)
MarksInv ==
  /\ IsFiniteSet(by)
  /\ NoStationTwice
  /\ \A c \in by : Marked(pkt.path, c)

\* For any roles and packets: no station repeats its own repeat.
THEOREM NoStationTwiceHolds == Spec => []NoStationTwice
<1> USE TravelAssumption
<1>1. ASSUME by = {}, repeats = 0
      PROVE  MarksInv
  BY <1>1, FS_EmptySet DEF MarksInv, NoStationTwice
<1>2. ASSUME by' = {}, repeats' = 0
      PROVE  MarksInv'
  BY <1>2, FS_EmptySet DEF MarksInv, NoStationTwice
<1>3. Init => MarksInv
  BY <1>1 DEF Init
<1>4. TypeOK /\ MarksInv /\ [Next]_vars => MarksInv'
  <2> SUFFICES ASSUME TypeOK, MarksInv, [Next]_vars
               PROVE  MarksInv'
    OBVIOUS
  <2>1. ASSUME NEW o \in Originals, Originate(o)
        PROVE  MarksInv'
    BY <1>2, <2>1 DEF Originate
  <2>2. ASSUME NEW s \in Stations, NEW r \in Roles, Repeat(s, r)
        PROVE  MarksInv'
    <3>1. PICK q \in Digipeat(pkt, s, r) : pkt' = [pkt EXCEPT !.path = q]
      BY <2>2 DEF Repeat
    <3>2. /\ IsPath(q)
          /\ ~Marked(pkt.path, s) /\ Marked(q, s)
          /\ \A c \in Stations : Marked(pkt.path, c) => Marked(q, c)
      BY DigipeatIsPath, DigipeatKeepsMarks DEF TypeOK, IsPacket
    <3>3. pkt'.path = q
      BY <3>1, <3>2, RepeatedIsPacket DEF TypeOK
    <3>4. s \notin by
      BY <3>2 DEF MarksInv
    <3>5. IsFiniteSet(by \cup {s}) /\ Cardinality(by \cup {s}) = Cardinality(by) + 1
      BY <3>4, FS_AddElement DEF MarksInv
    <3>6. \A c \in by \cup {s} : Marked(q, c)
      BY <3>2 DEF MarksInv, TypeOK
    <3> QED
      BY <2>2, <3>3, <3>5, <3>6 DEF Repeat, MarksInv, NoStationTwice
  <2>3. ASSUME NEW s \in Stations, NEW r \in Roles, Climb(s, r)
        PROVE  MarksInv'
    BY <2>3 DEF Climb, MarksInv, NoStationTwice
  <2>4. CASE OnAir(pkt')
    BY <1>2, <2>4 DEF OnAir
  <2>5. CASE UNCHANGED <<pkt, medium, origin, asked, repeats, by, climbs>>
    BY <2>5 DEF MarksInv, NoStationTwice
  <2> QED
    BY <2>1, <2>2, <2>3, <2>4, <2>5, NextSplit
<1>5. MarksInv => NoStationTwice
  BY DEF MarksInv
<1> QED
  BY <1>3, <1>4, <1>5, TypeCorrect, PTL DEF Spec

-----------------------------------------------------------------------------
(* Between the radio and the internet                                      *)

(***************************************************************************)
(* NoReturnToIS is not inductive: that a packet cannot climb follows from  *)
(* where its copy is, on the internet or wrapped, once it or its original  *)
(* has been there.                                                         *)
(***************************************************************************)
FromNet == origin.medium = "is" \/ origin.pkt.wraps > 0
OnNet   == medium = "is" \/ Wrapped(pkt)

SourceInv ==
  /\ climbs \in {0, 1}
  /\ climbs = 1 => ~FromNet
  /\ climbs = 1 \/ FromNet => OnNet

\* For any gateways: nothing returns to the internet.
THEOREM NoReturnToISHolds == Spec => []NoReturnToIS
<1>1. Init => SourceInv
  BY DEF Init, SourceInv, FromNet, OnNet, Wrapped
<1>2. TypeOK /\ SourceInv /\ [Next]_vars => SourceInv'
  <2> SUFFICES ASSUME TypeOK, SourceInv, [Next]_vars
               PROVE  SourceInv'
    OBVIOUS
  <2>1. ASSUME NEW o \in Originals, Originate(o)
        PROVE  SourceInv'
    BY <2>1 DEF Originate, SourceInv, FromNet, OnNet
  <2>2. ASSUME NEW s \in Stations, NEW r \in Roles, Repeat(s, r)
        PROVE  SourceInv'
    <3>1. PICK q \in Digipeat(pkt, s, r) : pkt' = [pkt EXCEPT !.path = q]
      BY <2>2 DEF Repeat
    <3>2. IsPath(q)
      BY TravelAssumption, DigipeatIsPath DEF TypeOK, IsPacket
    <3>3. pkt'.wraps = pkt.wraps
      BY <3>1, <3>2, RepeatedIsPacket DEF TypeOK
    <3> QED
      BY <2>2, <3>3 DEF Repeat, SourceInv, FromNet, OnNet, Wrapped
  <2>3. ASSUME NEW s \in Stations, NEW r \in Roles, Climb(s, r)
        PROVE  SourceInv'
    <3>1. ~OnNet
      BY <2>3 DEF Climb, ToIS, OnNet
    <3>2. climbs = 0 /\ ~FromNet
      BY <3>1 DEF SourceInv
    <3> QED
      BY <2>3, <3>2 DEF Climb, SourceInv, FromNet, OnNet
  <2>4. CASE UNCHANGED <<origin, climbs>> /\ pkt'.wraps = 1
    BY <2>4 DEF SourceInv, FromNet, OnNet, Wrapped
  <2>5. CASE UNCHANGED <<pkt, medium, origin, asked, repeats, by, climbs>>
    BY <2>5 DEF SourceInv, FromNet, OnNet, Wrapped
  <2> QED
    BY <2>1, <2>2, <2>3, <2>4, <2>5, NextSplit
<1>3. SourceInv => NoReturnToIS
  BY DEF SourceInv, FromNet, NoReturnToIS
<1> QED
  BY <1>1, <1>2, <1>3, TypeCorrect, PTL DEF Spec

\* The wish is still on a copy that may climb.
WishInv ==
  /\ OptOutHonoured
  /\ ~Gateable(origin.pkt.path) => OnNet \/ ~Gateable(pkt.path)

\* For any digipeaters in between: a no-gate wish is honoured.
THEOREM OptOutHonouredHolds == Spec => []OptOutHonoured
<1>1. Init => WishInv
  BY DEF Init, WishInv, OptOutHonoured
<1>2. TypeOK /\ WishInv /\ [Next]_vars => WishInv'
  <2> SUFFICES ASSUME TypeOK, WishInv, [Next]_vars
               PROVE  WishInv'
    OBVIOUS
  <2>1. ASSUME NEW o \in Originals, Originate(o)
        PROVE  WishInv'
    BY <2>1 DEF Originate, WishInv, OptOutHonoured, OnNet
  <2>2. ASSUME NEW s \in Stations, NEW r \in Roles, Repeat(s, r)
        PROVE  WishInv'
    <3>1. PICK q \in Digipeat(pkt, s, r) : pkt' = [pkt EXCEPT !.path = q]
      BY <2>2 DEF Repeat
    <3>2. IsPath(q) /\ (Gateable(q) => Gateable(pkt.path))
      BY TravelAssumption, DigipeatIsPath, DigipeatKeepsWish DEF TypeOK, IsPacket
    <3>3. pkt'.wraps = pkt.wraps /\ pkt'.path = q
      BY <3>1, <3>2, RepeatedIsPacket DEF TypeOK
    <3>4. UNCHANGED <<medium, origin, climbs>>
      BY <2>2 DEF Repeat
    <3> QED
      BY <3>2, <3>3, <3>4 DEF WishInv, OptOutHonoured, OnNet, Wrapped
  <2>3. ASSUME NEW s \in Stations, NEW r \in Roles, Climb(s, r)
        PROVE  WishInv'
    <3>1. Gateable(pkt.path) /\ ~OnNet
      BY <2>3 DEF Climb, ToIS, OnNet
    <3>2. Gateable(origin.pkt.path) /\ origin' = origin
      BY <2>3, <3>1 DEF Climb, WishInv
    <3> QED
      BY <3>2 DEF WishInv, OptOutHonoured
  <2>4. CASE UNCHANGED <<origin, climbs>> /\ pkt'.wraps = 1
    BY <2>4 DEF WishInv, OptOutHonoured, OnNet, Wrapped
  <2>5. CASE UNCHANGED <<pkt, medium, origin, asked, repeats, by, climbs>>
    BY <2>5 DEF WishInv, OptOutHonoured, OnNet, Wrapped
  <2> QED
    BY <2>1, <2>2, <2>3, <2>4, <2>5, NextSplit
<1>3. WishInv => OptOutHonoured
  BY DEF WishInv
<1> QED
  BY <1>1, <1>2, <1>3, TypeCorrect, PTL DEF Spec

\* Who is on the tracker is owed a position.
OwedInv == \A s \in Stations : tracked[s] \subseteq owed[s]

\* For any gateways: a courtesy position answers a relayed message.
THEOREM CourtesyIsOwedHolds == Spec => CourtesyIsOwed
<1>1. Init => OwedInv
  BY DEF Init, OwedInv
<1>2. TypeOK /\ OwedInv /\ [Next]_vars => OwedInv'
  <2> SUFFICES ASSUME TypeOK, OwedInv, [Next]_vars
               PROVE  OwedInv'
    OBVIOUS
  <2>1. CASE UNCHANGED <<tracked, owed>>
    BY <2>1 DEF OwedInv
  <2>2. ASSUME NEW s \in Stations, NEW r \in Roles, Relay(s, r)
        PROVE  OwedInv'
    BY <2>2 DEF Relay, OwedInv, TypeOK
  <2>3. ASSUME NEW s \in Stations, NEW r \in Roles, Courtesy(s, r)
        PROVE  OwedInv'
    BY <2>3 DEF Courtesy, Consume, OwedInv, TypeOK
  <2>4. ASSUME NEW s \in Stations, Forget(s)
        PROVE  OwedInv'
    BY <2>4 DEF Forget, OwedInv, TypeOK
  <2> QED
    BY <2>1, <2>2, <2>3, <2>4 DEF Next, Hear, Originate, Repeat, Climb, vars
<1>3. OwedInv => \A s \in Stations, r \in Roles : Courtesy(s, r) => pkt.src \in owed[s]
  BY DEF OwedInv, Courtesy, IsCourtesy
<1>4. OwedInv /\ [Next]_vars
      => [\A s \in Stations, r \in Roles : Courtesy(s, r) => pkt.src \in owed[s]]_vars
  BY <1>3
<1> QED
  BY <1>1, <1>2, <1>4, TypeCorrect, PTL DEF Spec, CourtesyIsOwed
=============================================================================
