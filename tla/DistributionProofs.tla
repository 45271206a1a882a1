------------------------- MODULE DistributionProofs -------------------------
(***************************************************************************)
(* Proofs about the two ways of spreading a model over machines.           *)
(*                                                                         *)
(* DistRegistry, for any workers, layers, descriptors and numbers of       *)
(* connections: what the route search finds, and what the registry and a   *)
(* plan say of the workers.  The search is a recursive function over the   *)
(* layers.  What it computes is proved by induction from the last layer    *)
(* down (Downward), which rests on the least element of a set of numbers   *)
(* (LeastNatural).                                                         *)
(*                                                                         *)
(* TensorParallel, for any tokens, sessions and settings: what holds       *)
(* between the two ranks of a pair that nothing fails.  Two ranks in step  *)
(* are described from the one that is behind: what it waits at, what of it *)
(* is on the sockets, and what its peer is therefore at.  Most lemmas say  *)
(* what a step of one rank does to such a description; the shape of the    *)
(* lists of steps and of the queues of frames is behind all of them.       *)
(***************************************************************************)
EXTENDS DistRegistry, TensorParallel, WellFoundedInduction, FiniteSetTheorems,
        SequenceTheorems, TLAPS

\* A set of natural numbers that is not empty has a least element.
LEMMA LeastNatural ==
  ASSUME NEW T \in SUBSET Nat, T # {}
  PROVE  \E n \in T : \A m \in T : n <= m
<1> DEFINE R == OpToRel(<, Nat)
<1>1. IsWellFoundedOn(R, Nat)
  BY NatLessThanWellFounded
<1>2. ASSUME NEW m \in Nat, NEW n \in Nat, m < n PROVE <<m, n>> \in R
  BY <1>2 DEF OpToRel
<1> HIDE DEF R
<1>3. PICK n \in T : \A m \in T : ~(<<m, n>> \in R)
  BY <1>1, WFMin
<1>4. ASSUME NEW m \in T PROVE n <= m
  <2>1. m \in Nat /\ n \in Nat /\ <<m, n>> \notin R
    BY <1>3
  <2>2. ~(m < n)
    BY <1>2, <2>1
  <2>3. QED
    BY <2>1, <2>2
<1>5. QED
  BY <1>4

-----------------------------------------------------------------------------
(* The route search.                                                       *)

\* The layers an offer names, and that no candidate starts behind the last.
LEMMA Offers ==
  /\ LocalEnd \in Nat /\ LastLayer \in Nat /\ LocalEnd < LastLayer
  /\ \A w \in Workers :
       /\ Offer[w].from \in Nat /\ Offer[w].to \in Nat /\ Offer[w].output \in BOOLEAN
       /\ Offer[w].from <= Offer[w].to /\ Offer[w].to <= LastLayer
       /\ ~Ends(w) => Offer[w].to + 1 \in (Offer[w].from + 1)..LastLayer
  BY RegistryAssumption DEF Ends

\* Of the candidates from which a route goes on, one comes first.
LEMMA SomeFirst ==
  ASSUME NEW good \in SUBSET Workers, good # {}
  PROVE  \E w \in good : \A v \in good : ~Before(v, w)
<1>1. \E out \in SUBSET good :
        /\ out # {}
        /\ \A v \in good \ out : \A w \in out : ~Before(v, w)
        /\ \A v, w \in out : Offer[v].output = Offer[w].output
  <2>1. CASE \E w \in good : Offer[w].output
    <3> DEFINE out == {w \in good : Offer[w].output}
    <3>1. out # {} /\ out \in SUBSET good
      BY <2>1
    <3>2. \A v \in good \ out : \A w \in out : ~Before(v, w)
      BY Offers DEF Before
    <3>3. \A v, w \in out : Offer[v].output = Offer[w].output
      BY Offers
    <3>4. QED
      BY <3>1, <3>2, <3>3
  <2>2. CASE ~ \E w \in good : Offer[w].output
    BY <2>2, Offers
  <2>3. QED
    BY <2>1, <2>2
<1>2. PICK out \in SUBSET good :
        /\ out # {}
        /\ \A v \in good \ out : \A w \in out : ~Before(v, w)
        /\ \A v, w \in out : Offer[v].output = Offer[w].output
  BY <1>1
<1> DEFINE T == {LastLayer - Offer[w].to : w \in out}
<1>3. T \in SUBSET Nat /\ T # {}
  BY <1>2, Offers
<1>4. PICK n \in T : \A m \in T : n <= m
  BY <1>3, LeastNatural
<1>5. PICK w \in out : n = LastLayer - Offer[w].to
  BY <1>4
<1>6. \A v \in out : ~(Offer[v].to > Offer[w].to)
  <2>1. \A v \in out : LastLayer - Offer[w].to <= LastLayer - Offer[v].to
    BY <1>4, <1>5
  <2>2. QED
    BY <2>1, Offers
<1>7. \A v \in out : ~Before(v, w)
  BY <1>2, <1>6, Offers DEF Before
<1>8. QED
  BY <1>2, <1>7

\* Induction from the last layer down: a set of layers that has each layer
\* behind which it has all has every layer.
LEMMA Downward ==
  ASSUME NEW H \in SUBSET (0..LastLayer),
         \A n \in 0..LastLayer : (n + 1)..LastLayer \subseteq H => n \in H
  PROVE  H = 0..LastLayer
<1> DEFINE T == {k \in 0..LastLayer : LastLayer - k \notin H}
<1>1. LastLayer \in Nat
  BY Offers
<1>2. T = {}
  <2>1. SUFFICES ASSUME T # {} PROVE FALSE
    OBVIOUS
  <2>2. T \in SUBSET Nat
    OBVIOUS
  <2>3. PICK k \in T : \A j \in T : k <= j
    BY <2>1, <2>2, LeastNatural
  <2>4. k \in 0..LastLayer /\ LastLayer - k \notin H /\ LastLayer - k \in 0..LastLayer
    BY <1>1
  <2>5. ASSUME NEW m \in (LastLayer - k + 1)..LastLayer PROVE m \in H
    <3>1. LastLayer - m \in 0..LastLayer /\ ~(k <= LastLayer - m)
          /\ LastLayer - (LastLayer - m) = m
      BY <1>1, <2>4
    <3>2. LastLayer - m \notin T
      BY <2>3, <3>1
    <3>3. QED
      BY <3>1, <3>2
  <2>6. QED
    BY <2>4, <2>5
<1>3. ASSUME NEW n \in 0..LastLayer PROVE n \in H
  <2>1. LastLayer - n \in 0..LastLayer /\ LastLayer - (LastLayer - n) = n
    BY <1>1
  <2>2. QED
    BY <1>2, <2>1
<1>4. QED
  BY <1>3

\* What is found from layer n on depends on later layers only.
LEMMA SearchGoesOn ==
  ASSUME NEW ws \in SUBSET Workers, NEW n \in 0..LastLayer, NEW f, NEW g,
         \A m \in (n + 1)..LastLayer : f[m] = g[m]
  PROVE  Search(ws, f, n) = Search(ws, g, n)
<1>1. \A w \in Candidates(ws, n) : ~Ends(w) => f[Offer[w].to + 1] = g[Offer[w].to + 1]
  BY Offers DEF Candidates
<1> DEFINE good(h) == {w \in Candidates(ws, n) : Ends(w) \/ h[Offer[w].to + 1] # {}}
           best(h) == {w \in good(h) : \A v \in good(h) : ~Before(v, w)}
           of(h, w) == IF Ends(w) THEN {<<w>>} ELSE {<<w>> \o p : p \in h[Offer[w].to + 1]}
<1>2. good(f) = good(g)
  BY <1>1
<1>3. best(f) = best(g) /\ best(f) \subseteq Candidates(ws, n)
  BY <1>2
<1>4. \A w \in best(f) : of(f, w) = of(g, w)
  BY <1>1, <1>3
<1>5. {of(f, w) : w \in best(f)} = {of(g, w) : w \in best(g)}
  <2> HIDE DEF best, of
  <2>1. \A x : x \in {of(f, w) : w \in best(f)} <=> x \in {of(g, w) : w \in best(g)}
    BY <1>3, <1>4
  <2>2. QED
    BY <2>1
<1>6. Search(ws, f, n) = UNION {of(f, w) : w \in best(f)}
  BY DEF Search
<1>7. Search(ws, g, n) = UNION {of(g, w) : w \in best(g)}
  BY DEF Search
<1>8. QED
  BY <1>5, <1>6, <1>7

\* The recursion has a solution.
LEMMA SearchDefined ==
  ASSUME NEW ws \in SUBSET Workers
  PROVE  \E from : from = [n \in 0..LastLayer |-> Search(ws, from, n)]
<1> DEFINE Good(n, f) == \A m \in n..LastLayer : f[m] = Search(ws, f, m)
           H == {n \in 0..LastLayer : \E f : Good(n, f)}
<1>1. LastLayer \in Nat
  BY Offers
<1>2. ASSUME NEW n \in 0..LastLayer, (n + 1)..LastLayer \subseteq H
      PROVE  \E f : Good(n, f)
  <2>1. \E f : Good(n + 1, f)
    <3>1. CASE n = LastLayer
      <4>1. (n + 1)..LastLayer = {}
        BY <1>1, <3>1
      <4>2. QED
        BY <4>1
    <3>2. CASE n # LastLayer
      <4>1. n + 1 \in (n + 1)..LastLayer
        BY <1>1, <3>2
      <4>2. QED
        BY <1>2, <4>1
    <3>3. QED
      BY <3>1, <3>2
  <2>2. PICK f : \A m \in (n + 1)..LastLayer : f[m] = Search(ws, f, m)
    BY <2>1
  <2> DEFINE h == [m \in 0..LastLayer |-> IF m = n THEN Search(ws, f, n) ELSE f[m]]
  <2>3. h[n] = Search(ws, f, n) /\ \A m \in (n + 1)..LastLayer : h[m] = f[m]
    BY <1>1
  <2> HIDE DEF h
  <2>4. ASSUME NEW m \in n..LastLayer PROVE h[m] = Search(ws, h, m)
    <3>1. m \in 0..LastLayer /\ \A i \in (m + 1)..LastLayer : h[i] = f[i]
      BY <1>1, <2>3
    <3>2. Search(ws, h, m) = Search(ws, f, m)
      BY <3>1, SearchGoesOn
    <3>3. CASE m = n
      BY <2>3, <3>2, <3>3
    <3>4. CASE m # n
      <4>1. m \in (n + 1)..LastLayer
        BY <1>1, <3>4
      <4>2. QED
        BY <2>2, <2>3, <3>2, <4>1
    <3>5. QED
      BY <3>3, <3>4
  <2>5. QED
    BY <2>4
<1>3. \A n \in 0..LastLayer : (n + 1)..LastLayer \subseteq H => n \in H
  BY <1>2
<1>4. 0 \in H
  <2> HIDE DEF H
  <2>1. H \in SUBSET (0..LastLayer)
    BY DEF H
  <2>2. QED
    BY <1>1, <1>3, <2>1, Downward
<1>5. PICK f : \A n \in 0..LastLayer : f[n] = Search(ws, f, n)
  BY <1>4
<1> DEFINE from == [n \in 0..LastLayer |-> f[n]]
<1>6. ASSUME NEW n \in 0..LastLayer PROVE from[n] = Search(ws, from, n)
  <2>1. \A m \in (n + 1)..LastLayer : from[m] = f[m]
    BY <1>1
  <2> HIDE DEF from
  <2>2. Search(ws, from, n) = Search(ws, f, n)
    BY <2>1, SearchGoesOn
  <2>3. from[n] = f[n]
    BY DEF from
  <2>4. QED
    BY <1>5, <2>2, <2>3
<1>7. from = [n \in 0..LastLayer |-> Search(ws, from, n)]
  BY <1>6
<1>8. QED
  BY <1>7

\* The routes the coordinator chooses among are those found from the first
\* layer it does not evaluate itself.
LEMMA PathsAre ==
  ASSUME NEW ws \in SUBSET Workers
  PROVE  \E from : /\ from = [n \in 0..LastLayer |-> Search(ws, from, n)]
                   /\ Paths(ws) = from[LocalEnd + 1]
<1> DEFINE from == CHOOSE f : f = [n \in 0..LastLayer |-> Search(ws, f, n)]
<1>1. from = [n \in 0..LastLayer |-> Search(ws, from, n)]
  BY SearchDefined
<1>2. Paths(ws) = from[LocalEnd + 1]
  BY DEF Paths
<1>3. QED
  BY <1>1, <1>2

\* A route from layer n on.
RouteFrom(p, ws, n) ==
  /\ p \in Seq(ws) /\ p # <<>>
  /\ Offer[p[1]].from = n /\ Ends(p[Len(p)])
  /\ \A i \in 1..Len(p) : CandidateOk(p[i])
  /\ \A i \in 1..Len(p) - 1 : Offer[p[i + 1]].from = Offer[p[i]].to + 1

\* A worker before a route that goes on from it is a route.
LEMMA RouteBefore ==
  ASSUME NEW ws \in SUBSET Workers, NEW n \in 0..LastLayer, NEW w \in Candidates(ws, n),
         NEW q, RouteFrom(q, ws, Offer[w].to + 1)
  PROVE  RouteFrom(<<w>> \o q, ws, n)
<1> DEFINE p == <<w>> \o q
<1>1. w \in ws /\ Offer[w].from = n /\ CandidateOk(w)
  BY DEF Candidates
<1>2. /\ q \in Seq(ws) /\ q # <<>> /\ Len(q) \in Nat /\ Len(q) > 0
      /\ Offer[q[1]].from = Offer[w].to + 1 /\ Ends(q[Len(q)])
      /\ \A i \in 1..Len(q) : CandidateOk(q[i])
      /\ \A i \in 1..Len(q) - 1 : Offer[q[i + 1]].from = Offer[q[i]].to + 1
  BY DEF RouteFrom
<1>3. /\ p \in Seq(ws) /\ Len(p) = Len(q) + 1 /\ p[1] = w
      /\ \A i \in 2..Len(p) : p[i] = q[i - 1]
  BY <1>1, <1>2
<1> HIDE DEF p
<1>4. p # <<>> /\ Ends(p[Len(p)])
  BY <1>2, <1>3
<1>5. ASSUME NEW i \in 1..Len(p) PROVE CandidateOk(p[i])
  <2>1. CASE i = 1
    BY <1>1, <1>3, <2>1
  <2>2. CASE i # 1
    <3>1. i \in 2..Len(p) /\ i - 1 \in 1..Len(q)
      BY <1>2, <1>3, <2>2
    <3>2. p[i] = q[i - 1] /\ CandidateOk(q[i - 1])
      BY <1>2, <1>3, <3>1
    <3>3. QED
      BY <3>2
  <2>3. QED
    BY <2>1, <2>2
<1>6. ASSUME NEW i \in 1..Len(p) - 1 PROVE Offer[p[i + 1]].from = Offer[p[i]].to + 1
  <2>1. CASE i = 1
    <3>1. p[i + 1] = q[1] /\ p[i] = w
      BY <1>2, <1>3, <2>1
    <3>2. QED
      BY <1>2, <3>1
  <2>2. CASE i # 1
    <3>1. /\ i - 1 \in 1..Len(q) - 1 /\ (i - 1) + 1 = i /\ (i + 1) - 1 = i
          /\ i \in 2..Len(p) /\ i + 1 \in 2..Len(p)
      BY <1>2, <1>3, <2>2
    <3>2. p[i] = q[i - 1] /\ p[i + 1] = q[(i + 1) - 1]
      BY <1>3, <3>1
    <3>3. Offer[q[(i - 1) + 1]].from = Offer[q[i - 1]].to + 1
      BY <1>2, <3>1
    <3>4. QED
      BY <3>1, <3>2, <3>3
  <2>3. QED
    BY <2>1, <2>2
<1>7. QED
  BY <1>1, <1>3, <1>4, <1>5, <1>6 DEF RouteFrom, p

\* A route that its first worker does not end goes on behind it.
LEMMA RouteBehind ==
  ASSUME NEW ws \in SUBSET Workers, NEW n \in 0..LastLayer, NEW p, RouteFrom(p, ws, n),
         ~Ends(p[1])
  PROVE  RouteFrom(Tail(p), ws, Offer[p[1]].to + 1)
<1> DEFINE q == Tail(p)
<1>1. /\ p \in Seq(ws) /\ p # <<>> /\ Len(p) \in Nat /\ Len(p) > 0
      /\ Ends(p[Len(p)])
      /\ \A i \in 1..Len(p) : CandidateOk(p[i])
      /\ \A i \in 1..Len(p) - 1 : Offer[p[i + 1]].from = Offer[p[i]].to + 1
  BY DEF RouteFrom
<1>2. Len(p) > 1
  <2>1. Len(p) # 1
    BY <1>1
  <2>2. QED
    BY <1>1, <2>1
<1>3. /\ q \in Seq(ws) /\ Len(q) = Len(p) - 1
      /\ \A i \in 1..Len(q) : q[i] = p[i + 1]
  BY <1>1, <1>2
<1> HIDE DEF q
<1>4. q # <<>> /\ Ends(q[Len(q)]) /\ q[1] = p[2]
  BY <1>1, <1>2, <1>3
<1>5. Offer[q[1]].from = Offer[p[1]].to + 1
  <2>1. 1 \in 1..Len(p) - 1 /\ 1 + 1 = 2
    BY <1>1, <1>2
  <2>2. Offer[p[1 + 1]].from = Offer[p[1]].to + 1
    BY <1>1, <2>1
  <2>3. QED
    BY <1>4, <2>1, <2>2
<1>6. \A i \in 1..Len(q) : CandidateOk(q[i])
  BY <1>1, <1>3
<1>7. ASSUME NEW i \in 1..Len(q) - 1 PROVE Offer[q[i + 1]].from = Offer[q[i]].to + 1
  <2>1. i + 1 \in 1..Len(p) - 1 /\ q[i + 1] = p[(i + 1) + 1] /\ q[i] = p[i + 1]
    BY <1>1, <1>2, <1>3
  <2>2. Offer[p[(i + 1) + 1]].from = Offer[p[i + 1]].to + 1
    BY <1>1, <2>1
  <2>3. QED
    BY <2>1, <2>2
<1>8. QED
  BY <1>3, <1>4, <1>5, <1>6, <1>7 DEF RouteFrom, q

\* Everything the search returns is a route.
LEMMA FoundIsRoute ==
  ASSUME NEW ws \in SUBSET Workers, NEW from,
         from = [n \in 0..LastLayer |-> Search(ws, from, n)]
  PROVE  \A n \in 0..LastLayer : \A p \in from[n] : RouteFrom(p, ws, n)
<1> DEFINE H == {n \in 0..LastLayer : \A p \in from[n] : RouteFrom(p, ws, n)}
<1>1. ASSUME NEW n \in 0..LastLayer, (n + 1)..LastLayer \subseteq H,
             NEW p \in from[n]
      PROVE  RouteFrom(p, ws, n)
  <2>1. from[n] = Search(ws, from, n)
    OBVIOUS
  <2>2. PICK w \in Candidates(ws, n) :
          p \in IF Ends(w) THEN {<<w>>} ELSE {<<w>> \o q : q \in from[Offer[w].to + 1]}
    BY <1>1, <2>1 DEF Search
  <2>3. CASE Ends(w)
    <3>1. p = <<w>>
      BY <2>2, <2>3
    <3>2. w \in ws /\ Offer[w].from = n /\ CandidateOk(w)
      BY DEF Candidates
    <3>3. p \in Seq(ws) /\ p # <<>> /\ Len(p) = 1 /\ p[1] = w
      BY <3>1, <3>2
    <3>4. QED
      BY <2>3, <3>2, <3>3 DEF RouteFrom
  <2>4. CASE ~Ends(w)
    <3>1. PICK q \in from[Offer[w].to + 1] : p = <<w>> \o q
      BY <2>2, <2>4
    <3>2. Offer[w].to + 1 \in (n + 1)..LastLayer
      BY <2>4, Offers DEF Candidates
    <3>3. RouteFrom(q, ws, Offer[w].to + 1)
      BY <1>1, <3>1, <3>2
    <3>4. QED
      BY <3>1, <3>3, RouteBefore
  <2>5. QED
    BY <2>3, <2>4
<1>2. \A n \in 0..LastLayer : (n + 1)..LastLayer \subseteq H => n \in H
  BY <1>1
<1> HIDE DEF H
<1>3. H \in SUBSET (0..LastLayer)
  BY DEF H
<1>4. H = 0..LastLayer
  BY <1>2, <1>3, Downward
<1>5. QED
  BY <1>4 DEF H

\* Where there is a route the search finds one.
LEMMA RouteIsFound ==
  ASSUME NEW ws \in SUBSET Workers, NEW from,
         from = [n \in 0..LastLayer |-> Search(ws, from, n)]
  PROVE  \A n \in 0..LastLayer : (\E p : RouteFrom(p, ws, n)) => from[n] # {}
<1> DEFINE H == {n \in 0..LastLayer : (\E p : RouteFrom(p, ws, n)) => from[n] # {}}
<1>1. ASSUME NEW n \in 0..LastLayer, (n + 1)..LastLayer \subseteq H,
             NEW p, RouteFrom(p, ws, n)
      PROVE  from[n] # {}
  <2> DEFINE good == {w \in Candidates(ws, n) : Ends(w) \/ from[Offer[w].to + 1] # {}}
  <2>1. from[n] = Search(ws, from, n)
    OBVIOUS
  <2>2. p \in Seq(ws) /\ Len(p) \in Nat /\ Len(p) > 0 /\ p[1] \in ws
    BY <1>1 DEF RouteFrom
  <2>3. p[1] \in Candidates(ws, n)
    BY <1>1, <2>2 DEF RouteFrom, Candidates
  <2>4. p[1] \in good
    <3>1. CASE Ends(p[1])
      BY <2>3, <3>1
    <3>2. CASE ~Ends(p[1])
      <4>1. RouteFrom(Tail(p), ws, Offer[p[1]].to + 1)
        BY <1>1, <3>2, RouteBehind
      <4>2. Offer[p[1]].to + 1 \in (n + 1)..LastLayer
        BY <2>3, <3>2, Offers DEF Candidates
      <4>3. from[Offer[p[1]].to + 1] # {}
        BY <1>1, <4>1, <4>2
      <4>4. QED
        BY <2>3, <4>3
    <3>3. QED
      BY <3>1, <3>2
  <2>5. good \in SUBSET Workers
    BY DEF Candidates
  <2>6. PICK w \in good : \A v \in good : ~Before(v, w)
    <3> HIDE DEF good
    <3>1. QED
      BY <2>4, <2>5, SomeFirst
  <2>7. \E x : x \in IF Ends(w) THEN {<<w>>} ELSE {<<w>> \o q : q \in from[Offer[w].to + 1]}
    BY <2>6
  <2> DEFINE best == {v \in good : \A u \in good : ~Before(u, v)}
             of(v) == IF Ends(v) THEN {<<v>>} ELSE {<<v>> \o q : q \in from[Offer[v].to + 1]}
  <2>8. from[n] = UNION {of(v) : v \in best}
    BY <2>1 DEF Search
  <2>9. w \in best
    BY <2>6
  <2> HIDE DEF best, of
  <2>10. of(w) \subseteq from[n]
    BY <2>8, <2>9
  <2>11. QED
    BY <2>7, <2>10 DEF of
<1>2. \A n \in 0..LastLayer : (n + 1)..LastLayer \subseteq H => n \in H
  BY <1>1
<1> HIDE DEF H
<1>3. H \in SUBSET (0..LastLayer)
  BY DEF H
<1>4. H = 0..LastLayer
  BY <1>2, <1>3, Downward
<1>5. QED
  BY <1>4 DEF H

\* Of any set of workers, the routes the coordinator plans from are routes, and
\* there is one when the workers make one.
LEMMA PathsFindRoutes ==
  ASSUME NEW ws \in SUBSET Workers
  PROVE  /\ \A p \in Paths(ws) : p \in Seq(Workers) /\ IsRoute(p, ws)
         /\ \A p \in Seq(ws) : IsRoute(p, ws) => Paths(ws) # {}
<1>1. PICK from : /\ from = [n \in 0..LastLayer |-> Search(ws, from, n)]
                  /\ Paths(ws) = from[LocalEnd + 1]
  BY PathsAre
<1>2. LocalEnd + 1 \in 0..LastLayer
  BY Offers
<1>3. ASSUME NEW p \in Paths(ws) PROVE p \in Seq(Workers) /\ IsRoute(p, ws)
  <2>1. RouteFrom(p, ws, LocalEnd + 1)
    BY <1>1, <1>2, FoundIsRoute
  <2>2. p \in Seq(ws) /\ DOMAIN p = 1..Len(p) /\ \A i \in 1..Len(p) : p[i] \in ws
    BY <2>1 DEF RouteFrom
  <2>3. Range(p) \subseteq ws
    BY <2>2 DEF Range
  <2>4. p \in Seq(Workers)
    BY <2>2
  <2>5. QED
    BY <2>1, <2>2, <2>3, <2>4 DEF RouteFrom, IsRoute
<1>4. ASSUME NEW p \in Seq(ws), IsRoute(p, ws) PROVE Paths(ws) # {}
  <2>1. RouteFrom(p, ws, LocalEnd + 1)
    BY <1>4 DEF RouteFrom, IsRoute
  <2>2. QED
    BY <1>1, <1>2, <2>1, RouteIsFound
<1>5. QED
  BY <1>3, <1>4

-----------------------------------------------------------------------------
(* The registry.                                                           *)

Pcs == {"none", "hello", "monitor", "remove", "close", "gone"}

LEMMA Numbers ==
  /\ Fds \subseteq Nat /\ 0 \notin Fds
  /\ MaxConns \in Nat /\ Conns \subseteq Nat /\ 0 \notin Conns
<1>1. Cardinality(Fds) \in Nat
  BY RegistryAssumption, FS_CardinalityType
<1>2. \A n \in Nat : 1..n \subseteq Nat /\ 0 \notin 1..n
  OBVIOUS
<1>3. MaxConns \in Nat /\ Fds = 1..Cardinality(Fds)
  BY RegistryAssumption
<1>4. QED
  BY <1>1, <1>2, <1>3 DEF Conns

\* What the invariant says of one connection, entry and of the plan.
LEMMA Facts ==
  ASSUME RegistryInv
  PROVE  /\ Len(who) \in Nat
         /\ \A c \in 1..Len(who) :
              /\ c \in Conns /\ c # 0 /\ who[c] \in Workers
              /\ thread[c].fd \in Fds /\ thread[c].pc \in Pcs
         /\ \A e \in entries : e.fd \in Fds /\ e.who \in Workers
         /\ \A f \in Fds : fds[f] \in 0..Len(who)
         /\ plan.fd \in Fds \cup {0} /\ plan.gen \in Nat /\ generation \in Nat
<1>1. who \in Seq(Workers) /\ Len(who) \in Nat /\ Len(who) <= MaxConns /\ MaxConns \in Nat
  BY Numbers DEF RegistryInv, TypeOK
<1>2. thread \in [Conns -> [fd : Fds \cup {0}, pc : Pcs]]
  BY DEF RegistryInv, TypeOK, Pcs
<1>3. ASSUME NEW c \in 1..Len(who)
      PROVE  /\ c \in Conns /\ c # 0 /\ who[c] \in Workers
             /\ thread[c].fd \in Fds /\ thread[c].pc \in Pcs
  <2>1. c \in Conns /\ c # 0 /\ who[c] \in Workers
    BY <1>1 DEF Conns
  <2>2. thread[c] \in [fd : Fds \cup {0}, pc : Pcs]
    BY <1>2, <2>1
  <2>3. QED
    BY <2>1, <2>2 DEF RegistryInv, Started
<1>4. QED
  BY <1>1, <1>3 DEF RegistryInv, TypeOK

\* A thread that goes on keeps its descriptor, and the others keep everything.
LEMMA MovesOn ==
  ASSUME RegistryInv, NEW c \in 1..Len(who), NEW pc \in Pcs, Goes(c, pc), pc # "none"
  PROVE  /\ thread' \in [Conns -> [fd : Fds \cup {0}, pc : Pcs]]
         /\ \A d \in 1..Len(who) :
              /\ thread'[d].fd = thread[d].fd
              /\ thread'[d].pc = IF d = c THEN pc ELSE thread[d].pc
         /\ who' = who => Started'
<1>1. thread \in [Conns -> [fd : Fds \cup {0}, pc : Pcs]]
  BY DEF RegistryInv, TypeOK, Pcs
<1>2. thread' = [thread EXCEPT ![c].pc = pc] /\ c \in Conns
  BY Facts DEF Goes
<1>3. \A d \in Conns : thread'[d] \in [fd : Fds \cup {0}, pc : Pcs]
  BY <1>1, <1>2
<1>4. \A d \in Conns : /\ thread'[d].fd = thread[d].fd
                       /\ thread'[d].pc = IF d = c THEN pc ELSE thread[d].pc
  BY <1>1, <1>2
<1>5. thread' \in [Conns -> [fd : Fds \cup {0}, pc : Pcs]]
  BY <1>1, <1>2, <1>3
<1>6. \A d \in 1..Len(who) : /\ thread'[d].fd = thread[d].fd
                             /\ thread'[d].pc = IF d = c THEN pc ELSE thread[d].pc
  BY <1>4, Facts
<1>7. who' = who => Started'
  BY <1>6 DEF RegistryInv, Started
<1>8. QED
  BY <1>5, <1>6, <1>7

-----------------------------------------------------------------------------
LEMMA InitInv == Init => RegistryInv
<1> SUFFICES ASSUME Init PROVE RegistryInv
  OBVIOUS
<1>1. Len(who) = 0 /\ who \in Seq(Workers) /\ 1..Len(who) = {}
  BY DEF Init
<1>2. 0 \in 0..Len(who) /\ 0 <= MaxConns
  BY <1>1, Numbers
<1>3. fds \in [Fds -> 0..Len(who)] /\ current \in [Workers -> 0..Len(who)]
  BY <1>2 DEF Init
<1>4. thread \in [Conns -> [fd : Fds \cup {0}, pc : Pcs]]
  BY DEF Init, Away, Pcs
<1>5. plan \in [ready : BOOLEAN, gen : Nat, path : Seq(Workers), fd : Fds \cup {0}]
  BY DEF Init, NoPlan
<1>6. TypeOK
  BY <1>1, <1>2, <1>3, <1>4, <1>5 DEF Init, TypeOK, Pcs
<1>7. PlanMade
  BY Numbers DEF Init, NoPlan, PlanMade, PlanIsCurrent
<1>8. Started /\ Owners
  BY <1>1 DEF Init, NoPlan, Started, Owners
<1>9. QED
  BY <1>6, <1>7, <1>8 DEF RegistryInv

LEMMA ConnectInv ==
  ASSUME RegistryInv, NEW w \in Workers, Connect(w)
  PROVE  RegistryInv'
<1> DEFINE c == Len(who) + 1
<1>1. PICK f \in Lowest(fds) :
        /\ fds' = [fds EXCEPT ![f] = c]
        /\ thread' = [thread EXCEPT ![c] = [fd |-> f, pc |-> "hello"]]
        /\ current' = [current EXCEPT ![w] = c]
  BY DEF Connect
<1>2. /\ UNCHANGED <<entries, generation, plan, forgotten>>
      /\ who' = Append(who, w) /\ Len(who) < MaxConns
  BY DEF Connect
<1>3. f \in Fds /\ fds[f] = 0
  BY <1>1 DEF Lowest
<1>4. who \in Seq(Workers) /\ Len(who) \in Nat /\ MaxConns \in Nat
  BY Facts, Numbers DEF RegistryInv, TypeOK
<1>5. /\ who' \in Seq(Workers) /\ Len(who') = c /\ c <= MaxConns
      /\ \A d \in 1..Len(who) : who'[d] = who[d]
      /\ 1..Len(who') = 1..Len(who) \cup {c} /\ c \in Conns /\ c \notin 1..Len(who)
      /\ 0..Len(who) \subseteq 0..Len(who') /\ c \in 0..Len(who') /\ c # 0
  BY <1>2, <1>4 DEF Conns
<1> HIDE DEF c
<1>6. /\ fds' \in [Fds -> 0..Len(who')]
      /\ \A g \in Fds : fds'[g] = IF g = f THEN c ELSE fds[g]
  <2>1. fds \in [Fds -> 0..Len(who)]
    BY DEF RegistryInv, TypeOK
  <2>2. QED
    BY <1>1, <1>3, <1>5, <2>1
<1>7. current' \in [Workers -> 0..Len(who')]
  <2>1. current \in [Workers -> 0..Len(who)]
    BY DEF RegistryInv, TypeOK
  <2>2. QED
    BY <1>1, <1>5, <2>1
<1>8. /\ thread' \in [Conns -> [fd : Fds \cup {0}, pc : Pcs]]
      /\ \A d \in Conns : thread'[d] = IF d = c THEN [fd |-> f, pc |-> "hello"] ELSE thread[d]
  <2>1. thread \in [Conns -> [fd : Fds \cup {0}, pc : Pcs]]
    BY DEF RegistryInv, TypeOK, Pcs
  <2>2. [fd |-> f, pc |-> "hello"] \in [fd : Fds \cup {0}, pc : Pcs]
    BY <1>3 DEF Pcs
  <2>3. QED
    BY <1>1, <1>5, <2>1, <2>2
<1>9. TypeOK'
  BY <1>2, <1>5, <1>6, <1>7, <1>8 DEF RegistryInv, TypeOK, Pcs
<1>10. /\ \A d \in 1..Len(who) : thread'[d] = thread[d]
       /\ thread'[c].fd = f /\ thread'[c].pc = "hello"
  BY <1>5, <1>8, Facts
<1>11. Started'
  BY <1>3, <1>5, <1>10 DEF RegistryInv, Started
<1>12. PlanMade'
  BY <1>2 DEF RegistryInv, PlanMade, PlanIsCurrent, Registered
<1>13. ASSUME forgotten = 0 PROVE Owners'
  <2>1. f # plan.fd
    <3>1. plan.fd \in Fds => fds[plan.fd] # 0
      BY <1>13 DEF RegistryInv, Owners, PlanMade
    <3>2. QED
      BY <1>3, <3>1
  <2>2. ASSUME NEW d \in 1..Len(who'), Holds(d)'
        PROVE  fds'[thread'[d].fd] = d /\ thread'[d].fd # plan'.fd
    <3>1. CASE d = c
      BY <1>2, <1>3, <1>6, <1>10, <2>1, <3>1
    <3>2. CASE d \in 1..Len(who)
      <4>1. Holds(d) /\ thread'[d].fd = thread[d].fd
        BY <1>10, <2>2, <3>2 DEF Holds
      <4>2. fds[thread[d].fd] = d /\ thread[d].fd # plan.fd /\ thread[d].fd \in Fds /\ d # 0
        BY <1>13, <3>2, <4>1, Facts DEF RegistryInv, Owners
      <4>3. QED
        BY <1>2, <1>3, <1>6, <4>1, <4>2
    <3>3. QED
      BY <1>5, <3>1, <3>2
  <2>3. ASSUME NEW e \in entries'
        PROVE  \E d \in 1..Len(who') : /\ thread'[d].pc \in {"monitor", "remove"}
                                       /\ thread'[d].fd = e.fd /\ who'[d] = e.who
    <3>1. PICK d \in 1..Len(who) : /\ thread[d].pc \in {"monitor", "remove"}
                                   /\ thread[d].fd = e.fd /\ who[d] = e.who
      BY <1>2, <1>13 DEF RegistryInv, Owners
    <3>2. d \in 1..Len(who') /\ thread'[d] = thread[d] /\ who'[d] = who[d]
      BY <1>5, <1>10
    <3>3. QED
      BY <3>1, <3>2
  <2>4. ASSUME NEW d \in entries', NEW e \in entries', Same(d.who, e.who)
        PROVE  d = e
    BY <1>2, <1>13, <2>4 DEF RegistryInv, Owners
  <2>5. plan'.ready => fds'[plan'.fd] # 0 /\ who'[fds'[plan'.fd]] = plan'.path[1]
    <3>1. SUFFICES ASSUME plan.ready PROVE fds'[plan.fd] # 0 /\ who'[fds'[plan.fd]] = plan.path[1]
      BY <1>2
    <3>2. plan.fd \in Fds /\ fds[plan.fd] # 0 /\ who[fds[plan.fd]] = plan.path[1]
      BY <1>13, <3>1 DEF RegistryInv, Owners, PlanMade
    <3>3. fds'[plan.fd] = fds[plan.fd] /\ fds[plan.fd] \in 1..Len(who)
      BY <1>4, <1>6, <2>1, <3>2, Facts
    <3>4. QED
      BY <1>5, <3>2, <3>3
  <2>6. QED
    BY <2>2, <2>3, <2>4, <2>5 DEF Owners, Holds, Same
<1>14. forgotten # 0 => Owners'
  BY <1>2 DEF Owners
<1>15. QED
  BY <1>9, <1>11, <1>12, <1>13, <1>14 DEF RegistryInv

LEMMA LeaveInv ==
  ASSUME RegistryInv, NEW w \in Workers, Leave(w)
  PROVE  RegistryInv'
<1>1. /\ UNCHANGED <<fds, who, thread, entries, generation, plan, forgotten>>
      /\ current' = [current EXCEPT ![w] = 0]
  BY DEF Leave
<1>2. current' \in [Workers -> 0..Len(who)]
  <2>1. current \in [Workers -> 0..Len(who)] /\ 0 \in 0..Len(who)
    BY Facts DEF RegistryInv, TypeOK
  <2>2. QED
    BY <1>1, <2>1
<1>3. TypeOK'
  BY <1>1, <1>2 DEF RegistryInv, TypeOK
<1>4. Started' /\ PlanMade'
  BY <1>1 DEF RegistryInv, Started, PlanMade, PlanIsCurrent, Registered
<1>5. Owners'
  BY <1>1 DEF RegistryInv, Owners, Holds
<1>6. QED
  BY <1>3, <1>4, <1>5 DEF RegistryInv

\* A thread that was not watching a connection goes on, and nothing else
\* changes: what it owned, if it owned anything, it still owns.
LEMMA GoesOnInv ==
  ASSUME RegistryInv, NEW c \in 1..Len(who), NEW pc \in Pcs, Goes(c, pc),
         \/ thread[c].pc = "hello" /\ pc = "close"
         \/ thread[c].pc = "monitor" /\ pc = "remove",
         UNCHANGED <<fds, who, current, entries, generation, plan, forgotten>>
  PROVE  RegistryInv'
<1>1. /\ thread' \in [Conns -> [fd : Fds \cup {0}, pc : Pcs]]
      /\ \A d \in 1..Len(who) : /\ thread'[d].fd = thread[d].fd
                                /\ thread'[d].pc = IF d = c THEN pc ELSE thread[d].pc
      /\ Started'
  BY MovesOn
<1>2. TypeOK'
  BY <1>1 DEF RegistryInv, TypeOK, Pcs
<1>3. PlanMade'
  BY DEF RegistryInv, PlanMade, PlanIsCurrent, Registered
<1>4. ASSUME forgotten = 0 PROVE Owners'
  <2>1. ASSUME NEW d \in 1..Len(who'), Holds(d)'
        PROVE  fds'[thread'[d].fd] = d /\ thread'[d].fd # plan'.fd
    <3>1. d \in 1..Len(who) /\ Holds(d)
      BY <1>1, <2>1 DEF Holds
    <3>2. QED
      BY <1>1, <1>4, <3>1 DEF RegistryInv, Owners
  <2>2. ASSUME NEW e \in entries'
        PROVE  \E d \in 1..Len(who') : /\ thread'[d].pc \in {"monitor", "remove"}
                                       /\ thread'[d].fd = e.fd /\ who'[d] = e.who
    <3>1. PICK d \in 1..Len(who) : /\ thread[d].pc \in {"monitor", "remove"}
                                   /\ thread[d].fd = e.fd /\ who[d] = e.who
      BY <1>4 DEF RegistryInv, Owners
    <3>2. thread'[d].pc \in {"monitor", "remove"} /\ thread'[d].fd = e.fd
      BY <1>1, <3>1
    <3>3. QED
      BY <3>1, <3>2
  <2>3. /\ \A d, e \in entries' : Same(d.who, e.who) => d = e
        /\ plan'.ready => fds'[plan'.fd] # 0 /\ who'[fds'[plan'.fd]] = plan'.path[1]
    BY <1>4 DEF RegistryInv, Owners
  <2>4. QED
    BY <2>1, <2>2, <2>3 DEF Owners, Holds, Same
<1>5. forgotten # 0 => Owners'
  BY DEF Owners
<1>6. QED
  BY <1>1, <1>2, <1>3, <1>4, <1>5 DEF RegistryInv

LEMMA AddWorkerInv ==
  ASSUME RegistryInv, NEW c \in 1..Len(who), AddWorker(c)
  PROVE  RegistryInv'
<1> DEFINE added == [fd |-> thread[c].fd, who |-> who[c]]
<1>1. /\ thread[c].pc = "hello" /\ fds[thread[c].fd] = c /\ Goes(c, "monitor")
      /\ entries' = {e \in entries : ~Same(e.who, who[c])} \cup {added}
      /\ generation' = generation + 1
      /\ UNCHANGED <<fds, who, current, plan, forgotten>>
  BY DEF AddWorker
<1>2. /\ thread' \in [Conns -> [fd : Fds \cup {0}, pc : Pcs]]
      /\ \A d \in 1..Len(who) : /\ thread'[d].fd = thread[d].fd
                                /\ thread'[d].pc = IF d = c THEN "monitor" ELSE thread[d].pc
      /\ Started'
  BY <1>1, MovesOn DEF Pcs
<1>3. added \in [fd : Fds, who : Workers] /\ added.fd = thread[c].fd /\ added.who = who[c]
  BY Facts
<1> HIDE DEF added
<1>4. TypeOK'
  <2>1. entries' \subseteq [fd : Fds, who : Workers] /\ generation' \in Nat
    BY <1>1, <1>3 DEF RegistryInv, TypeOK
  <2>2. QED
    BY <1>1, <1>2, <2>1 DEF RegistryInv, TypeOK, Pcs
<1>5. PlanMade'
  <2>1. plan.gen <= generation /\ plan.gen \in Nat /\ generation \in Nat
    BY Facts DEF RegistryInv, PlanMade
  <2>2. plan'.gen <= generation' /\ plan'.gen # generation'
    BY <1>1, <2>1
  <2>3. QED
    BY <1>1, <2>2 DEF RegistryInv, PlanMade, PlanIsCurrent
<1>6. ASSUME forgotten = 0 PROVE Owners'
  <2>1. ASSUME NEW d \in 1..Len(who'), Holds(d)'
        PROVE  fds'[thread'[d].fd] = d /\ thread'[d].fd # plan'.fd
    <3>1. d \in 1..Len(who) /\ Holds(d)
      BY <1>1, <1>2, <2>1 DEF Holds
    <3>2. QED
      BY <1>1, <1>2, <1>6, <3>1 DEF RegistryInv, Owners
  <2>2. ASSUME NEW e \in entries'
        PROVE  \E d \in 1..Len(who') : /\ thread'[d].pc \in {"monitor", "remove"}
                                       /\ thread'[d].fd = e.fd /\ who'[d] = e.who
    <3>1. CASE e = added
      BY <1>1, <1>2, <1>3, <3>1
    <3>2. CASE e \in entries
      <4>1. PICK d \in 1..Len(who) : /\ thread[d].pc \in {"monitor", "remove"}
                                     /\ thread[d].fd = e.fd /\ who[d] = e.who
        BY <1>6, <3>2 DEF RegistryInv, Owners
      <4>2. thread'[d].pc \in {"monitor", "remove"} /\ thread'[d].fd = e.fd
        BY <1>2, <4>1
      <4>3. QED
        BY <1>1, <4>1, <4>2
    <3>3. QED
      BY <1>1, <3>1, <3>2
  <2>3. ASSUME NEW d \in entries', NEW e \in entries', Same(d.who, e.who)
        PROVE  d = e
    <3>1. d \in entries /\ e \in entries => d = e
      BY <1>6, <2>3 DEF RegistryInv, Owners
    <3>2. ASSUME NEW x \in entries', x # added
          PROVE  /\ x \in entries /\ ~Same(x.who, added.who) /\ ~Same(added.who, x.who)
      BY <1>1, <1>3, <3>2 DEF Same
    <3>3. QED
      BY <2>3, <3>1, <3>2
  <2>4. plan'.ready => fds'[plan'.fd] # 0 /\ who'[fds'[plan'.fd]] = plan'.path[1]
    BY <1>1, <1>6 DEF RegistryInv, Owners
  <2>5. QED
    BY <2>1, <2>2, <2>3, <2>4 DEF Owners, Holds, Same
<1>7. forgotten # 0 => Owners'
  BY <1>1 DEF Owners
<1>8. QED
  BY <1>2, <1>4, <1>5, <1>6, <1>7 DEF RegistryInv

\* Entries removed, and counted when there were any, leave a current plan
\* current.
LEMMA RemovedPlan ==
  ASSUME RegistryInv, NEW removed \in SUBSET entries,
         entries' = entries \ removed, Counted(removed), plan' = plan
  PROVE  /\ entries' \subseteq [fd : Fds, who : Workers] /\ generation' \in Nat
         /\ generation <= generation' /\ PlanMade'
<1>1. plan.gen <= generation /\ plan.gen \in Nat /\ generation \in Nat
  BY Facts DEF RegistryInv, PlanMade
<1>2. entries' \subseteq [fd : Fds, who : Workers]
  BY DEF RegistryInv, TypeOK
<1>3. CASE removed = {}
  <2>1. generation' = generation /\ entries' = entries
    BY <1>1, <1>3 DEF Counted
  <2>2. PlanMade'
    BY <2>1 DEF RegistryInv, PlanMade, PlanIsCurrent, Registered
  <2>3. QED
    BY <1>1, <1>2, <2>1, <2>2
<1>4. CASE removed # {}
  <2>1. generation' = generation + 1
    BY <1>4 DEF Counted
  <2>2. plan'.gen <= generation' /\ plan'.gen # generation'
    BY <1>1, <2>1
  <2>3. PlanMade'
    BY <2>2 DEF RegistryInv, PlanMade, PlanIsCurrent
  <2>4. QED
    BY <1>1, <1>2, <2>1, <2>3
<1>5. QED
  BY <1>3, <1>4

LEMMA RemoveWorkerInv ==
  ASSUME RegistryInv, NEW c \in 1..Len(who), RemoveWorker(c)
  PROVE  RegistryInv'
<1>1. /\ thread[c].pc = "remove" /\ Goes(c, "close")
      /\ entries' = entries \ Owned(c) /\ Counted(Owned(c))
      /\ UNCHANGED <<fds, who, current, plan, forgotten>>
  BY DEF RemoveWorker
<1>2. /\ thread' \in [Conns -> [fd : Fds \cup {0}, pc : Pcs]]
      /\ \A d \in 1..Len(who) : /\ thread'[d].fd = thread[d].fd
                                /\ thread'[d].pc = IF d = c THEN "close" ELSE thread[d].pc
      /\ Started'
  BY <1>1, MovesOn DEF Pcs
<1>3. /\ entries' \subseteq [fd : Fds, who : Workers] /\ generation' \in Nat /\ PlanMade'
  <2>1. Owned(c) \in SUBSET entries
    BY DEF Owned
  <2>2. QED
    BY <1>1, <2>1, RemovedPlan
<1>4. TypeOK'
  BY <1>1, <1>2, <1>3 DEF RegistryInv, TypeOK, Pcs
<1>5. ASSUME forgotten = 0 PROVE Owners'
  <2>1. ASSUME NEW d \in 1..Len(who'), Holds(d)'
        PROVE  fds'[thread'[d].fd] = d /\ thread'[d].fd # plan'.fd
    <3>1. d \in 1..Len(who) /\ Holds(d)
      BY <1>1, <1>2, <2>1 DEF Holds
    <3>2. QED
      BY <1>1, <1>2, <1>5, <3>1 DEF RegistryInv, Owners
  <2>2. ASSUME NEW e \in entries'
        PROVE  \E d \in 1..Len(who') : /\ thread'[d].pc \in {"monitor", "remove"}
                                       /\ thread'[d].fd = e.fd /\ who'[d] = e.who
    <3>1. e \in entries /\ e.fd # thread[c].fd
      BY <1>1 DEF Owned
    <3>2. PICK d \in 1..Len(who) : /\ thread[d].pc \in {"monitor", "remove"}
                                   /\ thread[d].fd = e.fd /\ who[d] = e.who
      BY <1>5, <3>1 DEF RegistryInv, Owners
    <3>3. thread'[d].pc = thread[d].pc /\ thread'[d].fd = e.fd
      BY <1>2, <3>1, <3>2
    <3>4. QED
      BY <1>1, <3>2, <3>3
  <2>3. ASSUME NEW d \in entries', NEW e \in entries', Same(d.who, e.who)
        PROVE  d = e
    BY <1>1, <1>5, <2>3 DEF RegistryInv, Owners
  <2>4. plan'.ready => fds'[plan'.fd] # 0 /\ who'[fds'[plan'.fd]] = plan'.path[1]
    BY <1>1, <1>5 DEF RegistryInv, Owners
  <2>5. QED
    BY <2>1, <2>2, <2>3, <2>4 DEF Owners, Holds, Same
<1>6. forgotten # 0 => Owners'
  BY <1>1 DEF Owners
<1>7. QED
  BY <1>2, <1>3, <1>4, <1>5, <1>6 DEF RegistryInv

LEMMA CloseInv ==
  ASSUME RegistryInv, NEW c \in 1..Len(who), Close(c)
  PROVE  RegistryInv'
<1> DEFINE at == thread[c].fd
<1>1. /\ thread[c].pc = "close" /\ Goes(c, "gone")
      /\ fds' = [fds EXCEPT ![at] = 0]
      /\ UNCHANGED <<who, current, entries, generation, plan, forgotten>>
  BY DEF Close
<1>2. /\ thread' \in [Conns -> [fd : Fds \cup {0}, pc : Pcs]]
      /\ \A d \in 1..Len(who) : /\ thread'[d].fd = thread[d].fd
                                /\ thread'[d].pc = IF d = c THEN "gone" ELSE thread[d].pc
      /\ Started'
  BY <1>1, MovesOn DEF Pcs
<1>3. /\ fds' \in [Fds -> 0..Len(who)]
      /\ \A f \in Fds : fds'[f] = IF f = at THEN 0 ELSE fds[f]
  <2>1. fds \in [Fds -> 0..Len(who)] /\ 0 \in 0..Len(who)
    BY Facts DEF RegistryInv, TypeOK
  <2>2. QED
    BY <1>1, <2>1
<1>4. TypeOK'
  BY <1>1, <1>2, <1>3 DEF RegistryInv, TypeOK, Pcs
<1>5. PlanMade'
  BY <1>1 DEF RegistryInv, PlanMade, PlanIsCurrent, Registered
<1>6. ASSUME forgotten = 0 PROVE Owners'
  <2>1. fds[at] = c /\ at # plan.fd
    BY <1>1, <1>6 DEF RegistryInv, Owners, Holds
  <2>2. ASSUME NEW d \in 1..Len(who'), Holds(d)'
        PROVE  fds'[thread'[d].fd] = d /\ thread'[d].fd # plan'.fd
    <3>1. d \in 1..Len(who) /\ Holds(d) /\ d # c
      BY <1>1, <1>2, <2>2 DEF Holds
    <3>2. fds[thread[d].fd] = d /\ thread[d].fd # plan.fd
      BY <1>6, <3>1 DEF RegistryInv, Owners
    <3>3. thread[d].fd # at /\ thread[d].fd \in Fds
      BY <2>1, <3>1, <3>2, Facts
    <3>4. QED
      BY <1>1, <1>2, <1>3, <3>1, <3>2, <3>3
  <2>3. ASSUME NEW e \in entries'
        PROVE  \E d \in 1..Len(who') : /\ thread'[d].pc \in {"monitor", "remove"}
                                       /\ thread'[d].fd = e.fd /\ who'[d] = e.who
    <3>1. PICK d \in 1..Len(who) : /\ thread[d].pc \in {"monitor", "remove"}
                                   /\ thread[d].fd = e.fd /\ who[d] = e.who
      BY <1>1, <1>6 DEF RegistryInv, Owners
    <3>2. thread'[d].pc = thread[d].pc /\ thread'[d].fd = e.fd
      BY <1>1, <1>2, <3>1
    <3>3. QED
      BY <1>1, <3>1, <3>2
  <2>4. ASSUME NEW d \in entries', NEW e \in entries', Same(d.who, e.who)
        PROVE  d = e
    BY <1>1, <1>6, <2>4 DEF RegistryInv, Owners
  <2>5. plan'.ready => fds'[plan'.fd] # 0 /\ who'[fds'[plan'.fd]] = plan'.path[1]
    <3>1. SUFFICES ASSUME plan.ready
                   PROVE  fds'[plan.fd] # 0 /\ who[fds'[plan.fd]] = plan.path[1]
      BY <1>1
    <3>2. plan.fd \in Fds /\ fds[plan.fd] # 0 /\ who[fds[plan.fd]] = plan.path[1]
      BY <1>6, <3>1 DEF RegistryInv, Owners, PlanMade
    <3>3. fds'[plan.fd] = fds[plan.fd]
      BY <1>3, <2>1, <3>2
    <3>4. QED
      BY <3>2, <3>3
  <2>6. QED
    BY <2>2, <2>3, <2>4, <2>5 DEF Owners, Holds, Same
<1>7. forgotten # 0 => Owners'
  BY <1>1 DEF Owners
<1>8. QED
  BY <1>2, <1>4, <1>5, <1>6, <1>7 DEF RegistryInv

\* What closing the plan's descriptor leaves of a table of descriptors.
LEMMA FreedTable ==
  ASSUME RegistryInv, NEW table \in [Fds -> 0..Len(who)]
  PROVE  /\ Freed(table) \in [Fds -> 0..Len(who)]
         /\ \A f \in Fds : Freed(table)[f] = IF f = plan.fd THEN 0 ELSE table[f]
<1>1. plan.fd \in Fds \cup {0} /\ 0 \notin Fds /\ 0 \in 0..Len(who)
  BY Facts, Numbers
<1>2. CASE plan.fd = 0
  BY <1>1, <1>2 DEF Freed
<1>3. CASE plan.fd # 0
  BY <1>1, <1>3 DEF Freed
<1>4. QED
  BY <1>2, <1>3

LEMMA EnsureInv ==
  ASSUME RegistryInv, Ensure
  PROVE  RegistryInv'
<1> DEFINE table == Freed(fds)
<1>1. /\ UNCHANGED <<who, current, thread, entries, generation, forgotten>>
      /\ \/ \E h \in Hops(table) : \E f \in Lowest(table) :
              /\ fds' = [table EXCEPT ![f] = table[h[2].fd]]
              /\ plan' = [ready |-> TRUE, gen |-> generation, path |-> h[1], fd |-> f]
         \/ fds' = table /\ plan' = NoPlan
  BY DEF Ensure
<1>2. /\ table \in [Fds -> 0..Len(who)]
      /\ \A f \in Fds : table[f] = IF f = plan.fd THEN 0 ELSE fds[f]
  BY FreedTable DEF RegistryInv, TypeOK
<1> HIDE DEF table
<1>3. Registered \in SUBSET Workers /\ generation \in Nat
  BY Facts DEF Registered
<1>4. Started'
  BY <1>1 DEF RegistryInv, Started
<1>5. ASSUME forgotten = 0, NEW d \in 1..Len(who), Holds(d)
      PROVE  table[thread[d].fd] = d /\ thread[d].fd \in Fds /\ d # 0
  BY <1>2, <1>5, Facts DEF RegistryInv, Owners
<1>6. ASSUME forgotten = 0
      PROVE  /\ \A e \in entries' : \E d \in 1..Len(who') :
                  /\ thread'[d].pc \in {"monitor", "remove"}
                  /\ thread'[d].fd = e.fd /\ who'[d] = e.who
             /\ \A d, e \in entries' : Same(d.who, e.who) => d = e
  BY <1>1, <1>6 DEF RegistryInv, Owners
<1>7. CASE fds' = table /\ plan' = NoPlan
  <2>1. /\ plan' \in [ready : BOOLEAN, gen : Nat, path : Seq(Workers), fd : Fds \cup {0}]
        /\ plan'.fd = 0 /\ plan'.ready = FALSE /\ plan'.gen = 0
    BY <1>7 DEF NoPlan
  <2>2. TypeOK'
    BY <1>1, <1>2, <1>7, <2>1 DEF RegistryInv, TypeOK
  <2>3. 0 <= generation' /\ 0 \notin Fds
    BY <1>1, <1>3, Numbers
  <2>4. PlanMade'
    BY <2>1, <2>3 DEF PlanMade, PlanIsCurrent
  <2>5. ASSUME forgotten = 0, NEW d \in 1..Len(who'), Holds(d)'
        PROVE  fds'[thread'[d].fd] = d /\ thread'[d].fd # plan'.fd
    <3>1. d \in 1..Len(who) /\ Holds(d)
      BY <1>1, <2>5 DEF Holds
    <3>2. QED
      BY <1>1, <1>5, <1>7, <2>1, <2>3, <2>5, <3>1
  <2>6. Owners'
    BY <1>1, <1>6, <2>1, <2>5 DEF Owners, Holds, Same
  <2>7. QED
    BY <1>4, <2>2, <2>4, <2>6 DEF RegistryInv
<1>8. CASE \E h \in Hops(table) : \E f \in Lowest(table) :
             /\ fds' = [table EXCEPT ![f] = table[h[2].fd]]
             /\ plan' = [ready |-> TRUE, gen |-> generation, path |-> h[1], fd |-> f]
  <2>1. PICK h \in Hops(table), f \in Lowest(table) :
             /\ fds' = [table EXCEPT ![f] = table[h[2].fd]]
             /\ plan' = [ready |-> TRUE, gen |-> generation, path |-> h[1], fd |-> f]
    BY <1>8
  <2>2. /\ h[1] \in Paths(Registered) /\ h[2] \in entries
        /\ h[2].who = h[1][1] /\ table[h[2].fd] # 0 /\ h[2].fd \in Fds
    BY Facts DEF Hops
  <2>3. f \in Fds /\ table[f] = 0
    BY DEF Lowest
  <2>4. /\ plan'.ready = TRUE /\ plan'.gen = generation /\ plan'.path = h[1] /\ plan'.fd = f
    BY <2>1
  <2>5. h[1] \in Seq(Workers) /\ Range(h[1]) \subseteq Registered
    BY <1>3, <2>2, PathsFindRoutes DEF IsRoute
  <2>6. /\ fds' \in [Fds -> 0..Len(who)]
        /\ \A g \in Fds : fds'[g] = IF g = f THEN table[h[2].fd] ELSE table[g]
    BY <1>2, <2>1, <2>2, <2>3
  <2>7. plan' \in [ready : BOOLEAN, gen : Nat, path : Seq(Workers), fd : Fds \cup {0}]
    BY <1>3, <2>1, <2>3, <2>5
  <2>8. TypeOK'
    BY <1>1, <2>6, <2>7 DEF RegistryInv, TypeOK
  <2>9. PlanMade'
    <3>1. plan'.gen <= generation' /\ plan'.fd \in Fds
      BY <1>1, <1>3, <2>3, <2>4
    <3>2. Range(plan'.path) \subseteq Registered'
      BY <1>1, <2>4, <2>5 DEF Registered
    <3>3. QED
      BY <2>4, <3>1, <3>2 DEF PlanMade, PlanIsCurrent
  <2>10. ASSUME forgotten = 0, NEW d \in 1..Len(who'), Holds(d)'
         PROVE  fds'[thread'[d].fd] = d /\ thread'[d].fd # plan'.fd
    <3>1. d \in 1..Len(who) /\ Holds(d)
      BY <1>1, <2>10 DEF Holds
    <3>2. table[thread[d].fd] = d /\ thread[d].fd \in Fds /\ d # 0
      BY <1>5, <2>10, <3>1
    <3>3. thread[d].fd # f
      BY <2>3, <3>2
    <3>4. QED
      BY <1>1, <2>4, <2>6, <3>2, <3>3
  <2>11. ASSUME forgotten = 0
         PROVE  fds'[plan'.fd] # 0 /\ who'[fds'[plan'.fd]] = plan'.path[1]
    <3>1. PICK d \in 1..Len(who) : /\ thread[d].pc \in {"monitor", "remove"}
                                   /\ thread[d].fd = h[2].fd /\ who[d] = h[2].who
      BY <2>2, <2>11 DEF RegistryInv, Owners
    <3>2. table[h[2].fd] = d /\ d # 0
      BY <1>5, <2>11, <3>1 DEF Holds
    <3>3. fds'[plan'.fd] = d
      BY <2>3, <2>4, <2>6, <3>2
    <3>4. QED
      BY <1>1, <2>2, <2>4, <3>1, <3>2, <3>3
  <2>12. Owners'
    BY <1>1, <1>6, <2>10, <2>11 DEF Owners, Holds, Same
  <2>13. QED
    BY <1>4, <2>8, <2>9, <2>12 DEF RegistryInv
<1>9. QED
  BY <1>1, <1>7, <1>8

LEMMA ForgetInv ==
  ASSUME RegistryInv, Forget
  PROVE  RegistryInv'
<1> DEFINE dropped == {e \in entries : \E i \in DOMAIN plan.path : Same(e.who, plan.path[i])}
           closed == [f \in Fds |-> IF \E e \in dropped : e.fd = f THEN 0 ELSE fds[f]]
<1>1. /\ entries' = entries \ dropped /\ Counted(dropped) /\ fds' = Freed(closed)
      /\ plan' = NoPlan /\ UNCHANGED <<who, current, thread>>
      /\ forgotten' = forgotten + 1
  BY DEF Forget
<1>2. dropped \in SUBSET entries
  OBVIOUS
<1>3. closed \in [Fds -> 0..Len(who)]
  BY Facts
<1> HIDE DEF dropped, closed
<1>4. fds' \in [Fds -> 0..Len(who)]
  BY <1>1, <1>3, FreedTable
<1>5. /\ plan' \in [ready : BOOLEAN, gen : Nat, path : Seq(Workers), fd : Fds \cup {0}]
      /\ plan'.fd = 0 /\ plan'.ready = FALSE /\ plan'.gen = 0
  BY <1>1 DEF NoPlan
<1>6. entries' \subseteq [fd : Fds, who : Workers] /\ generation' \in Nat
  BY <1>1, <1>2, Facts DEF RegistryInv, TypeOK, Counted
<1>7. forgotten' \in Nat /\ forgotten' # 0
  BY <1>1 DEF RegistryInv, TypeOK
<1>8. TypeOK'
  BY <1>1, <1>4, <1>5, <1>6, <1>7 DEF RegistryInv, TypeOK
<1>9. Started'
  BY <1>1 DEF RegistryInv, Started
<1>10. PlanMade'
  <2>1. 0 <= generation' /\ 0 \notin Fds
    BY <1>6, Numbers
  <2>2. QED
    BY <1>5, <2>1 DEF PlanMade, PlanIsCurrent
<1>11. Owners'
  BY <1>7 DEF Owners
<1>12. QED
  BY <1>8, <1>9, <1>10, <1>11 DEF RegistryInv

-----------------------------------------------------------------------------
LEMMA NextInv == RegistryInv /\ [Next]_vars => RegistryInv'
<1> SUFFICES ASSUME RegistryInv, [Next]_vars PROVE RegistryInv'
  OBVIOUS
<1>1. ASSUME NEW w \in Workers, Connect(w) PROVE RegistryInv'
  BY <1>1, ConnectInv
<1>2. ASSUME NEW w \in Workers, Leave(w) PROVE RegistryInv'
  BY <1>2, LeaveInv
<1>3. ASSUME NEW c \in 1..Len(who), AddWorker(c) PROVE RegistryInv'
  BY <1>3, AddWorkerInv
<1>4. ASSUME NEW c \in 1..Len(who), HelloFails(c) PROVE RegistryInv'
  BY <1>4, GoesOnInv DEF HelloFails, Pcs
<1>5. ASSUME NEW c \in 1..Len(who), Notice(c) PROVE RegistryInv'
  BY <1>5, GoesOnInv DEF Notice, Pcs
<1>6. ASSUME NEW c \in 1..Len(who), RemoveWorker(c) PROVE RegistryInv'
  BY <1>6, RemoveWorkerInv
<1>7. ASSUME NEW c \in 1..Len(who), Close(c) PROVE RegistryInv'
  BY <1>7, CloseInv
<1>8. CASE Ensure
  BY <1>8, EnsureInv
<1>9. CASE Forget
  BY <1>9, ForgetInv
<1>10. CASE UNCHANGED vars
  BY <1>10 DEF vars, RegistryInv, TypeOK, Started, PlanMade, PlanIsCurrent, Registered,
     Owners, Holds
<1>11. QED
  BY <1>1, <1>2, <1>3, <1>4, <1>5, <1>6, <1>7, <1>8, <1>9, <1>10 DEF Next

(* The inductive invariant: types, what threads and plans hold, and, until *)
(* a route is forgotten, whose each descriptor is.                         *)
THEOREM RegistryInvariant == Spec => []RegistryInv
<1>1. Init => RegistryInv
  BY InitInv
<1>2. RegistryInv /\ [Next]_vars => RegistryInv'
  BY NextInv
<1>3. QED
  BY <1>1, <1>2, PTL DEF Spec

(* No plan outlives a change of the registry that it was made of, and      *)
(* until a route is forgotten every descriptor in the registry, and the    *)
(* plan's, leads to the worker it stands for, however threads of old and   *)
(* new connections interleave and descriptor numbers are handed out again. *)
THEOREM RegistryHoldsCorrect == Spec => []RegistryHolds
<1>1. RegistryInv => RegistryHolds
  <2> SUFFICES ASSUME RegistryInv PROVE RegistryHolds
    OBVIOUS
  <2>1. PlanIsCurrent
    BY DEF RegistryInv, PlanMade
  <2>2. ASSUME forgotten = 0, NEW e \in entries PROVE NamesItsWorker(e)
    <3>1. PICK c \in 1..Len(who) : /\ thread[c].pc \in {"monitor", "remove"}
                                   /\ thread[c].fd = e.fd /\ who[c] = e.who
      BY <2>2 DEF RegistryInv, Owners
    <3>2. fds[thread[c].fd] = c /\ c # 0
      BY <2>2, <3>1, Facts DEF RegistryInv, Owners, Holds
    <3>3. QED
      BY <3>1, <3>2 DEF NamesItsWorker
  <2>3. EntryNamesItsWorker
    BY <2>2 DEF EntryNamesItsWorker, RegistryInv, Owners
  <2>4. QED
    BY <2>1, <2>3 DEF RegistryHolds
<1>2. QED
  BY <1>1, RegistryInvariant, PTL

(* Whatever workers are registered, the search answers with routes only,   *)
(* and answers when there is one: it takes the first candidate from which  *)
(* it can go on, and gives up one from which it cannot.                    *)
THEOREM SearchFindsRouteCorrect == Spec => []SearchFindsRoute
<1>1. RegistryInv => SearchFindsRoute
  <2> SUFFICES ASSUME RegistryInv PROVE SearchFindsRoute
    OBVIOUS
  <2>1. Registered \in SUBSET Workers
    BY Facts DEF Registered
  <2>2. ASSUME NEW p \in BoundedSeq(Registered, LastLayer - LocalEnd)
        PROVE  p \in Seq(Registered)
    <3>1. PICK m \in 0..LastLayer - LocalEnd : p \in [1..m -> Registered]
      BY DEF BoundedSeq, SeqOf
    <3>2. QED
      BY <3>1, Offers
  <2>3. QED
    BY <2>1, <2>2, PathsFindRoutes DEF SearchFindsRoute
<1>2. QED
  BY <1>1, RegistryInvariant, PTL

-----------------------------------------------------------------------------
(* What holds of a pair whose worker lives, and is kept by every step.     *)
(* The ranks are in step when each has taken the same steps of the command,*)
(* but for a gate or a vote that one has passed and the other has not, and *)
(* for the answers the worker has given and the leader has not read. The   *)
(* leader may be further ahead in one way only: it announces commands, and *)
(* commits blocks, without waiting for the worker.                         *)

IsList(q) == q \in Seq({q[i] : i \in DOMAIN q})

(* What rank r has written and will find answered.                         *)
VoteFrame(r, cancel) ==
  [kind |-> "CHECKPOINT", point |-> Head1(r).point, at |-> Head1(r).at,
   cancelled |-> cancel]
GateFrame(r) == [seq |-> gateSeq[r], s |-> Head1(r).s, toks |-> Head1(r).toks]
VoteOut(r) == IF Waits(r, "vote") THEN <<VoteFrame(r, sync[r].cancelled)>> ELSE <<>>
GateOut(r) == IF Waits(r, "gate") THEN <<GateFrame(r)>> ELSE <<>>
Passed(r) == IF Waits(r, "gate") THEN gateSeq[r] - 1 ELSE gateSeq[r]

(* Every step of a list, from wherever it is looked at.                    *)
Shape(q, c) ==
  /\ IsList(q) /\ q # <<>> /\ q[Len(q)].do \in {"half", "commit"}
  /\ \A i \in 1..Len(q) :
       /\ q[i].do \in {"gate", "vote", "ack", "half", "commit"}
       /\ q[i].do \in {"ack", "half"} => \A j \in i..Len(q) : q[j].do \in {"ack", "half"}
       /\ q[i].do = "half" => q[i].s \in ToSet(c.ss)
       /\ q[i].do = "vote" => c.op = "SYNC"
       /\ q[i].do = "commit" => /\ i = Len(q) /\ c.op = "VERIFY" /\ q[i].kept.pure = TRUE
                               /\ q[i].kept.toks \in Seq(Token)
       /\ q[i].do = "gate" =>
            /\ q[i].s \in Sessions /\ q[i].toks \in Seq(Token)
            /\ q[i].head => \E j \in 1..Len(q) : q[j] = Half(q[i].s)
            /\ ~q[i].head => /\ c.op = "VERIFY" /\ i = 1 /\ Len(q) = 2
                             /\ q[1].s = c.ss[1] /\ q[2].do = "commit"

LocallySound ==
  /\ FailStop /\ env \in Settings
  /\ DOMAIN sess = Rank /\ sess = [r \in Rank |-> sess[r]]
  /\ DOMAIN job = Rank /\ DOMAIN todo = Rank
  /\ DOMAIN sent = Rank /\ DOMAIN sync = Rank /\ DOMAIN frames = Rank
  /\ DOMAIN gates = Rank /\ DOMAIN gateSeq = Rank
  /\ DOMAIN gateDead = Rank /\ DOMAIN failed = Rank
  /\ torn = FALSE /\ stopped \in BOOLEAN /\ alive \in BOOLEAN
  /\ DOMAIN logits = Sessions
  /\ stopped => job[L] = None
  /\ \A r \in Rank :
       /\ gateDead[r] = FALSE /\ failed[r] = FALSE /\ gateSeq[r] \in Nat
       /\ sent[r] \in BOOLEAN
       /\ sent[r] => At(r, "gate") \/ At(r, "vote")
       /\ sync[r].rc \in {OK, INTERRUPTED} /\ sync[r].cancelled \in BOOLEAN
       /\ DOMAIN sess[r] = Sessions /\ sess[r] = [s \in Sessions |-> sess[r][s]]
       /\ \A s \in Sessions :
            sess[r][s].pure = TRUE /\ sess[r][s].toks \in Seq(Token)
       /\ job[r] # None => /\ job[r] \in Commands /\ job[r].op # "INVALIDATE"
                            /\ Shape(todo[r], job[r])

(* What rank b has before it once the step it waits at is passed.          *)
Joined(b) ==
  [sess[b] EXCEPT ![Head1(b).s] = [toks |-> Head1(b).toks, valid |-> TRUE, pure |-> TRUE]]
AfterVote(b, c) ==
  IF Head1(b).point # 3 /\ (sync[b].cancelled \/ c)
  THEN Skip(b, IF Polls(b) THEN INTERRUPTED ELSE OK) ELSE Tail(todo[b])
Onward(b, pre, c) ==
  IF pre = "vote" THEN AfterVote(b, c)
  ELSE IF pre = "gate" THEN Tail(todo[b]) ELSE todo[b]
SessionsOf(b, pre) == IF pre = "gate" THEN Joined(b) ELSE sess[b]
GatesTo(b, pre, p) ==
  IF pre # "gate" THEN GateOut(p)
  ELSE IF Waits(p, "gate") THEN <<GateFrame(b), GateFrame(p)>> ELSE <<GateFrame(b)>>
VotesTo(b, pre, c, p) ==
  IF pre # "vote" THEN VoteOut(p)
  ELSE IF Waits(p, "vote") THEN <<VoteFrame(b, c), VoteFrame(p, sync[p].cancelled)>>
  ELSE <<VoteFrame(b, c)>>

AckFrame(c, status) == [kind |-> "ACK", id |-> AckId(c), status |-> status]
HalfFrame(s) == [kind |-> "HALF", of |-> Of(s, sess[W][s])]

(* The worker has given the answers in to the first steps of rest.         *)
Answered(rest, in) ==
  /\ Len(in) <= Len(rest)
  /\ \A i \in 1..Len(rest) : rest[i].do \in {"ack", "half"}
  /\ \A i \in 1..Len(in) :
       \/ rest[i].do = "half" /\ in[i] = HalfFrame(rest[i].s)
       \/ rest[i].do = "ack" /\ in[i] = AckFrame(job[L], OK)
       \/ /\ rest[i].do = "ack" /\ in[i] = AckFrame(job[L], INTERRUPTED)
          /\ i = Len(in) /\ job[W] = None /\ job[L].op = "SYNC"
  /\ IF job[W] = None
     THEN Len(in) = Len(rest) \/ (in # <<>> /\ in[Len(in)] = AckFrame(job[L], INTERRUPTED))
     ELSE /\ job[W] = job[L] /\ Len(rest) = Len(in) + Len(todo[W])
          /\ \A i \in 1..Len(todo[W]) : todo[W][i] = rest[Len(in) + i]

(* Rank b waits at a step ("gate" or "vote") its peer has passed, or, with *)
(* "none", at no such step.                                                *)
Linked(b, pre, p) ==
  /\ job[L] # None /\ job[b] # None /\ alive
  /\ pre # "none" => Waits(b, pre)
  /\ frames[b] = IF pre = "none" THEN VoteOut(b) ELSE <<>>
  /\ gates[b] = IF pre = "none" THEN GateOut(b) ELSE <<>>
  /\ gates[p] = GatesTo(b, pre, p)
  /\ sess[p] = SessionsOf(b, pre)
  /\ Passed(p) = IF pre = "gate" THEN gateSeq[b] ELSE Passed(b)

Together(b, pre, c, p) ==
  /\ Linked(b, pre, p)
  /\ job[p] = job[b]
  /\ todo[p] = Onward(b, pre, c)
  /\ frames[p] = VotesTo(b, pre, c, p)

Replies(pre) == IF pre = "vote" THEN Tail(frames[W]) ELSE frames[W]
Replied(pre, c) ==
  /\ Linked(L, pre, W) /\ ~sent[W] /\ IsList(frames[W])
  /\ pre = "vote" => frames[W] # <<>> /\ Head(frames[W]) = VoteFrame(L, c)
  /\ Answered(Onward(L, pre, c), Replies(pre))

(* The leader is ahead: what it has sent after the commit of a block, if   *)
(* any (n is 1 then), is invalidations, and a command or the end.          *)
CommandFrame(c) == [kind |-> c.op, ss |-> c.ss, toks |-> c.toks]
StopFrame == [kind |-> "STOP", ss |-> <<>>, toks |-> <<>>]
Announced ==
  IF stopped THEN <<StopFrame>>
  ELSE IF job[L] = None THEN <<>>
  ELSE IF Waits(L, "vote")
  THEN <<CommandFrame(job[L]), VoteFrame(L, sync[L].cancelled)>>
  ELSE <<CommandFrame(job[L])>>
Invalidation(s) == [kind |-> "INVALIDATE", ss |-> <<s>>, toks |-> <<>>]
Queued(n) ==
  LET q == frames[L]
      m == Len(q) - Len(Announced) IN
  /\ IsList(q) /\ n <= m
  /\ \A i \in (n + 1)..m : \E s \in Sessions : q[i] = Invalidation(s)
  /\ \A i \in 1..Len(Announced) : q[m + i] = Announced[i]
Unheard ==
  {s \in Sessions : \E i \in 1..Len(frames[L]) : frames[L][i] = Invalidation(s)}
Wiped(x) == [s \in Sessions |-> IF s \in Unheard THEN Fresh ELSE x[s]]
Ahead0(n) ==
  /\ alive /\ frames[W] = <<>> /\ gates[W] = <<>>
  /\ Queued(n)
  /\ job[L] # None => todo[L] = Steps(L, job[L])

Announcing ==
  /\ Ahead0(0) /\ job[W] = None
  /\ gates[L] = GateOut(L) /\ Passed(L) = gateSeq[W]
  /\ sess[L] = Wiped(sess[W])

(* The commit the worker is at, or comes to when it has passed its gate.   *)
CommitStep(pre) == IF pre = "gate" THEN todo[W][2] ELSE Head1(W)
Block(pre) ==
  /\ job[W] # None
  /\ pre \in {"none", "gate"}
  /\ pre = "gate" => Waits(W, "gate")
  /\ pre = "none" => ~sent[W]
  /\ CommitStep(pre).do = "commit"
  /\ gates[L] = GatesTo(W, pre, L)
  /\ Passed(L) = gateSeq[W]

KeptSessions(x, k, n) ==
  LET s == job[W].ss[1] IN
  [x EXCEPT ![s] = [toks |-> k.toks \o SubSeq(job[W].toks, 1, n),
                    valid |-> x[s].valid, pure |-> x[s].pure]]
ReplaySteps(s, k, toks, n) ==
  Append([i \in 1..n |-> Gate(s, k.toks \o SubSeq(toks, 1, i))], Half(s))

Keeping(pre, n) ==
  /\ Ahead0(1) /\ Block(pre)
  /\ frames[L][1] = [kind |-> "COMMIT", mode |-> "KEEP", n |-> n]
  /\ sess[L] = Wiped(KeptSessions(SessionsOf(W, pre), CommitStep(pre).kept, n))

Replaying(pre, n) ==
  LET s == job[W].ss[1]
      k == CommitStep(pre).kept IN
  /\ alive /\ frames[W] = <<>> /\ gates[W] = <<>> /\ Block(pre)
  /\ job[L] = job[W] /\ n > 0
  /\ frames[L] = <<[kind |-> "COMMIT", mode |-> "REPLAY", n |-> n]>>
  /\ todo[L] = ReplaySteps(s, k, job[L].toks, n)
  /\ sess[L] = [SessionsOf(W, pre) EXCEPT ![s] = k]

Over == stopped /\ ~alive /\ job[L] = None /\ job[W] = None

Pres == {"none", "gate", "vote"}
InStep ==
  \/ \E b \in Rank, pre \in Pres, c \in BOOLEAN : Together(b, pre, c, Peer(b))
  \/ \E pre \in Pres, c \in BOOLEAN : Replied(pre, c)
  \/ Announcing
  \/ \E pre \in Pres, n \in 1..2 : Keeping(pre, n) \/ Replaying(pre, n)
  \/ Over

(* The halves of the logits the leader holds are those of its checkpoints, *)
(* but for the second half of a session it is still owed, and for a block  *)
(* that is not committed.                                                  *)
Owed(s) ==
  job[L] # None /\ \E i \in 1..Len(todo[L]) : todo[L][i].do = "half" /\ todo[L][i].s = s
Settled(s) ==
  IF At(L, "commit") /\ s = job[L].ss[1] THEN Head1(L).kept ELSE sess[L][s]
LogitsFit ==
  /\ \A s \in Sessions : Settled(s).valid =>
       /\ logits[s] # <<>> /\ logits[s][1] = Of(s, Settled(s)) /\ Settled(s).pure = TRUE
       /\ ~Owed(s) => logits[s] = <<Of(s, Settled(s)), Of(s, Settled(s))>>
  /\ job[L] # None =>
       \A i \in 1..Len(todo[L]) : todo[L][i].do = "gate" /\ ~todo[L][i].head =>
          todo[L][2] = Commit(sess[L][job[L].ss[1]])

(* A worker that dies leaves what it has sent.  Once the leader waits for   *)
(* more than that, it holds no session that is not either as it was before *)
(* the command or part of the command, which cannot be completed.          *)
Sampled(s) ==
  sess[L][s].pure = TRUE /\ logits[s] = <<Of(s, sess[L][s]), Of(s, sess[L][s])>>
Bereft ==
  /\ FailStop /\ env \in Settings /\ crashed /\ torn = FALSE
  /\ DOMAIN sess = Rank /\ DOMAIN job = Rank /\ DOMAIN todo = Rank
  /\ DOMAIN frames = Rank /\ DOMAIN gates = Rank /\ DOMAIN logits = Sessions
  /\ frames[W] = <<>> /\ gates[W] = <<>>
  /\ DOMAIN sess[L] = Sessions
  /\ \A s \in Sessions :
       /\ sess[L][s].toks \in Seq(Token)
       /\ sess[L][s].valid => Sampled(s) \/ (job[L] # None /\ s \in ToSet(job[L].ss))
  /\ job[L] # None => /\ job[L] \in Commands /\ job[L].op \notin {"VERIFY", "INVALIDATE"}
                      /\ Shape(todo[L], job[L])

(* The worker dies only, and the leader issues only, where the setting lets*)
(* it.                                                                     *)
Permitted ==
  /\ DOMAIN job = Rank /\ (crashed => env.crashes)
  /\ job[L] # None => job[L].op \in env.ops

PairInv == FailStop => Permitted /\ ((LocallySound /\ InStep /\ LogitsFit) \/ Bereft)

-----------------------------------------------------------------------------
(* Lists: sequences of whatever they hold.                                 *)

\* A function on 1..n is a list.
LEMMA ListOfFunction ==
  ASSUME NEW n \in Nat, NEW q, q = [i \in 1..n |-> q[i]]
  PROVE  IsList(q) /\ Len(q) = n /\ \A i \in 1..n : q[i] \in {q[j] : j \in DOMAIN q}
<1> DEFINE T == {q[i] : i \in DOMAIN q}
<1>1. q \in [1..n -> T]
  OBVIOUS
<1>2. q \in Seq(T)
  BY <1>1, SeqDef
<1>3. QED
  BY <1>1, <1>2, LenProperties DEF IsList

LEMMA ListOfSeq ==
  ASSUME NEW T, NEW q \in Seq(T)
  PROVE  IsList(q)
<1>1. Len(q) \in Nat /\ q = [i \in 1..Len(q) |-> q[i]]
  BY LenProperties
<1>2. QED
  BY <1>1, ListOfFunction

LEMMA ListFacts ==
  ASSUME NEW q, IsList(q)
  PROVE  /\ Len(q) \in Nat /\ DOMAIN q = 1..Len(q) /\ q = [i \in 1..Len(q) |-> q[i]]
         /\ q = <<>> <=> Len(q) = 0
         /\ q # <<>> => /\ Len(q) > 0 /\ Head(q) = q[1] /\ IsList(Tail(q))
                        /\ Len(Tail(q)) = Len(q) - 1
                        /\ \A i \in 1..Len(q) - 1 : Tail(q)[i] = q[i + 1]
         /\ \A x : /\ IsList(Append(q, x)) /\ Len(Append(q, x)) = Len(q) + 1
                   /\ Append(q, x)[Len(q) + 1] = x
                   /\ \A i \in 1..Len(q) : Append(q, x)[i] = q[i]
<1> DEFINE T == {q[i] : i \in DOMAIN q}
<1>1. q \in Seq(T)
  BY DEF IsList
<1>2. Len(q) \in Nat /\ DOMAIN q = 1..Len(q) /\ q = [i \in 1..Len(q) |-> q[i]]
  BY <1>1, LenProperties
<1>3. q = <<>> <=> Len(q) = 0
  BY <1>1, EmptySeq
<1>4. ASSUME q # <<>>
      PROVE  /\ Len(q) > 0 /\ Head(q) = q[1] /\ IsList(Tail(q))
             /\ Len(Tail(q)) = Len(q) - 1
             /\ \A i \in 1..Len(q) - 1 : Tail(q)[i] = q[i + 1]
  <2>1. /\ Tail(q) \in Seq(T) /\ Len(Tail(q)) = Len(q) - 1
        /\ \A i \in 1..Len(Tail(q)) : Tail(q)[i] = q[i + 1]
    BY <1>1, <1>4, HeadTailProperties
  <2>2. IsList(Tail(q))
    BY <2>1, ListOfSeq
  <2>3. Head(q) = q[1]
    BY <1>1, <1>4
  <2>4. Len(q) > 0
    BY <1>2, <1>3, <1>4
  <2>5. QED
    BY <2>1, <2>2, <2>3, <2>4
<1>5. ASSUME NEW x
      PROVE  /\ IsList(Append(q, x)) /\ Len(Append(q, x)) = Len(q) + 1
             /\ Append(q, x)[Len(q) + 1] = x
             /\ \A i \in 1..Len(q) : Append(q, x)[i] = q[i]
  <2> DEFINE U == T \cup {x}
  <2>1. q \in Seq(U)
    BY <1>1, SeqMonotonic
  <2>2. x \in U
    OBVIOUS
  <2> HIDE DEF U
  <2>3. Append(q, x) \in Seq(U) /\ Len(Append(q, x)) = Len(q) + 1
    BY <2>1, <2>2
  <2>4. IsList(Append(q, x))
    BY <2>3, ListOfSeq
  <2>5. Append(q, x)[Len(q) + 1] = x /\ \A i \in 1..Len(q) : Append(q, x)[i] = q[i]
    BY <2>1, <2>2
  <2>6. QED
    BY <2>3, <2>4, <2>5
<1>6. QED
  BY <1>2, <1>3, <1>4, <1>5

\* Lists are equal when their elements are.
LEMMA ListEqual ==
  ASSUME NEW p, NEW q, IsList(p), IsList(q), Len(p) = Len(q),
         \A i \in 1..Len(p) : p[i] = q[i]
  PROVE  p = q
<1>1. p = [i \in 1..Len(p) |-> p[i]] /\ q = [i \in 1..Len(q) |-> q[i]]
  BY ListFacts
<1>2. QED
  BY <1>1

LEMMA ConcatLists ==
  ASSUME NEW p, NEW q, IsList(p), IsList(q)
  PROVE  /\ IsList(p \o q) /\ Len(p \o q) = Len(p) + Len(q)
         /\ \A i \in 1..Len(p) : (p \o q)[i] = p[i]
         /\ \A i \in 1..Len(q) : (p \o q)[Len(p) + i] = q[i]
<1> DEFINE T == {p[i] : i \in DOMAIN p} \cup {q[i] : i \in DOMAIN q}
<1>1. p \in Seq(T) /\ q \in Seq(T)
  <2>1. p \in Seq({p[i] : i \in DOMAIN p}) /\ q \in Seq({q[i] : i \in DOMAIN q})
    BY DEF IsList
  <2>2. QED
    BY <2>1, SeqMonotonic
<1> HIDE DEF T
<1>2. /\ p \o q \in Seq(T) /\ Len(p \o q) = Len(p) + Len(q)
      /\ \A i \in 1..Len(p) + Len(q) :
           (p \o q)[i] = IF i <= Len(p) THEN p[i] ELSE q[i - Len(p)]
  BY <1>1, ConcatProperties
<1>3. Len(p) \in Nat /\ Len(q) \in Nat
  BY ListFacts
<1>4. IsList(p \o q)
  BY <1>2, ListOfSeq
<1>5. \A i \in 1..Len(p) : (p \o q)[i] = p[i]
  BY <1>2, <1>3
<1>6. \A i \in 1..Len(q) : (p \o q)[Len(p) + i] = q[i]
  BY <1>2, <1>3
<1>7. QED
  BY <1>2, <1>4, <1>5, <1>6

\* Short lists.
LEMMA Tuples ==
  ASSUME NEW x, NEW y
  PROVE  /\ IsList(<<>>) /\ Len(<<>>) = 0
         /\ IsList(<<x>>) /\ Len(<<x>>) = 1 /\ <<x>>[1] = x
         /\ Head(<<x>>) = x /\ Tail(<<x>>) = <<>> /\ <<x>> # <<>>
         /\ Append(<<>>, x) = <<x>> /\ Append(<<x>>, y) = <<x, y>>
         /\ IsList(<<x, y>>) /\ Len(<<x, y>>) = 2
         /\ Head(<<x, y>>) = x /\ Tail(<<x, y>>) = <<y>> /\ <<x, y>> # <<>>
<1> DEFINE T == {x, y}
<1>1. <<>> \in Seq(T) /\ <<x>> \in Seq(T) /\ <<x, y>> \in Seq(T)
  OBVIOUS
<1>2. IsList(<<>>) /\ IsList(<<x>>) /\ IsList(<<x, y>>)
  BY <1>1, ListOfSeq
<1>3. /\ Len(<<>>) = 0 /\ Len(<<x>>) = 1 /\ <<x>>[1] = x
      /\ Head(<<x>>) = x /\ <<x>> # <<>>
      /\ Len(<<x, y>>) = 2 /\ Head(<<x, y>>) = x /\ <<x, y>> # <<>>
  OBVIOUS
<1>4. Append(<<>>, x) = <<x>>
  OBVIOUS
<1>5. Append(<<x>>, y) = <<x, y>>
  <2>1. IsList(Append(<<x>>, y)) /\ Len(Append(<<x>>, y)) = 2
    BY <1>2, <1>3, ListFacts
  <2>2. Append(<<x>>, y)[1] = x /\ Append(<<x>>, y)[2] = y
    BY <1>2, <1>3, ListFacts
  <2>3. <<x, y>>[1] = x /\ <<x, y>>[2] = y /\ Len(<<x, y>>) = 2
    OBVIOUS
  <2> HIDE DEF IsList
  <2>4. \A i \in 1..2 : i = 1 \/ i = 2
    OBVIOUS
  <2>5. QED
    BY <1>2, <2>1, <2>2, <2>3, <2>4, ListEqual
<1>6. Tail(<<x>>) = <<>>
  OBVIOUS
<1>7. Tail(<<x, y>>) = <<y>>
  OBVIOUS
<1>8. QED
  BY <1>2, <1>3, <1>4, <1>5, <1>6, <1>7

-----------------------------------------------------------------------------
(* The commands and the steps they make.                                   *)

LEMMA CommandFacts ==
  ASSUME NEW c, c \in Commands, env \in Settings
  PROVE  /\ c.op \in {"SYNC", "EVAL", "VERIFY", "BATCH", "INVALIDATE"} /\ c # None
         /\ c = [op |-> c.op, ss |-> c.ss, toks |-> c.toks]
         /\ c.ss[1] \in Sessions /\ c.ss[1] \in ToSet(c.ss) /\ ToSet(c.ss) \subseteq Sessions
         /\ c.op # "BATCH" => c.ss = <<c.ss[1]>> /\ ToSet(c.ss) = {c.ss[1]}
         /\ c.op = "SYNC" => c.toks \in Seq(Token)
         /\ c.op = "EVAL" => c.toks[1] \in Token
         /\ c.op = "VERIFY" => /\ c.toks \in Seq(Token) /\ Len(c.toks) = 2
         /\ c.op = "BATCH" => /\ c.ss[2] \in Sessions /\ c.ss[2] \in ToSet(c.ss)
                              /\ c.toks[1] \in Token /\ c.toks[2] \in Token
<1>1. /\ env.use \subseteq Sessions /\ env.prompts \subseteq Seq(Token)
      /\ env.tokens \subseteq Token
  BY SettingsAssumption
<1>2. CASE \E s \in env.use, toks \in env.prompts : c = [op |-> "SYNC", ss |-> <<s>>, toks |-> toks]
  <2>1. PICK s \in env.use, toks \in env.prompts : c = [op |-> "SYNC", ss |-> <<s>>, toks |-> toks]
    BY <1>2
  <2>2. /\ c.op = "SYNC" /\ c.ss = <<s>> /\ c.ss[1] = s /\ c.toks = toks
        /\ toks \in Seq(Token) /\ s \in Sessions
    BY <1>1, <2>1
  <2>3. ToSet(<<s>>) = {s}
    BY DEF ToSet
  <2>4. QED
    BY <2>1, <2>2, <2>3 DEF None
<1>3. CASE \E s \in env.use, t \in env.tokens : c = [op |-> "EVAL", ss |-> <<s>>, toks |-> <<t>>]
  <2>1. PICK s \in env.use, t \in env.tokens : c = [op |-> "EVAL", ss |-> <<s>>, toks |-> <<t>>]
    BY <1>3
  <2>2. /\ c.op = "EVAL" /\ c.ss = <<s>> /\ c.ss[1] = s /\ c.toks = <<t>> /\ c.toks[1] = t
        /\ t \in Token /\ s \in Sessions
    BY <1>1, <2>1
  <2>3. ToSet(<<s>>) = {s}
    BY DEF ToSet
  <2>4. QED
    BY <2>1, <2>2, <2>3 DEF None
<1>4. CASE \E s \in env.use, t, u \in env.tokens :
             c = [op |-> "VERIFY", ss |-> <<s>>, toks |-> <<t, u>>]
  <2>1. PICK s \in env.use, t \in env.tokens, u \in env.tokens :
          c = [op |-> "VERIFY", ss |-> <<s>>, toks |-> <<t, u>>]
    BY <1>4
  <2>2. /\ c.op = "VERIFY" /\ c.ss = <<s>> /\ c.ss[1] = s /\ c.toks = <<t, u>>
        /\ t \in Token /\ u \in Token /\ s \in Sessions
    BY <1>1, <2>1
  <2>3. ToSet(<<s>>) = {s}
    BY DEF ToSet
  <2>4. <<t, u>> \in Seq(Token) /\ Len(<<t, u>>) = 2
    BY <2>2
  <2>5. QED
    BY <2>1, <2>2, <2>3, <2>4 DEF None
<1>5. CASE \E s, z \in env.use, t \in env.tokens :
             c = [op |-> "BATCH", ss |-> <<s, z>>, toks |-> <<t, t>>]
  <2>1. PICK s \in env.use, z \in env.use, t \in env.tokens :
          c = [op |-> "BATCH", ss |-> <<s, z>>, toks |-> <<t, t>>]
    BY <1>5
  <2>2. /\ c.op = "BATCH" /\ c.ss = <<s, z>> /\ c.ss[1] = s /\ c.ss[2] = z
        /\ c.toks[1] = t /\ c.toks[2] = t
        /\ t \in Token /\ z \in Sessions /\ s \in Sessions
    BY <1>1, <2>1
  <2>3. ToSet(<<s, z>>) = {s, z}
    BY DEF ToSet
  <2>4. QED
    BY <2>1, <2>2, <2>3 DEF None
<1>6. CASE \E s \in env.use : c = [op |-> "INVALIDATE", ss |-> <<s>>, toks |-> <<>>]
  <2>1. PICK s \in env.use : c = [op |-> "INVALIDATE", ss |-> <<s>>, toks |-> <<>>]
    BY <1>6
  <2>2. /\ c.op = "INVALIDATE" /\ c.ss = <<s>> /\ c.ss[1] = s /\ s \in Sessions
    BY <1>1, <2>1
  <2>3. ToSet(<<s>>) = {s}
    BY DEF ToSet
  <2>4. QED
    BY <2>1, <2>2, <2>3 DEF None
<1>7. QED
  <2>1. \/ \E s \in env.use, toks \in env.prompts : c = [op |-> "SYNC", ss |-> <<s>>, toks |-> toks]
        \/ \E s \in env.use, t \in env.tokens : c = [op |-> "EVAL", ss |-> <<s>>, toks |-> <<t>>]
        \/ \E s \in env.use, t, u \in env.tokens :
             c = [op |-> "VERIFY", ss |-> <<s>>, toks |-> <<t, u>>]
        \/ \E s, z \in env.use, t \in env.tokens :
             c = [op |-> "BATCH", ss |-> <<s, z>>, toks |-> <<t, t>>]
        \/ \E s \in env.use : c = [op |-> "INVALIDATE", ss |-> <<s>>, toks |-> <<>>]
    BY DEF Commands
  <2>2. QED
    BY <1>2, <1>3, <1>4, <1>5, <1>6, <2>1


\* The elements of a list of five, and that it is one.
LEMMA Quintuple ==
  ASSUME NEW a, NEW b, NEW c, NEW d, NEW e
  PROVE  LET q == <<a, b, c, d, e>> IN
         /\ IsList(q) /\ Len(q) = 5
         /\ q[1] = a /\ q[2] = b /\ q[3] = c /\ q[4] = d /\ q[5] = e
<1> DEFINE T == {a, b, c, d, e}
<1>1. <<a, b, c, d, e>> \in Seq(T)
  OBVIOUS
<1>2. QED
  BY <1>1, ListOfSeq

LEMMA Triple ==
  ASSUME NEW a, NEW b, NEW c
  PROVE  LET q == <<a, b, c>> IN
         /\ IsList(q) /\ Len(q) = 3
         /\ q[1] = a /\ q[2] = b /\ q[3] = c
<1> DEFINE T == {a, b, c}
<1>1. <<a, b, c>> \in Seq(T)
  OBVIOUS
<1>2. QED
  BY <1>1, ListOfSeq

\* The chunks of a prefill, whatever has been kept.
LEMMA ChunksShape ==
  ASSUME NEW s \in Sessions, NEW prompt \in Seq(Token), NEW from \in Nat, from <= Len(prompt)
  PROVE  /\ IsList(Chunks(s, from, prompt))
         /\ Len(Chunks(s, from, prompt)) = 2 * (Len(prompt) - from)
         /\ \A i \in 1..2 * (Len(prompt) - from) :
              \/ \E toks \in Seq(Token) : Chunks(s, from, prompt)[i] = Gate(s, toks)
              \/ \E at \in Nat : Chunks(s, from, prompt)[i] = Vote(1, at)
<1> DEFINE n == 2 * (Len(prompt) - from)
           at(i) == from + ((i + 1) \div 2)
           q == [i \in 1..n |-> IF i % 2 = 1 THEN Gate(s, SubSeq(prompt, 1, at(i)))
                                             ELSE Vote(1, at(i))]
<1>1. Len(prompt) \in Nat /\ n \in Nat
  BY LenProperties
<1>2. Chunks(s, from, prompt) = q
  BY DEF Chunks
<1>3. IsList(q) /\ Len(q) = n
  <2>1. q = [i \in 1..n |-> q[i]]
    OBVIOUS
  <2> HIDE DEF q
  <2>2. QED
    BY <1>1, <2>1, ListOfFunction
<1>4. ASSUME NEW i \in 1..n
      PROVE  \/ \E toks \in Seq(Token) : q[i] = Gate(s, toks)
             \/ \E p \in Nat : q[i] = Vote(1, p)
  <2>1. at(i) \in Nat /\ 1 <= at(i) /\ at(i) <= Len(prompt)
    BY <1>1
  <2>2. q[i] = IF i % 2 = 1 THEN Gate(s, SubSeq(prompt, 1, at(i))) ELSE Vote(1, at(i))
    BY <1>4
  <2> HIDE DEF q, at
  <2>3. SubSeq(prompt, 1, at(i)) \in Seq(Token)
    <3>1. \A j \in 1..at(i) : prompt[j] \in Token
      BY <2>1, ElementOfSeq
    <3>2. QED
      BY <2>1, <3>1, SubSeqProperties
  <2>4. QED
    BY <2>1, <2>2, <2>3
<1>5. QED
  BY <1>2, <1>3, <1>4


LEMMA StepsOf ==
  ASSUME NEW r \in Rank, NEW c, c \in Commands, c.op # "INVALIDATE", env \in Settings,
         \A z \in Sessions : sess[r][z].toks \in Seq(Token),
         c.op = "VERIFY" => \A z \in Sessions : sess[r][z].pure = TRUE
  PROVE  Shape(Steps(r, c), c)
<1> DEFINE s == c.ss[1]
<1>1. /\ c.op \in {"SYNC", "EVAL", "VERIFY", "BATCH"}
      /\ s \in Sessions /\ s \in ToSet(c.ss)
      /\ c.op = "SYNC" => c.toks \in Seq(Token)
      /\ c.op = "EVAL" => c.toks[1] \in Token
      /\ c.op = "VERIFY" => /\ c.toks \in Seq(Token) /\ Len(c.toks) = 2
      /\ c.op = "BATCH" => /\ c.ss[2] \in Sessions /\ c.ss[2] \in ToSet(c.ss)
                           /\ c.toks[1] \in Token /\ c.toks[2] \in Token
  BY CommandFacts
<1>2. \A z \in Sessions : /\ sess[r][z].toks \in Seq(Token)
                           /\ c.op = "VERIFY" => sess[r][z].pure = TRUE
  OBVIOUS
<1>3. \A z \in Sessions, t \in Token : Ahead(r, z, t) \in Seq(Token)
  BY <1>2 DEF Ahead
<1>4. CASE c.op = "SYNC"
  <2> DEFINE k == Len(Kept(r, s, c.toks))
             ch == Chunks(s, k, c.toks)
             v == Vote(0, 0)
             fin == <<Vote(3, 0), Ack, Half(s)>>
             q == (<<v>> \o ch) \o fin
             n == 2 * (Len(c.toks) - k)
  <2>1. k \in Nat /\ k <= Len(c.toks)
    <3>1. Kept(r, s, c.toks) = <<>> \/ (/\ Kept(r, s, c.toks) = sess[r][s].toks
                                        /\ Len(sess[r][s].toks) <= Len(c.toks))
      BY DEF Kept, IsPrefix
    <3>2. Len(c.toks) \in Nat /\ Len(sess[r][s].toks) \in Nat
      BY <1>1, <1>2, <1>4, LenProperties
    <3>3. Len(<<>>) = 0
      OBVIOUS
    <3>4. QED
      BY <3>1, <3>2, <3>3
  <2>2. /\ IsList(ch) /\ Len(ch) = n /\ n \in Nat
        /\ \A i \in 1..n : \/ \E toks \in Seq(Token) : ch[i] = Gate(s, toks)
                           \/ \E at \in Nat : ch[i] = Vote(1, at)
    <3>1. s \in Sessions /\ c.toks \in Seq(Token) /\ Len(c.toks) \in Nat
      BY <1>1, <1>4, LenProperties
    <3> HIDE DEF s, k
    <3>2. n \in Nat
      BY <2>1, <3>1
    <3>3. QED
      BY <2>1, <3>1, <3>2, ChunksShape
  <2>3. Steps(r, c) = q
    BY <1>4 DEF Steps
  <2>4. IsList(fin) /\ Len(fin) = 3 /\ fin[1] = Vote(3, 0) /\ fin[2] = Ack /\ fin[3] = Half(s)
    BY Triple
  <2>5. IsList(<<v>>) /\ Len(<<v>>) = 1 /\ <<v>>[1] = v
    BY Tuples
  <2> HIDE DEF ch, n, v, fin, k, s
  <2>6. /\ IsList(<<v>> \o ch) /\ Len(<<v>> \o ch) = 1 + n
        /\ (<<v>> \o ch)[1] = v /\ \A i \in 1..n : (<<v>> \o ch)[1 + i] = ch[i]
    <3>1. 1 \in 1..Len(<<v>>)
      BY <2>5
    <3>2. QED
      BY <2>2, <2>5, <3>1, ConcatLists
  <2>7. /\ IsList(q) /\ Len(q) = n + 4
        /\ \A i \in 1..n + 1 : q[i] = (<<v>> \o ch)[i]
        /\ \A i \in 1..3 : q[n + 1 + i] = fin[i]
    <3> DEFINE x == <<v>> \o ch
    <3>1. IsList(x) /\ Len(x) = 1 + n
      BY <2>6
    <3> HIDE DEF x
    <3>2. /\ IsList(x \o fin) /\ Len(x \o fin) = Len(x) + Len(fin)
          /\ \A i \in 1..Len(x) : (x \o fin)[i] = x[i]
          /\ \A i \in 1..Len(fin) : (x \o fin)[Len(x) + i] = fin[i]
      <4>1. IsList(fin) /\ IsList(x)
        BY <2>4, <3>1
      <4>2. \A u, w : IsList(u) /\ IsList(w) =>
              /\ IsList(u \o w) /\ Len(u \o w) = Len(u) + Len(w)
              /\ \A i \in 1..Len(u) : (u \o w)[i] = u[i]
              /\ \A i \in 1..Len(w) : (u \o w)[Len(u) + i] = w[i]
        BY ConcatLists
      <4>3. IsList(x \o fin)
        BY <4>1, <4>2
      <4>4. Len(x \o fin) = Len(x) + Len(fin)
        BY <4>1, <4>2
      <4>5. \A i \in 1..Len(x) : (x \o fin)[i] = x[i]
        BY <4>1, <4>2
      <4>6. \A i \in 1..Len(fin) : (x \o fin)[Len(x) + i] = fin[i]
        BY <4>1, <4>2
      <4>7. QED
        BY <4>3, <4>4, <4>5, <4>6
    <3>3. Len(x) = n + 1 /\ Len(fin) = 3 /\ Len(x) + Len(fin) = n + 4
      BY <2>2, <2>4, <3>1
    <3>4. QED
      BY <3>2, <3>3 DEF x
  <2> HIDE DEF q
  <2>8. /\ q[1] = v /\ \A i \in 2..n + 1 : q[i] = ch[i - 1]
        /\ q[n + 2] = Vote(3, 0) /\ q[n + 3] = Ack /\ q[n + 4] = Half(s)
    <3>1. q[n + 1 + 1] = fin[1] /\ q[n + 1 + 2] = fin[2] /\ q[n + 1 + 3] = fin[3]
      BY <2>2, <2>7
    <3>2. n + 1 + 1 = n + 2 /\ n + 1 + 2 = n + 3 /\ n + 1 + 3 = n + 4
      BY <2>2
    <3>3. ASSUME NEW i \in 2..n + 1 PROVE q[i] = ch[i - 1]
      <4>1. PICK m : m = i - 1
        OBVIOUS
      <4>2. m \in 1..n /\ i = 1 + m /\ i \in 1..n + 1
        BY <2>2, <4>1
      <4>3. (<<v>> \o ch)[1 + m] = ch[m]
        BY <2>6, <4>2
      <4>4. q[i] = (<<v>> \o ch)[i]
        BY <2>7, <4>2
      <4>5. QED
        BY <4>1, <4>2, <4>3, <4>4
    <3>4. 1 \in 1..n + 1
      BY <2>2
    <3>5. QED
      BY <2>4, <2>6, <2>7, <3>1, <3>2, <3>3, <3>4
  <2>9. ASSUME NEW i \in 1..n + 4
        PROVE  \/ \E toks \in Seq(Token) : i < n + 2 /\ q[i] = Gate(s, toks)
               \/ \E p, at : i < n + 3 /\ q[i] = Vote(p, at)
               \/ i = n + 3 /\ q[i] = Ack
               \/ i = n + 4 /\ q[i] = Half(s)
    <3>1. i = 1 \/ i \in 2..n + 1 \/ i = n + 2 \/ i = n + 3 \/ i = n + 4
      BY <2>2
    <3>2. CASE i = 1
      BY <2>2, <2>8, <3>2 DEF v
    <3>3. CASE i \in 2..n + 1
      <4>1. q[i] = ch[i - 1] /\ i - 1 \in 1..n
        BY <2>2, <2>8, <3>3
      <4>2. QED
        BY <2>2, <3>3, <4>1
    <3>4. QED
      BY <2>2, <2>8, <3>1, <3>2, <3>3
  <2>10. q # <<>> /\ q[Len(q)].do = "half"
    BY <2>2, <2>7, <2>8, ListFacts DEF Half
  <2>11. ASSUME NEW i \in 1..n + 4
         PROVE  /\ q[i].do \in {"gate", "vote", "ack", "half", "commit"}
                /\ q[i].do \in {"ack", "half"} => i >= n + 3
                /\ q[i].do = "half" => q[i].s = s
                /\ q[i].do # "commit"
                /\ q[i].do = "gate" => q[i].s = s /\ q[i].toks \in Seq(Token) /\ q[i].head
    <3>1. CASE \E toks \in Seq(Token) : i < n + 2 /\ q[i] = Gate(s, toks)
      BY <2>2, <3>1 DEF Gate
    <3>2. CASE \E p, at : i < n + 3 /\ q[i] = Vote(p, at)
      BY <2>2, <3>2 DEF Vote
    <3>3. CASE i = n + 3 /\ q[i] = Ack
      BY <2>2, <3>3 DEF Ack
    <3>4. CASE i = n + 4 /\ q[i] = Half(s)
      BY <2>2, <3>4 DEF Half
    <3>5. QED
      BY <2>9, <3>1, <3>2, <3>3, <3>4
  <2>12. \A i \in 1..n + 4 : i >= n + 3 =>
           \A j \in i..n + 4 : q[j].do \in {"ack", "half"}
    BY <2>2, <2>8 DEF Ack, Half
  <2>13. n + 4 \in 1..n + 4
    BY <2>2
  <2>14. Shape(q, c)
    BY <1>1, <1>4, <2>7, <2>8, <2>10, <2>11, <2>12, <2>13 DEF Shape, s
  <2>15. QED
    BY <2>3, <2>14
<1>5. CASE c.op = "EVAL"
  <2> DEFINE g == Gate(s, Ahead(r, s, c.toks[1]))
             q == <<g, Half(s)>>
  <2>1. Steps(r, c) = q
    BY <1>5 DEF Steps, EvalSteps
  <2>2. IsList(q) /\ Len(q) = 2 /\ q[1] = g /\ q[2] = Half(s) /\ q # <<>>
    BY Tuples
  <2>3. \A i \in 1..2 : i = 1 \/ i = 2
    OBVIOUS
  <2>4. g.do = "gate" /\ g.s = s /\ g.toks \in Seq(Token) /\ g.head = TRUE
    BY <1>1, <1>3, <1>5 DEF Gate
  <2>5. Half(s).do = "half" /\ Half(s).s = s
    BY DEF Half
  <2> HIDE DEF q, g, s
  <2>6. Shape(q, c)
    BY <1>1, <2>2, <2>3, <2>4, <2>5 DEF Shape
  <2>7. QED
    BY <1>5, <2>1, <2>2, <2>4, <2>6
<1>6. CASE c.op = "VERIFY"
  <2> DEFINE g == BlockGate(s, sess[r][s].toks \o c.toks)
             k == Commit(sess[r][s])
             q == <<g, k>>
  <2>1. Steps(r, c) = q
    BY <1>6 DEF Steps
  <2>2. IsList(q) /\ Len(q) = 2 /\ q[1] = g /\ q[2] = k /\ q # <<>>
    BY Tuples
  <2>3. \A i \in 1..2 : i = 1 \/ i = 2
    OBVIOUS
  <2>4. sess[r][s].toks \o c.toks \in Seq(Token)
    BY <1>1, <1>2, <1>6, ConcatProperties
  <2>5. g.do = "gate" /\ g.s = s /\ g.toks \in Seq(Token) /\ g.head = FALSE
    BY <2>4 DEF BlockGate
  <2>6. k.do = "commit" /\ k.kept.pure = TRUE /\ k.kept.toks \in Seq(Token)
    BY <1>1, <1>2, <1>6 DEF Commit
  <2> HIDE DEF q, g, k
  <2>7. Shape(q, c)
    BY <1>1, <1>6, <2>2, <2>3, <2>5, <2>6 DEF Shape
  <2>8. QED
    BY <1>6, <2>1, <2>2, <2>5, <2>7
<1>7. CASE c.op = "BATCH"
  <2> DEFINE z == c.ss[2]
             g == Gate(s, Ahead(r, s, c.toks[1]))
             h == Gate(z, Ahead(r, z, c.toks[2]))
             q == <<g, h, Ack, Half(s), Half(z)>>
  <2>1. Steps(r, c) = q
    BY <1>7 DEF Steps
  <2>2. /\ IsList(q) /\ Len(q) = 5
        /\ q[1] = g /\ q[2] = h /\ q[3] = Ack /\ q[4] = Half(s) /\ q[5] = Half(z)
    BY Quintuple
  <2>3. \A i \in 1..5 : i = 1 \/ i = 2 \/ i = 3 \/ i = 4 \/ i = 5
    OBVIOUS
  <2>4. /\ g.do = "gate" /\ g.s = s /\ g.toks \in Seq(Token) /\ g.head = TRUE
        /\ h.do = "gate" /\ h.s = z /\ h.toks \in Seq(Token) /\ h.head = TRUE
    BY <1>1, <1>3, <1>7 DEF Gate
  <2>5. /\ Half(s).do = "half" /\ Half(s).s = s /\ Half(z).do = "half" /\ Half(z).s = z
        /\ Ack.do = "ack"
    BY DEF Half, Ack
  <2>6. s \in Sessions /\ z \in Sessions /\ s \in ToSet(c.ss) /\ z \in ToSet(c.ss)
    BY <1>1, <1>7
  <2>7. q # <<>>
    BY <2>2, ListFacts
  <2> HIDE DEF q, g, h, s, z
  <2>8. Shape(q, c)
    BY <2>2, <2>3, <2>4, <2>5, <2>6, <2>7 DEF Shape
  <2>9. QED
    BY <1>7, <2>1, <2>2, <2>4, <2>8
<1>8. QED
  BY <1>1, <1>4, <1>5, <1>6, <1>7

LEMMA StepsShape ==
  ASSUME NEW r \in Rank, NEW c, c \in Commands, c.op # "INVALIDATE", LocallySound
  PROVE  Shape(Steps(r, c), c)
<1>1. /\ env \in Settings
      /\ \A z \in Sessions : sess[r][z].toks \in Seq(Token) /\ sess[r][z].pure = TRUE
  BY DEF LocallySound
<1>2. QED
  BY <1>1, StepsOf

\* Ranks with the same sessions take the same steps.
LEMMA StepsEqual ==
  ASSUME NEW c, sess[W] = sess[L]
  PROVE  Steps(W, c) = Steps(L, c)
<1>1. \A s, t : Ahead(W, s, t) = Ahead(L, s, t)
  BY DEF Ahead
<1>2. \A s, t : EvalSteps(W, s, t) = EvalSteps(L, s, t)
  BY <1>1 DEF EvalSteps
<1>3. \A s, p : Kept(W, s, p) = Kept(L, s, p)
  BY DEF Kept
<1>4. QED
  BY <1>1, <1>2, <1>3 DEF Steps

-----------------------------------------------------------------------------
(* The ranks, and what a step of one leaves alone of the other.            *)

LEMMA Ranks ==
  /\ L = 0 /\ W = 1 /\ Rank = {L, W} /\ L # W /\ L \in Rank /\ W \in Rank
  /\ Peer(L) = W /\ Peer(W) = L
  /\ \A r \in Rank : Peer(r) \in Rank /\ Peer(r) # r /\ Peer(Peer(r)) = r
  /\ \A r, q \in Rank : q = r \/ q = Peer(r)
  BY DEF L, W, Rank, Peer

-----------------------------------------------------------------------------
(* Lists of steps.                                                         *)

LEMMA ShapeFacts ==
  ASSUME NEW q, NEW c, Shape(q, c)
  PROVE  /\ IsList(q) /\ Len(q) \in Nat /\ Len(q) > 0 /\ 1 \in 1..Len(q)
         /\ q # <<>> /\ Head(q) = q[1]
         /\ q[1].do \in {"gate", "vote", "ack", "half", "commit"}
         /\ q[1].do = "vote" => c.op = "SYNC"
         /\ q[1].do = "commit" => c.op = "VERIFY"
         /\ q[1].do \notin {"half", "commit"} =>
              Len(q) > 1 /\ Len(Tail(q)) = Len(q) - 1 /\ Shape(Tail(q), c)
<1>1. /\ IsList(q) /\ q # <<>> /\ q[Len(q)].do \in {"half", "commit"}
  BY DEF Shape
<1>2. /\ Len(q) \in Nat /\ Len(q) > 0 /\ Head(q) = q[1]
      /\ IsList(Tail(q)) /\ Len(Tail(q)) = Len(q) - 1
      /\ \A i \in 1..Len(q) - 1 : Tail(q)[i] = q[i + 1]
  BY <1>1, ListFacts
<1> DEFINE n == Len(q)
<1> HIDE DEF n
<1>3. n \in Nat /\ n > 0 /\ 1 \in 1..n
  BY <1>2 DEF n
<1>4. \A i \in 1..n :
        /\ q[i].do \in {"gate", "vote", "ack", "half", "commit"}
        /\ q[i].do \in {"ack", "half"} => \A j \in i..n : q[j].do \in {"ack", "half"}
        /\ q[i].do = "half" => q[i].s \in ToSet(c.ss)
        /\ q[i].do = "vote" => c.op = "SYNC"
        /\ q[i].do = "commit" => /\ i = n /\ c.op = "VERIFY" /\ q[i].kept.pure = TRUE
                                /\ q[i].kept.toks \in Seq(Token)
        /\ q[i].do = "gate" =>
             /\ q[i].s \in Sessions /\ q[i].toks \in Seq(Token)
             /\ q[i].head => \E j \in 1..n : q[j] = Half(q[i].s)
             /\ ~q[i].head => /\ c.op = "VERIFY" /\ i = 1 /\ n = 2
                              /\ q[1].s = c.ss[1] /\ q[2].do = "commit"
  BY DEF Shape, n
<1>5. ASSUME q[1].do \notin {"half", "commit"}
      PROVE  n > 1 /\ Shape(Tail(q), c)
  <2>1. n # 1
    BY <1>1, <1>5 DEF n
  <2>2. n > 1
    BY <1>3, <2>1
  <2> DEFINE t == Tail(q)
  <2>3. IsList(t) /\ Len(t) = n - 1 /\ \A i \in 1..n - 1 : t[i] = q[i + 1]
    BY <1>2 DEF n
  <2> HIDE DEF t
  <2>4. t # <<>>
    <3>1. Len(t) # 0
      BY <1>3, <2>2, <2>3
    <3>2. QED
      BY <2>3, <3>1, ListFacts
  <2>5. t[Len(t)].do \in {"half", "commit"}
    <3>1. n - 1 \in 1..n - 1 /\ (n - 1) + 1 = n
      BY <1>3, <2>2
    <3>2. t[n - 1] = q[n]
      BY <2>3, <3>1
    <3>3. QED
      BY <1>1, <2>3, <3>2 DEF n
  <2>6. ASSUME NEW i \in 1..n - 1
        PROVE  /\ i + 1 \in 1..n /\ t[i] = q[i + 1]
    BY <1>3, <2>2, <2>3
  <2>7. ASSUME NEW i \in 1..n - 1
        PROVE  /\ t[i].do \in {"gate", "vote", "ack", "half", "commit"}
               /\ t[i].do = "half" => t[i].s \in ToSet(c.ss)
               /\ t[i].do = "vote" => c.op = "SYNC"
               /\ t[i].do = "commit" => /\ i = n - 1 /\ c.op = "VERIFY" /\ t[i].kept.pure = TRUE
                                       /\ t[i].kept.toks \in Seq(Token)
    <3>1. i + 1 \in 1..n /\ t[i] = q[i + 1] /\ (i + 1 = n => i = n - 1)
      BY <1>3, <2>6
    <3>2. QED
      BY <1>4, <3>1
  <2>8. ASSUME NEW i \in 1..n - 1, t[i].do \in {"ack", "half"}, NEW j \in i..n - 1
        PROVE  t[j].do \in {"ack", "half"}
    <3>1. j \in 1..n - 1 /\ j + 1 \in (i + 1)..n
      BY <1>3
    <3>2. t[j] = q[j + 1] /\ q[i + 1].do \in {"ack", "half"} /\ i + 1 \in 1..n
      BY <2>6, <2>8, <3>1
    <3>3. QED
      BY <1>4, <3>1, <3>2
  <2>9. ASSUME NEW i \in 1..n - 1, t[i].do = "gate"
        PROVE  /\ t[i].s \in Sessions /\ t[i].toks \in Seq(Token) /\ t[i].head
               /\ \E j \in 1..n - 1 : t[j] = Half(t[i].s)
    <3>1. i + 1 \in 1..n /\ t[i] = q[i + 1] /\ i + 1 # 1
      BY <2>6
    <3>2. /\ t[i].s \in Sessions /\ t[i].toks \in Seq(Token) /\ t[i].head
      BY <1>4, <2>9, <3>1
    <3>3. PICK j \in 1..n : q[j] = Half(t[i].s)
      BY <1>4, <2>9, <3>1, <3>2
    <3>4. j # 1
      BY <1>5, <3>3 DEF Half
    <3>5. j - 1 \in 1..n - 1 /\ (j - 1) + 1 = j
      BY <1>3, <3>4
    <3>6. t[j - 1] = Half(t[i].s)
      BY <2>6, <3>3, <3>5
    <3>7. QED
      BY <3>2, <3>5, <3>6
  <2>10. Shape(t, c)
    <3>1. IsList(t) /\ t # <<>> /\ t[Len(t)].do \in {"half", "commit"} /\ 1..Len(t) = 1..n - 1
      BY <2>3, <2>4, <2>5
    <3>2. ASSUME NEW i \in 1..Len(t)
          PROVE  /\ t[i].do \in {"gate", "vote", "ack", "half", "commit"}
                 /\ t[i].do = "half" => t[i].s \in ToSet(c.ss)
                 /\ t[i].do = "vote" => c.op = "SYNC"
                 /\ t[i].do = "commit" => /\ i = Len(t) /\ c.op = "VERIFY" /\ t[i].kept.pure = TRUE
                                         /\ t[i].kept.toks \in Seq(Token)
      BY <2>3, <2>7, <3>1
    <3>3. ASSUME NEW i \in 1..Len(t)
          PROVE  t[i].do \in {"ack", "half"} => \A j \in i..Len(t) : t[j].do \in {"ack", "half"}
      BY <2>3, <2>8
    <3>4. ASSUME NEW i \in 1..Len(t), t[i].do = "gate"
          PROVE  /\ t[i].s \in Sessions /\ t[i].toks \in Seq(Token) /\ t[i].head
                 /\ \E j \in 1..Len(t) : t[j] = Half(t[i].s)
      BY <2>9, <3>1, <3>4
    <3>5. QED
      BY <3>1, <3>2, <3>3, <3>4 DEF Shape
  <2>11. QED
    BY <2>2, <2>10 DEF t
<1>6. QED
  BY <1>1, <1>2, <1>3, <1>4, <1>5 DEF n

\* The first step of a rank that executes a command.
LEMMA HeadFacts ==
  ASSUME NEW r \in Rank, LocallySound, job[r] # None
  PROVE  /\ Shape(todo[r], job[r]) /\ IsList(todo[r])
         /\ Len(todo[r]) \in Nat /\ Len(todo[r]) > 0 /\ 1 \in 1..Len(todo[r])
         /\ todo[r] # <<>> /\ Head1(r) = todo[r][1] /\ Head1(r) = Head(todo[r])
         /\ Head1(r).do \in {"gate", "vote", "ack", "half", "commit"}
         /\ Head1(r).do = "vote" => job[r].op = "SYNC"
         /\ Head1(r).do = "commit" => job[r].op = "VERIFY"
         /\ Head1(r).do \notin {"half", "commit"} =>
              /\ Len(todo[r]) > 1 /\ Len(Tail(todo[r])) = Len(todo[r]) - 1
              /\ Shape(Tail(todo[r]), job[r])
         /\ job[r] \in Commands /\ job[r].op # "INVALIDATE" /\ env \in Settings
<1>1. /\ Shape(todo[r], job[r]) /\ job[r] \in Commands /\ job[r].op # "INVALIDATE"
      /\ env \in Settings
  BY DEF LocallySound
<1>2. todo[r] # <<>> /\ Head(todo[r]) = todo[r][1]
  BY <1>1, ShapeFacts
<1>3. Head1(r) = todo[r][1] /\ Head1(r) = Head(todo[r])
  BY <1>2 DEF Head1
<1>4. QED
  BY <1>1, <1>2, <1>3, ShapeFacts

\* A rank that comes to a commit is in a block.
LEMMA BlockIsVerify ==
  ASSUME LocallySound, NEW pre, Block(pre)
  PROVE  /\ job[W].op = "VERIFY" /\ job[W] # None
         /\ pre = "gate" => Tail(todo[W]) # <<>> /\ Head(Tail(todo[W])) = CommitStep(pre)
         /\ CommitStep(pre).do = "commit" /\ CommitStep(pre).kept.pure = TRUE
         /\ CommitStep(pre).kept.toks \in Seq(Token)
<1>1. /\ job[W] # None /\ CommitStep(pre).do = "commit" /\ pre \in {"none", "gate"}
      /\ pre = "gate" => Head1(W).do = "gate"
  BY DEF Block, Waits, At
<1>2. /\ Shape(todo[W], job[W]) /\ Head1(W) = todo[W][1] /\ IsList(todo[W])
      /\ Len(todo[W]) \in Nat /\ 1 \in 1..Len(todo[W]) /\ todo[W] # <<>>
      /\ Head1(W).do = "gate" => /\ Len(todo[W]) > 1 /\ Shape(Tail(todo[W]), job[W])
  BY <1>1, HeadFacts, Ranks
<1>3. PICK i \in 1..Len(todo[W]) :
        /\ CommitStep(pre) = todo[W][i]
        /\ pre = "gate" => i = 2 /\ Len(todo[W]) > 1
  <2>1. CASE pre = "gate"
    <3>1. CommitStep(pre) = todo[W][2]
      BY <2>1 DEF CommitStep
    <3>2. 2 \in 1..Len(todo[W]) /\ Len(todo[W]) > 1
      BY <1>1, <1>2, <2>1
    <3>3. QED
      BY <3>1, <3>2
  <2>2. CASE pre = "none"
    BY <1>2, <2>2 DEF CommitStep
  <2>3. QED
    BY <1>1, <2>1, <2>2
<1>4. /\ job[W].op = "VERIFY" /\ CommitStep(pre).kept.pure = TRUE
      /\ CommitStep(pre).kept.toks \in Seq(Token)
  <2>1. todo[W][i].do = "commit"
    BY <1>1, <1>3
  <2>2. QED
    BY <1>2, <1>3, <2>1 DEF Shape
<1>5. ASSUME pre = "gate"
      PROVE  Tail(todo[W]) # <<>> /\ Head(Tail(todo[W])) = CommitStep(pre)
  <2>1. Shape(Tail(todo[W]), job[W])
    BY <1>1, <1>2, <1>5
  <2>2. Tail(todo[W]) # <<>> /\ Head(Tail(todo[W])) = Tail(todo[W])[1]
    BY <2>1, ShapeFacts
  <2>3. 1 \in 1..Len(todo[W]) - 1
    BY <1>2, <1>3, <1>5
  <2>4. Tail(todo[W])[1] = todo[W][1 + 1]
    BY <1>2, <2>3, ListFacts
  <2>5. QED
    BY <1>3, <1>5, <2>2, <2>4
<1>6. QED
  BY <1>1, <1>4, <1>5

-----------------------------------------------------------------------------
(* Steps of one rank.                                                      *)

\* Two ranks that are level are so from either's side.
LEMMA Mirror ==
  ASSUME NEW b \in Rank, NEW c, Together(b, "none", c, Peer(b))
  PROVE  Together(Peer(b), "none", c, b)
  BY DEF Together, Linked, Onward, SessionsOf, GatesTo, VotesTo

\* What is said of a rank follows from its part of the state.
Stands(r) ==
  /\ job'[r] = job[r] /\ todo'[r] = todo[r] /\ sent'[r] = sent[r]
  /\ sync'[r] = sync[r] /\ gateSeq'[r] = gateSeq[r] /\ sess'[r] = sess[r]

LEMMA Unmoved ==
  ASSUME NEW r \in Rank, Stands(r)
  PROVE  /\ Head1(r)' = Head1(r) /\ VoteOut(r)' = VoteOut(r) /\ GateOut(r)' = GateOut(r)
         /\ Passed(r)' = Passed(r) /\ GateFrame(r)' = GateFrame(r) /\ Joined(r)' = Joined(r)
         /\ \A x : Waits(r, x)' <=> Waits(r, x)
         /\ \A c : VoteFrame(r, c)' = VoteFrame(r, c)
         /\ \A pre, c : Onward(r, pre, c)' = Onward(r, pre, c)
         /\ \A pre : SessionsOf(r, pre)' = SessionsOf(r, pre)
<1>1. Head1(r)' = Head1(r)
  BY DEF Stands, Head1
<1>2. \A x : Waits(r, x)' <=> Waits(r, x)
  BY <1>1 DEF Stands, Waits, At
<1>3. GateFrame(r)' = GateFrame(r)
  BY <1>1 DEF Stands, GateFrame
<1>4. \A c : VoteFrame(r, c)' = VoteFrame(r, c)
  BY <1>1 DEF VoteFrame
<1>5. VoteOut(r)' = VoteOut(r) /\ GateOut(r)' = GateOut(r) /\ Passed(r)' = Passed(r)
  BY <1>2, <1>3, <1>4 DEF VoteOut, GateOut, Passed, Stands
<1>6. Joined(r)' = Joined(r)
  BY <1>1 DEF Stands, Joined
<1>7. \A pre : SessionsOf(r, pre)' = SessionsOf(r, pre)
  BY <1>6 DEF SessionsOf, Stands
<1>8. \A c : AfterVote(r, c)' = AfterVote(r, c)
  BY <1>1 DEF AfterVote, Stands, Polls, Skip, Ending
<1>9. \A pre, c : Onward(r, pre, c)' = Onward(r, pre, c)
  BY <1>8 DEF Onward, Stands
<1>10. QED
  BY <1>1, <1>2, <1>3, <1>4, <1>5, <1>6, <1>7, <1>9


-----------------------------------------------------------------------------
(* Writing a half of a gate, or a vote.                                    *)

Written(r) ==
  /\ ~sent[r] /\ (At(r, "gate") \/ At(r, "vote"))
  /\ job' = job /\ todo' = todo /\ sess' = sess /\ alive' = alive /\ stopped' = stopped
  /\ sent' = [sent EXCEPT ![r] = TRUE]
  /\ Stands(Peer(r))
  /\ Head1(r)' = Head1(r) /\ Passed(r)' = Passed(r)
  /\ VoteOut(r) = <<>> /\ GateOut(r) = <<>>
  /\ \/ /\ At(r, "gate") /\ Waits(r, "gate")' /\ ~Waits(r, "vote")'
        /\ VoteOut(r)' = <<>> /\ frames' = frames
        /\ GateOut(r)' = <<GateFrame(r)'>>
        /\ gates' = [gates EXCEPT ![r] = Append(gates[r], GateFrame(r)')]
     \/ /\ At(r, "vote") /\ Waits(r, "vote")' /\ ~Waits(r, "gate")'
        /\ GateOut(r)' = <<>> /\ gates' = gates
        /\ VoteOut(r)' = <<VoteFrame(r, sync[r].cancelled)'>>
        /\ frames' = [frames EXCEPT ![r] = Append(frames[r], VoteFrame(r, sync[r].cancelled)')]

LEMMA GateSendWrites ==
  ASSUME NEW r \in Rank, LocallySound, GateSend(r)
  PROVE  /\ Written(r)
         /\ UNCHANGED <<gateDead, failed, torn, logits, env, sync>>
         /\ gateSeq' = [gateSeq EXCEPT ![r] = gateSeq[r] + 1]
<1>1. gateDead[r] = FALSE /\ gateSeq[r] \in Nat /\ DOMAIN gateSeq = Rank /\ DOMAIN sent = Rank
  BY DEF LocallySound
<1>2. /\ At(r, "gate") /\ ~sent[r]
      /\ gateSeq' = [gateSeq EXCEPT ![r] = gateSeq[r] + 1]
      /\ gates' = [gates EXCEPT ![r] = Append(gates[r],
           [seq |-> gateSeq[r] + 1, s |-> Head1(r).s, toks |-> Head1(r).toks])]
      /\ sent' = [sent EXCEPT ![r] = TRUE]
      /\ UNCHANGED <<sess, logits, todo, job, sync, frames, gateDead, failed, torn, alive,
                     stopped, env>>
  BY <1>1 DEF GateSend, Doing, link, setting
<1>3. gateSeq'[r] = gateSeq[r] + 1 /\ sent'[r] = TRUE
  BY <1>1, <1>2
<1>4. Head1(r)' = Head1(r)
  BY <1>2 DEF Head1
<1>5. At(r, "gate")' /\ ~At(r, "vote") /\ ~At(r, "vote")'
  BY <1>2, <1>4 DEF At
<1>6. /\ ~Waits(r, "gate") /\ ~Waits(r, "vote")
      /\ Waits(r, "gate")' /\ ~Waits(r, "vote")'
  BY <1>2, <1>3, <1>5 DEF Waits
<1>7. VoteOut(r) = <<>> /\ GateOut(r) = <<>> /\ Passed(r) = gateSeq[r]
  BY <1>6 DEF VoteOut, GateOut, Passed
<1>8. Passed(r)' = gateSeq[r]
  BY <1>1, <1>3, <1>6 DEF Passed
<1>9. VoteOut(r)' = <<>> /\ GateOut(r)' = <<GateFrame(r)'>>
  BY <1>6 DEF VoteOut, GateOut
<1>10. GateFrame(r)' = [seq |-> gateSeq[r] + 1, s |-> Head1(r).s, toks |-> Head1(r).toks]
  BY <1>3, <1>4 DEF GateFrame
<1>11. Stands(Peer(r))
  BY <1>1, <1>2, Ranks DEF Stands
<1>12. QED
  BY <1>2, <1>4, <1>6, <1>7, <1>8, <1>9, <1>10, <1>11 DEF Written

LEMMA VoteSendWrites ==
  ASSUME NEW r \in Rank, LocallySound, VoteSend(r)
  PROVE  /\ Written(r)
         /\ UNCHANGED <<gateDead, failed, torn, logits, env, gateSeq>>
         /\ \E cancel \in BOOLEAN :
              sync' = [sync EXCEPT ![r] = [rc |-> sync[r].rc, cancelled |-> cancel]]
<1>1. /\ failed[r] = FALSE /\ sync[r].cancelled \in BOOLEAN /\ DOMAIN sync = Rank
      /\ DOMAIN sent = Rank
  BY DEF LocallySound
<1>2. PICK cancel \in BOOLEAN :
        /\ frames' = [frames EXCEPT ![r] = Append(frames[r],
             [kind |-> "CHECKPOINT", point |-> Head1(r).point, at |-> Head1(r).at,
              cancelled |-> cancel])]
        /\ sync' = [sync EXCEPT ![r] = [rc |-> sync[r].rc, cancelled |-> cancel]]
        /\ sent' = [sent EXCEPT ![r] = TRUE]
        /\ todo' = todo
  <2>1. PICK asked \in BOOLEAN :
          LET cancel == sync[r].cancelled \/ asked IN
          /\ Send(r, [kind |-> "CHECKPOINT", point |-> Head1(r).point,
                      at |-> Head1(r).at, cancelled |-> cancel])
          /\ sync' = [sync EXCEPT ![r] = [rc |-> sync[r].rc, cancelled |-> cancel]]
          /\ sent' = [sent EXCEPT ![r] = TRUE]
          /\ UNCHANGED todo
    BY <1>1 DEF VoteSend
  <2>2. QED
    BY <2>1 DEF Send
<1>3. /\ At(r, "vote") /\ ~sent[r]
      /\ UNCHANGED <<sess, job, gates, gateSeq, gateDead, failed, torn, alive, stopped,
                     logits, env>>
  BY DEF VoteSend, Doing, link, setting
<1>4. sync'[r].cancelled = cancel /\ sent'[r] = TRUE
  BY <1>1, <1>2
<1>5. Head1(r)' = Head1(r)
  BY <1>2 DEF Head1
<1>6. At(r, "vote")' /\ ~At(r, "gate") /\ ~At(r, "gate")'
  BY <1>3, <1>5 DEF At
<1>7. /\ ~Waits(r, "gate") /\ ~Waits(r, "vote")
      /\ Waits(r, "vote")' /\ ~Waits(r, "gate")'
  BY <1>3, <1>4, <1>6 DEF Waits
<1>8. VoteOut(r) = <<>> /\ GateOut(r) = <<>> /\ Passed(r)' = Passed(r) /\ GateOut(r)' = <<>>
  BY <1>3, <1>7 DEF VoteOut, GateOut, Passed
<1>9. VoteOut(r)' = <<VoteFrame(r, sync[r].cancelled)'>>
  BY <1>7 DEF VoteOut
<1>10. VoteFrame(r, sync[r].cancelled)' =
         [kind |-> "CHECKPOINT", point |-> Head1(r).point, at |-> Head1(r).at,
          cancelled |-> cancel]
  BY <1>4, <1>5 DEF VoteFrame
<1>11. Stands(Peer(r))
  BY <1>1, <1>2, <1>3, Ranks DEF Stands
<1>12. frames' = [frames EXCEPT ![r] = Append(frames[r], VoteFrame(r, sync[r].cancelled)')]
  BY <1>2, <1>10
<1>13. QED
  BY <1>2, <1>3, <1>5, <1>7, <1>8, <1>9, <1>11, <1>12 DEF Written


LEMMA WrittenLevel ==
  ASSUME NEW r \in Rank, NEW c, LocallySound, Written(r),
         Together(r, "none", c, Peer(r))
  PROVE  Together(r, "none", c, Peer(r))'
<1> DEFINE p == Peer(r)
<1>1. p \in Rank /\ p # r
  BY Ranks
<1>2. Stands(p)
  BY DEF Written
<1>3. /\ VoteOut(p)' = VoteOut(p) /\ GateOut(p)' = GateOut(p) /\ Passed(p)' = Passed(p)
  BY <1>1, <1>2, Unmoved
<1>4. DOMAIN frames = Rank /\ DOMAIN gates = Rank
  BY DEF LocallySound
<1>5. /\ job[L] # None /\ job[r] # None /\ alive
      /\ frames[r] = VoteOut(r) /\ gates[r] = GateOut(r) /\ gates[p] = GateOut(p)
      /\ sess[p] = sess[r] /\ Passed(p) = Passed(r)
      /\ job[p] = job[r] /\ todo[p] = todo[r] /\ frames[p] = VoteOut(p)
  BY DEF Together, Linked, Onward, SessionsOf, GatesTo, VotesTo
<1> HIDE DEF p
<1>6. /\ frames'[r] = VoteOut(r)' /\ gates'[r] = GateOut(r)'
      /\ frames'[p] = frames[p] /\ gates'[p] = gates[p]
  <2>1. \A x : Append(<<>>, x) = <<x>>
    BY Tuples
  <2>2. CASE At(r, "gate") /\ Waits(r, "gate")'
    BY <1>1, <1>4, <1>5, <2>1, <2>2 DEF Written
  <2>3. CASE At(r, "vote") /\ Waits(r, "vote")'
    BY <1>1, <1>4, <1>5, <2>1, <2>3 DEF Written
  <2>4. QED
    BY <2>2, <2>3 DEF Written
<1>7. job' = job /\ todo' = todo /\ sess' = sess /\ alive' = alive /\ Passed(r)' = Passed(r)
  BY DEF Written
<1>8. Linked(r, "none", p)'
  BY <1>3, <1>5, <1>6, <1>7 DEF Linked, SessionsOf, GatesTo
<1>9. Together(r, "none", c, p)'
  BY <1>3, <1>5, <1>6, <1>7, <1>8 DEF Together, Onward, VotesTo
<1>10. QED
  BY <1>9 DEF p

LEMMA WrittenAhead ==
  ASSUME NEW b \in Rank, NEW c, NEW pre \in {"gate", "vote"}, LocallySound,
         Written(Peer(b)), Together(b, pre, c, Peer(b))
  PROVE  Together(b, pre, c, Peer(b))'
<1> DEFINE p == Peer(b)
<1>1. p \in Rank /\ p # b /\ Peer(p) = b
  BY Ranks
<1>2. Stands(b)
  BY <1>1 DEF Written
<1>3. /\ GateFrame(b)' = GateFrame(b) /\ VoteFrame(b, c)' = VoteFrame(b, c)
      /\ Waits(b, pre)' <=> Waits(b, pre)
      /\ Onward(b, pre, c)' = Onward(b, pre, c) /\ SessionsOf(b, pre)' = SessionsOf(b, pre)
      /\ Passed(b)' = Passed(b)
  BY <1>2, Unmoved
<1>4. DOMAIN frames = Rank /\ DOMAIN gates = Rank
  BY DEF LocallySound
<1>5. Linked(b, pre, p) /\ job[p] = job[b] /\ todo[p] = Onward(b, pre, c)
      /\ frames[p] = VotesTo(b, pre, c, p)
  BY DEF Together
<1>6. /\ job[L] # None /\ job[b] # None /\ alive /\ Waits(b, pre)
      /\ frames[b] = <<>> /\ gates[b] = <<>> /\ gates[p] = GatesTo(b, pre, p)
      /\ sess[p] = SessionsOf(b, pre)
      /\ Passed(p) = IF pre = "gate" THEN gateSeq[b] ELSE Passed(b)
  BY <1>5 DEF Linked
<1>7. /\ job' = job /\ todo' = todo /\ sess' = sess /\ alive' = alive /\ Passed(p)' = Passed(p)
      /\ ~Waits(p, "gate") /\ ~Waits(p, "vote") /\ gateSeq'[b] = gateSeq[b]
      /\ VoteOut(p) = <<>> /\ GateOut(p) = <<>>
  BY <1>2 DEF Written, Waits, Stands
<1> HIDE DEF p
<1>8. \A x, y : Append(<<>>, x) = <<x>> /\ Append(<<x>>, y) = <<x, y>>
  BY Tuples
<1>9. GatesTo(b, pre, p) = IF pre = "gate" THEN <<GateFrame(b)>> ELSE <<>>
  BY <1>7 DEF GatesTo
<1>10. VotesTo(b, pre, c, p) = IF pre = "vote" THEN <<VoteFrame(b, c)>> ELSE <<>>
  BY <1>7 DEF VotesTo
<1>11. /\ frames'[b] = <<>> /\ gates'[b] = <<>>
       /\ gates'[p] = GatesTo(b, pre, p)' /\ frames'[p] = VotesTo(b, pre, c, p)'
  <2>1. CASE At(p, "gate") /\ Waits(p, "gate")'
    <3>1. /\ ~Waits(p, "vote")' /\ VoteOut(p)' = <<>> /\ frames' = frames
          /\ GateOut(p)' = <<GateFrame(p)'>>
          /\ gates' = [gates EXCEPT ![p] = Append(gates[p], GateFrame(p)')]
      BY <2>1 DEF Written, p
    <3>2. VotesTo(b, pre, c, p)' = VotesTo(b, pre, c, p)
      BY <1>3, <1>10, <3>1 DEF VotesTo
    <3>3. GatesTo(b, pre, p)' = IF pre = "gate" THEN <<GateFrame(b), GateFrame(p)'>>
                                ELSE <<GateFrame(p)'>>
      BY <1>3, <2>1, <3>1 DEF GatesTo
    <3>4. gates'[p] = Append(gates[p], GateFrame(p)') /\ gates'[b] = gates[b]
      BY <1>1, <1>4, <3>1
    <3>5. QED
      BY <1>5, <1>6, <1>8, <1>9, <3>1, <3>2, <3>3, <3>4
  <2>2. CASE At(p, "vote") /\ Waits(p, "vote")'
    <3>1. /\ ~Waits(p, "gate")' /\ GateOut(p)' = <<>> /\ gates' = gates
          /\ VoteOut(p)' = <<VoteFrame(p, sync[p].cancelled)'>>
          /\ frames' = [frames EXCEPT ![p] = Append(frames[p], VoteFrame(p, sync[p].cancelled)')]
      BY <2>2 DEF Written, p
    <3>2. GatesTo(b, pre, p)' = GatesTo(b, pre, p)
      BY <1>3, <1>9, <3>1 DEF GatesTo
    <3>3. VotesTo(b, pre, c, p)' =
            IF pre = "vote" THEN <<VoteFrame(b, c), VoteFrame(p, sync[p].cancelled)'>>
            ELSE <<VoteFrame(p, sync[p].cancelled)'>>
      BY <1>3, <2>2, <3>1 DEF VotesTo
    <3>4. /\ frames'[p] = Append(frames[p], VoteFrame(p, sync[p].cancelled)')
          /\ frames'[b] = frames[b]
      BY <1>1, <1>4, <3>1
    <3>5. QED
      BY <1>5, <1>6, <1>8, <1>10, <3>1, <3>2, <3>3, <3>4
  <2>3. QED
    BY <2>1, <2>2 DEF Written, p
<1>12. Linked(b, pre, p)'
  BY <1>3, <1>6, <1>7, <1>11 DEF Linked
<1>13. Together(b, pre, c, p)'
  BY <1>3, <1>5, <1>7, <1>11, <1>12 DEF Together
<1>14. QED
  BY <1>13 DEF p


\* What the leader has sent stays as it was when it writes, or grows by the vote.
LEMMA WrittenQueue ==
  ASSUME NEW n \in Nat, LocallySound, Written(L), Queued(n)
  PROVE  /\ Queued(n)' /\ Unheard' = Unheard
         /\ n = 1 => frames'[L][1] = frames[L][1]
<1> DEFINE q == frames[L]
           cmd == CommandFrame(job[L])
           m == Len(q) - 1
<1>1. /\ job[L] # None /\ stopped = FALSE /\ job[L].op # "INVALIDATE"
      /\ DOMAIN frames = Rank
  BY Ranks DEF LocallySound, Written, At
<1>2. Announced = <<cmd>>
  BY <1>1 DEF Announced, Written, Waits
<1>3. /\ IsList(q) /\ Len(q) \in Nat /\ n <= m
      /\ \A i \in (n + 1)..m : \E s \in Sessions : q[i] = Invalidation(s)
      /\ q[m + 1] = cmd
  <2>1. /\ IsList(q) /\ n <= m
        /\ \A i \in (n + 1)..m : \E s \in Sessions : q[i] = Invalidation(s)
        /\ \A i \in 1..1 : q[m + i] = <<cmd>>[i]
    BY <1>2 DEF Queued
  <2>2. Len(q) \in Nat
    BY <2>1, ListFacts
  <2>3. 1 \in 1..1 /\ <<cmd>>[1] = cmd
    OBVIOUS
  <2>4. q[m + 1] = cmd
    BY <2>1, <2>3
  <2>5. QED
    BY <2>1, <2>2, <2>4
<1>4. job' = job /\ stopped' = stopped /\ cmd' = cmd
  BY DEF Written, CommandFrame
<1>5. CASE At(L, "gate") /\ Waits(L, "gate")'
  <2>1. ~Waits(L, "vote")' /\ frames' = frames
    BY <1>5 DEF Written
  <2>2. Announced' = Announced
    BY <1>1, <1>2, <1>4, <2>1 DEF Announced
  <2>3. QED
    BY <2>1, <2>2 DEF Queued, Unheard
<1>6. CASE At(L, "vote") /\ Waits(L, "vote")'
  <2> DEFINE f == VoteFrame(L, sync[L].cancelled)'
  <2>1. frames'[L] = Append(q, f)
    BY <1>1, <1>6, Ranks DEF Written
  <2>2. Announced' = <<cmd, f>>
    BY <1>1, <1>4, <1>6 DEF Announced
  <2>3. f.kind = "CHECKPOINT"
    BY DEF VoteFrame
  <2> HIDE DEF f, cmd
  <2>4. /\ IsList(frames'[L]) /\ Len(frames'[L]) = m + 2
        /\ frames'[L][m + 2] = f /\ \A i \in 1..m + 1 : frames'[L][i] = q[i]
    <3>1. /\ IsList(Append(q, f)) /\ Len(Append(q, f)) = Len(q) + 1
          /\ Append(q, f)[Len(q) + 1] = f
          /\ \A i \in 1..Len(q) : Append(q, f)[i] = q[i]
      BY <1>3, ListFacts
    <3>2. Len(q) = m + 1 /\ Len(q) + 1 = m + 2
      BY <1>3
    <3>3. QED
      BY <2>1, <3>1, <3>2
  <2>5. Len(<<cmd, f>>) = 2 /\ <<cmd, f>>[1] = cmd /\ <<cmd, f>>[2] = f
    OBVIOUS
  <2>6. Queued(n)'
    <3>1. Len(frames'[L]) - Len(Announced') = m /\ m \in Int
      BY <1>3, <2>2, <2>4, <2>5
    <3>2. \A i \in (n + 1)..m : \E s \in Sessions : frames'[L][i] = Invalidation(s)
      <4>1. \A i \in (n + 1)..m : i \in 1..m + 1
        BY <1>3
      <4>2. QED
        BY <1>3, <2>4, <4>1
    <3>3. \A i \in 1..Len(Announced') : frames'[L][m + i] = (Announced')[i]
      <4>1. \A i \in 1..2 : i = 1 \/ i = 2
        OBVIOUS
      <4>2. frames'[L][m + 1] = cmd
        <5>1. m + 1 \in 1..m + 1
          BY <1>3
        <5>2. QED
          BY <1>3, <2>4, <5>1
      <4>3. QED
        BY <2>2, <2>4, <2>5, <4>1, <4>2
    <3>4. \A s : Invalidation(s)' = Invalidation(s)
      BY DEF Invalidation
    <3>5. QED
      BY <1>3, <2>4, <3>1, <3>2, <3>3, <3>4 DEF Queued
  <2>7. Unheard' = Unheard
    <3>1. \A s : f # Invalidation(s)
      BY <2>3 DEF Invalidation
    <3>2. m \in Nat /\ Len(q) = m + 1
      BY <1>3
    <3>3. /\ \A i \in 1..m + 2 : i \in 1..m + 1 \/ i = m + 2
          /\ Len(q) = m + 1 /\ \A i \in 1..m + 1 : i \in 1..m + 2
      BY <3>2
    <3>4. \A s : (\E i \in 1..m + 2 : frames'[L][i] = Invalidation(s))
                   <=> (\E i \in 1..m + 1 : q[i] = Invalidation(s))
      BY <2>4, <3>1, <3>3
    <3>5. QED
      BY <2>4, <3>3, <3>4 DEF Unheard, Invalidation
  <2>8. n = 1 => frames'[L][1] = q[1]
    BY <1>3, <2>4
  <2>9. QED
    BY <2>6, <2>7, <2>8
<1>7. QED
  BY <1>5, <1>6 DEF Written


LEMMA StepsStand ==
  ASSUME NEW c, sess' = sess
  PROVE  Steps(L, c)' = Steps(L, c)
  BY DEF Steps, EvalSteps, Kept, Ahead

\* The block the worker is in, as long as it takes no step.
BlockSessions(pre, n) == KeptSessions(SessionsOf(W, pre), CommitStep(pre).kept, n)
ReplaySessions(pre) ==
  [SessionsOf(W, pre) EXCEPT ![job[W].ss[1]] = CommitStep(pre).kept]

LEMMA BlockStands ==
  ASSUME Stands(W), NEW pre, NEW n
  PROVE  /\ CommitStep(pre)' = CommitStep(pre)
         /\ BlockSessions(pre, n)' = BlockSessions(pre, n)
         /\ ReplaySessions(pre)' = ReplaySessions(pre)
<1>1. Head1(W)' = Head1(W) /\ SessionsOf(W, pre)' = SessionsOf(W, pre)
  BY Unmoved, Ranks
<1>2. CommitStep(pre)' = CommitStep(pre)
  BY <1>1 DEF CommitStep, Stands
<1>3. job'[W] = job[W]
  BY DEF Stands
<1>4. QED
  BY <1>1, <1>2, <1>3 DEF BlockSessions, KeptSessions, ReplaySessions

LEMMA WrittenGates ==
  ASSUME NEW b \in Rank, NEW pre, LocallySound, Written(Peer(b)),
         gates[Peer(b)] = GatesTo(b, pre, Peer(b))
  PROVE  gates'[Peer(b)] = GatesTo(b, pre, Peer(b))'
<1> DEFINE p == Peer(b)
<1>1. p \in Rank /\ p # b /\ Peer(p) = b /\ DOMAIN gates = Rank
  BY Ranks DEF LocallySound
<1>2. Stands(b)
  BY <1>1 DEF Written
<1>3. GateFrame(b)' = GateFrame(b)
  BY <1>2, Unmoved
<1>4. ~Waits(p, "gate") /\ GateOut(p) = <<>>
  BY DEF Written, Waits
<1> HIDE DEF p
<1>5. \A x, y : Append(<<>>, x) = <<x>> /\ Append(<<x>>, y) = <<x, y>>
  BY Tuples
<1>6. GatesTo(b, pre, p) = IF pre = "gate" THEN <<GateFrame(b)>> ELSE <<>>
  BY <1>4 DEF GatesTo
<1>7. CASE At(p, "gate") /\ Waits(p, "gate")'
  <2>1. /\ GateOut(p)' = <<GateFrame(p)'>>
        /\ gates' = [gates EXCEPT ![p] = Append(gates[p], GateFrame(p)')]
    BY <1>7 DEF Written, p
  <2>2. GatesTo(b, pre, p)' = IF pre = "gate" THEN <<GateFrame(b), GateFrame(p)'>>
                              ELSE <<GateFrame(p)'>>
    BY <1>3, <1>7, <2>1 DEF GatesTo
  <2>3. gates'[p] = Append(gates[p], GateFrame(p)')
    BY <1>1, <2>1
  <2>4. gates[p] = GatesTo(b, pre, p)
    BY DEF p
  <2>5. gates'[p] = GatesTo(b, pre, p)'
    BY <1>5, <1>6, <2>2, <2>3, <2>4
  <2>6. QED
    BY <2>5 DEF p
<1>8. CASE At(p, "vote") /\ Waits(p, "vote")'
  <2>1. ~Waits(p, "gate")' /\ GateOut(p)' = <<>> /\ gates' = gates
    BY <1>8 DEF Written, p
  <2>2. GatesTo(b, pre, p)' = GatesTo(b, pre, p)
    BY <1>3, <1>6, <2>1 DEF GatesTo
  <2>3. QED
    BY <2>1, <2>2 DEF p
<1>9. QED
  BY <1>7, <1>8 DEF Written, p

LEMMA WrittenAnnounced ==
  ASSUME LocallySound, Written(L)
  PROVE  /\ Announcing => Announcing'
         /\ \A pre, n : Keeping(pre, n) => Keeping(pre, n)'
<1>1. /\ Stands(W) /\ sess' = sess /\ job' = job /\ todo' = todo /\ alive' = alive
      /\ Passed(L)' = Passed(L) /\ sent'[W] = sent[W] /\ gateSeq'[W] = gateSeq[W]
      /\ DOMAIN frames = Rank /\ DOMAIN gates = Rank
  BY Ranks DEF Written, LocallySound, Stands
<1>2. frames'[W] = frames[W] /\ gates'[W] = gates[W]
  BY <1>1, Ranks DEF Written
<1>3. \A c : Steps(L, c)' = Steps(L, c)
  BY <1>1, StepsStand
<1>4. ASSUME NEW n \in Nat, Ahead0(n)
      PROVE  Ahead0(n)' /\ Unheard' = Unheard /\ (n = 1 => frames'[L][1] = frames[L][1])
  <2>1. /\ Queued(n) /\ alive /\ frames[W] = <<>> /\ gates[W] = <<>>
        /\ job[L] # None => todo[L] = Steps(L, job[L])
    BY <1>4 DEF Ahead0
  <2>2. Queued(n)' /\ Unheard' = Unheard /\ (n = 1 => frames'[L][1] = frames[L][1])
    BY <2>1, WrittenQueue
  <2>3. Steps(L, job[L])' = Steps(L, job[L])
    BY <1>1 DEF Steps, EvalSteps, Kept, Ahead
  <2>4. QED
    BY <1>1, <1>2, <2>1, <2>2, <2>3 DEF Ahead0
<1>5. ASSUME Announcing PROVE Announcing'
  <2>1. Ahead0(0)' /\ Unheard' = Unheard
    BY <1>4, <1>5 DEF Announcing
  <2>2. gates'[L] = GateOut(L)'
    <3>1. gates[L] = GatesTo(W, "none", L)
      BY <1>5 DEF Announcing, GatesTo
    <3>2. gates'[L] = GatesTo(W, "none", L)'
      BY <3>1, WrittenGates, Ranks
    <3>3. QED
      BY <3>2 DEF GatesTo
  <2>3. Wiped(sess[W])' = Wiped(sess[W])
    BY <1>1, <2>1 DEF Wiped
  <2>4. QED
    BY <1>1, <1>5, <2>1, <2>2, <2>3 DEF Announcing
<1>6. ASSUME NEW pre, NEW n, Keeping(pre, n) PROVE Keeping(pre, n)'
  <2>1. /\ Ahead0(1) /\ Block(pre)
        /\ frames[L][1] = [kind |-> "COMMIT", mode |-> "KEEP", n |-> n]
        /\ sess[L] = Wiped(BlockSessions(pre, n))
    BY <1>6 DEF Keeping, BlockSessions
  <2>2. Ahead0(1)' /\ Unheard' = Unheard /\ frames'[L][1] = frames[L][1]
    BY <1>4, <2>1
  <2>3. /\ CommitStep(pre)' = CommitStep(pre)
        /\ BlockSessions(pre, n)' = BlockSessions(pre, n)
    BY <1>1, BlockStands
  <2>4. Wiped(BlockSessions(pre, n))' = Wiped(BlockSessions(pre, n))
    BY <2>2, <2>3 DEF Wiped
  <2>5. Waits(W, "gate")' <=> Waits(W, "gate")
    BY <1>1, Unmoved, Ranks
  <2>6. gates'[L] = GatesTo(W, pre, L)'
    BY <2>1, WrittenGates, Ranks DEF Block
  <2>7. Block(pre)'
    BY <1>1, <2>1, <2>3, <2>5, <2>6 DEF Block
  <2>8. QED
    BY <1>1, <2>1, <2>2, <2>4, <2>7 DEF Keeping, BlockSessions
<1>7. QED
  BY <1>5, <1>6

\* A replay has no votes.
LEMMA WrittenReplay ==
  ASSUME LocallySound, Written(L), NEW pre, NEW n, Replaying(pre, n)
  PROVE  Replaying(pre, n)'
<1>1. /\ Stands(W) /\ sess' = sess /\ job' = job /\ todo' = todo /\ alive' = alive
      /\ Passed(L)' = Passed(L) /\ sent'[W] = sent[W] /\ gateSeq'[W] = gateSeq[W]
      /\ DOMAIN frames = Rank /\ DOMAIN gates = Rank
  BY Ranks DEF Written, LocallySound, Stands
<1>2. /\ alive /\ frames[W] = <<>> /\ gates[W] = <<>> /\ Block(pre)
      /\ job[L] = job[W] /\ n > 0
      /\ frames[L] = <<[kind |-> "COMMIT", mode |-> "REPLAY", n |-> n]>>
      /\ todo[L] = ReplaySteps(job[W].ss[1], CommitStep(pre).kept, job[L].toks, n)
      /\ sess[L] = ReplaySessions(pre)
  BY DEF Replaying, ReplaySessions
<1>3. frames' = frames
  <2>1. job[W] # None
    BY <1>2 DEF Block
  <2>2. CASE At(L, "vote")
    <3>1. job[L].op = "SYNC"
      BY <1>2, <2>1, <2>2, HeadFacts, Ranks DEF At
    <3>2. job[W].op = "VERIFY"
      BY <1>2, BlockIsVerify
    <3>3. QED
      BY <1>2, <3>1, <3>2
  <2>3. QED
    BY <2>2 DEF Written
<1>4. frames'[W] = frames[W] /\ gates'[W] = gates[W]
  BY <1>1, <1>3, Ranks DEF Written
<1>5. /\ CommitStep(pre)' = CommitStep(pre) /\ ReplaySessions(pre)' = ReplaySessions(pre)
  BY <1>1, BlockStands
<1>6. gates'[L] = GatesTo(W, pre, L)'
  BY <1>2, WrittenGates, Ranks DEF Block
<1>7. Waits(W, "gate")' <=> Waits(W, "gate")
  BY <1>1, Unmoved, Ranks
<1>8. Block(pre)'
  BY <1>1, <1>2, <1>5, <1>6, <1>7 DEF Block
<1>9. ReplaySteps(job[W].ss[1], CommitStep(pre).kept, job[L].toks, n)'
        = ReplaySteps(job[W].ss[1], CommitStep(pre).kept, job[L].toks, n)
  BY <1>1, <1>5 DEF ReplaySteps, Gate, Half
<1>10. QED
  BY <1>1, <1>2, <1>3, <1>4, <1>5, <1>8, <1>9 DEF Replaying, ReplaySessions


-----------------------------------------------------------------------------
(* Answers.                                                                *)

\* The worker that has answered is at its next answer, or has returned.
LEMMA RepliedFacts ==
  ASSUME LocallySound, NEW pre, NEW c, Replied(pre, c)
  PROVE  /\ IsList(Replies(pre)) /\ Len(Replies(pre)) \in Nat
         /\ job[L] # None /\ ~sent[W] /\ alive
         /\ job[W] # None =>
              /\ job[W] = job[L]
              /\ Len(Onward(L, pre, c)) = Len(Replies(pre)) + Len(todo[W])
              /\ Len(Replies(pre)) + 1 \in 1..Len(Onward(L, pre, c))
              /\ Head1(W) = Onward(L, pre, c)[Len(Replies(pre)) + 1]
              /\ Head1(W).do \in {"ack", "half"}
         /\ frames[L] = <<>> /\ gates[L] = <<>>
<1> DEFINE rest == Onward(L, pre, c)
           in == Replies(pre)
<1>1. /\ Linked(L, pre, W) /\ ~sent[W] /\ IsList(frames[W])
      /\ pre = "vote" => frames[W] # <<>>
      /\ Answered(rest, in)
  BY DEF Replied
<1>2. IsList(in) /\ Len(in) \in Nat
  <2>1. IsList(in)
    BY <1>1, ListFacts DEF Replies
  <2>2. QED
    BY <2>1, ListFacts
<1>3. job[L] # None /\ alive
  BY <1>1 DEF Linked
<1>4. \A i \in 1..Len(rest) : rest[i].do \in {"ack", "half"}
  BY <1>1 DEF Answered
<1>5. ASSUME job[W] # None
      PROVE  /\ job[W] = job[L] /\ Len(rest) = Len(in) + Len(todo[W])
             /\ Len(in) + 1 \in 1..Len(rest) /\ Head1(W) = rest[Len(in) + 1]
             /\ Head1(W).do \in {"ack", "half"}
  <2>1. /\ job[W] = job[L] /\ Len(rest) = Len(in) + Len(todo[W])
        /\ \A i \in 1..Len(todo[W]) : todo[W][i] = rest[Len(in) + i]
    BY <1>1, <1>5 DEF Answered
  <2>2. Len(todo[W]) \in Nat /\ Len(todo[W]) > 0 /\ Head1(W) = todo[W][1]
    BY <1>5, HeadFacts, Ranks
  <2> HIDE DEF rest, in
  <2>3. Len(in) + 1 \in 1..Len(rest)
    BY <1>2, <2>1, <2>2
  <2>4. todo[W][1] = rest[Len(in) + 1]
    BY <2>1, <2>2
  <2>5. QED
    BY <1>4, <2>1, <2>2, <2>3, <2>4
<1>6. frames[L] = <<>> /\ gates[L] = <<>>
  <2>1. CASE pre = "none"
    <3>1. rest = todo[L]
      BY <2>1 DEF Onward
    <3>2. Len(todo[L]) > 0 /\ 1 \in 1..Len(todo[L]) /\ Head1(L) = todo[L][1]
      BY <1>3, HeadFacts, Ranks
    <3>3. Head1(L).do \in {"ack", "half"}
      BY <1>4, <3>1, <3>2
    <3>4. ~Waits(L, "vote") /\ ~Waits(L, "gate")
      BY <3>3 DEF Waits, At
    <3>5. QED
      BY <1>1, <2>1, <3>4 DEF Linked, VoteOut, GateOut
  <2>2. CASE pre # "none"
    BY <1>1, <2>2 DEF Linked
  <2>3. QED
    BY <2>1, <2>2
<1>7. QED
  BY <1>1, <1>2, <1>3, <1>5, <1>6

LEMMA WrittenNotReplied ==
  ASSUME LocallySound, NEW r \in Rank, Written(r), NEW pre, NEW c, Replied(pre, c)
  PROVE  FALSE
<1>1. job[r] # None /\ ~sent[r] /\ Head1(r).do \in {"gate", "vote"}
  BY DEF Written, At
<1>2. CASE r = W
  BY <1>1, <1>2, RepliedFacts
<1>3. CASE r = L
  <2>1. /\ Linked(L, pre, W) /\ Answered(Onward(L, pre, c), Replies(pre))
    BY DEF Replied
  <2>2. pre = "none"
    BY <1>1, <1>3, <2>1 DEF Linked, Waits
  <2>3. \A i \in 1..Len(todo[L]) : todo[L][i].do \in {"ack", "half"}
    BY <2>1, <2>2 DEF Answered, Onward
  <2>4. 1 \in 1..Len(todo[L]) /\ Head1(L) = todo[L][1]
    BY <1>1, <1>3, HeadFacts
  <2>5. QED
    BY <1>1, <1>3, <2>3, <2>4
<1>4. QED
  BY <1>2, <1>3, Ranks

\* Writing keeps the pair in step.
LEMMA WrittenKeeps ==
  ASSUME LocallySound, InStep, NEW r \in Rank, Written(r)
  PROVE  InStep'
<1>1. ASSUME NEW b \in Rank, NEW pre \in Pres, NEW c \in BOOLEAN,
             Together(b, pre, c, Peer(b))
      PROVE  InStep'
  <2>1. CASE pre = "none"
    <3>1. Together(r, "none", c, Peer(r))
      BY <1>1, <2>1, Mirror, Ranks
    <3>2. Together(r, "none", c, Peer(r))'
      BY <3>1, WrittenLevel
    <3>3. QED
      BY <2>1, <3>2 DEF InStep
  <2>2. CASE pre # "none"
    <3>1. pre \in {"gate", "vote"}
      BY <2>2 DEF Pres
    <3>2. sent[b]
      BY <1>1, <2>2 DEF Together, Linked, Waits
    <3>3. r = Peer(b)
      BY <3>2, Ranks DEF Written
    <3>4. Together(b, pre, c, Peer(b))'
      BY <1>1, <3>1, <3>3, WrittenAhead
    <3>5. QED
      BY <3>4 DEF InStep
  <2>3. QED
    BY <2>1, <2>2
<1>2. ASSUME NEW pre, Block(pre) PROVE r # W
  BY <1>2 DEF Block, Written, Waits, CommitStep, At
<1>3. CASE Announcing
  <2>1. r = L
    BY <1>3, Ranks DEF Announcing, Written, At
  <2>2. QED
    BY <1>3, <2>1, WrittenAnnounced DEF InStep
<1>4. ASSUME NEW pre \in Pres, NEW n \in 1..2, Keeping(pre, n) PROVE InStep'
  <2>1. r = L
    BY <1>2, <1>4, Ranks DEF Keeping
  <2>2. Keeping(pre, n)'
    BY <1>4, <2>1, WrittenAnnounced
  <2>3. QED
    BY <2>2 DEF InStep
<1>5. ASSUME NEW pre \in Pres, NEW n \in 1..2, Replaying(pre, n) PROVE InStep'
  <2>1. r = L
    BY <1>2, <1>5, Ranks DEF Replaying
  <2>2. Replaying(pre, n)'
    BY <1>5, <2>1, WrittenReplay
  <2>3. QED
    BY <2>2 DEF InStep
<1>6. CASE Over
  BY <1>6, Ranks DEF Over, Written, At
<1>7. QED
  BY <1>1, <1>3, <1>4, <1>5, <1>6, WrittenNotReplied DEF InStep


-----------------------------------------------------------------------------
(* Passing a gate or a vote.                                               *)

\* What rank r may rely on when the peer's half has arrived.
Passable(r, kind, c) ==
  LET p == Peer(r) IN
  \/ Together(p, "none", c, r) /\ Waits(p, kind) /\ c = sync[p].cancelled
  \/ Together(r, kind, c, p)
  \/ r = L /\ Replied(kind, c)
  \/ r = W /\ kind = "gate" /\ \E n \in 1..2 : Keeping("gate", n) \/ Replaying("gate", n)

\* The leader that has not passed a step is at its own answers.
LEMMA RepliedHead ==
  ASSUME LocallySound, NEW c, Replied("none", c)
  PROVE  Head1(L).do \in {"ack", "half"}
<1>1. job[L] # None /\ \A i \in 1..Len(todo[L]) : todo[L][i].do \in {"ack", "half"}
  <2>1. Linked(L, "none", W) /\ Answered(Onward(L, "none", c), Replies("none"))
    BY DEF Replied
  <2>2. Onward(L, "none", c) = todo[L]
    BY DEF Onward
  <2>3. job[L] # None
    BY <2>1 DEF Linked
  <2>4. QED
    BY <2>1, <2>2, <2>3 DEF Answered
<1>2. 1 \in 1..Len(todo[L]) /\ Head1(L) = todo[L][1]
  BY <1>1, HeadFacts, Ranks
<1>3. QED
  BY <1>1, <1>2

(* Rank r has something to read, and not only the end of the stream of a   *)
(* worker that has died.                                                   *)
Delivered(r) == Arrived(r) /\ (r = L /\ crashed => frames[W] # <<>>)

\* A frame can only come from the peer while both are there.
LEMMA FrameArrives ==
  ASSUME LocallySound, NEW r \in Rank, Delivered(r), alive, r = L \/ job[L] # None
  PROVE  frames[Peer(r)] # <<>> /\ Next1(r) = Head(frames[Peer(r)])
         /\ Consumed(r) = [frames EXCEPT ![Peer(r)] = Tail(frames[Peer(r)])]
<1>1. torn = FALSE /\ (stopped => job[L] = None)
  BY DEF LocallySound
<1>2. frames[Peer(r)] # <<>>
  BY <1>1, Ranks DEF Delivered, Arrived, Next1, Frame, WorkerGone
<1>3. QED
  BY <1>1, <1>2 DEF Next1, Consumed, Took

LEMMA HalfArrives ==
  ASSUME LocallySound, InStep, NEW r \in Rank, NEW kind \in {"gate", "vote"}, Waits(r, kind),
         kind = "gate" => gates[Peer(r)] # <<>>,
         kind = "vote" => Delivered(r)
  PROVE  \E c \in BOOLEAN : Passable(r, kind, c)
<1> DEFINE p == Peer(r)
<1>1. /\ p \in Rank /\ Peer(p) = r /\ p # r /\ sync[p].cancelled \in BOOLEAN
      /\ job[r] # None /\ sent[r] /\ Head1(r).do = kind
  BY Ranks DEF LocallySound, Waits, At
<1>2. ASSUME NEW b \in Rank, NEW pre \in Pres, NEW c \in BOOLEAN,
             Together(b, pre, c, Peer(b))
      PROVE  \E d \in BOOLEAN : Passable(r, kind, d)
  <2>1. CASE pre = "none"
    <3>1. Together(p, "none", c, r)
      BY <1>1, <1>2, <2>1, Mirror, Ranks
    <3>2. Together(p, "none", sync[p].cancelled, r)
      BY <3>1 DEF Together, Linked, Onward, VotesTo
    <3>3. Waits(p, kind)
      <4>1. /\ gates[p] = GateOut(p) /\ frames[p] = VoteOut(p) /\ job[L] # None /\ alive
        BY <3>1 DEF Together, Linked
      <4>2. kind = "vote" => frames[p] # <<>>
        BY <4>1, FrameArrives
      <4>3. QED
        BY <4>1, <4>2 DEF GateOut, VoteOut
    <3>4. Passable(r, kind, sync[p].cancelled)
      BY <3>2, <3>3 DEF Passable
    <3>5. QED
      BY <1>1, <3>4
  <2>2. CASE pre # "none" /\ b = r
    <3>1. Waits(r, pre)
      BY <1>2, <2>2 DEF Together, Linked
    <3>2. pre = kind
      BY <3>1 DEF Waits, At
    <3>3. QED
      BY <1>2, <2>2, <3>2 DEF Passable
  <2>3. CASE pre # "none" /\ b = p
    <3>1. /\ gates[p] = <<>> /\ frames[p] = <<>> /\ job[L] # None /\ alive
      BY <1>2, <2>3 DEF Together, Linked
    <3>2. QED
      BY <3>1, FrameArrives
  <2>4. QED
    BY <2>1, <2>2, <2>3, Ranks
<1>3. ASSUME NEW pre \in Pres, NEW c \in BOOLEAN, Replied(pre, c)
      PROVE  \E d \in BOOLEAN : Passable(r, kind, d)
  <2>1. r = L
    BY <1>1, <1>3, RepliedFacts, Ranks
  <2>2. pre # "none"
    BY <1>1, <1>3, <2>1, RepliedHead
  <2>3. Waits(L, pre)
    BY <1>3, <2>2 DEF Replied, Linked
  <2>4. pre = kind
    BY <1>1, <2>1, <2>3 DEF Waits, At
  <2>5. QED
    BY <1>3, <2>1, <2>4 DEF Passable
<1>4. ASSUME alive, gates[W] = <<>>, frames[W] = <<>> PROVE r = W
  BY <1>4, FrameArrives, Ranks
<1>5. CASE Announcing
  <2>1. r = L
    BY <1>1, <1>5, Ranks DEF Announcing
  <2>2. QED
    BY <1>4, <1>5, <2>1, Ranks DEF Announcing, Ahead0
<1>6. ASSUME NEW pre \in Pres, NEW n \in 1..2, Keeping(pre, n) \/ Replaying(pre, n)
      PROVE  \E d \in BOOLEAN : Passable(r, kind, d)
  <2>1. r = W
    BY <1>4, <1>6 DEF Keeping, Replaying, Ahead0
  <2>2. Block(pre)
    BY <1>6 DEF Keeping, Replaying
  <2>3. pre = "gate" /\ kind = "gate"
    BY <1>1, <2>1, <2>2 DEF Block, Waits, At
  <2>4. Passable(r, kind, TRUE)
    BY <1>6, <2>1, <2>3 DEF Passable
  <2>5. QED
    BY <2>4
<1>7. CASE Over
  BY <1>1, <1>7, Ranks DEF Over
<1>8. QED
  BY <1>2, <1>3, <1>5, <1>6, <1>7 DEF InStep

\* What has arrived is the other half of the same gate.
LEMMA GateAgrees ==
  ASSUME LocallySound, NEW r \in Rank, Waits(r, "gate"), NEW c, Passable(r, "gate", c)
  PROVE  Head(gates[Peer(r)]) = GateFrame(r)
<1> DEFINE p == Peer(r)
<1>1. p \in Rank /\ Peer(p) = r /\ gateSeq[r] \in Nat /\ gateSeq[p] \in Nat
  BY Ranks DEF LocallySound
<1>2. \A x, y : Head(<<x>>) = x /\ Head(<<x, y>>) = x
  BY Tuples
<1>3. ASSUME NEW b, NEW q, gates[q] = GatesTo(b, "gate", q)
      PROVE  Head(gates[q]) = GateFrame(b)
  BY <1>2, <1>3 DEF GatesTo
<1>4. CASE Together(p, "none", c, r) /\ Waits(p, "gate")
  <2>1. gates[p] = <<GateFrame(p)>>
    BY <1>4 DEF Together, Linked, GateOut
  <2>2. todo[r] = todo[p] /\ gateSeq[r] = gateSeq[p]
    BY <1>1, <1>4 DEF Together, Linked, Onward, Passed
  <2>3. GateFrame(p) = GateFrame(r)
    BY <2>2 DEF GateFrame, Head1
  <2>4. QED
    BY <1>2, <2>1, <2>3
<1>5. CASE Together(r, "gate", c, p)
  BY <1>3, <1>5 DEF Together, Linked
<1>6. CASE r = L /\ Replied("gate", c)
  BY <1>3, <1>6, Ranks DEF Replied, Linked
<1>7. CASE r = W /\ \E n \in 1..2 : Keeping("gate", n) \/ Replaying("gate", n)
  BY <1>3, <1>7, Ranks DEF Keeping, Replaying, Block
<1>8. QED
  BY <1>4, <1>5, <1>6, <1>7 DEF Passable

LEMMA VoteAgrees ==
  ASSUME LocallySound, NEW r \in Rank, Waits(r, "vote"), NEW c, Passable(r, "vote", c)
  PROVE  Head(frames[Peer(r)]) = VoteFrame(r, c) /\ alive /\ job[L] # None
<1> DEFINE p == Peer(r)
<1>1. p \in Rank /\ Peer(p) = r
  BY Ranks
<1>2. \A x, y : Head(<<x>>) = x /\ Head(<<x, y>>) = x
  BY Tuples
<1>3. CASE Together(p, "none", c, r) /\ Waits(p, "vote") /\ c = sync[p].cancelled
  <2>1. frames[p] = <<VoteFrame(p, c)>> /\ alive /\ job[L] # None /\ todo[r] = todo[p]
    BY <1>3 DEF Together, Linked, VoteOut, Onward
  <2>2. VoteFrame(p, c) = VoteFrame(r, c)
    BY <2>1 DEF VoteFrame, Head1
  <2>3. QED
    BY <1>2, <2>1, <2>2
<1>4. CASE Together(r, "vote", c, p)
  BY <1>2, <1>4 DEF Together, Linked, VotesTo
<1>5. CASE r = L /\ Replied("vote", c)
  BY <1>5, Ranks DEF Replied, Linked
<1>6. QED
  BY <1>3, <1>4, <1>5 DEF Passable


\* What passing a step does, c being whether the peer asked to cancel.
Passes(r, kind, c) ==
  LET p == Peer(r) IN
  /\ Waits(r, kind)
  /\ job' = job /\ alive' = alive /\ stopped' = stopped /\ gateSeq' = gateSeq
  /\ todo' = [todo EXCEPT ![r] = Onward(r, kind, c)]
  /\ sent' = [sent EXCEPT ![r] = FALSE]
  /\ sess' = [sess EXCEPT ![r] = SessionsOf(r, kind)]
  /\ Stands(p)
  /\ IF kind = "gate" THEN gates' = [gates EXCEPT ![p] = Tail(gates[p])] ELSE gates' = gates
  /\ IF kind = "vote" THEN frames' = [frames EXCEPT ![p] = Tail(frames[p])] ELSE frames' = frames

LEMMA GateJoinPasses ==
  ASSUME LocallySound, NEW r \in Rank, GateJoin(r), NEW c \in BOOLEAN, Passable(r, "gate", c)
  PROVE  /\ Passes(r, "gate", c)
         /\ UNCHANGED <<gateDead, failed, torn, env, sync>>
         /\ logits' = IF r = L /\ Head1(L).head
                      THEN [logits EXCEPT ![Head1(L).s] =
                              <<Of(Head1(L).s, Joined(L)[Head1(L).s])>>]
                      ELSE logits
<1> DEFINE p == Peer(r)
           g == Head1(r)
           m == Head(gates[p])
           x == [toks |-> g.toks, valid |-> TRUE, pure |-> TRUE]
<1>1. Waits(r, "gate")
  BY DEF GateJoin
<1>2. m = GateFrame(r)
  BY <1>1, GateAgrees
<1>3. m.seq = gateSeq[r] /\ m.s = g.s /\ m.toks = g.toks
  BY <1>2 DEF GateFrame
<1>4. /\ g.s \in Sessions /\ sess[r][g.s].pure = TRUE /\ DOMAIN sess[r] = Sessions
      /\ DOMAIN sess = Rank /\ DOMAIN job = Rank /\ DOMAIN todo = Rank /\ DOMAIN sent = Rank
  <2>1. job[r] # None /\ g.do = "gate"
    BY <1>1 DEF Waits, At
  <2>2. Shape(todo[r], job[r]) /\ g = todo[r][1] /\ 1 \in 1..Len(todo[r])
    BY <2>1, HeadFacts
  <2>3. g.s \in Sessions
    BY <2>1, <2>2 DEF Shape
  <2>4. QED
    BY <2>3 DEF LocallySound
<1>5. /\ gates' = [gates EXCEPT ![p] = Tail(gates[p])]
      /\ Computed(r, g, m.s = g.s /\ m.toks = g.toks)
      /\ UNCHANGED <<gateDead, failed, job, sync, frames, gateSeq, torn, alive, stopped, env>>
  BY <1>3 DEF GateJoin, SamePlace, link, setting
<1>6. /\ sess' = WithSession(r, g.s, x)
      /\ logits' = IF r = L /\ g.head THEN [logits EXCEPT ![g.s] = <<Of(g.s, x)>>] ELSE logits
      /\ todo' = [todo EXCEPT ![r] = Tail(todo[r])]
      /\ sent' = [sent EXCEPT ![r] = FALSE]
  <2> DEFINE y == [toks |-> g.toks, valid |-> TRUE,
                   pure |-> (m.s = g.s /\ m.toks = g.toks)
                              /\ (sess[r][g.s].pure \/ Len(g.toks) = 1)]
  <2>1. /\ sess' = WithSession(r, g.s, y)
        /\ logits' = IF r = L /\ g.head THEN [logits EXCEPT ![g.s] = <<Of(g.s, y)>>] ELSE logits
        /\ todo' = [todo EXCEPT ![r] = Tail(todo[r])]
        /\ sent' = [sent EXCEPT ![r] = FALSE]
    BY <1>5 DEF Computed, Advance, Goto
  <2>2. ((m.s = g.s /\ m.toks = g.toks) /\ (sess[r][g.s].pure \/ Len(g.toks) = 1)) = TRUE
    BY <1>3, <1>4
  <2>3. y = x
    BY <2>2
  <2> HIDE DEF y, x
  <2>4. QED
    BY <2>1, <2>3
<1>7. SessionsOf(r, "gate") = [sess[r] EXCEPT ![g.s] = x] /\ Onward(r, "gate", c) = Tail(todo[r])
  BY DEF SessionsOf, Joined, Onward
<1>8. sess' = [sess EXCEPT ![r] = SessionsOf(r, "gate")]
  BY <1>6, <1>7 DEF WithSession
<1>9. Stands(p)
  BY <1>4, <1>5, <1>6, <1>8, Ranks DEF Stands
<1>10. Passes(r, "gate", c)
  BY <1>1, <1>5, <1>6, <1>7, <1>8, <1>9 DEF Passes
<1>11. r = L => Joined(L)[g.s] = x
  BY <1>4 DEF Joined
<1>12. QED
  BY <1>5, <1>6, <1>10, <1>11

LEMMA VoteReadPasses ==
  ASSUME LocallySound, NEW r \in Rank, VoteRead(r), Delivered(r), NEW c \in BOOLEAN,
         Passable(r, "vote", c)
  PROVE  /\ Passes(r, "vote", c)
         /\ UNCHANGED <<gateDead, failed, torn, env, logits>>
         /\ \E rc \in {OK, INTERRUPTED}, d \in BOOLEAN :
              sync' = [sync EXCEPT ![r] = [rc |-> rc, cancelled |-> d]]
<1> DEFINE p == Peer(r)
           f == Next1(r)
           cancel == Cancels(r, f)
           stops == cancel /\ Polls(r)
           rc == IF stops THEN INTERRUPTED ELSE OK
           ended == IF cancel /\ sync[r].rc = OK THEN INTERRUPTED ELSE sync[r].rc
<1>1. Waits(r, "vote") /\ Arrived(r) /\ frames' = Consumed(r)
  BY DEF VoteRead
<1>2. Head(frames[p]) = VoteFrame(r, c) /\ alive /\ job[L] # None
  BY <1>1, VoteAgrees
<1>3. f = VoteFrame(r, c) /\ frames' = [frames EXCEPT ![p] = Tail(frames[p])]
  BY <1>1, <1>2, FrameArrives
<1>4. /\ DOMAIN sess = Rank /\ DOMAIN job = Rank /\ DOMAIN todo = Rank /\ DOMAIN sent = Rank
      /\ DOMAIN sync = Rank /\ sync[r].rc \in {OK, INTERRUPTED} /\ sync[r].cancelled \in BOOLEAN
  BY DEF LocallySound
<1>5. Agrees(r, f) /\ (cancel <=> sync[r].cancelled \/ c) /\ cancel \in BOOLEAN
  BY <1>3, <1>4 DEF Agrees, Cancels, VoteFrame
<1>6. UNCHANGED <<sess, job, gates, gateSeq, gateDead, torn, alive, stopped, logits, env>>
  BY DEF VoteRead, link, setting
<1>7. /\ \/ /\ Head1(r).point # 3
            /\ sync' = [sync EXCEPT ![r] = [rc |-> rc, cancelled |-> cancel]]
            /\ Goto(r, IF cancel THEN Skip(r, rc) ELSE Tail(todo[r]))
         \/ /\ Head1(r).point = 3
            /\ sync' = [sync EXCEPT ![r] = [rc |-> ended, cancelled |-> cancel]]
            /\ Goto(r, Tail(todo[r]))
      /\ UNCHANGED failed
  BY <1>5 DEF VoteRead, Advance
<1>8. rc \in {OK, INTERRUPTED} /\ ended \in {OK, INTERRUPTED}
  BY <1>4
<1> HIDE DEF f, ended
<1>9. Onward(r, "vote", c) = IF Head1(r).point # 3 /\ cancel
                             THEN Skip(r, rc) ELSE Tail(todo[r])
  BY <1>5 DEF Onward, AfterVote
<1> HIDE DEF cancel, stops, rc
<1>10. Goto(r, Onward(r, "vote", c))
  BY <1>7, <1>9
<1>11. /\ todo' = [todo EXCEPT ![r] = Onward(r, "vote", c)]
       /\ sent' = [sent EXCEPT ![r] = FALSE]
  BY <1>10 DEF Goto
<1>12. sess' = [sess EXCEPT ![r] = SessionsOf(r, "vote")]
  <2>1. [sess EXCEPT ![r] = sess[r]] = sess
    BY <1>4 DEF LocallySound
  <2>2. QED
    BY <1>6, <2>1 DEF SessionsOf
<1>13. \E k \in {OK, INTERRUPTED}, d \in BOOLEAN :
         sync' = [sync EXCEPT ![r] = [rc |-> k, cancelled |-> d]]
  BY <1>5, <1>7, <1>8
<1>14. Stands(p)
  BY <1>4, <1>6, <1>11, <1>13, Ranks DEF Stands
<1>15. Passes(r, "vote", c)
  BY <1>1, <1>3, <1>6, <1>11, <1>12, <1>14 DEF Passes
<1>16. QED
  BY <1>6, <1>7, <1>13, <1>15

\* The rank that has passed a step writes nothing yet.
LEMMA PassedRank ==
  ASSUME LocallySound, NEW r \in Rank, NEW kind, NEW c, Passes(r, kind, c)
  PROVE  /\ todo'[r] = Onward(r, kind, c) /\ sent'[r] = FALSE
         /\ sess'[r] = SessionsOf(r, kind) /\ sess'[Peer(r)] = sess[Peer(r)]
         /\ VoteOut(r)' = <<>> /\ GateOut(r)' = <<>> /\ Passed(r)' = gateSeq[r]
         /\ \A x : ~Waits(r, x)'
         /\ kind = "gate" => /\ gates'[Peer(r)] = Tail(gates[Peer(r)])
                             /\ gates'[r] = gates[r] /\ frames' = frames
         /\ kind = "vote" => /\ frames'[Peer(r)] = Tail(frames[Peer(r)])
                             /\ frames'[r] = frames[r] /\ gates' = gates
<1>1. /\ DOMAIN todo = Rank /\ DOMAIN sent = Rank /\ DOMAIN sess = Rank
      /\ DOMAIN frames = Rank /\ DOMAIN gates = Rank
  BY DEF LocallySound
<1>2. Peer(r) \in Rank /\ Peer(r) # r
  BY Ranks
<1>3. /\ todo'[r] = Onward(r, kind, c) /\ sent'[r] = FALSE
      /\ sess'[r] = SessionsOf(r, kind) /\ sess'[Peer(r)] = sess[Peer(r)]
      /\ gateSeq' = gateSeq
  BY <1>1, <1>2 DEF Passes
<1>4. \A x : ~Waits(r, x)'
  BY <1>3 DEF Waits
<1>5. VoteOut(r)' = <<>> /\ GateOut(r)' = <<>> /\ Passed(r)' = gateSeq[r]
  BY <1>3, <1>4 DEF VoteOut, GateOut, Passed
<1>6. kind = "gate" => /\ gates'[Peer(r)] = Tail(gates[Peer(r)])
                       /\ gates'[r] = gates[r] /\ frames' = frames
  BY <1>1, <1>2 DEF Passes
<1>7. kind = "vote" => /\ frames'[Peer(r)] = Tail(frames[Peer(r)])
                       /\ frames'[r] = frames[r] /\ gates' = gates
  BY <1>1, <1>2 DEF Passes
<1>8. QED
  BY <1>3, <1>4, <1>5, <1>6, <1>7

\* The first to pass a step leaves its peer waiting at it.
LEMMA PassFirst ==
  ASSUME LocallySound, NEW r \in Rank, NEW kind \in {"gate", "vote"}, NEW c,
         Together(Peer(r), "none", c, r), Waits(Peer(r), kind),
         Passes(r, kind, sync[Peer(r)].cancelled)
  PROVE  \E d \in BOOLEAN : Together(Peer(r), kind, d, r)'
<1> DEFINE p == Peer(r)
           e == sync[p].cancelled
<1>0. PICK d \in BOOLEAN : d = sync[r].cancelled
  BY DEF LocallySound
<1>1. /\ p \in Rank /\ p # r /\ Peer(p) = r
      /\ gateSeq[r] \in Nat /\ gateSeq[p] \in Nat
  BY Ranks DEF LocallySound
<1>2. Stands(p) /\ Waits(r, kind) /\ Waits(p, kind)
      /\ job' = job /\ alive' = alive /\ gateSeq' = gateSeq
  BY DEF Passes
<1>3. /\ GateFrame(p)' = GateFrame(p) /\ VoteFrame(p, d)' = VoteFrame(p, d)
      /\ Waits(p, kind)' /\ Onward(p, kind, d)' = Onward(p, kind, d)
      /\ SessionsOf(p, kind)' = SessionsOf(p, kind) /\ Passed(p)' = Passed(p)
  BY <1>1, <1>2, Unmoved
<1>4. /\ todo'[r] = Onward(r, kind, e)
      /\ sess'[r] = SessionsOf(r, kind)
      /\ VoteOut(r)' = <<>> /\ GateOut(r)' = <<>> /\ Passed(r)' = gateSeq[r]
      /\ \A x : ~Waits(r, x)'
      /\ kind = "gate" => gates'[p] = Tail(gates[p]) /\ gates'[r] = gates[r] /\ frames' = frames
      /\ kind = "vote" => frames'[p] = Tail(frames[p]) /\ frames'[r] = frames[r] /\ gates' = gates
  <2>1. PICK x : x = e
    OBVIOUS
  <2>2. Passes(r, kind, x)
    BY <2>1
  <2>3. /\ todo'[r] = Onward(r, kind, x)
        /\ sess'[r] = SessionsOf(r, kind)
        /\ VoteOut(r)' = <<>> /\ GateOut(r)' = <<>> /\ Passed(r)' = gateSeq[r]
        /\ \A y : ~Waits(r, y)'
        /\ kind = "gate" => /\ gates'[p] = Tail(gates[p]) /\ gates'[r] = gates[r]
                            /\ frames' = frames
        /\ kind = "vote" => /\ frames'[p] = Tail(frames[p]) /\ frames'[r] = frames[r]
                            /\ gates' = gates
    BY <2>2, PassedRank
  <2>4. QED
    BY <2>1, <2>3
<1>5. /\ job[L] # None /\ job[p] # None /\ alive /\ job[r] = job[p] /\ todo[r] = todo[p]
      /\ frames[p] = VoteOut(p) /\ gates[p] = GateOut(p) /\ frames[r] = VoteOut(r)
      /\ gates[r] = GateOut(r) /\ sess[r] = sess[p] /\ Passed(r) = Passed(p)
  BY DEF Together, Linked, Onward, SessionsOf, GatesTo, VotesTo
<1> HIDE DEF p, e
<1>6. Head1(r) = Head1(p)
  BY <1>5 DEF Head1
<1>7. SessionsOf(r, kind) = SessionsOf(p, kind)
  BY <1>5, <1>6 DEF SessionsOf, Joined
<1>8. Onward(r, kind, e) = Onward(p, kind, d)
  BY <1>0, <1>5, <1>6 DEF Onward, AfterVote, Polls, Skip, Ending, e
<1>9. \A x : Tail(<<x>>) = <<>>
  BY Tuples
<1>10. CASE kind = "gate"
  <2>1. ~Waits(p, "vote") /\ ~Waits(r, "vote") /\ gateSeq[r] = gateSeq[p]
    BY <1>1, <1>2, <1>5, <1>10 DEF Waits, At, Passed
  <2>2. GateFrame(r) = GateFrame(p)
    BY <1>6, <2>1 DEF GateFrame
  <2>3. frames'[p] = <<>> /\ frames'[r] = <<>>
    BY <1>4, <1>5, <1>10, <2>1 DEF VoteOut
  <2>4. gates'[p] = <<>> /\ gates'[r] = <<GateFrame(p)>>
    BY <1>2, <1>4, <1>5, <1>9, <1>10, <2>2 DEF GateOut
  <2>5. Linked(p, kind, r)'
    BY <1>2, <1>3, <1>4, <1>5, <1>7, <1>10, <2>1, <2>3, <2>4 DEF Linked, GatesTo
  <2>6. Together(p, kind, d, r)'
    BY <1>2, <1>3, <1>4, <1>5, <1>8, <1>10, <2>3, <2>5 DEF Together, VotesTo
  <2>7. QED
    BY <1>1, <2>6 DEF p
<1>11. CASE kind = "vote"
  <2>1. ~Waits(p, "gate") /\ ~Waits(r, "gate") /\ gateSeq[r] = gateSeq[p]
    BY <1>1, <1>2, <1>5, <1>11 DEF Waits, At, Passed
  <2>2. VoteFrame(r, d) = VoteFrame(p, d)
    BY <1>6 DEF VoteFrame
  <2>3. frames'[p] = <<>> /\ frames'[r] = <<VoteFrame(p, d)>>
    BY <1>0, <1>2, <1>4, <1>5, <1>9, <1>11, <2>2 DEF VoteOut
  <2>4. gates'[p] = <<>> /\ gates'[r] = <<>>
    BY <1>4, <1>5, <1>11, <2>1 DEF GateOut
  <2>5. Passed(p) = gateSeq[p]
    BY <2>1 DEF Passed
  <2>6. Linked(p, kind, r)'
    BY <1>2, <1>3, <1>4, <1>5, <1>7, <1>11, <2>1, <2>3, <2>4, <2>5 DEF Linked, GatesTo
  <2>7. Together(p, kind, d, r)'
    BY <1>2, <1>3, <1>4, <1>5, <1>8, <1>11, <2>3, <2>6 DEF Together, VotesTo
  <2>8. QED
    BY <1>1, <2>7 DEF p
<1>12. QED
  BY <1>10, <1>11

\* The second to pass it is level with the first.
LEMMA PassSecondLinks ==
  ASSUME LocallySound, NEW r \in Rank, NEW kind \in {"gate", "vote"}, NEW c,
         Linked(r, kind, Peer(r)), Passes(r, kind, c)
  PROVE  Linked(r, "none", Peer(r))'
<1> DEFINE p == Peer(r)
<1>1. /\ p \in Rank /\ p # r /\ Peer(p) = r
  BY Ranks
<1>2. Stands(p) /\ Waits(r, kind) /\ job' = job /\ alive' = alive /\ gateSeq' = gateSeq
  BY DEF Passes
<1>3. GateFrame(p)' = GateFrame(p) /\ GateOut(p)' = GateOut(p) /\ Passed(p)' = Passed(p)
  BY <1>1, <1>2, Unmoved
<1>4. /\ sess'[r] = SessionsOf(r, kind) /\ sess'[p] = sess[p]
      /\ VoteOut(r)' = <<>> /\ GateOut(r)' = <<>> /\ Passed(r)' = gateSeq[r]
      /\ kind = "gate" => gates'[p] = Tail(gates[p]) /\ gates'[r] = gates[r] /\ frames' = frames
      /\ kind = "vote" => frames'[p] = Tail(frames[p]) /\ frames'[r] = frames[r] /\ gates' = gates
  BY PassedRank
<1>5. /\ job[L] # None /\ job[r] # None /\ alive
      /\ frames[r] = <<>> /\ gates[r] = <<>> /\ gates[p] = GatesTo(r, kind, p)
      /\ sess[p] = SessionsOf(r, kind)
      /\ Passed(p) = IF kind = "gate" THEN gateSeq[r] ELSE Passed(r)
  BY DEF Linked
<1> HIDE DEF p
<1>6. kind = "vote" => Passed(r) = gateSeq[r]
  BY <1>2 DEF Passed, Waits, At
<1>7. \A x, y : Tail(<<x>>) = <<>> /\ Tail(<<x, y>>) = <<y>>
  BY Tuples
<1>8. gates'[p] = GateOut(p)'
  <2>1. CASE kind = "gate"
    BY <1>3, <1>4, <1>5, <1>7, <2>1 DEF GatesTo, GateOut
  <2>2. CASE kind = "vote"
    BY <1>3, <1>4, <1>5, <2>2 DEF GatesTo
  <2>3. QED
    BY <2>1, <2>2
<1>9. frames'[r] = <<>> /\ gates'[r] = <<>>
  BY <1>4, <1>5
<1>10. Passed(p)' = Passed(r)'
  BY <1>3, <1>4, <1>5, <1>6
<1>11. sess'[p] = sess'[r]
  BY <1>4, <1>5
<1>12. Linked(r, "none", p)'
  BY <1>2, <1>4, <1>5, <1>8, <1>9, <1>10, <1>11 DEF Linked, SessionsOf, GatesTo
<1>13. QED
  BY <1>12 DEF p

LEMMA PassSecond ==
  ASSUME LocallySound, NEW r \in Rank, NEW kind \in {"gate", "vote"}, NEW c,
         Together(r, kind, c, Peer(r)), Passes(r, kind, c)
  PROVE  Together(r, "none", c, Peer(r))'
<1> DEFINE p == Peer(r)
<1>1. /\ p \in Rank /\ p # r /\ Peer(p) = r
  BY Ranks
<1>2. Stands(p) /\ job' = job
  BY DEF Passes
<1>3. VoteOut(p)' = VoteOut(p) /\ todo'[p] = todo[p] /\ (Waits(p, "vote")' <=> Waits(p, "vote"))
  BY <1>1, <1>2, Unmoved DEF Stands
<1>4. /\ todo'[r] = Onward(r, kind, c)
      /\ kind = "gate" => frames' = frames
      /\ kind = "vote" => frames'[p] = Tail(frames[p])
  BY PassedRank
<1>5. /\ Linked(r, kind, p) /\ job[p] = job[r] /\ todo[p] = Onward(r, kind, c)
      /\ frames[p] = VotesTo(r, kind, c, p)
  BY DEF Together
<1>6. Linked(r, "none", p)'
  BY <1>5, PassSecondLinks
<1> HIDE DEF p
<1>7. \A x, y : Tail(<<x>>) = <<>> /\ Tail(<<x, y>>) = <<y>>
  BY Tuples
<1>8. frames'[p] = VoteOut(p)'
  <2>1. CASE kind = "vote"
    BY <1>3, <1>4, <1>5, <1>7, <2>1 DEF VotesTo, VoteOut
  <2>2. CASE kind = "gate"
    BY <1>3, <1>4, <1>5, <2>2 DEF VotesTo
  <2>3. QED
    BY <2>1, <2>2
<1>9. Together(r, "none", c, p)'
  BY <1>2, <1>3, <1>4, <1>5, <1>6, <1>8 DEF Together, Onward, VotesTo
<1>10. QED
  BY <1>9 DEF p

LEMMA AnsweredStands ==
  ASSUME job' = job, todo'[W] = todo[W], sess'[W] = sess[W],
         NEW rest, NEW in, Answered(rest, in)
  PROVE  Answered(rest, in)'
<1>1. \A s : HalfFrame(s)' = HalfFrame(s)
  BY DEF HalfFrame, Of
<1>2. \A x : AckFrame(job[L], x)' = AckFrame(job[L], x)
  BY DEF AckFrame, AckId
<1>3. QED
  BY <1>1, <1>2 DEF Answered

LEMMA PassReplied ==
  ASSUME LocallySound, NEW kind \in {"gate", "vote"}, NEW c,
         Replied(kind, c), Passes(L, kind, c)
  PROVE  Replied("none", c)'
<1>1. Stands(W) /\ job' = job
  BY Ranks DEF Passes
<1>2. /\ Linked(L, kind, W) /\ ~sent[W] /\ IsList(frames[W])
      /\ kind = "vote" => frames[W] # <<>>
      /\ Answered(Onward(L, kind, c), Replies(kind))
  BY DEF Replied
<1>3. Linked(L, "none", W)'
  BY <1>2, PassSecondLinks, Ranks
<1>4. /\ todo'[L] = Onward(L, kind, c)
      /\ kind = "gate" => frames' = frames
      /\ kind = "vote" => frames'[W] = Tail(frames[W])
  <2>1. /\ todo'[L] = Onward(L, kind, c)
        /\ kind = "gate" => frames' = frames
        /\ kind = "vote" => frames'[Peer(L)] = Tail(frames[Peer(L)])
    <3>1. L \in Rank
      BY Ranks
    <3>2. QED
      BY <3>1, PassedRank
  <2>2. QED
    BY <2>1, Ranks
<1>5. frames'[W] = Replies(kind)
  BY <1>4 DEF Replies
<1>6. IsList(frames'[W])
  BY <1>2, <1>5, ListFacts DEF Replies
<1>7. Onward(L, "none", c)' = Onward(L, kind, c) /\ Replies("none")' = Replies(kind)
  BY <1>4, <1>5 DEF Onward, Replies
<1>8. PICK rest, in : rest = Onward(L, kind, c) /\ in = Replies(kind)
  OBVIOUS
<1>9. Answered(rest, in)'
  <2>1. todo'[W] = todo[W] /\ sess'[W] = sess[W]
    BY <1>1 DEF Stands
  <2>2. Answered(rest, in)
    BY <1>2, <1>8
  <2>3. QED
    BY <1>1, <2>1, <2>2, AnsweredStands
<1>10. Answered(Onward(L, "none", c), Replies("none"))'
  BY <1>7, <1>8, <1>9 DEF Answered
<1>11. ~sent'[W]
  BY <1>1, <1>2 DEF Stands
<1>12. QED
  BY <1>3, <1>6, <1>10, <1>11, ListFacts DEF Replied


\* The worker passes the gate of a block that the leader has committed.
LEMMA PassBlock ==
  ASSUME LocallySound, NEW c, NEW n, Passes(W, "gate", c),
         Keeping("gate", n) \/ Replaying("gate", n)
  PROVE  Keeping("none", n)' \/ Replaying("none", n)'
<1>1. /\ Stands(L) /\ job' = job /\ alive' = alive /\ stopped' = stopped
      /\ gateSeq' = gateSeq /\ Waits(W, "gate")
  BY Ranks DEF Passes
<1>2. /\ todo'[W] = Tail(todo[W]) /\ sent'[W] = FALSE /\ sess'[W] = SessionsOf(W, "gate")
      /\ gates'[L] = Tail(gates[L]) /\ gates'[W] = gates[W] /\ frames' = frames
  <2>1. /\ todo'[W] = Onward(W, "gate", c) /\ sent'[W] = FALSE
        /\ sess'[W] = SessionsOf(W, "gate")
        /\ gates'[Peer(W)] = Tail(gates[Peer(W)]) /\ gates'[W] = gates[W] /\ frames' = frames
    <3>1. W \in Rank
      BY Ranks
    <3>2. QED
      BY <3>1, PassedRank
  <2>2. QED
    BY <2>1, Ranks DEF Onward
<1>3. /\ GateFrame(L)' = GateFrame(L) /\ GateOut(L)' = GateOut(L) /\ Passed(L)' = Passed(L)
      /\ Waits(L, "vote")' <=> Waits(L, "vote")
      /\ VoteFrame(L, sync[L].cancelled)' = VoteFrame(L, sync[L].cancelled)
  <2>1. sync'[L] = sync[L]
    BY <1>1 DEF Stands
  <2>2. Head1(L)' = Head1(L)
    BY <1>1, Unmoved, Ranks
  <2>3. QED
    BY <1>1, <2>1, <2>2, Unmoved, Ranks DEF VoteFrame
<1>4. /\ sess'[L] = sess[L] /\ todo'[L] = todo[L]
  BY <1>1 DEF Stands
<1>5. Block("gate")
  BY DEF Keeping, Replaying
<1>6. /\ job[W] # None /\ gates[L] = GatesTo(W, "gate", L) /\ Passed(L) = gateSeq[W]
  BY <1>5 DEF Block
<1>7. /\ Tail(todo[W]) # <<>> /\ Head(Tail(todo[W])) = CommitStep("gate")
      /\ CommitStep("gate").do = "commit"
  BY <1>5, BlockIsVerify
<1>8. CommitStep("none")' = CommitStep("gate")
  BY <1>2, <1>7 DEF CommitStep, Head1
<1>9. gates'[L] = GatesTo(W, "none", L)'
  <2>1. \A x, y : Tail(<<x>>) = <<>> /\ Tail(<<x, y>>) = <<y>>
    BY Tuples
  <2>2. QED
    BY <1>2, <1>3, <1>6, <2>1 DEF GatesTo, GateOut
<1>10. Block("none")'
  BY <1>1, <1>2, <1>3, <1>6, <1>7, <1>8, <1>9 DEF Block
<1>11. SessionsOf(W, "none")' = SessionsOf(W, "gate")
  BY <1>2 DEF SessionsOf
<1>12. CASE Keeping("gate", n)
  <2>1. /\ Ahead0(1)
        /\ frames[L][1] = [kind |-> "COMMIT", mode |-> "KEEP", n |-> n]
        /\ sess[L] = Wiped(KeptSessions(SessionsOf(W, "gate"), CommitStep("gate").kept, n))
    BY <1>12 DEF Keeping
  <2>2. Announced' = Announced
    BY <1>1, <1>3 DEF Announced
  <2>3. Queued(1)' /\ Unheard' = Unheard
    BY <1>2, <2>1, <2>2 DEF Ahead0, Queued, Unheard, Invalidation
  <2>4. Steps(L, job[L])' = Steps(L, job[L])
    BY <1>1, <1>4 DEF Steps, EvalSteps, Kept, Ahead
  <2>5. Ahead0(1)'
    BY <1>1, <1>2, <1>4, <2>1, <2>3, <2>4 DEF Ahead0
  <2>6. KeptSessions(SessionsOf(W, "none"), CommitStep("none").kept, n)'
          = KeptSessions(SessionsOf(W, "gate"), CommitStep("gate").kept, n)
    BY <1>1, <1>8, <1>11 DEF KeptSessions
  <2>7. Wiped(KeptSessions(SessionsOf(W, "none"), CommitStep("none").kept, n))'
          = Wiped(KeptSessions(SessionsOf(W, "gate"), CommitStep("gate").kept, n))
    BY <2>3, <2>6 DEF Wiped
  <2>8. Keeping("none", n)'
    BY <1>2, <1>4, <1>10, <2>1, <2>5, <2>7 DEF Keeping
  <2>9. QED
    BY <2>8
<1>13. CASE Replaying("gate", n)
  <2>1. /\ alive /\ frames[W] = <<>> /\ gates[W] = <<>>
        /\ job[L] = job[W] /\ n > 0
        /\ frames[L] = <<[kind |-> "COMMIT", mode |-> "REPLAY", n |-> n]>>
        /\ todo[L] = ReplaySteps(job[W].ss[1], CommitStep("gate").kept, job[L].toks, n)
        /\ sess[L] = [SessionsOf(W, "gate") EXCEPT ![job[W].ss[1]] = CommitStep("gate").kept]
    BY <1>13 DEF Replaying
  <2>2. ReplaySteps(job[W].ss[1], CommitStep("none").kept, job[L].toks, n)'
          = ReplaySteps(job[W].ss[1], CommitStep("gate").kept, job[L].toks, n)
    BY <1>1, <1>8 DEF ReplaySteps, Gate, Half
  <2>3. Replaying("none", n)'
    BY <1>1, <1>2, <1>4, <1>8, <1>10, <1>11, <2>1, <2>2 DEF Replaying
  <2>4. QED
    BY <2>3
<1>14. QED
  BY <1>12, <1>13

\* Passing a step keeps the pair in step.
LEMMA PassesKeeps ==
  ASSUME LocallySound, NEW r \in Rank, NEW kind \in {"gate", "vote"}, NEW c \in BOOLEAN,
         Passable(r, kind, c), Passes(r, kind, c)
  PROVE  InStep'
<1> DEFINE p == Peer(r)
<1>1. p \in Rank /\ Peer(p) = r /\ kind \in Pres /\ "none" \in Pres
  BY Ranks DEF Pres
<1>2. CASE Together(p, "none", c, r) /\ Waits(p, kind) /\ c = sync[p].cancelled
  <2>1. \E d \in BOOLEAN : Together(p, kind, d, r)'
    BY <1>2, PassFirst
  <2>2. \E d \in BOOLEAN : Together(p, kind, d, Peer(p))'
    BY <1>1, <2>1
  <2>3. QED
    BY <1>1, <2>2 DEF InStep
<1>3. CASE Together(r, kind, c, p)
  <2>1. Together(r, "none", c, p)'
    BY <1>3, PassSecond
  <2>2. QED
    BY <1>1, <2>1 DEF InStep
<1>4. CASE r = L /\ Replied(kind, c)
  BY <1>1, <1>4, PassReplied DEF InStep
<1>5. ASSUME r = W, kind = "gate", NEW n \in 1..2, Keeping("gate", n) \/ Replaying("gate", n)
      PROVE  InStep'
  <2>1. Keeping("none", n)' \/ Replaying("none", n)'
    BY <1>5, PassBlock
  <2>2. QED
    BY <1>1, <2>1 DEF InStep
<1>6. QED
  BY <1>2, <1>3, <1>4, <1>5 DEF Passable



-----------------------------------------------------------------------------
(* Answering.                                                              *)

LEMMA AppendTail ==
  ASSUME NEW q, NEW x, IsList(q), q # <<>>
  PROVE  Head(Append(q, x)) = Head(q) /\ Tail(Append(q, x)) = Append(Tail(q), x)
<1> DEFINE a == Append(q, x)
           n == Len(q)
<1>1. /\ n \in Nat /\ n > 0 /\ IsList(Tail(q)) /\ Len(Tail(q)) = n - 1 /\ Head(q) = q[1]
      /\ \A i \in 1..n - 1 : Tail(q)[i] = q[i + 1]
      /\ IsList(a) /\ Len(a) = n + 1 /\ a[n + 1] = x /\ \A i \in 1..n : a[i] = q[i]
  BY ListFacts
<1> HIDE DEF a, n
<1>2. a # <<>>
  BY <1>1, ListFacts
<1>3. /\ Head(a) = a[1] /\ IsList(Tail(a)) /\ Len(Tail(a)) = n
      /\ \A i \in 1..n : Tail(a)[i] = a[i + 1]
  <2>1. /\ Head(a) = a[1] /\ IsList(Tail(a)) /\ Len(Tail(a)) = Len(a) - 1
        /\ \A i \in 1..Len(a) - 1 : Tail(a)[i] = a[i + 1]
    BY <1>1, <1>2, ListFacts
  <2>2. Len(a) - 1 = n
    BY <1>1
  <2>3. QED
    BY <2>1, <2>2
<1>4. /\ IsList(Append(Tail(q), x)) /\ Len(Append(Tail(q), x)) = n
      /\ Append(Tail(q), x)[n] = x /\ \A i \in 1..n - 1 : Append(Tail(q), x)[i] = Tail(q)[i]
  <2> DEFINE t == Tail(q)
  <2>1. IsList(t) /\ Len(t) + 1 = n /\ Len(t) = n - 1
    BY <1>1
  <2> HIDE DEF t
  <2>2. /\ IsList(Append(t, x)) /\ Len(Append(t, x)) = Len(t) + 1
        /\ Append(t, x)[Len(t) + 1] = x
        /\ \A i \in 1..Len(t) : Append(t, x)[i] = t[i]
    BY <2>1, ListFacts
  <2>3. QED
    BY <2>1, <2>2 DEF t
<1>5. \A i \in 1..n : Tail(a)[i] = Append(Tail(q), x)[i]
  <2>1. ASSUME NEW i \in 1..n PROVE Tail(a)[i] = Append(Tail(q), x)[i]
    <3>1. CASE i = n
      BY <1>1, <1>3, <1>4, <3>1
    <3>2. CASE i # n
      <4>1. i \in 1..n - 1 /\ i + 1 \in 1..n
        BY <1>1, <3>2
      <4>2. QED
        BY <1>1, <1>3, <1>4, <4>1
    <3>3. QED
      BY <3>1, <3>2
  <2>2. QED
    BY <2>1
<1>6. Tail(a) = Append(Tail(q), x)
  BY <1>3, <1>4, <1>5, ListEqual
<1>7. 1 \in 1..n
  BY <1>1
<1>8. QED
  BY <1>1, <1>3, <1>6, <1>7 DEF a

\* The worker gives the answer f to its first step.
Gives(f) ==
  /\ job[W] # None /\ ~sent[W] /\ Head1(W).do \in {"ack", "half"}
  /\ frames' = [frames EXCEPT ![W] = Append(frames[W], f)]
  /\ sess' = sess /\ gates' = gates /\ gateSeq' = gateSeq /\ alive' = alive
  /\ stopped' = stopped /\ sent' = [sent EXCEPT ![W] = FALSE] /\ Stands(L)
  /\ \/ Head1(W).do = "half" /\ f = HalfFrame(Head1(W).s)
     \/ Head1(W).do = "ack" /\ f = AckFrame(job[W], OK)
     \/ /\ Head1(W).do = "ack" /\ f = AckFrame(job[W], INTERRUPTED)
        /\ job'[W] = None /\ job[W].op = "SYNC"
  /\ \/ /\ job' = job /\ todo' = [todo EXCEPT ![W] = Tail(todo[W])] /\ Len(todo[W]) > 1
     \/ /\ job' = [job EXCEPT ![W] = None] /\ todo' = [todo EXCEPT ![W] = <<>>]
        /\ Len(todo[W]) = 1 \/ f = AckFrame(job[W], INTERRUPTED)

LEMMA WorkerAckGives ==
  ASSUME LocallySound, WorkerAck
  PROVE  /\ \E f : Gives(f)
         /\ UNCHANGED <<gateDead, failed, torn, logits, env, sync>>
<1> DEFINE status == IF job[W].op = "SYNC" THEN sync[W].rc
                     ELSE IF gateDead[W] THEN ERROR ELSE OK
           f == AckFrame(job[W], status)
<1>1. /\ gateDead[W] = FALSE /\ sync[W].rc \in {OK, INTERRUPTED} /\ DOMAIN job = Rank
      /\ DOMAIN todo = Rank /\ DOMAIN sent = Rank
  BY Ranks DEF LocallySound
<1>2. status = OK \/ (status = INTERRUPTED /\ job[W].op = "SYNC")
  BY <1>1
<1>3. /\ job[W] # None /\ ~sent[W] /\ Head1(W).do = "ack"
      /\ frames' = [frames EXCEPT ![W] = Append(frames[W], f)]
      /\ UNCHANGED <<sess, sync, gates, gateSeq, gateDead, failed, torn, stopped, logits, env>>
  BY DEF WorkerAck, Doing, At, Send, AckFrame, setting
<1>4. Len(todo[W]) > 1
  BY <1>3, HeadFacts, Ranks
<1>5. CASE status = OK
  <2>1. /\ job' = job /\ alive' = alive /\ todo' = [todo EXCEPT ![W] = Tail(todo[W])]
        /\ sent' = [sent EXCEPT ![W] = FALSE]
    BY <1>5 DEF WorkerAck, Advance, Goto, OK, INTERRUPTED, ERROR
  <2>2. Stands(L)
    BY <1>1, <1>3, <2>1, Ranks DEF Stands
  <2>3. f = AckFrame(job[W], OK)
    BY <1>5
  <2> HIDE DEF f, status
  <2>4. Gives(f)
    BY <1>3, <1>4, <2>1, <2>2, <2>3 DEF Gives
  <2>5. QED
    BY <1>3, <2>4
<1>6. CASE status = INTERRUPTED /\ job[W].op = "SYNC"
  <2>1. /\ job' = [job EXCEPT ![W] = None] /\ alive' = alive
        /\ todo' = [todo EXCEPT ![W] = <<>>] /\ sent' = [sent EXCEPT ![W] = FALSE]
    BY <1>6 DEF WorkerAck, Return, Goto, OK, INTERRUPTED, ERROR
  <2>2. Stands(L) /\ job'[W] = None
    BY <1>1, <1>3, <2>1, Ranks DEF Stands
  <2>3. f = AckFrame(job[W], INTERRUPTED) /\ job[W].op = "SYNC"
    BY <1>6
  <2> HIDE DEF f, status
  <2>4. Gives(f)
    BY <1>3, <1>4, <2>1, <2>2, <2>3 DEF Gives
  <2>5. QED
    BY <1>3, <2>4
<1>7. QED
  BY <1>2, <1>5, <1>6

LEMMA WorkerHalfGives ==
  ASSUME LocallySound, WorkerHalf
  PROVE  /\ \E f : Gives(f)
         /\ UNCHANGED <<gateDead, failed, torn, logits, env, sync>>
<1> DEFINE f == HalfFrame(Head1(W).s)
<1>1. /\ gateDead[W] = FALSE /\ DOMAIN job = Rank
      /\ DOMAIN todo = Rank /\ DOMAIN sent = Rank
  BY Ranks DEF LocallySound
<1>2. /\ job[W] # None /\ ~sent[W] /\ Head1(W).do = "half"
      /\ frames' = [frames EXCEPT ![W] = Append(frames[W], f)]
      /\ UNCHANGED <<sess, sync, gates, gateSeq, gateDead, failed, torn, stopped, logits, env>>
      /\ alive' = alive
      /\ IF Len(todo[W]) = 1 THEN Return(W) ELSE Advance(W) /\ UNCHANGED job
  BY <1>1 DEF WorkerHalf, Doing, At, Send, HalfFrame, setting
<1>3. Len(todo[W]) \in Nat /\ Len(todo[W]) > 0
  BY <1>2, HeadFacts, Ranks
<1>4. CASE Len(todo[W]) = 1
  <2>1. /\ job' = [job EXCEPT ![W] = None]
        /\ todo' = [todo EXCEPT ![W] = <<>>] /\ sent' = [sent EXCEPT ![W] = FALSE]
    BY <1>2, <1>4 DEF Return, Goto
  <2>2. Stands(L)
    BY <1>1, <1>2, <2>1, Ranks DEF Stands
  <2> HIDE DEF f
  <2>3. f = HalfFrame(Head1(W).s)
    BY DEF f
  <2>4. Gives(f)
    BY <1>2, <1>4, <2>1, <2>2, <2>3 DEF Gives
  <2>5. QED
    BY <1>2, <2>4
<1>5. CASE Len(todo[W]) # 1
  <2>1. /\ job' = job
        /\ todo' = [todo EXCEPT ![W] = Tail(todo[W])] /\ sent' = [sent EXCEPT ![W] = FALSE]
    BY <1>2, <1>5 DEF Advance, Goto
  <2>2. Stands(L)
    BY <1>1, <1>2, <2>1, Ranks DEF Stands
  <2>3. f = HalfFrame(Head1(W).s) /\ Len(todo[W]) > 1
    <3>1. Len(todo[W]) > 1
      <4>1. \A n \in Nat : n > 0 /\ n # 1 => n > 1
        OBVIOUS
      <4>2. QED
        BY <1>3, <1>5, <4>1
    <3>2. QED
      BY <3>1
  <2> HIDE DEF f
  <2>4. Gives(f)
    BY <1>2, <2>1, <2>2, <2>3 DEF Gives
  <2>5. QED
    BY <1>2, <2>4
<1>6. QED
  BY <1>4, <1>5

\* A worker at its answers that is level with the leader, or ahead of it, has
\* answered nothing yet.
LEMMA NothingAnswered ==
  ASSUME LocallySound, NEW pre \in Pres, NEW c, Together(L, pre, c, W),
         ~sent[W], Head1(W).do \in {"ack", "half"}
  PROVE  Replied(pre, c)
<1> DEFINE rest == Onward(L, pre, c)
<1>1. /\ Linked(L, pre, W) /\ job[W] = job[L] /\ todo[W] = rest
      /\ frames[W] = VotesTo(L, pre, c, W) /\ job[L] # None
  BY DEF Together, Linked
<1>2. ~Waits(W, "vote") /\ VoteOut(W) = <<>>
  BY DEF Waits, VoteOut
<1>3. frames[W] = IF pre = "vote" THEN <<VoteFrame(L, c)>> ELSE <<>>
  BY <1>1, <1>2 DEF VotesTo
<1>4. /\ IsList(<<>>) /\ Len(<<>>) = 0
      /\ \A x : IsList(<<x>>) /\ Head(<<x>>) = x /\ Tail(<<x>>) = <<>> /\ <<x>> # <<>>
  BY Tuples
<1>5. Replies(pre) = <<>> /\ IsList(frames[W])
  BY <1>3, <1>4 DEF Replies
<1>6. pre = "vote" => frames[W] # <<>> /\ Head(frames[W]) = VoteFrame(L, c)
  BY <1>3, <1>4
<1> HIDE DEF rest
<1>7. /\ Shape(rest, job[W]) /\ Len(rest) \in Nat /\ 1 \in 1..Len(rest)
      /\ Head1(W) = rest[1]
  BY <1>1, HeadFacts, Ranks
<1>8. \A j \in 1..Len(rest) : rest[j].do \in {"ack", "half"}
  BY <1>7 DEF Shape
<1>9. Answered(rest, <<>>)
  <2>1. Len(rest) = 0 + Len(rest) /\ 0 <= Len(rest)
    BY <1>7
  <2>2. \A i \in 1..Len(rest) : rest[i] = rest[0 + i]
    BY <1>7
  <2>3. ~\E i \in 1..0 : TRUE
    OBVIOUS
  <2>4. QED
    BY <1>1, <1>4, <1>8, <2>1, <2>2, <2>3 DEF Answered
<1>10. QED
  BY <1>1, <1>5, <1>6, <1>9 DEF Replied, rest


LEMMA GivesAnswered ==
  ASSUME LocallySound, NEW f, Gives(f), NEW rest, NEW in, IsList(in),
         Answered(rest, in), job[W] = job[L], Head1(W) = rest[Len(in) + 1],
         Len(in) + 1 \in 1..Len(rest)
  PROVE  Answered(rest, Append(in, f))'
<1> DEFINE k == Len(in)
           a == Append(in, f)
<1>1. /\ k \in Nat /\ IsList(a) /\ Len(a) = k + 1 /\ a[k + 1] = f /\ a # <<>>
      /\ \A i \in 1..k : a[i] = in[i]
  <2>1. /\ Len(in) \in Nat /\ IsList(a) /\ Len(a) = k + 1 /\ a[k + 1] = f
        /\ \A i \in 1..k : a[i] = in[i]
    BY ListFacts
  <2> HIDE DEF a
  <2>2. a # <<>>
    BY <2>1, ListFacts
  <2>3. QED
    BY <2>1, <2>2
<1> HIDE DEF a
<1>2. /\ job[W] # None /\ sess' = sess /\ job'[L] = job[L]
  BY DEF Gives, Stands
<1>3. /\ \A i \in 1..Len(rest) : rest[i].do \in {"ack", "half"}
      /\ \A i \in 1..k :
           \/ rest[i].do = "half" /\ in[i] = HalfFrame(rest[i].s)
           \/ rest[i].do = "ack" /\ in[i] = AckFrame(job[L], OK)
      /\ Len(rest) = k + Len(todo[W])
      /\ \A i \in 1..Len(todo[W]) : todo[W][i] = rest[k + i]
  BY <1>2 DEF Answered
<1>4. /\ IsList(todo[W]) /\ Len(todo[W]) \in Nat /\ Len(todo[W]) > 0 /\ todo[W] # <<>>
  BY <1>2, HeadFacts, Ranks
<1>5. DOMAIN job = Rank /\ DOMAIN todo = Rank
  BY DEF LocallySound
<1>6. \A s : HalfFrame(s)' = HalfFrame(s)
  BY <1>2 DEF HalfFrame, Of
<1>7. \A x : AckFrame(job[L], x)' = AckFrame(job[L], x) /\ AckFrame(job[W], x) = AckFrame(job[L], x)
  BY <1>2 DEF AckFrame, AckId
<1> HIDE DEF k
<1>8. ASSUME NEW i \in 1..k + 1
      PROVE  \/ rest[i].do = "half" /\ a[i] = HalfFrame(rest[i].s)'
             \/ rest[i].do = "ack" /\ a[i] = AckFrame(job[L], OK)'
             \/ /\ rest[i].do = "ack" /\ a[i] = AckFrame(job[L], INTERRUPTED)'
                /\ i = Len(a) /\ job'[W] = None /\ job[L].op = "SYNC"
  <2>1. CASE i \in 1..k
    BY <1>1, <1>3, <1>6, <1>7, <2>1
  <2>2. CASE i = k + 1
    <3>1. rest[i] = Head1(W) /\ a[i] = f /\ i = Len(a)
      BY <1>1, <2>2 DEF k
    <3>2. CASE Head1(W).do = "half" /\ f = HalfFrame(Head1(W).s)
      BY <1>6, <3>1, <3>2
    <3>3. CASE Head1(W).do = "ack" /\ f = AckFrame(job[W], OK)
      BY <1>7, <3>1, <3>3
    <3>4. CASE /\ Head1(W).do = "ack" /\ f = AckFrame(job[W], INTERRUPTED)
               /\ job'[W] = None /\ job[W].op = "SYNC"
      BY <1>7, <3>1, <3>4
    <3>5. QED
      BY <3>2, <3>3, <3>4 DEF Gives
  <2>3. QED
    BY <1>1, <2>1, <2>2
<1>9. IF job'[W] = None
      THEN Len(a) = Len(rest) \/ (a # <<>> /\ a[Len(a)] = AckFrame(job[L], INTERRUPTED)')
      ELSE /\ job'[W] = job'[L] /\ Len(rest) = Len(a) + Len(todo'[W])
           /\ \A i \in 1..Len(todo'[W]) : todo'[W][i] = rest[Len(a) + i]
  <2>1. CASE /\ job' = job /\ todo' = [todo EXCEPT ![W] = Tail(todo[W])] /\ Len(todo[W]) > 1
    <3>1. todo'[W] = Tail(todo[W]) /\ job'[W] = job[W]
      BY <1>5, <2>1, Ranks
    <3>2. /\ Len(Tail(todo[W])) = Len(todo[W]) - 1
          /\ \A i \in 1..Len(todo[W]) - 1 : Tail(todo[W])[i] = todo[W][i + 1]
      BY <1>4, ListFacts
    <3>3. Len(rest) = (k + 1) + (Len(todo[W]) - 1)
      <4>1. \A m \in Nat : k + m = (k + 1) + (m - 1)
        BY <1>1
      <4>2. QED
        BY <1>3, <1>4, <4>1
    <3>4. ASSUME NEW i \in 1..Len(todo[W]) - 1
          PROVE  Tail(todo[W])[i] = rest[(k + 1) + i]
      <4>1. i + 1 \in 1..Len(todo[W]) /\ k + (i + 1) = (k + 1) + i
        BY <1>1, <1>4
      <4>2. Tail(todo[W])[i] = rest[k + (i + 1)]
        BY <1>3, <3>2, <4>1
      <4>3. QED
        BY <4>1, <4>2
    <3>5. QED
      BY <1>1, <1>2, <3>1, <3>2, <3>3, <3>4
  <2>2. CASE /\ job' = [job EXCEPT ![W] = None] /\ todo' = [todo EXCEPT ![W] = <<>>]
             /\ Len(todo[W]) = 1 \/ f = AckFrame(job[W], INTERRUPTED)
    <3>1. job'[W] = None
      BY <1>5, <2>2, Ranks
    <3>2. CASE Len(todo[W]) = 1
      BY <1>1, <1>3, <3>1, <3>2
    <3>3. CASE f = AckFrame(job[W], INTERRUPTED)
      BY <1>1, <1>7, <3>1, <3>3
    <3>4. QED
      BY <2>2, <3>2, <3>3
  <2>3. QED
    BY <2>1, <2>2 DEF Gives
<1>10. Len(a) <= Len(rest)
  BY <1>1 DEF k
<1>11. a' = a
  BY DEF a
<1>12. Answered(rest, a)'
  BY <1>1, <1>2, <1>3, <1>8, <1>9, <1>10 DEF Answered
<1>13. QED
  BY <1>12 DEF a

LEMMA GivesReplied ==
  ASSUME LocallySound, NEW f, Gives(f), NEW pre \in Pres, NEW c, Replied(pre, c)
  PROVE  Replied(pre, c)'
<1>1. /\ IsList(Replies(pre)) /\ job[L] # None /\ ~sent[W] /\ alive
      /\ job[W] = job[L] /\ Len(Replies(pre)) + 1 \in 1..Len(Onward(L, pre, c))
      /\ Head1(W) = Onward(L, pre, c)[Len(Replies(pre)) + 1]
  BY RepliedFacts DEF Gives
<1>2. /\ Linked(L, pre, W) /\ ~sent[W] /\ IsList(frames[W])
      /\ pre = "vote" => frames[W] # <<>> /\ Head(frames[W]) = VoteFrame(L, c)
      /\ Answered(Onward(L, pre, c), Replies(pre))
  BY DEF Replied
<1>3. /\ DOMAIN frames = Rank /\ DOMAIN sent = Rank
  BY DEF LocallySound
<1>4. /\ frames'[W] = Append(frames[W], f) /\ frames'[L] = frames[L] /\ sent'[W] = FALSE
      /\ sess' = sess /\ gates' = gates /\ gateSeq' = gateSeq /\ alive' = alive /\ Stands(L)
      /\ job'[L] = job[L]
  BY <1>3, Ranks DEF Gives, Stands
<1>5. /\ VoteOut(L)' = VoteOut(L) /\ GateOut(L)' = GateOut(L) /\ Passed(L)' = Passed(L)
      /\ GateFrame(L)' = GateFrame(L) /\ (Waits(L, pre)' <=> Waits(L, pre))
      /\ VoteFrame(L, c)' = VoteFrame(L, c)
      /\ Onward(L, pre, c)' = Onward(L, pre, c) /\ SessionsOf(L, pre)' = SessionsOf(L, pre)
  BY <1>4, Unmoved, Ranks
<1>6. ~Waits(W, "gate") /\ ~Waits(W, "gate")'
  BY <1>1, <1>4 DEF Waits
<1>7. GateOut(W)' = GateOut(W) /\ Passed(W)' = Passed(W) /\ GatesTo(L, pre, W)' = GatesTo(L, pre, W)
  BY <1>4, <1>5, <1>6 DEF GateOut, Passed, GatesTo
<1>8. Linked(L, pre, W)'
  BY <1>2, <1>4, <1>5, <1>7 DEF Linked
<1>9. IsList(frames'[W])
  BY <1>2, <1>4, ListFacts
<1>10. /\ pre = "vote" => frames'[W] # <<>> /\ Head(frames'[W]) = VoteFrame(L, c)
       /\ Replies(pre)' = Append(Replies(pre), f)
  <2>1. CASE pre = "vote"
    <3>1. /\ Head(Append(frames[W], f)) = Head(frames[W])
          /\ Tail(Append(frames[W], f)) = Append(Tail(frames[W]), f)
      BY <1>2, <2>1, AppendTail
    <3>2. Append(frames[W], f) # <<>>
      <4>1. IsList(Append(frames[W], f)) /\ Len(Append(frames[W], f)) = Len(frames[W]) + 1
            /\ Len(frames[W]) \in Nat
        BY <1>2, ListFacts
      <4>2. Len(Append(frames[W], f)) # 0
        BY <4>1
      <4>3. QED
        BY <4>1, <4>2, ListFacts
    <3>3. QED
      BY <1>2, <1>4, <2>1, <3>1, <3>2 DEF Replies
  <2>2. CASE pre # "vote"
    BY <1>4, <2>2 DEF Replies
  <2>3. QED
    BY <2>1, <2>2
<1>11. PICK rest, in : rest = Onward(L, pre, c) /\ in = Replies(pre)
  OBVIOUS
<1>12. Answered(rest, Append(in, f))'
  BY <1>1, <1>2, <1>11, GivesAnswered
<1>13. Answered(Onward(L, pre, c), Replies(pre))'
  BY <1>5, <1>10, <1>11, <1>12 DEF Answered
<1>14. pre = "vote" => frames'[W] # <<>> /\ Head(frames'[W]) = VoteFrame(L, c)'
  BY <1>5, <1>10
<1>15. ~sent'[W]
  BY <1>4
<1>16. QED
  BY <1>8, <1>9, <1>13, <1>14, <1>15, ListFacts DEF Replied

\* Answering keeps the pair in step.
LEMMA GivesKeeps ==
  ASSUME LocallySound, InStep, NEW f, Gives(f)
  PROVE  InStep'
<1>1. job[W] # None /\ ~sent[W] /\ Head1(W).do \in {"ack", "half"}
  BY DEF Gives
<1>2. ASSUME NEW b \in Rank, NEW pre \in Pres, NEW c \in BOOLEAN,
             Together(b, pre, c, Peer(b))
      PROVE  InStep'
  <2>1. Together(L, pre, c, W)
    <3>1. CASE b = L
      BY <1>2, <3>1, Ranks
    <3>2. CASE b = W
      <4>1. pre = "none"
        BY <1>1, <1>2, <3>2 DEF Together, Linked, Waits
      <4>2. QED
        BY <1>2, <3>2, <4>1, Mirror, Ranks
    <3>3. QED
      BY <3>1, <3>2, Ranks
  <2>2. Replied(pre, c)
    BY <1>1, <2>1, NothingAnswered
  <2>3. Replied(pre, c)'
    BY <2>2, GivesReplied
  <2>4. QED
    BY <2>3 DEF InStep
<1>3. ASSUME NEW pre \in Pres, NEW c \in BOOLEAN, Replied(pre, c) PROVE InStep'
  <2>1. Replied(pre, c)'
    BY <1>3, GivesReplied
  <2>2. QED
    BY <2>1 DEF InStep
<1>4. ASSUME NEW pre, Block(pre) PROVE FALSE
  BY <1>1, <1>4 DEF Block, CommitStep, Waits, At
<1>5. QED
  BY <1>1, <1>2, <1>3, <1>4 DEF InStep, Announcing, Keeping, Replaying, Over


-----------------------------------------------------------------------------
(* What the leader has sent ahead.                                         *)

Queue(q, a, n) ==
  /\ IsList(q) /\ n <= Len(q) - Len(a)
  /\ \A i \in (n + 1)..(Len(q) - Len(a)) : \E s \in Sessions : q[i] = Invalidation(s)
  /\ \A i \in 1..Len(a) : q[(Len(q) - Len(a)) + i] = a[i]
Erased(q) == {s \in Sessions : \E i \in 1..Len(q) : q[i] = Invalidation(s)}
Wipe(q, x) == [s \in Sessions |-> IF s \in Erased(q) THEN Fresh ELSE x[s]]

LEMMA QueueIs ==
  /\ \A n : Queued(n) <=> Queue(frames[L], Announced, n)
  /\ \A n : Queued(n)' <=> Queue(frames'[L], Announced', n)
  /\ \A x : Wiped(x) = Wipe(frames[L], x)
  /\ \A x : Wiped(x)' = Wipe(frames'[L], x)
<1>1. \A n : Queued(n) <=> Queue(frames[L], Announced, n)
  BY DEF Queued, Queue
<1>2. \A n : Queued(n)' <=> Queue(frames'[L], Announced', n)
  BY DEF Queued, Queue, Invalidation
<1>3. Unheard = Erased(frames[L]) /\ Unheard' = Erased(frames'[L])
  BY DEF Unheard, Erased, Invalidation
<1>4. \A x : Wiped(x) = Wipe(frames[L], x)
  BY <1>3 DEF Wiped, Wipe
<1>5. \A x : Wiped(x)' = Wipe(frames'[L], x)
  BY <1>3 DEF Wiped, Wipe, Fresh
<1>6. QED
  BY <1>1, <1>2, <1>4, <1>5

LEMMA QueueNothing ==
  Queue(<<>>, <<>>, 0) /\ Erased(<<>>) = {}
<1>1. IsList(<<>>) /\ Len(<<>>) = 0
  BY Tuples
<1>2. QED
  BY <1>1 DEF Queue, Erased

\* A frame at the end of the queue.
LEMMA QueueGrows ==
  ASSUME NEW q, NEW f, NEW n \in 0..1, Queue(q, <<>>, n)
  PROVE  /\ n = 1 => Append(q, f)[1] = q[1]
         /\ (\E s \in Sessions : f = Invalidation(s)) => Queue(Append(q, f), <<>>, n)
         /\ Queue(Append(q, f), <<f>>, n)
         /\ \A s \in Sessions : f = Invalidation(s) => Erased(Append(q, f)) = Erased(q) \cup {s}
         /\ (\A s \in Sessions : f # Invalidation(s)) => Erased(Append(q, f)) = Erased(q)
<1> DEFINE a == Append(q, f)
           m == Len(q)
<1>1. /\ IsList(q) /\ n <= m /\ Len(<<>>) = 0
      /\ \A i \in (n + 1)..m : \E s \in Sessions : q[i] = Invalidation(s)
  <2>1. Len(<<>>) = 0 /\ IsList(q)
    BY Tuples DEF Queue
  <2>2. Len(q) \in Nat /\ Len(q) - 0 = Len(q)
    BY <2>1, ListFacts
  <2>3. QED
    BY <2>1, <2>2 DEF Queue
<1>2. /\ m \in Nat /\ IsList(a) /\ Len(a) = m + 1 /\ a[m + 1] = f /\ \A i \in 1..m : a[i] = q[i]
  BY <1>1, ListFacts
<1>3. Len(<<f>>) = 1 /\ <<f>>[1] = f
  BY Tuples
<1> HIDE DEF a, m
<1>4. n = 1 => a[1] = q[1]
  BY <1>1, <1>2
<1>5. \A i \in (n + 1)..m : \E s \in Sessions : a[i] = Invalidation(s)
  <2>1. \A i \in (n + 1)..m : i \in 1..m
    BY <1>2
  <2>2. QED
    BY <1>1, <1>2, <2>1
<1>6. ASSUME \E s \in Sessions : f = Invalidation(s)
      PROVE  Queue(a, <<>>, n)
  <2>1. \A i \in (n + 1)..(m + 1) : i \in (n + 1)..m \/ i = m + 1
    BY <1>2
  <2>2. \A i \in (n + 1)..(m + 1) : \E s \in Sessions : a[i] = Invalidation(s)
    BY <1>2, <1>5, <1>6, <2>1
  <2>3. Len(a) - Len(<<>>) = m + 1 /\ n <= m + 1
    BY <1>1, <1>2
  <2>4. \A i \in 1..Len(<<>>) : FALSE
    BY <1>1
  <2>5. QED
    BY <1>2, <2>2, <2>3, <2>4 DEF Queue
<1>7. Queue(a, <<f>>, n)
  <2>1. Len(a) - Len(<<f>>) = m
    BY <1>2, <1>3
  <2>2. \A i \in 1..Len(<<f>>) : a[m + i] = <<f>>[i]
    <3>1. \A i \in 1..Len(<<f>>) : i = 1
      BY <1>3
    <3>2. QED
      BY <1>2, <1>3, <3>1
  <2>3. QED
    BY <1>1, <1>2, <1>5, <2>1, <2>2 DEF Queue
<1>8. \A i \in 1..m + 1 : i \in 1..m \/ i = m + 1
  BY <1>2
<1>9. \A i \in 1..m : i \in 1..m + 1
  BY <1>2
<1>10. m + 1 \in 1..m + 1
  BY <1>2
<1>11. \A s : (\E i \in 1..m + 1 : a[i] = Invalidation(s))
                <=> (\E i \in 1..m : q[i] = Invalidation(s)) \/ f = Invalidation(s)
  BY <1>2, <1>8, <1>9, <1>10
<1>12. Erased(a) = {s \in Sessions : \E i \in 1..m + 1 : a[i] = Invalidation(s)}
       /\ Erased(q) = {s \in Sessions : \E i \in 1..m : q[i] = Invalidation(s)}
  BY <1>2 DEF Erased, m
<1>13. \A s, z : Invalidation(s) = Invalidation(z) => s = z
  <2>1. ASSUME NEW s, NEW z, Invalidation(s) = Invalidation(z) PROVE s = z
    <3>1. <<s>> = <<z>>
      BY <2>1 DEF Invalidation
    <3>2. <<s>>[1] = s /\ <<z>>[1] = z
      OBVIOUS
    <3>3. QED
      BY <3>1, <3>2
  <2>2. QED
    BY <2>1
<1>14. \A s \in Sessions : f = Invalidation(s) => Erased(a) = Erased(q) \cup {s}
  BY <1>11, <1>12, <1>13
<1>15. (\A s \in Sessions : f # Invalidation(s)) => Erased(a) = Erased(q)
  BY <1>11, <1>12
<1>16. QED
  BY <1>4, <1>6, <1>7, <1>14, <1>15 DEF a

\* The first frame of the queue is taken.
LEMMA QueueShrinks ==
  ASSUME NEW q, NEW a, IsList(a), NEW n \in 0..1, Queue(q, a, n), Len(q) > Len(a)
  PROVE  /\ q # <<>> /\ Head(q) = q[1] /\ Queue(Tail(q), a, 0)
         /\ n = 0 => \E s \in Sessions : q[1] = Invalidation(s)
         /\ \A s \in Sessions : q[1] = Invalidation(s) => Erased(q) = Erased(Tail(q)) \cup {s}
         /\ (\A s \in Sessions : q[1] # Invalidation(s)) => Erased(q) = Erased(Tail(q))
<1> DEFINE m == Len(q)
           k == Len(q) - Len(a)
           t == Tail(q)
<1>1. /\ IsList(q) /\ n <= k /\ m \in Nat /\ Len(a) \in Nat
      /\ \A i \in (n + 1)..k : \E s \in Sessions : q[i] = Invalidation(s)
      /\ \A i \in 1..Len(a) : q[k + i] = a[i]
  BY ListFacts DEF Queue
<1>2. k \in Nat /\ k > 0 /\ k <= m /\ m > 0 /\ q # <<>>
  <2>1. m # 0
    BY <1>1
  <2>2. QED
    BY <1>1, <2>1, ListFacts
<1>3. /\ Head(q) = q[1] /\ IsList(t) /\ Len(t) = m - 1
      /\ \A i \in 1..m - 1 : t[i] = q[i + 1]
  BY <1>1, <1>2, ListFacts
<1>4. Len(t) - Len(a) = k - 1
  BY <1>1, <1>2, <1>3
<1>5. m = k + Len(a)
  BY <1>1
<1> HIDE DEF k, t, m
<1>6. \A i \in (0 + 1)..(k - 1) : \E s \in Sessions : t[i] = Invalidation(s)
  <2>1. ASSUME NEW i \in (0 + 1)..(k - 1) PROVE \E s \in Sessions : t[i] = Invalidation(s)
    <3>1. i \in 1..m - 1 /\ i + 1 \in (n + 1)..k
      <4>1. m \in Nat /\ k \in Nat /\ k <= m /\ n \in {0, 1}
        BY <1>1, <1>2
      <4>2. QED
        BY <4>1
    <3>2. QED
      BY <1>1, <1>3, <3>1
  <2>2. QED
    BY <2>1
<1>7. \A i \in 1..Len(a) : t[(k - 1) + i] = a[i]
  <2>1. ASSUME NEW i \in 1..Len(a) PROVE t[(k - 1) + i] = a[i]
    <3>1. (k - 1) + i \in 1..m - 1 /\ ((k - 1) + i) + 1 = k + i
      BY <1>1, <1>2, <1>5
    <3>2. QED
      BY <1>1, <1>3, <3>1
  <2>2. QED
    BY <2>1
<1>8. Queue(t, a, 0)
  BY <1>2, <1>3, <1>4, <1>6, <1>7 DEF Queue
<1>9. n = 0 => \E s \in Sessions : q[1] = Invalidation(s)
  BY <1>1, <1>2
<1>10. \A i \in 1..m : i = 1 \/ (i - 1 \in 1..m - 1 /\ (i - 1) + 1 = i)
  BY <1>1, <1>2
<1>11. 1 \in 1..m /\ \A i \in 1..m - 1 : i + 1 \in 1..m
  BY <1>1, <1>2
<1>12. \A s : (\E i \in 1..m : q[i] = Invalidation(s))
                <=> (\E i \in 1..m - 1 : t[i] = Invalidation(s)) \/ q[1] = Invalidation(s)
  <2>1. ASSUME NEW s, NEW i \in 1..m, q[i] = Invalidation(s), i # 1
        PROVE  \E j \in 1..m - 1 : t[j] = Invalidation(s)
    <3>1. i - 1 \in 1..m - 1 /\ (i - 1) + 1 = i
      BY <1>10, <2>1
    <3>2. t[i - 1] = Invalidation(s)
      BY <1>3, <2>1, <3>1
    <3>3. QED
      BY <3>1, <3>2
  <2>2. ASSUME NEW s, NEW j \in 1..m - 1, t[j] = Invalidation(s)
        PROVE  \E i \in 1..m : q[i] = Invalidation(s)
    BY <1>3, <1>11, <2>2
  <2>3. QED
    BY <1>11, <2>1, <2>2
<1>13. Erased(q) = {s \in Sessions : \E i \in 1..m : q[i] = Invalidation(s)}
       /\ Erased(t) = {s \in Sessions : \E i \in 1..m - 1 : t[i] = Invalidation(s)}
  BY <1>3 DEF Erased, m
<1>14. \A s, z : Invalidation(s) = Invalidation(z) => s = z
  <2>1. ASSUME NEW s, NEW z, Invalidation(s) = Invalidation(z) PROVE s = z
    <3>1. <<s>> = <<z>>
      BY <2>1 DEF Invalidation
    <3>2. <<s>>[1] = s /\ <<z>>[1] = z
      OBVIOUS
    <3>3. QED
      BY <3>1, <3>2
  <2>2. QED
    BY <2>1
<1>15. \A s \in Sessions : q[1] = Invalidation(s) => Erased(q) = Erased(t) \cup {s}
  BY <1>12, <1>13, <1>14
<1>16. (\A s \in Sessions : q[1] # Invalidation(s)) => Erased(q) = Erased(t)
  BY <1>12, <1>13
<1>17. QED
  BY <1>2, <1>3, <1>8, <1>9, <1>15, <1>16 DEF t


-----------------------------------------------------------------------------
(* The leader reads an answer.                                             *)

LEMMA AnswerArrives ==
  ASSUME LocallySound, InStep, Head1(L).do \in {"ack", "half"}, job[L] # None, ~sent[L],
         Delivered(L)
  PROVE  /\ \E c \in BOOLEAN : Replied("none", c)
         /\ frames[W] # <<>> /\ Next1(L) = Head(frames[W]) /\ alive
         /\ Consumed(L) = [frames EXCEPT ![W] = Tail(frames[W])]
<1>1. ASSUME alive PROVE /\ frames[W] # <<>> /\ Next1(L) = Head(frames[W])
                         /\ Consumed(L) = [frames EXCEPT ![W] = Tail(frames[W])]
  BY <1>1, FrameArrives, Ranks
<1>2. ASSUME NEW x \in {"gate", "vote"} PROVE ~Waits(L, x)
  BY DEF Waits
<1>3. ASSUME NEW b \in Rank, NEW pre \in Pres, NEW c \in BOOLEAN,
             Together(b, pre, c, Peer(b))
      PROVE  FALSE
  <2>1. CASE pre = "none"
    <3>1. Together(L, "none", c, W)
      BY <1>3, <2>1, Mirror, Ranks
    <3>2. /\ todo[W] = todo[L] /\ frames[W] = VoteOut(W) /\ alive
      BY <3>1 DEF Together, Linked, Onward, VotesTo
    <3>3. Head1(W) = Head1(L)
      BY <3>2 DEF Head1
    <3>4. VoteOut(W) = <<>>
      BY <3>3 DEF VoteOut, Waits, At
    <3>5. QED
      BY <1>1, <3>2, <3>4
  <2>2. CASE pre # "none"
    <3>1. Waits(b, pre) /\ pre \in {"gate", "vote"} /\ alive /\ frames[b] = <<>>
      BY <1>3, <2>2 DEF Together, Linked, Pres
    <3>2. b = W
      BY <1>2, <3>1, Ranks
    <3>3. QED
      BY <1>1, <3>1, <3>2
  <2>3. QED
    BY <2>1, <2>2
<1>4. ASSUME NEW pre \in Pres, NEW c \in BOOLEAN, Replied(pre, c)
      PROVE  pre = "none" /\ alive
  BY <1>2, <1>4 DEF Replied, Linked, Pres
<1>5. CASE \E pre \in Pres, c \in BOOLEAN : Replied(pre, c)
  BY <1>1, <1>4, <1>5
<1>6. CASE Announcing
  BY <1>1, <1>6 DEF Announcing, Ahead0
<1>7. ASSUME NEW pre, NEW n, Keeping(pre, n) \/ Replaying(pre, n) PROVE FALSE
  BY <1>1, <1>7 DEF Keeping, Replaying, Ahead0
<1>8. CASE Over
  BY <1>8 DEF Over
<1>9. QED
  BY <1>3, <1>5, <1>6, <1>7, <1>8 DEF InStep

\* The leader has read the last answer, and returned; it may give the session up.
LEMMA Home ==
  ASSUME LocallySound, NEW c, Replied("none", c), job[W] = None,
         job' = [job EXCEPT ![L] = None], todo' = [todo EXCEPT ![L] = <<>>],
         sent' = [sent EXCEPT ![L] = FALSE],
         alive' = alive, stopped' = stopped, gates' = gates, gateSeq' = gateSeq,
         frames'[W] = <<>>,
         \/ frames'[L] = <<>> /\ sess' = sess
         \/ \E s \in Sessions :
              /\ frames'[L] = <<Invalidation(s)>>
              /\ sess' = [sess EXCEPT ![L] =
                            [z \in Sessions |-> IF z = s THEN Fresh ELSE sess[L][z]]]
  PROVE  Announcing'
<1>1. /\ DOMAIN job = Rank /\ DOMAIN todo = Rank /\ DOMAIN sent = Rank /\ DOMAIN sess = Rank
      /\ (stopped => job[L] = None)
  BY DEF LocallySound
<1>2. /\ Linked(L, "none", W) /\ ~sent[W] /\ job[L] # None /\ alive
      /\ frames[L] = <<>> /\ gates[L] = <<>> /\ ~Waits(L, "gate") /\ ~Waits(W, "gate")
  <2>1. Head1(L).do \in {"ack", "half"}
    BY RepliedHead
  <2>2. QED
    BY <2>1, RepliedFacts DEF Replied, Waits, At
<1>3. sess[W] = sess[L] /\ gateSeq[L] = gateSeq[W] /\ gates[W] = <<>>
  BY <1>2 DEF Linked, SessionsOf, Passed, GatesTo, GateOut
<1>4. job'[L] = None /\ job'[W] = None /\ todo'[L] = <<>> /\ sent'[L] = FALSE /\ sent'[W] = FALSE
  <2>1. job'[L] = None /\ todo'[L] = <<>> /\ sent'[L] = FALSE
    BY <1>1, Ranks
  <2>2. job'[W] = None /\ sent'[W] = sent[W]
    BY <1>1, Ranks
  <2>3. sent[W] \in BOOLEAN
    BY Ranks DEF LocallySound
  <2>4. QED
    BY <1>2, <2>1, <2>2, <2>3
<1>5. Announced' = <<>> /\ GateOut(L)' = <<>> /\ Passed(L)' = gateSeq[L]
  BY <1>1, <1>2, <1>4 DEF Announced, GateOut, Passed, Waits, At
<1>6. Queue(<<>>, <<>>, 0) /\ Erased(<<>>) = {}
  BY QueueNothing
<1>7. Queue(frames'[L], <<>>, 0) /\ sess'[L] = Wipe(frames'[L], sess'[W])
  <2>1. CASE frames'[L] = <<>> /\ sess' = sess
    <3>1. sess[W] = [s \in Sessions |-> sess[W][s]]
      BY Ranks DEF LocallySound
    <3>2. QED
      BY <1>3, <1>6, <2>1, <3>1 DEF Wipe
  <2>2. ASSUME NEW s \in Sessions, frames'[L] = <<Invalidation(s)>>,
               sess' = [sess EXCEPT ![L] =
                            [z \in Sessions |-> IF z = s THEN Fresh ELSE sess[L][z]]]
        PROVE  Queue(frames'[L], <<>>, 0) /\ sess'[L] = Wipe(frames'[L], sess'[W])
    <3> DEFINE f == Invalidation(s)
    <3>1. Append(<<>>, f) = <<f>>
      BY Tuples
    <3> HIDE DEF f
    <3>2. f = Invalidation(s)
      BY DEF f
    <3>3. 0 \in 0..1
      OBVIOUS
    <3>4. Queue(<<f>>, <<>>, 0) /\ Erased(<<f>>) = {s}
      <4>1. /\ (\E z \in Sessions : f = Invalidation(z)) => Queue(Append(<<>>, f), <<>>, 0)
            /\ \A z \in Sessions : f = Invalidation(z) =>
                 Erased(Append(<<>>, f)) = Erased(<<>>) \cup {z}
        BY <1>6, <3>3, QueueGrows
      <4>2. Queue(Append(<<>>, f), <<>>, 0)
        BY <3>2, <4>1
      <4>3. Erased(Append(<<>>, f)) = {s}
        BY <1>6, <3>2, <4>1
      <4>4. QED
        BY <3>1, <4>2, <4>3
    <3>5. sess'[W] = sess[L] /\ sess'[L] = [z \in Sessions |-> IF z = s THEN Fresh ELSE sess[L][z]]
      BY <1>1, <1>3, <2>2, Ranks
    <3>6. QED
      BY <2>2, <3>2, <3>4, <3>5 DEF Wipe
  <2>3. QED
    BY <2>1, <2>2
<1>8. Ahead0(0)'
  BY <1>2, <1>3, <1>4, <1>5, <1>7, QueueIs DEF Ahead0
<1>9. sess'[L] = Wiped(sess[W])'
  BY <1>7 DEF Wiped, Wipe, Unheard, Erased, Invalidation, Fresh
<1>10. gates'[L] = GateOut(L)' /\ Passed(L)' = gateSeq'[W]
  BY <1>2, <1>3, <1>5
<1>11. QED
  BY <1>4, <1>8, <1>9, <1>10 DEF Announcing

\* What the leader does of itself when it reads an answer.
TakesAnswer ==
  /\ job' = job /\ sess' = sess /\ Len(todo[L]) > 1
  /\ sent' = [sent EXCEPT ![L] = FALSE] /\ todo' = [todo EXCEPT ![L] = Tail(todo[L])]
Returns ==
  /\ job' = [job EXCEPT ![L] = None] /\ todo' = [todo EXCEPT ![L] = <<>>]
  /\ sent' = [sent EXCEPT ![L] = FALSE]
Forgets(s) ==
  /\ Returns
  /\ sess' = [sess EXCEPT ![L] = [z \in Sessions |-> IF z = s THEN Fresh ELSE sess[L][z]]]

\* The leader gives up a command of one session.
LEMMA GivesUp ==
  ASSUME LocallySound, job[L] # None, job[L].op # "BATCH", NEW fr, DOMAIN fr = Rank,
         fr[L] = <<>>, NEW down, down = FALSE, GiveUp(fr, down)
  PROVE  \E s \in Sessions :
           /\ s \in ToSet(job[L].ss) /\ Forgets(s)
           /\ frames' = [fr EXCEPT ![L] = <<Invalidation(s)>>]
<1>1. job[L] \in Commands /\ env \in Settings
  BY Ranks DEF LocallySound
<1>2. PICK s \in Sessions : job[L].ss = <<s>> /\ ToSet(job[L].ss) = {s}
  BY <1>1, CommandFacts
<1>3. /\ job' = [job EXCEPT ![L] = None] /\ todo' = [todo EXCEPT ![L] = <<>>]
      /\ sent' = [sent EXCEPT ![L] = FALSE]
      /\ sess' = Invalid(L, job[L].ss)
      /\ frames' = [fr EXCEPT ![L] = fr[L] \o InvalidateFrames(job[L].ss)]
  BY DEF GiveUp, Return, Goto, TellInvalid
<1>4. InvalidateFrames(<<s>>) = <<Invalidation(s)>>
  <2>1. /\ InvalidateFrames(<<s>>) =
             [i \in 1..1 |-> [kind |-> "INVALIDATE", ss |-> <<(<<s>>)[i]>>, toks |-> <<>>]]
    BY DEF InvalidateFrames
  <2>2. \A i \in 1..1 : i = 1 /\ (<<s>>)[i] = s
    OBVIOUS
  <2>3. InvalidateFrames(<<s>>) = [i \in 1..1 |-> Invalidation(s)]
    BY <2>1, <2>2 DEF Invalidation
  <2> DEFINE f == Invalidation(s)
  <2> HIDE DEF f
  <2>4. [i \in 1..1 |-> f] = <<f>>
    OBVIOUS
  <2>5. QED
    BY <2>3, <2>4 DEF f
<1>5. fr[L] \o InvalidateFrames(job[L].ss) = <<Invalidation(s)>>
  <2> DEFINE f == Invalidation(s)
  <2> HIDE DEF f
  <2>1. <<>> \o <<f>> = <<f>>
    OBVIOUS
  <2>2. QED
    BY <1>2, <1>4, <2>1 DEF f
<1>6. Invalid(L, job[L].ss) = [sess EXCEPT ![L] =
                                 [z \in Sessions |-> IF z = s THEN Fresh ELSE sess[L][z]]]
  BY <1>2 DEF Invalid
<1>7. s \in ToSet(job[L].ss)
  BY <1>2
<1>8. Forgets(s)
  BY <1>3, <1>6 DEF Forgets, Returns
<1>9. QED
  BY <1>3, <1>5, <1>7, <1>8


\* The first answer the leader finds, and what is left when there is only one.
LEMMA FirstAnswer ==
  ASSUME LocallySound, NEW c, Replied("none", c), frames[W] # <<>>
  PROVE  LET f == Head(frames[W]) IN
         /\ \/ Head1(L).do = "half" /\ f = HalfFrame(Head1(L).s)
            \/ Head1(L).do = "ack" /\ f = AckFrame(job[L], OK)
            \/ /\ Head1(L).do = "ack" /\ f = AckFrame(job[L], INTERRUPTED)
               /\ Tail(frames[W]) = <<>> /\ job[W] = None /\ job[L].op = "SYNC"
         /\ Len(todo[L]) = 1 => Tail(frames[W]) = <<>> /\ job[W] = None
<1> DEFINE rest == todo[L]
           in == frames[W]
<1>1. Answered(rest, in) /\ IsList(in) /\ in # <<>> /\ job[L] # None
  BY DEF Replied, Onward, Replies, Linked
<1> HIDE DEF rest, in
<1>2. /\ Len(in) \in Nat /\ Len(in) > 0 /\ Head(in) = in[1] /\ IsList(Tail(in))
      /\ Len(Tail(in)) = Len(in) - 1
  BY <1>1, ListFacts
<1>3. /\ 1 \in 1..Len(rest) /\ Len(rest) \in Nat /\ Head1(L) = rest[1]
  BY <1>1, HeadFacts, Ranks DEF rest
<1>4. 1 \in 1..Len(in)
  BY <1>2
<1>5. Len(in) = 1 => Tail(in) = <<>>
  <2>1. \A m \in Nat : m = 1 => m - 1 = 0
    OBVIOUS
  <2>2. Len(in) = 1 => Len(Tail(in)) = 0
    BY <1>2, <2>1
  <2>3. QED
    BY <1>2, <2>2, ListFacts
<1>6. \/ Head1(L).do = "half" /\ Head(in) = HalfFrame(Head1(L).s)
      \/ Head1(L).do = "ack" /\ Head(in) = AckFrame(job[L], OK)
      \/ /\ Head1(L).do = "ack" /\ Head(in) = AckFrame(job[L], INTERRUPTED)
         /\ 1 = Len(in) /\ job[W] = None /\ job[L].op = "SYNC"
  BY <1>1, <1>2, <1>3, <1>4 DEF Answered
<1>7. ASSUME Len(rest) = 1 PROVE Tail(in) = <<>> /\ job[W] = None
  <2>1. Len(in) <= 1
    BY <1>1, <1>7 DEF Answered
  <2>2. Len(in) = 1
    <3>1. \A m \in Nat : m > 0 /\ m <= 1 => m = 1
      OBVIOUS
    <3>2. QED
      BY <1>2, <2>1, <3>1
  <2>3. job[W] = None
    <3>1. ASSUME job[W] # None PROVE FALSE
      <4>1. 1 = 1 + Len(todo[W])
        BY <1>1, <1>7, <2>2, <3>1 DEF Answered
      <4>2. Len(todo[W]) \in Nat /\ Len(todo[W]) > 0
        BY <3>1, HeadFacts, Ranks
      <4>3. QED
        BY <4>1, <4>2
    <3>2. QED
      BY <3>1
  <2>4. QED
    BY <1>5, <2>2, <2>3
<1>8. QED
  BY <1>5, <1>6, <1>7 DEF rest, in

\* The leader has read an answer that is not the last.
LEMMA AnswerTaken ==
  ASSUME LocallySound, NEW c, Replied("none", c), frames[W] # <<>>, Len(todo[L]) > 1,
         Head(frames[W]) # AckFrame(job[L], INTERRUPTED),
         job' = job, sess' = sess, gates' = gates, gateSeq' = gateSeq, alive' = alive,
         sent' = [sent EXCEPT ![L] = FALSE],
         todo' = [todo EXCEPT ![L] = Tail(todo[L])],
         frames' = [frames EXCEPT ![W] = Tail(frames[W])]
  PROVE  Replied("none", c)'
<1> DEFINE rest == todo[L]
           in == frames[W]
           tr == Tail(todo[L])
           ti == Tail(frames[W])
<1>1. /\ DOMAIN todo = Rank /\ DOMAIN sent = Rank /\ DOMAIN frames = Rank
  BY DEF LocallySound
<1>2. /\ Linked(L, "none", W) /\ ~sent[W] /\ IsList(in) /\ Answered(rest, in) /\ job[L] # None
  BY DEF Replied, Linked, Onward, Replies
<1>3. /\ todo'[L] = tr /\ todo'[W] = todo[W] /\ sent'[L] = FALSE /\ sent'[W] = sent[W]
      /\ frames'[L] = frames[L] /\ frames'[W] = ti
  BY <1>1, Ranks
<1>4. /\ Len(in) \in Nat /\ Len(in) > 0 /\ Head(in) = in[1] /\ IsList(ti)
      /\ Len(ti) = Len(in) - 1 /\ \A i \in 1..Len(in) - 1 : ti[i] = in[i + 1]
  BY <1>2, ListFacts
<1>5. /\ IsList(rest) /\ Len(rest) \in Nat /\ rest # <<>>
  BY <1>2, HeadFacts, Ranks
<1>6. /\ Len(tr) = Len(rest) - 1 /\ \A i \in 1..Len(rest) - 1 : tr[i] = rest[i + 1]
  BY <1>5, ListFacts
<1>7. /\ ~Waits(L, "gate") /\ ~Waits(L, "vote") /\ ~Waits(W, "gate")
      /\ ~Waits(L, "gate")' /\ ~Waits(L, "vote")' /\ ~Waits(W, "gate")'
  <2>1. Head1(L).do \in {"ack", "half"}
    BY RepliedHead
  <2>2. QED
    BY <1>2, <1>3, <2>1 DEF Waits, At
<1>8. /\ frames[L] = <<>> /\ gates[L] = <<>> /\ gates[W] = <<>> /\ sess[W] = sess[L]
      /\ gateSeq[W] = gateSeq[L] /\ alive
  BY <1>2, <1>7 DEF Linked, VoteOut, GateOut, GatesTo, SessionsOf, Passed
<1>9. Linked(L, "none", W)'
  BY <1>2, <1>3, <1>7, <1>8 DEF Linked, VoteOut, GateOut, GatesTo, SessionsOf, Passed
<1>10. /\ \A s : HalfFrame(s)' = HalfFrame(s)
       /\ \A x : AckFrame(job[L], x)' = AckFrame(job[L], x)
  BY DEF HalfFrame, Of, AckFrame, AckId
<1> HIDE DEF rest, in, tr, ti
<1>11. /\ \A i \in 1..Len(tr) : tr[i].do \in {"ack", "half"} /\ i + 1 \in 1..Len(rest)
  <2>1. ASSUME NEW i \in 1..Len(tr)
        PROVE  tr[i].do \in {"ack", "half"} /\ i + 1 \in 1..Len(rest)
    <3>1. i \in 1..Len(rest) - 1 /\ i + 1 \in 1..Len(rest)
      BY <1>5, <1>6
    <3>2. QED
      BY <1>2, <1>6, <3>1 DEF Answered
  <2>2. QED
    BY <2>1
<1>12. Len(in) <= Len(rest)
  BY <1>2 DEF Answered
<1>13. Len(ti) <= Len(tr)
  BY <1>4, <1>5, <1>6, <1>12
<1>14. ASSUME NEW i \in 1..Len(ti)
       PROVE  \/ tr[i].do = "half" /\ ti[i] = HalfFrame(tr[i].s)
              \/ tr[i].do = "ack" /\ ti[i] = AckFrame(job[L], OK)
              \/ /\ tr[i].do = "ack" /\ ti[i] = AckFrame(job[L], INTERRUPTED)
                 /\ i = Len(ti) /\ job[W] = None /\ job[L].op = "SYNC"
  <2>1. /\ i \in 1..Len(in) - 1 /\ i + 1 \in 1..Len(in) /\ i \in 1..Len(rest) - 1
        /\ (i + 1 = Len(in) => i = Len(ti))
    BY <1>4, <1>5, <1>12
  <2>2. ti[i] = in[i + 1] /\ tr[i] = rest[i + 1]
    BY <1>4, <1>6, <2>1
  <2>3. \/ rest[i + 1].do = "half" /\ in[i + 1] = HalfFrame(rest[i + 1].s)
        \/ rest[i + 1].do = "ack" /\ in[i + 1] = AckFrame(job[L], OK)
        \/ /\ rest[i + 1].do = "ack" /\ in[i + 1] = AckFrame(job[L], INTERRUPTED)
           /\ i + 1 = Len(in) /\ job[W] = None /\ job[L].op = "SYNC"
    BY <1>2, <2>1 DEF Answered
  <2>4. QED
    BY <2>1, <2>2, <2>3
<1>15. ASSUME job[W] = None PROVE Answered(tr, ti)
  <2>1. Len(in) = Len(rest) \/ in[Len(in)] = AckFrame(job[L], INTERRUPTED)
    BY <1>2, <1>15 DEF Answered
  <2>2. Len(ti) = Len(tr) \/ (ti # <<>> /\ ti[Len(ti)] = AckFrame(job[L], INTERRUPTED))
    <3>1. CASE Len(in) = Len(rest)
      BY <1>4, <1>5, <1>6, <3>1
    <3>2. CASE in[Len(in)] = AckFrame(job[L], INTERRUPTED)
      <4>1. Len(in) # 1
        BY <1>4, <3>2 DEF in
      <4>2. Len(in) - 1 \in 1..Len(in) - 1 /\ (Len(in) - 1) + 1 = Len(in) /\ Len(ti) # 0
        BY <1>4, <4>1
      <4>3. ti[Len(in) - 1] = in[Len(in)]
        BY <1>4, <4>2
      <4>4. QED
        BY <1>4, <3>2, <4>2, <4>3, ListFacts
    <3>3. QED
      BY <2>1, <3>1, <3>2
  <2>3. Answered(tr, ti)
    BY <1>11, <1>13, <1>14, <1>15, <2>2 DEF Answered
  <2>4. QED
    BY <2>3
<1>16. ASSUME job[W] # None PROVE Answered(tr, ti)
  <2>1. /\ job[W] = job[L] /\ Len(rest) = Len(in) + Len(todo[W])
        /\ \A i \in 1..Len(todo[W]) : todo[W][i] = rest[Len(in) + i]
    BY <1>2, <1>16 DEF Answered
  <2>2. Len(todo[W]) \in Nat
    BY <1>16, HeadFacts, Ranks
  <2>3. Len(tr) = Len(ti) + Len(todo[W])
    BY <1>4, <1>6, <2>1, <2>2
  <2>4. ASSUME NEW i \in 1..Len(todo[W]) PROVE todo[W][i] = tr[Len(ti) + i]
    <3>1. Len(ti) + i \in 1..Len(rest) - 1 /\ (Len(ti) + i) + 1 = Len(in) + i
      BY <1>4, <2>1, <2>2
    <3>2. QED
      BY <1>6, <2>1, <3>1
  <2>5. Answered(tr, ti)
    BY <1>11, <1>13, <1>14, <1>16, <2>1, <2>3, <2>4 DEF Answered
  <2>6. QED
    BY <2>5
<1>17. Answered(tr, ti)
  BY <1>15, <1>16
<1>18. PICK x, y : x = tr /\ y = ti
  OBVIOUS
<1>19. Answered(x, y)'
  BY <1>3, <1>17, <1>18, AnsweredStands
<1>20. Answered(Onward(L, "none", c), Replies("none"))'
  <2>1. Onward(L, "none", c)' = x /\ Replies("none")' = y
    BY <1>3, <1>18 DEF Onward, Replies
  <2>2. QED
    BY <1>19, <2>1 DEF Answered
<1>21. IsList(frames'[W]) /\ ~sent'[W]
  BY <1>2, <1>3, <1>4
<1>22. QED
  BY <1>9, <1>20, <1>21 DEF Replied


LEMMA LeaderAckReads ==
  ASSUME LocallySound, InStep, LeaderAck, Delivered(L)
  PROVE  /\ InStep'
         /\ UNCHANGED <<gateDead, torn, env, sync, gates, gateSeq, alive, stopped, logits>>
         /\ DOMAIN failed' = Rank /\ \A r \in Rank : failed'[r] = FALSE
         /\ DOMAIN frames' = Rank
         /\ job[L] # None /\ Head1(L).do = "ack"
         /\ \/ TakesAnswer
            \/ \E s \in Sessions : s \in ToSet(job[L].ss) /\ job[L].op = "SYNC" /\ Forgets(s)
<1> DEFINE f == Next1(L)
           mine == f.kind = "ACK" /\ f.id = AckId(job[L])
<1>1. /\ job[L] # None /\ Head1(L).do = "ack" /\ ~sent[L] /\ Arrived(L)
      /\ UNCHANGED <<gateDead, torn, env, sync, gates, gateSeq, alive, stopped, logits>>
      /\ IF mine /\ f.status = OK
         THEN Advance(L) /\ frames' = Consumed(L) /\ UNCHANGED <<sess, job, failed>>
         ELSE /\ failed' = [failed EXCEPT ![L] = failed[L] \/ ~mine]
              /\ GiveUp(Consumed(L), failed'[L])
  BY DEF LeaderAck, Doing, At, link, setting
<1>2. /\ DOMAIN failed = Rank /\ \A r \in Rank : failed[r] = FALSE
      /\ DOMAIN frames = Rank /\ DOMAIN todo = Rank
  BY DEF LocallySound
<1>3. PICK c \in BOOLEAN : Replied("none", c)
  BY <1>1, AnswerArrives
<1>4. frames[W] # <<>> /\ f = Head(frames[W])
      /\ Consumed(L) = [frames EXCEPT ![W] = Tail(frames[W])]
  BY <1>1, AnswerArrives
<1>5. /\ Len(todo[L]) > 1
  BY <1>1, HeadFacts, Ranks
<1>6. \/ f = AckFrame(job[L], OK)
      \/ /\ f = AckFrame(job[L], INTERRUPTED)
         /\ Tail(frames[W]) = <<>> /\ job[W] = None /\ job[L].op = "SYNC"
  <2>1. \/ Head1(L).do = "half"
        \/ f = AckFrame(job[L], OK)
        \/ /\ f = AckFrame(job[L], INTERRUPTED)
           /\ Tail(frames[W]) = <<>> /\ job[W] = None /\ job[L].op = "SYNC"
    BY <1>3, <1>4, FirstAnswer
  <2>2. QED
    BY <1>1, <2>1
<1> HIDE DEF f
<1>7. mine
  BY <1>6 DEF AckFrame
<1>8. CASE f = AckFrame(job[L], OK)
  <2>1. f.status = OK
    BY <1>8 DEF AckFrame
  <2>2. /\ todo' = [todo EXCEPT ![L] = Tail(todo[L])] /\ sent' = [sent EXCEPT ![L] = FALSE]
        /\ frames' = [frames EXCEPT ![W] = Tail(frames[W])]
        /\ sess' = sess /\ job' = job /\ failed' = failed
    BY <1>1, <1>4, <1>7, <2>1 DEF Advance, Goto
  <2>3. Head(frames[W]) # AckFrame(job[L], INTERRUPTED)
    BY <1>4, <1>8 DEF AckFrame, OK, INTERRUPTED
  <2>4. Replied("none", c)'
    BY <1>1, <1>3, <1>4, <1>5, <2>2, <2>3, AnswerTaken
  <2>5. InStep'
    BY <2>4 DEF InStep, Pres
  <2>6. TakesAnswer
    BY <1>5, <2>2 DEF TakesAnswer
  <2>7. DOMAIN frames' = Rank /\ DOMAIN failed' = Rank /\ \A r \in Rank : failed'[r] = FALSE
    BY <1>2, <2>2
  <2>8. QED
    BY <1>1, <2>5, <2>6, <2>7
<1>9. CASE /\ f = AckFrame(job[L], INTERRUPTED)
           /\ Tail(frames[W]) = <<>> /\ job[W] = None /\ job[L].op = "SYNC"
  <2>1. f.status # OK
    BY <1>9 DEF AckFrame, OK, INTERRUPTED
  <2>2. /\ failed' = [failed EXCEPT ![L] = FALSE] /\ GiveUp(Consumed(L), failed'[L])
    BY <1>1, <1>2, <1>7, <2>1, Ranks
  <2>3. failed'[L] = FALSE /\ DOMAIN failed' = Rank /\ \A r \in Rank : failed'[r] = FALSE
    BY <1>2, <2>2, Ranks
  <2>4. GiveUp(Consumed(L), FALSE)
    BY <2>2, <2>3
  <2>5. frames[L] = <<>>
    BY <1>3, RepliedFacts
  <2>6. /\ DOMAIN Consumed(L) = Rank /\ Consumed(L)[L] = <<>> /\ Consumed(L)[W] = <<>>
    BY <1>2, <1>4, <1>9, <2>5, Ranks
  <2>7. PICK s \in Sessions :
          /\ s \in ToSet(job[L].ss) /\ Forgets(s)
          /\ frames' = [Consumed(L) EXCEPT ![L] = <<Invalidation(s)>>]
    <3>1. PICK fr, down : fr = Consumed(L) /\ down = FALSE
      OBVIOUS
    <3>2. job[L].op # "BATCH"
      BY <1>9
    <3>3. DOMAIN fr = Rank /\ fr[L] = <<>> /\ GiveUp(fr, down)
      BY <2>4, <2>6, <3>1
    <3>4. \E y \in Sessions :
            /\ y \in ToSet(job[L].ss) /\ Forgets(y)
            /\ frames' = [fr EXCEPT ![L] = <<Invalidation(y)>>]
      BY <1>1, <3>1, <3>2, <3>3, GivesUp
    <3>5. QED
      BY <3>1, <3>4
  <2>8. frames'[W] = <<>> /\ frames'[L] = <<Invalidation(s)>> /\ DOMAIN frames' = Rank
    BY <2>6, <2>7, Ranks
  <2>9. Announcing'
    BY <1>1, <1>3, <1>9, <2>7, <2>8, Home DEF Forgets, Returns
  <2>10. InStep'
    BY <2>9 DEF InStep
  <2>11. QED
    BY <1>1, <1>9, <2>3, <2>7, <2>8, <2>10
<1>10. QED
  BY <1>6, <1>8, <1>9

LEMMA LeaderHalfReads ==
  ASSUME LocallySound, InStep, LeaderHalf, Delivered(L)
  PROVE  /\ InStep'
         /\ UNCHANGED <<gateDead, torn, env, sync, gates, gateSeq, alive, stopped, failed>>
         /\ DOMAIN frames' = Rank
         /\ job[L] # None /\ Head1(L).do = "half"
         /\ logits' = [logits EXCEPT ![Head1(L).s] =
                         <<logits[Head1(L).s][1], Of(Head1(L).s, sess[L][Head1(L).s])>>]
         /\ \/ TakesAnswer
            \/ Returns /\ sess' = sess /\ Len(todo[L]) = 1
            \/ \E s \in Sessions : s \in ToSet(job[L].ss) /\ job[L].op = "SYNC" /\ Forgets(s)
<1> DEFINE f == Next1(L)
           s == Head1(L).s
<1>1. /\ job[L] # None /\ Head1(L).do = "half" /\ ~sent[L] /\ Arrived(L)
      /\ UNCHANGED <<gateDead, env, sync, gates, gateSeq, alive, stopped, failed>>
  BY DEF LeaderHalf, Doing, At, link, setting
<1>2. /\ DOMAIN frames = Rank /\ DOMAIN todo = Rank /\ failed[L] = FALSE
  BY Ranks DEF LocallySound
<1>3. PICK c \in BOOLEAN : Replied("none", c)
  BY <1>1, AnswerArrives
<1>4. frames[W] # <<>> /\ f = Head(frames[W])
      /\ Consumed(L) = [frames EXCEPT ![W] = Tail(frames[W])]
  BY <1>1, AnswerArrives
<1>5. Len(todo[L]) \in Nat /\ Len(todo[L]) > 0
  BY <1>1, HeadFacts, Ranks
<1>6. f = HalfFrame(s) /\ (Len(todo[L]) = 1 => Tail(frames[W]) = <<>> /\ job[W] = None)
  <2>1. \/ Head1(L).do = "half" /\ f = HalfFrame(s)
        \/ Head1(L).do = "ack"
    BY <1>3, <1>4, FirstAnswer
  <2>2. Len(todo[L]) = 1 => Tail(frames[W]) = <<>> /\ job[W] = None
    BY <1>3, <1>4, FirstAnswer
  <2>3. QED
    BY <1>1, <2>1, <2>2
<1>7. sess[W] = sess[L] /\ frames[L] = <<>>
  <2>1. frames[L] = <<>>
    BY <1>3, RepliedFacts
  <2>2. QED
    BY <1>3, <2>1 DEF Replied, Linked, SessionsOf
<1> HIDE DEF f
<1>8. f.kind = "HALF" /\ f.of = Of(s, sess[L][s])
  BY <1>6, <1>7 DEF HalfFrame
<1>9. /\ logits' = [logits EXCEPT ![s] = <<logits[s][1], Of(s, sess[L][s])>>]
      /\ torn' = torn
      /\ IF Len(todo[L]) = 1
         THEN IF job[L].op = "SYNC" /\ sync[L].rc # OK
              THEN GiveUp(Consumed(L), failed[L])
              ELSE Return(L) /\ frames' = Consumed(L) /\ UNCHANGED sess
         ELSE Advance(L) /\ frames' = Consumed(L) /\ UNCHANGED <<sess, job>>
  BY <1>8 DEF LeaderHalf, f
<1>10. CASE Len(todo[L]) # 1
  <2>1. /\ todo' = [todo EXCEPT ![L] = Tail(todo[L])] /\ sent' = [sent EXCEPT ![L] = FALSE]
        /\ frames' = [frames EXCEPT ![W] = Tail(frames[W])]
        /\ sess' = sess /\ job' = job
    BY <1>4, <1>9, <1>10 DEF Advance, Goto
  <2>2. Head(frames[W]) # AckFrame(job[L], INTERRUPTED)
    BY <1>4, <1>6 DEF AckFrame, HalfFrame
  <2>3. Len(todo[L]) > 1
    <3>1. \A m \in Nat : m > 0 /\ m # 1 => m > 1
      OBVIOUS
    <3>2. QED
      BY <1>5, <1>10, <3>1
  <2>4. Replied("none", c)'
    BY <1>1, <1>3, <1>4, <2>1, <2>2, <2>3, AnswerTaken
  <2>5. InStep'
    BY <2>4 DEF InStep, Pres
  <2>6. TakesAnswer
    BY <2>1, <2>3 DEF TakesAnswer
  <2>7. DOMAIN frames' = Rank
    BY <1>2, <2>1
  <2>8. QED
    BY <1>1, <1>9, <2>5, <2>6, <2>7
<1>11. CASE Len(todo[L]) = 1 /\ ~(job[L].op = "SYNC" /\ sync[L].rc # OK)
  <2>1. /\ job' = [job EXCEPT ![L] = None] /\ todo' = [todo EXCEPT ![L] = <<>>]
        /\ sent' = [sent EXCEPT ![L] = FALSE] /\ sess' = sess
        /\ frames' = [frames EXCEPT ![W] = Tail(frames[W])]
    BY <1>4, <1>9, <1>11 DEF Return, Goto
  <2>2. frames'[W] = <<>> /\ frames'[L] = <<>> /\ DOMAIN frames' = Rank
    BY <1>2, <1>6, <1>7, <1>11, <2>1, Ranks
  <2>3. Announcing'
    BY <1>1, <1>3, <1>6, <1>11, <2>1, <2>2, Home
  <2>4. InStep' /\ Returns
    BY <2>1, <2>3 DEF InStep, Returns
  <2>5. QED
    BY <1>1, <1>9, <1>11, <2>1, <2>2, <2>4
<1>12. CASE Len(todo[L]) = 1 /\ job[L].op = "SYNC" /\ sync[L].rc # OK
  <2>1. GiveUp(Consumed(L), FALSE)
    BY <1>2, <1>9, <1>12
  <2>2. /\ DOMAIN Consumed(L) = Rank /\ Consumed(L)[L] = <<>> /\ Consumed(L)[W] = <<>>
    BY <1>2, <1>4, <1>6, <1>7, <1>12, Ranks
  <2>3. PICK z \in Sessions :
          /\ z \in ToSet(job[L].ss) /\ Forgets(z)
          /\ frames' = [Consumed(L) EXCEPT ![L] = <<Invalidation(z)>>]
    <3>1. PICK fr, down : fr = Consumed(L) /\ down = FALSE
      OBVIOUS
    <3>2. job[L].op # "BATCH"
      BY <1>12
    <3>3. DOMAIN fr = Rank /\ fr[L] = <<>> /\ GiveUp(fr, down)
      BY <2>1, <2>2, <3>1
    <3>4. \E y \in Sessions :
            /\ y \in ToSet(job[L].ss) /\ Forgets(y)
            /\ frames' = [fr EXCEPT ![L] = <<Invalidation(y)>>]
      BY <1>1, <3>1, <3>2, <3>3, GivesUp
    <3>5. QED
      BY <3>1, <3>4
  <2>4. frames'[W] = <<>> /\ frames'[L] = <<Invalidation(z)>> /\ DOMAIN frames' = Rank
    BY <2>2, <2>3, Ranks
  <2>5. Announcing'
    BY <1>1, <1>3, <1>6, <1>12, <2>3, <2>4, Home DEF Forgets, Returns
  <2>6. InStep'
    BY <2>5 DEF InStep
  <2>7. QED
    BY <1>1, <1>9, <1>12, <2>3, <2>4, <2>6
<1>13. QED
  BY <1>10, <1>11, <1>12


-----------------------------------------------------------------------------
(* Speculative blocks.                                                     *)

LEMMA ReplayShape ==
  ASSUME env \in Settings, NEW c, c \in Commands, c.op = "VERIFY", NEW k, k.toks \in Seq(Token),
         NEW n \in 1..2
  PROVE  LET q == ReplaySteps(c.ss[1], k, c.toks, n) IN
         /\ Shape(q, c) /\ Len(q) = n + 1 /\ q[1].do = "gate"
         /\ \A i \in 1..Len(q) : q[i].do = "gate" => q[i].head = TRUE
         /\ q[1] = Gate(c.ss[1], k.toks \o SubSeq(c.toks, 1, 1))
         /\ q[n + 1] = Half(c.ss[1])
<1> DEFINE s == c.ss[1]
           g(i) == Gate(s, k.toks \o SubSeq(c.toks, 1, i))
           p == [i \in 1..n |-> g(i)]
           q == Append(p, Half(s))
<1>1. s \in Sessions /\ s \in ToSet(c.ss) /\ c.toks \in Seq(Token) /\ Len(c.toks) = 2
  BY CommandFacts
<1>2. \A i \in 1..n : k.toks \o SubSeq(c.toks, 1, i) \in Seq(Token)
  <2>1. ASSUME NEW i \in 1..n PROVE k.toks \o SubSeq(c.toks, 1, i) \in Seq(Token)
    <3>1. \A j \in 1..i : c.toks[j] \in Token
      <4>1. \A j \in 1..i : j \in 1..Len(c.toks)
        BY <1>1
      <4>2. QED
        BY <1>1, <4>1, ElementOfSeq
    <3>2. SubSeq(c.toks, 1, i) \in Seq(Token)
      <4>1. i \in 1..Len(c.toks)
        BY <1>1
      <4>2. QED
        BY <1>1, <3>1, <4>1, SubSeqProperties
    <3>3. QED
      BY <3>2, ConcatProperties
  <2>2. QED
    BY <2>1
<1>3. ReplaySteps(s, k, c.toks, n) = q
  BY DEF ReplaySteps
<1>4. IsList(p) /\ Len(p) = n
  <2>1. p = [i \in 1..n |-> p[i]]
    OBVIOUS
  <2> HIDE DEF p
  <2>2. QED
    BY <2>1, ListOfFunction
<1>5. \A i \in 1..n : p[i] = g(i)
  OBVIOUS
<1>6. \A i \in 1..n : g(i).do = "gate" /\ g(i).s = s /\ g(i).toks \in Seq(Token) /\ g(i).head = TRUE
  BY <1>2 DEF Gate
<1>7. Half(s).do = "half" /\ Half(s).s = s
  BY DEF Half
<1>8. g(1) = Gate(s, k.toks \o SubSeq(c.toks, 1, 1))
  OBVIOUS
<1> HIDE DEF p, g, s
<1>9. /\ IsList(q) /\ Len(q) = n + 1 /\ q[n + 1] = Half(s) /\ \A i \in 1..n : q[i] = g(i)
  <2>1. /\ IsList(q) /\ Len(q) = Len(p) + 1 /\ q[Len(p) + 1] = Half(s)
        /\ \A i \in 1..Len(p) : q[i] = p[i]
    BY <1>4, ListFacts
  <2>2. QED
    BY <1>4, <1>5, <2>1
<1> HIDE DEF q
<1>10. q # <<>>
  BY <1>9, ListFacts
<1>11. 1 \in 1..n /\ n + 1 \in 1..n + 1 /\ \A i \in 1..n + 1 : i \in 1..n \/ i = n + 1
  OBVIOUS
<1>12. ASSUME NEW i \in 1..n + 1
       PROVE  /\ q[i].do \in {"gate", "half"}
              /\ q[i].do = "half" => i = n + 1 /\ q[i].s = s
              /\ q[i].do = "gate" => q[i].s = s /\ q[i].toks \in Seq(Token) /\ q[i].head = TRUE
  BY <1>6, <1>7, <1>9, <1>11
<1>13. Shape(q, c)
  <2>1. \A i \in 1..n + 1 : \A j \in i..n + 1 : i = n + 1 => j = n + 1
    OBVIOUS
  <2>2. \A i \in 1..n + 1 : q[i].do \in {"ack", "half"} =>
          \A j \in i..n + 1 : q[j].do \in {"ack", "half"}
    BY <1>7, <1>9, <1>12, <2>1
  <2>3. \A i \in 1..n + 1 : q[i].do = "gate" => \E j \in 1..n + 1 : q[j] = Half(q[i].s)
    BY <1>9, <1>11, <1>12
  <2>4. q[n + 1].do = "half"
    BY <1>7, <1>9
  <2>5. s \in Sessions /\ s \in ToSet(c.ss)
    BY <1>1 DEF s
  <2>6. QED
    BY <1>9, <1>10, <1>12, <2>2, <2>3, <2>4, <2>5 DEF Shape
<1>14. q[1].do = "gate" /\ q[1] = g(1)
  BY <1>6, <1>9, <1>11
<1>15. QED
  BY <1>3, <1>8, <1>9, <1>12, <1>13, <1>14 DEF s

\* A leader that is at a commit, and the worker in the same block.
LEMMA CommitDue ==
  ASSUME LocallySound, InStep, job[L] # None, Head1(L).do = "commit", ~sent[L]
  PROVE  \E pre \in {"none", "gate"} :
           /\ Block(pre) /\ job[W] = job[L] /\ CommitStep(pre) = Head1(L)
           /\ sess[L] = SessionsOf(W, pre) /\ alive
           /\ frames[L] = <<>> /\ frames[W] = <<>> /\ gates[W] = <<>>
<1>1. /\ Shape(todo[L], job[L]) /\ job[L].op = "VERIFY" /\ job[L] \in Commands
      /\ env \in Settings
  BY HeadFacts, Ranks
<1>2. ~Waits(L, "vote") /\ ~Waits(L, "gate") /\ VoteOut(L) = <<>> /\ GateOut(L) = <<>>
  BY DEF Waits, VoteOut, GateOut
<1>3. ASSUME NEW b \in Rank, NEW pre \in Pres, NEW c \in BOOLEAN,
             Together(b, pre, c, Peer(b))
      PROVE  \E x \in {"none", "gate"} :
               /\ Block(x) /\ job[W] = job[L] /\ CommitStep(x) = Head1(L)
               /\ sess[L] = SessionsOf(W, x) /\ alive
               /\ frames[L] = <<>> /\ frames[W] = <<>> /\ gates[W] = <<>>
  <2>1. CASE pre = "none"
    <3>1. Together(W, "none", c, L)
      BY <1>3, <2>1, Mirror, Ranks
    <3>2. /\ job[W] = job[L] /\ todo[L] = todo[W] /\ alive
          /\ frames[W] = VoteOut(W) /\ gates[W] = GateOut(W) /\ frames[L] = VoteOut(L)
          /\ gates[L] = GatesTo(W, "none", L) /\ sess[L] = SessionsOf(W, "none")
          /\ Passed(L) = Passed(W)
      BY <3>1 DEF Together, Linked, Onward, VotesTo
    <3>3. Head1(W) = Head1(L)
      BY <3>2 DEF Head1
    <3>4. /\ ~Waits(W, "vote") /\ ~Waits(W, "gate") /\ VoteOut(W) = <<>> /\ GateOut(W) = <<>>
          /\ Passed(W) = gateSeq[W]
      BY <3>3 DEF Waits, At, VoteOut, GateOut, Passed
    <3>5. ~sent[W]
      <4>1. sent[W] => At(W, "gate") \/ At(W, "vote")
        BY Ranks DEF LocallySound
      <4>2. QED
        BY <3>3, <4>1 DEF At
    <3>6. CommitStep("none") = Head1(L)
      BY <3>3 DEF CommitStep
    <3>7. Block("none")
      BY <3>2, <3>4, <3>5, <3>6 DEF Block
    <3>8. QED
      BY <1>2, <3>2, <3>4, <3>6, <3>7
  <2>2. CASE pre # "none"
    <3>1. Waits(b, pre) /\ pre \in {"gate", "vote"}
      BY <1>3, <2>2 DEF Together, Linked, Pres
    <3>2. b = W
      BY <1>2, <3>1, Ranks
    <3>3. /\ job[W] = job[L] /\ job[W] # None
      BY <1>3, <3>2, Ranks DEF Together, Linked
    <3>4. pre = "gate"
      <4>1. Waits(W, "vote") => job[W].op = "SYNC"
        BY <3>3, HeadFacts, Ranks DEF Waits, At
      <4>2. QED
        BY <1>1, <3>1, <3>2, <3>3, <4>1
    <3>5. Together(W, "gate", c, L)
      BY <1>3, <3>2, <3>4, Ranks
    <3>6. /\ todo[L] = Tail(todo[W]) /\ alive /\ frames[W] = <<>> /\ gates[W] = <<>>
          /\ frames[L] = VoteOut(L) /\ gates[L] = GatesTo(W, "gate", L)
          /\ sess[L] = SessionsOf(W, "gate") /\ Passed(L) = gateSeq[W]
      BY <3>5 DEF Together, Linked, Onward, VotesTo
    <3>7. todo[W][2] = Head1(L)
      <4>1. IsList(todo[W]) /\ Len(todo[W]) > 1 /\ Len(todo[W]) \in Nat /\ todo[W] # <<>>
        BY <3>1, <3>2, <3>3, <3>4, HeadFacts, Ranks DEF Waits, At
      <4>2. \A i \in 1..Len(todo[W]) - 1 : Tail(todo[W])[i] = todo[W][i + 1]
        BY <4>1, ListFacts
      <4>3. 1 \in 1..Len(todo[W]) - 1 /\ 1 + 1 = 2
        BY <4>1
      <4>4. Tail(todo[W])[1] = todo[W][2]
        BY <4>2, <4>3
      <4>5. Head1(L) = todo[L][1]
        BY HeadFacts, Ranks
      <4>6. QED
        BY <3>6, <4>4, <4>5
    <3>8. CommitStep("gate") = Head1(L)
      BY <3>7 DEF CommitStep
    <3>9. Block("gate")
      BY <3>1, <3>2, <3>3, <3>4, <3>6, <3>8 DEF Block
    <3>10. QED
      BY <1>2, <3>3, <3>6, <3>8, <3>9
  <2>3. QED
    BY <2>1, <2>2
<1>4. ASSUME NEW pre \in Pres, NEW c, Replied(pre, c) PROVE FALSE
  <2>1. pre = "none"
    BY <1>2, <1>4 DEF Replied, Linked, Pres
  <2>2. QED
    BY <1>4, <2>1, RepliedHead
<1>5. ASSUME NEW n, Ahead0(n) PROVE FALSE
  <2>1. todo[L] = <<BlockGate(job[L].ss[1], sess[L][job[L].ss[1]].toks \o job[L].toks),
                    Commit(sess[L][job[L].ss[1]])>>
    BY <1>1, <1>5 DEF Ahead0, Steps
  <2>2. Head1(L) = BlockGate(job[L].ss[1], sess[L][job[L].ss[1]].toks \o job[L].toks)
    BY <2>1, Tuples DEF Head1
  <2>3. PICK x, y : x = job[L].ss[1] /\ y = sess[L][job[L].ss[1]].toks \o job[L].toks
    OBVIOUS
  <2>4. BlockGate(x, y).do = "gate"
    BY DEF BlockGate
  <2>5. Head1(L).do = "gate"
    BY <2>2, <2>3, <2>4
  <2>6. QED
    BY <2>5
<1>6. ASSUME NEW pre, NEW n \in 1..2, Replaying(pre, n) PROVE FALSE
  <2>1. /\ job[L] = job[W] /\ Block(pre)
        /\ todo[L] = ReplaySteps(job[W].ss[1], CommitStep(pre).kept, job[L].toks, n)
    BY <1>6 DEF Replaying
  <2>2. CommitStep(pre).kept.toks \in Seq(Token)
    BY <2>1, BlockIsVerify
  <2>3. todo[L][1].do = "gate"
    <3>1. PICK c, k : c = job[L] /\ k = CommitStep(pre).kept
      OBVIOUS
    <3>2. env \in Settings /\ c \in Commands /\ c.op = "VERIFY" /\ k.toks \in Seq(Token)
      BY <1>1, <2>2, <3>1
    <3>3. todo[L] = ReplaySteps(c.ss[1], k, c.toks, n)
      BY <2>1, <3>1
    <3>4. ReplaySteps(c.ss[1], k, c.toks, n)[1].do = "gate"
      BY <3>2, ReplayShape
    <3>5. QED
      BY <3>3, <3>4
  <2>4. Head1(L) = todo[L][1]
    BY HeadFacts, Ranks
  <2>5. QED
    BY <2>3, <2>4
<1>7. QED
  BY <1>3, <1>4, <1>5, <1>6 DEF InStep, Announcing, Keeping, Over


\* What a rank does of itself at a commit.
Keeps(r, n) ==
  /\ job' = [job EXCEPT ![r] = None] /\ todo' = [todo EXCEPT ![r] = <<>>]
  /\ sent' = [sent EXCEPT ![r] = FALSE]
  /\ sess' = WithSession(r, job[r].ss[1], KeptOf(r, job[r].ss[1], Head1(r).kept, n))
Replays(r, n) ==
  /\ job' = job /\ sent' = [sent EXCEPT ![r] = FALSE]
  /\ todo' = [todo EXCEPT ![r] = ReplaySteps(job[r].ss[1], Head1(r).kept, job[r].toks, n)]
  /\ sess' = WithSession(r, job[r].ss[1], Head1(r).kept)

LEMMA LeaderKeeps ==
  ASSUME LocallySound, InStep, job[L] # None, Head1(L).do = "commit", ~sent[L],
         NEW n \in 1..2, Keeps(L, n), gates' = gates, gateSeq' = gateSeq, alive' = alive,
         stopped' = stopped, sync' = sync,
         frames' = [frames EXCEPT ![L] = Append(frames[L], [kind |-> "COMMIT", mode |-> "KEEP", n |-> n])]
  PROVE  InStep'
<1> DEFINE f == [kind |-> "COMMIT", mode |-> "KEEP", n |-> n]
           s == job[L].ss[1]
<1>1. PICK pre \in {"none", "gate"} :
           /\ Block(pre) /\ job[W] = job[L] /\ CommitStep(pre) = Head1(L)
           /\ sess[L] = SessionsOf(W, pre) /\ alive
           /\ frames[L] = <<>> /\ frames[W] = <<>> /\ gates[W] = <<>>
  BY CommitDue
<1>2. /\ DOMAIN job = Rank /\ DOMAIN todo = Rank /\ DOMAIN sent = Rank /\ DOMAIN sess = Rank
      /\ DOMAIN frames = Rank /\ DOMAIN sess[L] = Sessions
      /\ sess[L] = [z \in Sessions |-> sess[L][z]]
      /\ (stopped => job[L] = None)
  BY Ranks DEF LocallySound
<1>3. s \in Sessions
  BY HeadFacts, CommandFacts, Ranks
<1>4. /\ job'[L] = None /\ job'[W] = job[W] /\ todo'[L] = <<>> /\ todo'[W] = todo[W]
      /\ sent'[L] = FALSE /\ sent'[W] = sent[W] /\ sess'[W] = sess[W]
      /\ sess'[L] = [sess[L] EXCEPT ![s] = KeptOf(L, s, Head1(L).kept, n)]
  BY <1>2, Ranks DEF Keeps, WithSession
<1>5. Stands(W)
  BY <1>4 DEF Stands
<1>6. frames'[W] = <<>> /\ frames'[L] = <<f>>
  <2>1. Append(<<>>, f) = <<f>>
    BY Tuples
  <2>2. QED
    BY <1>1, <1>2, <2>1, Ranks
<1>7. Announced' = <<>>
  BY <1>1, <1>2, <1>4 DEF Announced
<1>8. Queue(frames'[L], Announced', 1) /\ Erased(frames'[L]) = {} /\ frames'[L][1] = f
  <2>1. IsList(<<f>>) /\ Len(<<f>>) = 1 /\ <<f>>[1] = f /\ Len(<<>>) = 0
    BY Tuples
  <2>2. \A z : f # Invalidation(z)
    BY DEF Invalidation
  <2> HIDE DEF f
  <2>3. Queue(<<f>>, <<>>, 1)
    <3>1. \A i \in (1 + 1)..1 : FALSE
      OBVIOUS
    <3>2. \A i \in 1..0 : FALSE
      OBVIOUS
    <3>3. QED
      BY <2>1, <3>1, <3>2 DEF Queue
  <2>4. Erased(<<f>>) = {}
    BY <2>1, <2>2 DEF Erased
  <2>5. QED
    BY <1>6, <1>7, <2>1, <2>3, <2>4
<1>9. Ahead0(1)'
  BY <1>1, <1>4, <1>6, <1>8, QueueIs DEF Ahead0
<1>10. ~Waits(L, "gate") /\ ~Waits(L, "gate")' /\ GateOut(L) = <<>> /\ GateOut(L)' = <<>>
       /\ Passed(L) = gateSeq[L] /\ Passed(L)' = gateSeq[L]
  <2>1. ~Waits(L, "gate") /\ ~Waits(L, "gate")'
    BY <1>4 DEF Waits
  <2>2. QED
    BY <2>1 DEF GateOut, Passed
<1>11. /\ CommitStep(pre)' = CommitStep(pre) /\ GateFrame(W)' = GateFrame(W)
       /\ (Waits(W, "gate")' <=> Waits(W, "gate"))
       /\ SessionsOf(W, pre)' = SessionsOf(W, pre)
  BY <1>5, BlockStands, Unmoved, Ranks
<1>12. GatesTo(W, pre, L)' = GatesTo(W, pre, L)
  BY <1>10, <1>11 DEF GatesTo
<1>13. Block(pre)'
  BY <1>1, <1>4, <1>10, <1>11, <1>12 DEF Block
<1>14. KeptSessions(SessionsOf(W, pre), CommitStep(pre).kept, n)' = sess'[L]
  <2>1. KeptSessions(SessionsOf(W, pre), CommitStep(pre).kept, n)'
          = [sess[L] EXCEPT ![s] =
               [toks |-> Head1(L).kept.toks \o SubSeq(job[L].toks, 1, n),
                valid |-> sess[L][s].valid, pure |-> sess[L][s].pure]]
    BY <1>1, <1>4, <1>11 DEF KeptSessions
  <2>2. QED
    BY <1>4, <2>1 DEF KeptOf
<1>15. Wiped(KeptSessions(SessionsOf(W, pre), CommitStep(pre).kept, n))' = sess'[L]
  <2>1. Wiped(KeptSessions(SessionsOf(W, pre), CommitStep(pre).kept, n))' = Wipe(frames'[L], sess'[L])
    BY <1>14 DEF Wiped, Wipe, Unheard, Erased, Invalidation, Fresh
  <2>2. sess'[L] = [z \in Sessions |-> sess'[L][z]]
    BY <1>2, <1>4
  <2>3. QED
    BY <1>8, <2>1, <2>2 DEF Wipe
<1>16. Keeping(pre, n)'
  BY <1>8, <1>9, <1>13, <1>15 DEF Keeping
<1>17. pre \in Pres
  BY DEF Pres
<1>18. QED
  BY <1>16, <1>17 DEF InStep

LEMMA LeaderReplays ==
  ASSUME LocallySound, InStep, job[L] # None, Head1(L).do = "commit", ~sent[L],
         NEW n \in 1..2, Replays(L, n), gates' = gates, gateSeq' = gateSeq, alive' = alive,
         stopped' = stopped, sync' = sync,
         frames' = [frames EXCEPT ![L] = Append(frames[L], [kind |-> "COMMIT", mode |-> "REPLAY", n |-> n])]
  PROVE  InStep'
<1> DEFINE f == [kind |-> "COMMIT", mode |-> "REPLAY", n |-> n]
           s == job[L].ss[1]
<1>1. PICK pre \in {"none", "gate"} :
           /\ Block(pre) /\ job[W] = job[L] /\ CommitStep(pre) = Head1(L)
           /\ sess[L] = SessionsOf(W, pre) /\ alive
           /\ frames[L] = <<>> /\ frames[W] = <<>> /\ gates[W] = <<>>
  BY CommitDue
<1>2. /\ DOMAIN job = Rank /\ DOMAIN todo = Rank /\ DOMAIN sent = Rank /\ DOMAIN sess = Rank
      /\ DOMAIN frames = Rank
  BY DEF LocallySound
<1>3. /\ job' = job /\ todo'[L] = ReplaySteps(s, Head1(L).kept, job[L].toks, n) /\ todo'[W] = todo[W]
      /\ sent'[L] = FALSE /\ sent'[W] = sent[W] /\ sess'[W] = sess[W]
      /\ sess'[L] = [sess[L] EXCEPT ![s] = Head1(L).kept]
  BY <1>2, Ranks DEF Replays, WithSession
<1>4. Stands(W)
  BY <1>3 DEF Stands
<1>5. frames'[W] = <<>> /\ frames'[L] = <<f>>
  <2>1. Append(<<>>, f) = <<f>>
    BY Tuples
  <2>2. QED
    BY <1>1, <1>2, <2>1, Ranks
<1>6. ~Waits(L, "gate") /\ ~Waits(L, "gate")' /\ GateOut(L) = <<>> /\ GateOut(L)' = <<>>
       /\ Passed(L) = gateSeq[L] /\ Passed(L)' = gateSeq[L]
  <2>1. ~Waits(L, "gate") /\ ~Waits(L, "gate")'
    BY <1>3 DEF Waits
  <2>2. QED
    BY <2>1 DEF GateOut, Passed
<1>7. /\ CommitStep(pre)' = CommitStep(pre) /\ GateFrame(W)' = GateFrame(W)
      /\ (Waits(W, "gate")' <=> Waits(W, "gate"))
      /\ SessionsOf(W, pre)' = SessionsOf(W, pre)
  BY <1>4, BlockStands, Unmoved, Ranks
<1>8. GatesTo(W, pre, L)' = GatesTo(W, pre, L)
  BY <1>6, <1>7 DEF GatesTo
<1>9. Block(pre)'
  BY <1>1, <1>3, <1>6, <1>7, <1>8 DEF Block
<1>10. ReplaySteps(job[W].ss[1], CommitStep(pre).kept, job[L].toks, n)'
         = ReplaySteps(s, Head1(L).kept, job[L].toks, n)
  BY <1>1, <1>3, <1>7 DEF ReplaySteps, Gate, Half
<1>11. Replaying(pre, n)'
  <2>1. sess'[L] = [SessionsOf(W, pre) EXCEPT ![job[W].ss[1]] = CommitStep(pre).kept]'
    BY <1>1, <1>3, <1>7
  <2>2. todo'[L] = ReplaySteps(job[W].ss[1], CommitStep(pre).kept, job[L].toks, n)'
    BY <1>3, <1>10
  <2>3. job'[L] = job'[W] /\ n > 0 /\ alive'
    BY <1>1, <1>3
  <2>4. gates'[W] = <<>>
    BY <1>1
  <2>5. QED
    BY <1>5, <1>9, <2>1, <2>2, <2>3, <2>4 DEF Replaying
<1>12. pre \in Pres
  BY DEF Pres
<1>13. QED
  BY <1>11, <1>12 DEF InStep

LEMMA LeaderCommits ==
  ASSUME LocallySound, InStep, LeaderCommit
  PROVE  /\ InStep'
         /\ UNCHANGED <<gateDead, torn, env, sync, gates, gateSeq, alive, stopped, failed>>
         /\ DOMAIN frames' = Rank
         /\ job[L] # None /\ Head1(L).do = "commit" /\ job[L].op = "VERIFY"
         /\ \E n \in 1..2 :
              LET s == job[L].ss[1]
                  x == KeptOf(L, s, Head1(L).kept, n) IN
              \/ Keeps(L, n) /\ logits' = [logits EXCEPT ![s] = <<Of(s, x), Of(s, x)>>]
              \/ Replays(L, n) /\ logits' = logits
<1> DEFINE s == job[L].ss[1]
           x(n) == KeptOf(L, s, Head1(L).kept, n)
<1>1. /\ job[L] # None /\ Head1(L).do = "commit" /\ ~sent[L]
      /\ UNCHANGED <<gateDead, torn, env, sync, gates, gateSeq, alive, stopped, failed>>
  BY DEF LeaderCommit, Doing, At, link, setting
<1>2. job[L].op = "VERIFY" /\ Len(job[L].toks) = 2 /\ s \in Sessions
  BY <1>1, HeadFacts, CommandFacts, Ranks
<1>3. env.faults = {} /\ DOMAIN sess = Rank /\ DOMAIN sess[L] = Sessions /\ DOMAIN frames = Rank
  BY Ranks DEF LocallySound, FailStop
<1>4. PICK mode \in {"KEEP", "REPLAY"}, n \in 1..2 :
        /\ Send(L, [kind |-> "COMMIT", mode |-> mode, n |-> n])
        /\ IF mode = "KEEP" THEN Keep(L, n) ELSE Replay(L, n)
        /\ logits' = IF mode = "KEEP"
                     THEN [logits EXCEPT ![s] = <<Of(s, sess'[L][s]), Of(s, sess'[L][s])>>]
                     ELSE logits
  BY <1>2, <1>3 DEF LeaderCommit
<1>5. frames' = [frames EXCEPT ![L] = Append(frames[L], [kind |-> "COMMIT", mode |-> mode, n |-> n])]
      /\ DOMAIN frames' = Rank
  BY <1>3, <1>4 DEF Send
<1>6. CASE mode = "KEEP"
  <2>1. Keeps(L, n)
    BY <1>4, <1>6 DEF Keep, Keeps, Return, Goto
  <2>2. sess'[L][s] = x(n)
    BY <1>2, <1>3, <2>1, Ranks DEF Keeps, WithSession
  <2>3. logits' = [logits EXCEPT ![s] = <<Of(s, x(n)), Of(s, x(n))>>]
    BY <1>4, <1>6, <2>2
  <2>4. InStep'
    BY <1>1, <1>5, <1>6, <2>1, LeaderKeeps
  <2>5. QED
    BY <1>1, <1>2, <1>5, <2>1, <2>3, <2>4
<1>7. CASE mode = "REPLAY"
  <2>1. Replays(L, n)
    BY <1>4, <1>7 DEF Replay, Replays, Goto, ReplaySteps
  <2>2. logits' = logits
    BY <1>4, <1>7
  <2>3. InStep'
    BY <1>1, <1>5, <1>7, <2>1, LeaderReplays
  <2>4. QED
    BY <1>1, <1>2, <1>5, <2>1, <2>2, <2>3
<1>8. QED
  BY <1>6, <1>7

\* The worker takes the commit of a block it has come to.
LEMMA CommitHeard ==
  ASSUME LocallySound, InStep, job[W] # None, Head1(W).do = "commit", ~sent[W], Arrived(W)
  PROVE  \E n \in 1..2 : Keeping("none", n) \/ Replaying("none", n)
<1>1. ~Waits(W, "vote") /\ ~Waits(W, "gate")
  BY DEF Waits
<1>2. frames[L] = <<>> => stopped
  BY Ranks DEF Arrived, Next1, Frame
<1>3. stopped => job[L] = None
  BY DEF LocallySound
<1>4. ASSUME NEW b \in Rank, NEW pre \in Pres, NEW c \in BOOLEAN,
             Together(b, pre, c, Peer(b))
      PROVE  FALSE
  <2>1. CASE pre = "none"
    <3>1. Together(L, "none", c, W)
      BY <1>4, <2>1, Mirror, Ranks
    <3>2. todo[W] = todo[L] /\ frames[L] = VoteOut(L) /\ job[L] # None
      BY <3>1 DEF Together, Linked, Onward
    <3>3. Head1(L) = Head1(W)
      BY <3>2 DEF Head1
    <3>4. VoteOut(L) = <<>>
      BY <3>3 DEF VoteOut, Waits, At
    <3>5. QED
      BY <1>2, <1>3, <3>2, <3>4
  <2>2. CASE pre # "none"
    <3>1. Waits(b, pre) /\ pre \in {"gate", "vote"} /\ frames[b] = <<>> /\ job[L] # None
      BY <1>4, <2>2 DEF Together, Linked, Pres
    <3>2. b = L
      BY <1>1, <3>1, Ranks
    <3>3. QED
      BY <1>2, <1>3, <3>1, <3>2
  <2>3. QED
    BY <2>1, <2>2
<1>5. ASSUME NEW pre \in Pres, NEW c, Replied(pre, c) PROVE FALSE
  <2>1. frames[L] = <<>> /\ job[L] # None
    BY <1>5, RepliedFacts
  <2>2. QED
    BY <1>2, <1>3, <2>1
<1>6. ASSUME NEW pre, Block(pre) PROVE pre = "none"
  BY <1>1, <1>6 DEF Block
<1>7. QED
  BY <1>4, <1>5, <1>6 DEF InStep, Announcing, Keeping, Replaying, Over

LEMMA WorkerKeeps ==
  ASSUME LocallySound, NEW n \in 1..2, Keeping("none", n), Keeps(W, n),
         gates' = gates, gateSeq' = gateSeq, alive' = alive, stopped' = stopped, sync' = sync,
         frames' = [frames EXCEPT ![L] = Tail(frames[L])]
  PROVE  Announcing'
<1> DEFINE f == [kind |-> "COMMIT", mode |-> "KEEP", n |-> n]
<1>1. /\ alive /\ frames[W] = <<>> /\ gates[W] = <<>> /\ Queued(1)
      /\ (job[L] # None => todo[L] = Steps(L, job[L]))
      /\ Block("none") /\ frames[L][1] = f
      /\ sess[L] = Wiped(KeptSessions(SessionsOf(W, "none"), CommitStep("none").kept, n))
  BY DEF Keeping, Ahead0
<1>2. gates[L] = GateOut(L) /\ Passed(L) = gateSeq[W] /\ ~sent[W]
  BY <1>1 DEF Block, GatesTo
<1>3. /\ DOMAIN job = Rank /\ DOMAIN todo = Rank /\ DOMAIN sent = Rank /\ DOMAIN sess = Rank
      /\ DOMAIN frames = Rank
  BY DEF LocallySound
<1>4. /\ job'[W] = None /\ job'[L] = job[L] /\ todo'[L] = todo[L] /\ sent'[L] = sent[L]
      /\ sess'[L] = sess[L]
      /\ sess'[W] = [sess[W] EXCEPT ![job[W].ss[1]] =
                       KeptOf(W, job[W].ss[1], Head1(W).kept, n)]
  BY <1>3, Ranks DEF Keeps, WithSession
<1>5. Stands(L)
  BY <1>4 DEF Stands
<1>6. /\ GateOut(L)' = GateOut(L) /\ Passed(L)' = Passed(L) /\ Announced' = Announced
  <2>1. /\ GateOut(L)' = GateOut(L) /\ Passed(L)' = Passed(L)
        /\ (Waits(L, "vote")' <=> Waits(L, "vote")) /\ VoteFrame(L, sync[L].cancelled)' = VoteFrame(L, sync[L].cancelled)
    <3>1. PICK d : d = sync[L].cancelled
      OBVIOUS
    <3>2. VoteFrame(L, d)' = VoteFrame(L, d)
      BY <1>5, Unmoved, Ranks
    <3>3. VoteFrame(L, sync[L].cancelled)' = VoteFrame(L, d)
      BY <3>1, <3>2 DEF VoteFrame
    <3>4. QED
      BY <1>5, <3>1, <3>3, Unmoved, Ranks
  <2>2. QED
    BY <1>4, <2>1 DEF Announced, CommandFrame, StopFrame
<1>7. frames'[W] = <<>> /\ frames'[L] = Tail(frames[L])
  BY <1>1, <1>3, Ranks
<1>8. Steps(L, job[L])' = Steps(L, job[L])
  BY <1>4 DEF Steps, EvalSteps, Kept, Ahead
<1>9. IsList(Announced)
  BY Tuples DEF Announced
<1>10. Queue(Tail(frames[L]), Announced, 0) /\ Erased(Tail(frames[L])) = Erased(frames[L])
  <2>1. Queue(frames[L], Announced, 1)
    BY <1>1, QueueIs
  <2>2. PICK q, a : q = frames[L] /\ a = Announced
    OBVIOUS
  <2>3. Queue(q, a, 1) /\ IsList(a) /\ IsList(q)
    BY <1>9, <2>1, <2>2 DEF Queue
  <2>4. Len(q) > Len(a)
    <3>1. Len(q) \in Nat /\ Len(a) \in Nat /\ 1 <= Len(q) - Len(a)
      BY <2>3, ListFacts DEF Queue
    <3>2. QED
      BY <3>1
  <2>5. \A s \in Sessions : q[1] # Invalidation(s)
    BY <1>1, <2>2 DEF Invalidation
  <2>6. Queue(Tail(q), a, 0) /\ Erased(q) = Erased(Tail(q))
    <3>1. 1 \in 0..1
      OBVIOUS
    <3>2. QED
      BY <2>3, <2>4, <2>5, <3>1, QueueShrinks
  <2>7. QED
    BY <2>2, <2>6
<1>11. Queued(0)'
  BY <1>6, <1>7, <1>10, QueueIs
<1>12. Ahead0(0)'
  BY <1>1, <1>4, <1>7, <1>8, <1>11 DEF Ahead0
<1>13. sess'[W] = KeptSessions(SessionsOf(W, "none"), CommitStep("none").kept, n)
  BY <1>4 DEF KeptSessions, SessionsOf, CommitStep, KeptOf
<1>14. sess'[L] = Wiped(sess[W])'
  <2>1. sess'[L] = Wipe(frames[L], sess'[W])
    BY <1>1, <1>4, <1>13 DEF Wiped, Wipe, Unheard, Erased
  <2>2. Wiped(sess[W])' = Wipe(frames'[L], sess'[W])
    BY DEF Wiped, Wipe, Unheard, Erased, Invalidation, Fresh
  <2>3. QED
    BY <1>7, <1>10, <2>1, <2>2 DEF Wipe
<1>15. gates'[L] = GateOut(L)' /\ Passed(L)' = gateSeq'[W]
  BY <1>2, <1>6
<1>16. QED
  BY <1>4, <1>12, <1>14, <1>15 DEF Announcing

LEMMA WorkerReplays ==
  ASSUME LocallySound, NEW n \in 1..2, Replaying("none", n), Replays(W, n),
         gates' = gates, gateSeq' = gateSeq, alive' = alive, stopped' = stopped, sync' = sync,
         frames' = [frames EXCEPT ![L] = Tail(frames[L])]
  PROVE  Together(L, "none", FALSE, W)'
<1> DEFINE f == [kind |-> "COMMIT", mode |-> "REPLAY", n |-> n]
           s == job[W].ss[1]
<1>1. /\ alive /\ frames[W] = <<>> /\ gates[W] = <<>> /\ Block("none")
      /\ job[L] = job[W] /\ frames[L] = <<f>>
      /\ todo[L] = ReplaySteps(s, Head1(W).kept, job[L].toks, n)
      /\ sess[L] = [sess[W] EXCEPT ![s] = Head1(W).kept]
  BY DEF Replaying, CommitStep, SessionsOf
<1>2. /\ gates[L] = GateOut(L) /\ Passed(L) = gateSeq[W] /\ ~sent[W]
      /\ job[W] # None
  BY <1>1 DEF Block, GatesTo
<1>3. /\ DOMAIN job = Rank /\ DOMAIN todo = Rank /\ DOMAIN sent = Rank /\ DOMAIN sess = Rank
      /\ DOMAIN frames = Rank
  BY DEF LocallySound
<1>4. /\ job' = job /\ todo'[L] = todo[L] /\ sent'[L] = sent[L] /\ sess'[L] = sess[L]
      /\ todo'[W] = ReplaySteps(s, Head1(W).kept, job[W].toks, n) /\ sent'[W] = FALSE
      /\ sess'[W] = [sess[W] EXCEPT ![s] = Head1(W).kept]
  BY <1>3, Ranks DEF Replays, WithSession
<1>5. Stands(L)
  BY <1>4 DEF Stands
<1>6. GateOut(L)' = GateOut(L) /\ Passed(L)' = Passed(L) /\ VoteOut(L)' = VoteOut(L)
  BY <1>5, Unmoved, Ranks
<1>7. VoteOut(L) = <<>>
  <2>1. job[L].op = "VERIFY" /\ job[L] # None
    BY <1>1, BlockIsVerify
  <2>2. Head1(L).do # "vote"
    BY <2>1, HeadFacts, Ranks
  <2>3. QED
    BY <2>2 DEF VoteOut, Waits, At
<1>8. frames'[L] = <<>> /\ frames'[W] = <<>>
  BY <1>1, <1>3, Tuples, Ranks
<1>9. GateOut(W)' = <<>> /\ VoteOut(W)' = <<>> /\ Passed(W)' = gateSeq[W]
  BY <1>4 DEF GateOut, VoteOut, Passed, Waits
<1>10. job'[L] # None /\ job'[W] = job'[L] /\ alive'
  BY <1>1, <1>2, <1>4
<1>11. sess'[W] = sess'[L] /\ todo'[W] = todo'[L]
  BY <1>1, <1>4
<1>12. gates'[L] = GateOut(L)' /\ gates'[W] = GateOut(W)' /\ Passed(W)' = Passed(L)'
  BY <1>1, <1>2, <1>6, <1>9
<1>13. frames'[L] = VoteOut(L)' /\ frames'[W] = VoteOut(W)'
  BY <1>6, <1>7, <1>8, <1>9
<1>14. Linked(L, "none", W)'
  BY <1>10, <1>11, <1>12, <1>13 DEF Linked, SessionsOf, GatesTo
<1>15. QED
  BY <1>10, <1>11, <1>13, <1>14 DEF Together, Onward, VotesTo

LEMMA WorkerCommits ==
  ASSUME LocallySound, InStep, WorkerCommit
  PROVE  /\ InStep'
         /\ UNCHANGED <<gateDead, torn, env, sync, gates, gateSeq, alive, stopped, failed, logits>>
         /\ DOMAIN frames' = Rank
         /\ job[W] # None /\ Head1(W).do = "commit"
         /\ \E n \in 1..2 : Keeps(W, n) \/ Replays(W, n)
<1> DEFINE f == Next1(W)
<1>1. /\ job[W] # None /\ Head1(W).do = "commit" /\ ~sent[W] /\ Arrived(W)
      /\ frames' = Consumed(W)
      /\ IF f.kind = "COMMIT"
         THEN /\ IF f.mode = "KEEP" THEN Keep(W, f.n) ELSE Replay(W, f.n)
              /\ UNCHANGED alive
         ELSE WorkerExits /\ UNCHANGED sess
      /\ UNCHANGED <<gateDead, torn, env, sync, gates, gateSeq, stopped, failed, logits>>
  BY DEF WorkerCommit, Doing, At, setting
<1>2. PICK n \in 1..2 : Keeping("none", n) \/ Replaying("none", n)
  BY <1>1, CommitHeard
<1>3. frames[L] # <<>> /\ Head(frames[L]) = frames[L][1] /\ DOMAIN frames = Rank
  <2>1. IsList(frames[L]) /\ Len(frames[L]) # 0
    <3>1. CASE Keeping("none", n)
      <4>1. IsList(frames[L]) /\ 1 <= Len(frames[L]) - Len(Announced)
        BY <3>1 DEF Keeping, Ahead0, Queued
      <4>2. IsList(Announced)
        BY Tuples DEF Announced
      <4>3. Len(Announced) \in Nat /\ Len(frames[L]) \in Nat
        BY <4>1, <4>2, ListFacts
      <4>4. QED
        BY <4>1, <4>3
    <3>2. CASE Replaying("none", n)
      <4>1. PICK x : frames[L] = <<x>>
        BY <3>2 DEF Replaying
      <4>2. IsList(<<x>>) /\ Len(<<x>>) = 1
        BY Tuples
      <4>3. QED
        BY <4>1, <4>2
    <3>3. QED
      BY <1>2, <3>1, <3>2
  <2>2. QED
    BY <2>1, ListFacts DEF LocallySound
<1>4. f = frames[L][1] /\ frames' = [frames EXCEPT ![L] = Tail(frames[L])] /\ DOMAIN frames' = Rank
  BY <1>1, <1>3, Ranks DEF Next1, Consumed, Took
<1>5. CASE Keeping("none", n)
  <2>1. f = [kind |-> "COMMIT", mode |-> "KEEP", n |-> n]
    BY <1>4, <1>5 DEF Keeping
  <2>2. f.kind = "COMMIT" /\ f.mode = "KEEP" /\ f.n = n
    BY <2>1
  <2>3. Keep(W, n) /\ alive' = alive
    BY <1>1, <2>2
  <2>4. Keeps(W, n)
    BY <2>3 DEF Keep, Keeps, Return, Goto
  <2>5. Announcing'
    BY <1>1, <1>4, <1>5, <2>3, <2>4, WorkerKeeps
  <2>6. QED
    BY <1>1, <1>4, <2>3, <2>4, <2>5 DEF InStep
<1>6. CASE Replaying("none", n)
  <2>1. f = [kind |-> "COMMIT", mode |-> "REPLAY", n |-> n]
    <3>1. frames[L] = <<[kind |-> "COMMIT", mode |-> "REPLAY", n |-> n]>>
      BY <1>6 DEF Replaying
    <3>2. QED
      BY <1>4, <3>1, Tuples
  <2>2. f.kind = "COMMIT" /\ f.mode = "REPLAY" /\ f.n = n
    BY <2>1
  <2>3. Replay(W, n) /\ alive' = alive
    BY <1>1, <2>2
  <2>4. Replays(W, n)
    BY <2>3 DEF Replay, Replays, Goto, ReplaySteps
  <2>5. Together(L, "none", FALSE, W)'
    BY <1>1, <1>4, <1>6, <2>3, <2>4, WorkerReplays
  <2>6. InStep'
    BY <2>5, Ranks DEF InStep, Pres, Together, Linked
  <2>7. QED
    BY <1>1, <1>4, <2>3, <2>4, <2>6
<1>7. QED
  BY <1>2, <1>5, <1>6


-----------------------------------------------------------------------------
(* The leader announces, and the worker hears of it.                       *)

LEMMA OneMore ==
  ASSUME NEW q, NEW f, IsList(q)
  PROVE  q \o <<f>> = Append(q, f)
<1>1. IsList(<<f>>) /\ Len(<<f>>) = 1 /\ <<f>>[1] = f
  BY Tuples
<1>2. /\ IsList(q \o <<f>>) /\ Len(q \o <<f>>) = Len(q) + 1
      /\ \A i \in 1..Len(q) : (q \o <<f>>)[i] = q[i]
      /\ (q \o <<f>>)[Len(q) + 1] = f
  <2>1. /\ IsList(q \o <<f>>) /\ Len(q \o <<f>>) = Len(q) + Len(<<f>>)
        /\ \A i \in 1..Len(q) : (q \o <<f>>)[i] = q[i]
        /\ \A i \in 1..Len(<<f>>) : (q \o <<f>>)[Len(q) + i] = <<f>>[i]
    BY <1>1, ConcatLists
  <2>2. 1 \in 1..Len(<<f>>)
    BY <1>1
  <2>3. QED
    BY <1>1, <2>1, <2>2
<1>3. /\ IsList(Append(q, f)) /\ Len(Append(q, f)) = Len(q) + 1
      /\ Append(q, f)[Len(q) + 1] = f
      /\ \A i \in 1..Len(q) : Append(q, f)[i] = q[i]
  BY ListFacts
<1>4. \A i \in 1..Len(q) + 1 : i \in 1..Len(q) \/ i = Len(q) + 1
  <2>1. \A m \in Nat : \A i \in 1..m + 1 : i \in 1..m \/ i = m + 1
    OBVIOUS
  <2>2. Len(q) \in Nat
    BY ListFacts
  <2>3. QED
    BY <2>1, <2>2
<1>5. \A i \in 1..Len(q) + 1 : (q \o <<f>>)[i] = Append(q, f)[i]
  BY <1>2, <1>3, <1>4
<1>6. QED
  BY <1>2, <1>3, <1>5, ListEqual

LEMMA OneInvalidation ==
  ASSUME NEW s
  PROVE  InvalidateFrames(<<s>>) = <<Invalidation(s)>>
<1>1. InvalidateFrames(<<s>>) =
             [i \in 1..1 |-> [kind |-> "INVALIDATE", ss |-> <<(<<s>>)[i]>>, toks |-> <<>>]]
  BY DEF InvalidateFrames
<1>2. \A i \in 1..1 : i = 1 /\ (<<s>>)[i] = s
  OBVIOUS
<1>3. InvalidateFrames(<<s>>) = [i \in 1..1 |-> Invalidation(s)]
  BY <1>1, <1>2 DEF Invalidation
<1> DEFINE f == Invalidation(s)
<1> HIDE DEF f
<1>4. [i \in 1..1 |-> f] = <<f>>
  OBVIOUS
<1>5. QED
  BY <1>3, <1>4 DEF f

\* The leader, between commands, sends one frame more.
Announces(f) ==
  /\ frames' = [frames EXCEPT ![L] = Append(frames[L], f)]
  /\ Stands(W) /\ sent'[L] = FALSE
  /\ alive' = alive /\ gates' = gates /\ gateSeq' = gateSeq
  /\ \/ /\ Announced' = <<f>> /\ sess'[L] = sess[L] /\ \A s \in Sessions : f # Invalidation(s)
        /\ job'[L] # None => todo'[L] = Steps(L, job[L])'
     \/ /\ Announced' = <<>> /\ job'[L] = None
        /\ \E s \in Sessions :
             /\ f = Invalidation(s)
             /\ sess'[L] = [z \in Sessions |-> IF z = s THEN Fresh ELSE sess[L][z]]

LEMMA AheadGrows ==
  ASSUME LocallySound, job[L] = None, ~stopped, NEW f, Announces(f),
         NEW n \in 0..1, Ahead0(n)
  PROVE  /\ Ahead0(n)' /\ (n = 1 => frames'[L][1] = frames[L][1])
         /\ \A x : sess[L] = Wiped(x) => sess'[L] = Wipe(frames'[L], x)
<1>1. /\ alive /\ frames[W] = <<>> /\ gates[W] = <<>> /\ Queue(frames[L], <<>>, n)
  BY QueueIs DEF Ahead0, Announced
<1>2. frames'[L] = Append(frames[L], f) /\ frames'[W] = frames[W]
  BY Ranks DEF Announces, LocallySound
<1>3. PICK q : q = frames[L]
  OBVIOUS
<1>4. /\ n = 1 => Append(q, f)[1] = q[1]
      /\ (\E s \in Sessions : f = Invalidation(s)) => Queue(Append(q, f), <<>>, n)
      /\ Queue(Append(q, f), <<f>>, n)
      /\ \A s \in Sessions : f = Invalidation(s) => Erased(Append(q, f)) = Erased(q) \cup {s}
      /\ (\A s \in Sessions : f # Invalidation(s)) => Erased(Append(q, f)) = Erased(q)
  <2>1. Queue(q, <<>>, n)
    BY <1>1, <1>3
  <2>2. QED
    BY <2>1, QueueGrows
<1>5. CASE /\ Announced' = <<f>> /\ sess'[L] = sess[L] /\ \A s \in Sessions : f # Invalidation(s)
           /\ job'[L] # None => todo'[L] = Steps(L, job[L])'
  <2>1. Queued(n)'
    BY <1>2, <1>3, <1>4, <1>5, QueueIs
  <2>2. Ahead0(n)'
    BY <1>1, <1>2, <1>5, <2>1 DEF Ahead0, Announces
  <2>3. ASSUME NEW x, sess[L] = Wiped(x) PROVE sess'[L] = Wipe(frames'[L], x)
    <3>1. sess[L] = Wipe(q, x)
      BY <1>3, <2>3, QueueIs
    <3>2. Erased(Append(q, f)) = Erased(q)
      BY <1>4, <1>5
    <3>3. QED
      BY <1>2, <1>3, <1>5, <3>1, <3>2 DEF Wipe
  <2>4. QED
    BY <1>2, <1>3, <1>4, <2>2, <2>3
<1>6. ASSUME NEW s \in Sessions, f = Invalidation(s), Announced' = <<>>, job'[L] = None,
             sess'[L] = [z \in Sessions |-> IF z = s THEN Fresh ELSE sess[L][z]]
      PROVE  /\ Ahead0(n)' /\ (n = 1 => frames'[L][1] = frames[L][1])
             /\ \A x : sess[L] = Wiped(x) => sess'[L] = Wipe(frames'[L], x)
  <2>1. Queued(n)'
    BY <1>2, <1>3, <1>4, <1>6, QueueIs
  <2>2. Ahead0(n)'
    BY <1>1, <1>2, <1>6, <2>1 DEF Ahead0, Announces
  <2>3. ASSUME NEW x, sess[L] = Wiped(x) PROVE sess'[L] = Wipe(frames'[L], x)
    <3>1. sess[L] = Wipe(q, x)
      BY <1>3, <2>3, QueueIs
    <3>2. Erased(Append(q, f)) = Erased(q) \cup {s}
      BY <1>4, <1>6
    <3>3. QED
      BY <1>2, <1>3, <1>6, <3>1, <3>2 DEF Wipe
  <2>4. QED
    BY <1>2, <1>3, <1>4, <2>2, <2>3
<1>7. QED
  BY <1>5, <1>6 DEF Announces

LEMMA AnnouncesKeeps ==
  ASSUME LocallySound, InStep, job[L] = None, ~stopped, NEW f, Announces(f)
  PROVE  InStep'
<1>1. Stands(W) /\ gates' = gates /\ gateSeq' = gateSeq /\ sent'[L] = FALSE
  BY DEF Announces
<1>2. /\ GateOut(L) = <<>> /\ GateOut(L)' = <<>>
      /\ ~Waits(L, "gate") /\ ~Waits(L, "gate")' /\ Passed(L)' = Passed(L)
  BY <1>1 DEF GateOut, Passed, Waits, At
<1>3. CASE Announcing
  <2>1. Ahead0(0)' /\ sess'[L] = Wipe(frames'[L], sess[W])
    <3>1. 0 \in 0..1
      OBVIOUS
    <3>2. Ahead0(0) /\ sess[L] = Wiped(sess[W])
      BY <1>3 DEF Announcing
    <3>3. PICK x : x = sess[W]
      OBVIOUS
    <3>4. Ahead0(0)' /\ (sess[L] = Wiped(x) => sess'[L] = Wipe(frames'[L], x))
      BY <3>1, <3>2, AheadGrows
    <3>5. QED
      BY <3>2, <3>3, <3>4
  <2>2. sess'[L] = Wiped(sess[W])'
    <3>1. Wiped(sess[W])' = Wipe(frames'[L], sess'[W])
      BY DEF Wiped, Wipe, Unheard, Erased, Invalidation, Fresh
    <3>2. sess'[W] = sess[W]
      BY <1>1 DEF Stands
    <3>3. QED
      BY <2>1, <3>1, <3>2
  <2>3. gates'[L] = GateOut(L)' /\ Passed(L)' = gateSeq'[W] /\ job'[W] = None
    BY <1>1, <1>2, <1>3 DEF Announcing, Stands
  <2>4. Announcing'
    BY <2>1, <2>2, <2>3 DEF Announcing
  <2>5. QED
    BY <2>4 DEF InStep
<1>4. ASSUME NEW pre \in Pres, NEW n \in 1..2, Keeping(pre, n) PROVE InStep'
  <2>1. PICK x : x = BlockSessions(pre, n)
    OBVIOUS
  <2>2. /\ Ahead0(1) /\ Block(pre)
        /\ frames[L][1] = [kind |-> "COMMIT", mode |-> "KEEP", n |-> n]
        /\ sess[L] = Wiped(x)
    BY <1>4, <2>1 DEF Keeping, BlockSessions
  <2>3. Ahead0(1)' /\ frames'[L][1] = frames[L][1] /\ sess'[L] = Wipe(frames'[L], x)
    <3>1. 1 \in 0..1
      OBVIOUS
    <3>2. QED
      BY <2>2, <3>1, AheadGrows
  <2>4. CommitStep(pre)' = CommitStep(pre) /\ BlockSessions(pre, n)' = x
    BY <1>1, <2>1, BlockStands
  <2>5. /\ (Waits(W, "gate")' <=> Waits(W, "gate")) /\ GateFrame(W)' = GateFrame(W)
        /\ job'[W] = job[W] /\ sent'[W] = sent[W]
    BY <1>1, Unmoved, Ranks DEF Stands
  <2>6. GatesTo(W, pre, L)' = GatesTo(W, pre, L)
    BY <1>2, <2>5 DEF GatesTo
  <2>7. Block(pre)'
    BY <1>1, <1>2, <2>2, <2>4, <2>5, <2>6 DEF Block
  <2>8. Wiped(BlockSessions(pre, n))' = Wipe(frames'[L], x)
    BY <2>4 DEF Wiped, Wipe, Unheard, Erased, Invalidation, Fresh
  <2>9. Keeping(pre, n)'
    BY <2>2, <2>3, <2>7, <2>8 DEF Keeping, BlockSessions
  <2>10. QED
    BY <2>9 DEF InStep
<1>5. QED
  BY <1>3, <1>4 DEF InStep, Together, Replied, Linked, Replaying, Block, Over

LEMMA StopAnnounces ==
  ASSUME LocallySound, InStep, Stop
  PROVE  /\ InStep'
         /\ UNCHANGED <<gateDead, torn, env, sync, gates, gateSeq, alive, failed, logits,
                        sess, job, todo, sent>>
         /\ DOMAIN frames' = Rank /\ stopped' = TRUE /\ job[L] = None
<1>1. /\ UNCHANGED <<gateDead, torn, env, sync, gates, gateSeq, alive, failed, logits,
                     sess, job, todo, sent>>
      /\ job[L] = None /\ ~stopped /\ stopped' = TRUE
      /\ frames' = [frames EXCEPT ![L] = Append(frames[L], StopFrame)]
  BY DEF Stop, Send, StopFrame, setting
<1>2. DOMAIN frames' = Rank /\ (sent[L] => job[L] # None) /\ sent[L] \in BOOLEAN
  BY <1>1, Ranks DEF LocallySound, At
<1>3. Announced' = <<StopFrame>>
  BY <1>1 DEF Announced, StopFrame
<1>4. \A s \in Sessions : StopFrame # Invalidation(s)
  BY DEF StopFrame, Invalidation
<1>5. PICK f : f = StopFrame
  OBVIOUS
<1>6. Announces(f)
  BY <1>1, <1>2, <1>3, <1>4, <1>5 DEF Announces, Stands
<1>7. InStep'
  BY <1>1, <1>6, AnnouncesKeeps
<1>8. QED
  BY <1>1, <1>2, <1>7

LEMMA IssueAnnounces ==
  ASSUME LocallySound, InStep, NEW c \in Commands, Issue(c)
  PROVE  /\ InStep'
         /\ UNCHANGED <<gateDead, torn, env, gates, gateSeq, alive, stopped, failed, logits>>
         /\ DOMAIN frames' = Rank /\ job[L] = None /\ ~stopped
         /\ \/ /\ c.op = "INVALIDATE" /\ UNCHANGED <<job, todo, sent, sync>>
               /\ \E s \in Sessions :
                    sess' = [sess EXCEPT ![L] =
                               [z \in Sessions |-> IF z = s THEN Fresh ELSE sess[L][z]]]
            \/ /\ c.op # "INVALIDATE" /\ sess' = sess /\ job' = [job EXCEPT ![L] = c]
               /\ todo' = [todo EXCEPT ![L] = Steps(L, c)] /\ sent' = [sent EXCEPT ![L] = FALSE]
               /\ sync' = [sync EXCEPT ![L] = [rc |-> OK, cancelled |-> FALSE]]
               /\ Allowed(c)
<1>1. /\ UNCHANGED <<gateDead, torn, env, gates, gateSeq, alive, stopped, failed, logits>>
      /\ job[L] = None /\ ~stopped /\ Allowed(c)
  BY DEF Issue, link
<1>2. /\ env \in Settings /\ failed[L] = FALSE /\ DOMAIN frames = Rank /\ DOMAIN job = Rank
      /\ DOMAIN todo = Rank /\ DOMAIN sent = Rank /\ DOMAIN sess = Rank /\ DOMAIN sync = Rank
      /\ (sent[L] => job[L] # None) /\ sent[L] \in BOOLEAN
  BY Ranks DEF LocallySound, At
<1>3. CASE c.op = "INVALIDATE"
  <2>1. /\ UNCHANGED <<job, todo, sent, sync>> /\ sess' = Invalid(L, c.ss)
        /\ frames' = [frames EXCEPT ![L] = frames[L] \o InvalidateFrames(c.ss)]
    BY <1>2, <1>3 DEF Issue, TellInvalid
  <2>2. PICK s \in Sessions : c.ss = <<s>> /\ ToSet(c.ss) = {s}
    BY <1>2, <1>3, CommandFacts
  <2>3. sess' = [sess EXCEPT ![L] = [z \in Sessions |-> IF z = s THEN Fresh ELSE sess[L][z]]]
    BY <2>1, <2>2 DEF Invalid
  <2>4. IsList(frames[L])
    <3>1. \/ Announcing \/ \E pre \in Pres, n \in 1..2 : Keeping(pre, n)
      BY <1>1 DEF InStep, Together, Replied, Linked, Replaying, Block, Over
    <3>2. QED
      BY <3>1 DEF Announcing, Keeping, Ahead0, Queued
  <2>5. PICK f : f = Invalidation(s)
    OBVIOUS
  <2>6. frames[L] \o InvalidateFrames(c.ss) = Append(frames[L], f)
    <3>1. InvalidateFrames(c.ss) = <<f>>
      BY <2>2, <2>5, OneInvalidation
    <3>2. PICK q : q = frames[L]
      OBVIOUS
    <3>3. q \o <<f>> = Append(q, f)
      BY <2>4, <3>2, OneMore
    <3>4. QED
      BY <3>1, <3>2, <3>3
  <2>7. Announced' = <<>>
    BY <1>1, <2>1 DEF Announced
  <2>8. sess'[L] = [z \in Sessions |-> IF z = s THEN Fresh ELSE sess[L][z]] /\ sess'[W] = sess[W]
    BY <1>2, <2>3, Ranks
  <2>9. Announces(f)
    <3>1. Stands(W) /\ sent'[L] = FALSE /\ job'[L] = None
      BY <1>1, <1>2, <2>1, <2>8 DEF Stands
    <3>2. frames' = [frames EXCEPT ![L] = Append(frames[L], f)]
      BY <2>1, <2>6
    <3>3. \E z \in Sessions :
             /\ f = Invalidation(z)
             /\ sess'[L] = [y \in Sessions |-> IF y = z THEN Fresh ELSE sess[L][y]]
      BY <2>5, <2>8
    <3>4. QED
      BY <1>1, <2>7, <3>1, <3>2, <3>3 DEF Announces
  <2>10. InStep'
    BY <1>1, <2>9, AnnouncesKeeps
  <2>11. DOMAIN frames' = Rank
    BY <1>2, <2>1
  <2>12. QED
    BY <1>1, <1>3, <2>1, <2>3, <2>10, <2>11
<1>4. CASE c.op # "INVALIDATE"
  <2>1. PICK f : f = CommandFrame(c)
    OBVIOUS
  <2>2. /\ sess' = sess /\ job' = [job EXCEPT ![L] = c]
        /\ todo' = [todo EXCEPT ![L] = Steps(L, c)] /\ sent' = [sent EXCEPT ![L] = FALSE]
        /\ sync' = [sync EXCEPT ![L] = [rc |-> OK, cancelled |-> FALSE]]
        /\ frames' = [frames EXCEPT ![L] = Append(frames[L], f)]
    BY <1>4, <2>1 DEF Issue, Begin, Goto, Send, CommandFrame
  <2>3. /\ job'[L] = c /\ job'[W] = job[W] /\ todo'[L] = Steps(L, c) /\ todo'[W] = todo[W]
        /\ sent'[L] = FALSE /\ sent'[W] = sent[W] /\ sync'[W] = sync[W]
        /\ DOMAIN frames' = Rank
    BY <1>2, <2>2, Ranks
  <2>4. c # None
    BY <1>2, CommandFacts
  <2>5. Announced' = <<f>>
    BY <1>1, <2>1, <2>3, <2>4 DEF Announced, Waits, CommandFrame
  <2>6. Steps(L, job[L])' = Steps(L, c)
    <3>1. sess' = sess /\ job'[L] = c
      BY <2>2, <2>3
    <3>2. Steps(L, c)' = Steps(L, c)
      BY <3>1, StepsStand
    <3>3. Steps(L, job[L])' = Steps(L, c)'
      BY <3>1 DEF Steps, EvalSteps, Kept, Ahead
    <3>4. QED
      BY <3>2, <3>3
  <2>7. \A s \in Sessions : f # Invalidation(s)
    BY <1>4, <2>1 DEF CommandFrame, Invalidation
  <2>8. Announces(f)
    BY <1>1, <2>2, <2>3, <2>5, <2>6, <2>7 DEF Announces, Stands
  <2>9. InStep'
    BY <1>1, <2>8, AnnouncesKeeps
  <2>10. QED
    BY <1>1, <1>4, <2>2, <2>3, <2>9
<1>5. QED
  BY <1>3, <1>4

\* The worker can only hear of something between commands when the leader is ahead.
LEMMA AnnouncedArrives ==
  ASSUME LocallySound, InStep, alive, job[W] = None, Arrived(W)
  PROVE  /\ Announcing /\ frames[L] # <<>> /\ IsList(frames[L]) /\ Next1(W) = frames[L][1]
         /\ Consumed(W) = [frames EXCEPT ![L] = Tail(frames[L])]
         /\ IsList(Announced) /\ Len(Announced) \in Nat /\ Len(frames[L]) \in Nat
         /\ Len(Announced) <= Len(frames[L]) /\ Queue(frames[L], Announced, 0)
<1>1. frames[L] = <<>> => stopped
  BY Ranks DEF Arrived, Next1, Frame
<1>2. stopped => job[L] = None
  BY DEF LocallySound
<1>3. Announcing
  <2>1. ASSUME NEW pre \in Pres, NEW c, Replied(pre, c) PROVE FALSE
    <3>1. frames[L] = <<>> /\ job[L] # None
      BY <2>1, RepliedFacts
    <3>2. QED
      BY <1>1, <1>2, <3>1
  <2>2. ASSUME NEW b \in Rank, NEW pre, NEW c, Together(b, pre, c, Peer(b)) PROVE FALSE
    <3>1. job[b] # None /\ job[Peer(b)] = job[b]
      BY <2>2 DEF Together, Linked
    <3>2. QED
      BY <3>1, Ranks
  <2>3. QED
    BY <2>1, <2>2 DEF InStep, Keeping, Replaying, Block, Over
<1>4. Queue(frames[L], Announced, 0)
  BY <1>3, QueueIs DEF Announcing, Ahead0
<1>5. IsList(Announced) /\ IsList(frames[L])
  BY <1>4, Tuples DEF Announced, Queue
<1>6. Len(Announced) \in Nat /\ Len(frames[L]) \in Nat
  BY <1>5, ListFacts
<1>7. Len(Announced) <= Len(frames[L])
  <2>1. \A m, k \in Nat : 0 <= m - k => k <= m
    OBVIOUS
  <2>2. 0 <= Len(frames[L]) - Len(Announced)
    BY <1>4 DEF Queue
  <2>3. QED
    BY <1>6, <2>1, <2>2
<1>8. frames[L] # <<>>
  <2>1. ASSUME frames[L] = <<>> PROVE FALSE
    <3>1. Announced = <<StopFrame>>
      BY <1>1, <2>1 DEF Announced
    <3>2. Len(Announced) = 1
      <4>1. PICK x : x = StopFrame
        OBVIOUS
      <4>2. QED
        BY <3>1, <4>1, Tuples
    <3>3. Len(frames[L]) = 0
      BY <2>1, Tuples
    <3>4. QED
      BY <1>7, <3>2, <3>3
  <2>2. QED
    BY <2>1
<1>9. Head(frames[L]) = frames[L][1]
  BY <1>5, <1>8, ListFacts
<1>10. Next1(W) = frames[L][1] /\ Consumed(W) = [frames EXCEPT ![L] = Tail(frames[L])]
  BY <1>8, <1>9, Ranks DEF Next1, Consumed, Took
<1>11. QED
  BY <1>3, <1>4, <1>5, <1>6, <1>7, <1>8, <1>10

\* An invalidation the leader sent before what it announces.
LEMMA InvalidationHeard ==
  ASSUME LocallySound, InStep, Receive, Len(frames[L]) > Len(Announced)
  PROVE  /\ Announcing' /\ UNCHANGED <<job, todo, sent, sync, alive>>
         /\ \E s \in Sessions :
              sess' = [sess EXCEPT ![W] = [z \in Sessions |-> IF z = s THEN Fresh ELSE sess[W][z]]]
<1> DEFINE f == Next1(W)
<1>1. /\ alive /\ job[W] = None /\ Arrived(W) /\ frames' = Consumed(W)
      /\ alive' = ~EndsLoop(f)
      /\ sess' = IF f.kind = "INVALIDATE" THEN Invalid(W, f.ss) ELSE sess
      /\ IF f.kind \in Mirrored \ {"INVALIDATE"}
         THEN Begin(W, [op |-> f.kind, ss |-> f.ss, toks |-> f.toks])
         ELSE UNCHANGED <<job, todo, sent, sync>>
      /\ UNCHANGED <<gates, gateSeq, stopped>>
  BY DEF Receive
<1>2. /\ Announcing /\ frames[L] # <<>> /\ IsList(frames[L]) /\ f = frames[L][1]
      /\ frames' = [frames EXCEPT ![L] = Tail(frames[L])]
      /\ IsList(Announced) /\ Queue(frames[L], Announced, 0)
  BY <1>1, AnnouncedArrives
<1>3. PICK q, a : q = frames[L] /\ a = Announced
  OBVIOUS
<1>4. PICK s \in Sessions : f = Invalidation(s)
  <2>1. 0 \in 0..1 /\ IsList(a) /\ Queue(q, a, 0) /\ Len(q) > Len(a)
    BY <1>2, <1>3
  <2>2. \E s \in Sessions : q[1] = Invalidation(s)
    BY <2>1, QueueShrinks
  <2>3. QED
    BY <1>2, <1>3, <2>2
<1>5. Queue(Tail(q), a, 0) /\ Erased(q) = Erased(Tail(q)) \cup {s}
  <2>1. 0 \in 0..1 /\ IsList(a) /\ Queue(q, a, 0) /\ Len(q) > Len(a)
    BY <1>2, <1>3
  <2>2. q[1] = Invalidation(s)
    BY <1>2, <1>3, <1>4
  <2>3. QED
    BY <2>1, <2>2, QueueShrinks
<1> HIDE DEF f
<1>6. f.kind = "INVALIDATE" /\ f.ss = <<s>>
  BY <1>4 DEF Invalidation
<1>7. /\ UNCHANGED <<job, todo, sent, sync>> /\ alive' = alive
      /\ sess' = Invalid(W, <<s>>)
  BY <1>1, <1>6 DEF EndsLoop, Mirrored
<1>8. sess' = [sess EXCEPT ![W] = [z \in Sessions |-> IF z = s THEN Fresh ELSE sess[W][z]]]
  <2>1. ToSet(<<s>>) = {s}
    BY DEF ToSet
  <2>2. QED
    BY <1>7, <2>1 DEF Invalid
<1>9. /\ sess'[W] = [z \in Sessions |-> IF z = s THEN Fresh ELSE sess[W][z]]
      /\ sess'[L] = sess[L] /\ frames'[L] = Tail(q) /\ frames'[W] = frames[W]
  BY <1>2, <1>3, <1>8, Ranks DEF LocallySound
<1>10. Stands(L)
  BY <1>1, <1>7, <1>9 DEF Stands
<1>11. Announced' = a /\ GateOut(L)' = GateOut(L) /\ Passed(L)' = Passed(L)
  <2>1. PICK d : d = sync[L].cancelled
    OBVIOUS
  <2>2. /\ VoteFrame(L, d)' = VoteFrame(L, d) /\ (Waits(L, "vote")' <=> Waits(L, "vote"))
        /\ GateOut(L)' = GateOut(L) /\ Passed(L)' = Passed(L)
    BY <1>10, Unmoved, Ranks
  <2>3. VoteFrame(L, sync[L].cancelled)' = VoteFrame(L, sync[L].cancelled)
    BY <1>7, <2>1, <2>2 DEF VoteFrame
  <2>4. QED
    BY <1>1, <1>3, <1>7, <2>2, <2>3 DEF Announced, CommandFrame, StopFrame
<1>12. Queued(0)'
  BY <1>5, <1>9, <1>11, QueueIs
<1>13. Steps(L, job[L])' = Steps(L, job[L])
  BY <1>7, <1>9 DEF Steps, EvalSteps, Kept, Ahead
<1>14. Ahead0(0)'
  <2>1. alive' /\ frames'[W] = <<>> /\ gates'[W] = <<>>
    <3>1. alive'
      <4>1. ~EndsLoop(f)
        BY <1>6 DEF EndsLoop, Mirrored
      <4>2. alive' = ~EndsLoop(f)
        BY <1>1 DEF f
      <4>3. QED
        BY <4>1, <4>2
    <3>2. frames[W] = <<>> /\ gates[W] = <<>>
      BY <1>2 DEF Ahead0, Announcing
    <3>3. gates' = gates /\ frames'[W] = frames[W]
      BY <1>1, <1>9
    <3>4. QED
      BY <3>1, <3>2, <3>3
  <2>2. job'[L] # None => todo'[L] = Steps(L, job[L])'
    <3>1. job[L] # None => todo[L] = Steps(L, job[L])
      BY <1>2 DEF Ahead0, Announcing
    <3>2. job' = job /\ todo' = todo
      BY <1>7
    <3>3. QED
      BY <1>13, <3>1, <3>2
  <2>3. QED
    BY <1>12, <2>1, <2>2 DEF Ahead0
<1>15. sess'[L] = Wiped(sess[W])'
  <2>1. sess[L] = Wipe(q, sess[W])
    BY <1>2, <1>3, QueueIs DEF Announcing
  <2>2. Wiped(sess[W])' = Wipe(frames'[L], sess'[W])
    BY DEF Wiped, Wipe, Unheard, Erased, Invalidation, Fresh
  <2>3. QED
    BY <1>5, <1>9, <2>1, <2>2 DEF Wipe
<1>16. Announcing'
  BY <1>1, <1>2, <1>7, <1>11, <1>14, <1>15 DEF Announcing
<1>17. QED
  BY <1>7, <1>8, <1>16

\* What is announced when nothing is to be invalidated.
LEMMA AnnouncedAlone ==
  ASSUME LocallySound, Announcing, Len(frames[L]) = Len(Announced), IsList(Announced),
         IsList(frames[L]), Queue(frames[L], Announced, 0)
  PROVE  frames[L] = Announced /\ sess[L] = sess[W]
<1>1. Len(frames[L]) \in Nat
  BY ListFacts
<1>2. \A i \in 1..Len(Announced) : frames[L][i] = Announced[i]
  <2>1. \A i \in 1..Len(Announced) : frames[L][(Len(frames[L]) - Len(Announced)) + i] = Announced[i]
    BY DEF Queue
  <2>2. \A m \in Nat : \A i \in 1..m : (m - m) + i = i
    OBVIOUS
  <2>3. QED
    BY <1>1, <2>1, <2>2
<1>3. frames[L] = Announced
  BY <1>2, ListEqual
<1>4. job[L] # None => job[L].op # "INVALIDATE" /\ CommandFrame(job[L]).kind # "INVALIDATE"
  BY Ranks DEF LocallySound, CommandFrame
<1>5. \A i \in 1..Len(Announced) : Announced[i].kind # "INVALIDATE"
  <2>1. PICK x, y, z : x = StopFrame /\ y = CommandFrame(job[L]) /\ z = VoteFrame(L, sync[L].cancelled)
    OBVIOUS
  <2>2. x.kind # "INVALIDATE" /\ z.kind # "INVALIDATE" /\ (job[L] # None => y.kind # "INVALIDATE")
    BY <1>4, <2>1 DEF StopFrame, VoteFrame
  <2>3. \/ Announced = <<x>> \/ Announced = <<>>
        \/ job[L] # None /\ (Announced = <<y, z>> \/ Announced = <<y>>)
    BY <2>1 DEF Announced
  <2>4. \A i \in 1..Len(<<x>>) : <<x>>[i] = x
    OBVIOUS
  <2>5. \A i \in 1..Len(<<y>>) : <<y>>[i] = y
    OBVIOUS
  <2>6. \A i \in 1..Len(<<y, z>>) : <<y, z>>[i] = y \/ <<y, z>>[i] = z
    OBVIOUS
  <2>7. \A i \in 1..Len(<<>>) : FALSE
    OBVIOUS
  <2>8. QED
    BY <2>2, <2>3, <2>4, <2>5, <2>6, <2>7
<1>6. Unheard = {}
  BY <1>3, <1>5 DEF Unheard, Invalidation
<1>7. sess[W] = [s \in Sessions |-> sess[W][s]]
  BY Ranks DEF LocallySound
<1>8. sess[L] = sess[W]
  BY <1>6, <1>7 DEF Announcing, Wiped
<1>9. QED
  BY <1>3, <1>8

\* The worker starts the command the leader has started.
LEMMA CommandHeard ==
  ASSUME LocallySound, Announcing, frames[L] = Announced, sess[L] = sess[W], job[L] # None,
         NEW c, c = job[L], Begin(W, c), frames' = [frames EXCEPT ![L] = Tail(frames[L])],
         sess' = sess, gates' = gates, gateSeq' = gateSeq, alive' = alive, stopped' = stopped
  PROVE  Together(L, "none", FALSE, W)'
<1>1. /\ DOMAIN job = Rank /\ DOMAIN todo = Rank /\ DOMAIN sent = Rank /\ DOMAIN sync = Rank
      /\ DOMAIN frames = Rank /\ ~stopped
  BY DEF LocallySound
<1>2. /\ job' = [job EXCEPT ![W] = c] /\ todo' = [todo EXCEPT ![W] = Steps(W, c)]
      /\ sent' = [sent EXCEPT ![W] = FALSE]
      /\ sync' = [sync EXCEPT ![W] = [rc |-> OK, cancelled |-> FALSE]]
  BY DEF Begin, Goto
<1>3. /\ job'[W] = c /\ job'[L] = c /\ todo'[L] = todo[L] /\ todo'[W] = Steps(W, c)
      /\ sent'[W] = FALSE /\ sent'[L] = sent[L] /\ sync'[L] = sync[L]
      /\ frames'[W] = frames[W] /\ frames'[L] = Tail(frames[L])
  BY <1>1, <1>2, Ranks
<1>4. /\ alive /\ frames[W] = <<>> /\ gates[W] = <<>> /\ todo[L] = Steps(L, job[L])
      /\ gates[L] = GateOut(L) /\ Passed(L) = gateSeq[W]
  BY DEF Announcing, Ahead0
<1>5. Steps(W, c) = Steps(L, c)
  BY StepsEqual
<1>6. todo'[W] = todo'[L]
  BY <1>3, <1>4, <1>5
<1>7. Stands(L)
  BY <1>3 DEF Stands
<1>8. GateOut(L)' = GateOut(L) /\ Passed(L)' = Passed(L) /\ VoteOut(L)' = VoteOut(L)
  BY <1>7, Unmoved, Ranks
<1>9. Tail(frames[L]) = VoteOut(L)
  <2>1. PICK y, z : y = CommandFrame(job[L]) /\ z = VoteFrame(L, sync[L].cancelled)
    OBVIOUS
  <2>2. \/ ~Waits(L, "vote") /\ frames[L] = <<y>>
        \/ Waits(L, "vote") /\ frames[L] = <<y, z>>
    BY <1>1, <2>1 DEF Announced
  <2>3. Tail(<<y>>) = <<>> /\ Tail(<<y, z>>) = <<z>>
    BY Tuples
  <2>4. QED
    BY <2>1, <2>2, <2>3 DEF VoteOut
<1>10. GateOut(W)' = <<>> /\ VoteOut(W)' = <<>> /\ Passed(W)' = gateSeq[W]
  BY <1>3 DEF GateOut, VoteOut, Passed, Waits
<1>11. Linked(L, "none", W)'
  BY <1>3, <1>4, <1>8, <1>9, <1>10 DEF Linked, SessionsOf, GatesTo
<1>12. frames'[W] = VoteOut(W)'
  BY <1>3, <1>4, <1>10
<1>13. QED
  BY <1>3, <1>6, <1>11, <1>12 DEF Together, Onward, VotesTo

LEMMA ReceiveHears ==
  ASSUME LocallySound, InStep, Receive
  PROVE  /\ InStep'
         /\ UNCHANGED <<gateDead, torn, env, gates, gateSeq, stopped, failed, logits>>
         /\ DOMAIN frames' = Rank /\ job[W] = None
         /\ \/ /\ UNCHANGED <<job, todo, sent, sync, alive>>
               /\ \E s \in Sessions :
                    sess' = [sess EXCEPT ![W] =
                               [z \in Sessions |-> IF z = s THEN Fresh ELSE sess[W][z]]]
            \/ /\ sess' = sess /\ sess[W] = sess[L] /\ job[L] # None /\ alive' = alive
               /\ \E c : c = job[L] /\ Begin(W, c)
            \/ UNCHANGED <<sess, job, todo, sent, sync>> /\ alive' = FALSE
<1> DEFINE f == Next1(W)
<1>1. /\ alive /\ job[W] = None /\ Arrived(W) /\ frames' = Consumed(W)
      /\ alive' = ~EndsLoop(f)
      /\ sess' = IF f.kind = "INVALIDATE" THEN Invalid(W, f.ss) ELSE sess
      /\ IF f.kind \in Mirrored \ {"INVALIDATE"}
         THEN Begin(W, [op |-> f.kind, ss |-> f.ss, toks |-> f.toks])
         ELSE UNCHANGED <<job, todo, sent, sync>>
      /\ UNCHANGED <<gateDead, torn, env, gates, gateSeq, stopped, failed, logits>>
  BY DEF Receive, setting
<1>2. /\ Announcing /\ frames[L] # <<>> /\ IsList(frames[L]) /\ f = frames[L][1]
      /\ frames' = [frames EXCEPT ![L] = Tail(frames[L])]
      /\ IsList(Announced) /\ Queue(frames[L], Announced, 0)
      /\ Len(Announced) \in Nat /\ Len(frames[L]) \in Nat /\ Len(Announced) <= Len(frames[L])
  BY <1>1, AnnouncedArrives
<1>3. DOMAIN frames = Rank /\ (stopped => job[L] = None) /\ env \in Settings
  BY DEF LocallySound
<1>4. DOMAIN frames' = Rank
  BY <1>2, <1>3
<1>5. CASE Len(frames[L]) > Len(Announced)
  <2>1. Announcing'
    BY <1>5, InvalidationHeard
  <2>2. QED
    BY <1>1, <1>4, <1>5, <2>1, InvalidationHeard DEF InStep
<1>6. CASE Len(frames[L]) = Len(Announced)
  <2>1. frames[L] = Announced /\ sess[L] = sess[W]
    BY <1>2, <1>6, AnnouncedAlone
  <2>2. CASE stopped
    <3>1. Announced = <<StopFrame>> /\ job[L] = None
      BY <1>3, <2>2 DEF Announced
    <3>2. PICK x : x = StopFrame
      OBVIOUS
    <3>3. <<x>>[1] = x /\ Tail(<<x>>) = <<>>
      BY Tuples
    <3>4. f = StopFrame
      BY <1>2, <2>1, <3>1, <3>2, <3>3
    <3> HIDE DEF f
    <3>5. f.kind = "STOP"
      BY <3>4 DEF StopFrame
    <3>6. UNCHANGED <<sess, job, todo, sent, sync>> /\ alive' = FALSE
      BY <1>1, <3>5 DEF EndsLoop, Mirrored
    <3>7. Over'
      BY <1>1, <2>2, <3>1, <3>6 DEF Over
    <3>8. InStep'
      BY <3>7 DEF InStep
    <3>9. QED
      BY <1>1, <1>4, <3>6, <3>8
  <2>3. CASE job[L] = None /\ ~stopped
    <3>1. Announced = <<>>
      BY <2>3 DEF Announced
    <3>2. QED
      BY <1>2, <2>1, <3>1
  <2>4. CASE job[L] # None
    <3>1. ~stopped
      BY <1>3, <2>4
    <3>2. PICK c : c = job[L]
      OBVIOUS
    <3>3. c \in Commands /\ c.op # "INVALIDATE"
      BY <2>4, <3>2, Ranks DEF LocallySound
    <3>4. /\ c.op \in {"SYNC", "EVAL", "VERIFY", "BATCH"}
          /\ c = [op |-> c.op, ss |-> c.ss, toks |-> c.toks]
      BY <1>3, <3>3, CommandFacts
    <3>5. f = CommandFrame(c)
      <4>1. PICK y, z : y = CommandFrame(job[L]) /\ z = VoteFrame(L, sync[L].cancelled)
        OBVIOUS
      <4>2. \/ frames[L] = <<y>> \/ frames[L] = <<y, z>>
        BY <2>1, <2>4, <3>1, <4>1 DEF Announced
      <4>3. <<y>>[1] = y /\ <<y, z>>[1] = y
        OBVIOUS
      <4>4. QED
        BY <1>2, <3>2, <4>1, <4>2, <4>3
    <3> HIDE DEF f
    <3>6. f.kind = c.op /\ f.ss = c.ss /\ f.toks = c.toks
      BY <3>5 DEF CommandFrame
    <3>7. [op |-> f.kind, ss |-> f.ss, toks |-> f.toks] = c
      BY <3>4, <3>6
    <3>8. f.kind \in Mirrored \ {"INVALIDATE"} /\ ~EndsLoop(f)
      BY <3>4, <3>6 DEF EndsLoop, Mirrored
    <3>9. Begin(W, c) /\ sess' = sess /\ alive' = alive
      BY <1>1, <3>7, <3>8
    <3>10. Together(L, "none", FALSE, W)'
      BY <1>1, <1>2, <2>1, <2>4, <3>2, <3>9, CommandHeard
    <3>11. InStep'
      BY <3>10, Ranks DEF InStep, Pres, Together, Linked
    <3>12. QED
      BY <1>1, <1>4, <2>1, <2>4, <3>2, <3>9, <3>11
  <2>5. QED
    BY <2>2, <2>3, <2>4
<1>7. QED
  <2>1. \A m, k \in Nat : k <= m => m > k \/ m = k
    OBVIOUS
  <2>2. QED
    BY <1>2, <1>5, <1>6, <2>1


-----------------------------------------------------------------------------
(* What a pair never does while its worker lives.                          *)

LEMMA Heard ==
  ASSUME LocallySound, NEW r \in Rank, frames[Peer(r)] # <<>>,
         Head(frames[Peer(r)]).kind # "wait"
  PROVE  Arrived(r)
  BY DEF LocallySound, Arrived, Next1

LEMMA AnnouncedHeard ==
  ASSUME LocallySound, Announcing, job[L] # None
  PROVE  Arrived(W)
<1>1. /\ Queue(frames[L], Announced, 0) /\ IsList(frames[L]) /\ ~stopped
      /\ env \in Settings /\ job[L] \in Commands
  <2>1. Queue(frames[L], Announced, 0)
    BY QueueIs DEF Announcing, Ahead0
  <2>2. QED
    BY <2>1, Ranks DEF LocallySound, Queue
<1>2. job[L].op \in {"SYNC", "EVAL", "VERIFY", "BATCH", "INVALIDATE"}
  BY <1>1, CommandFacts
<1>3. PICK y, z : y = CommandFrame(job[L]) /\ z = VoteFrame(L, sync[L].cancelled)
  OBVIOUS
<1>4. y.kind # "wait"
  BY <1>2, <1>3 DEF CommandFrame
<1>5. Announced = <<y>> \/ Announced = <<y, z>>
  BY <1>1, <1>3 DEF Announced
<1>6. /\ IsList(Announced) /\ Announced[1] = y /\ Len(Announced) > 0
  <2>1. <<y>>[1] = y /\ <<y, z>>[1] = y
    OBVIOUS
  <2>2. IsList(<<y>>) /\ IsList(<<y, z>>) /\ Len(<<y>>) = 1 /\ Len(<<y, z>>) = 2
    BY Tuples
  <2>3. QED
    BY <1>5, <2>1, <2>2
<1>7. PICK q, a : q = frames[L] /\ a = Announced
  OBVIOUS
<1>8. /\ Queue(q, a, 0) /\ IsList(q) /\ IsList(a) /\ Len(q) \in Nat /\ Len(a) \in Nat
      /\ a[1] = y /\ Len(a) > 0 /\ 0 <= Len(q) - Len(a)
  <2>1. Queue(q, a, 0) /\ IsList(q) /\ IsList(a) /\ a[1] = y /\ Len(a) > 0
    BY <1>1, <1>6, <1>7
  <2>2. QED
    BY <2>1, ListFacts DEF Queue
<1>9. PICK m, k : m = Len(q) /\ k = Len(a)
  OBVIOUS
<1>10. m \in Nat /\ k \in Nat /\ k > 0 /\ 0 <= m - k /\ (m > k \/ m = k) /\ m # 0
  <2>1. m \in Nat /\ k \in Nat /\ k > 0 /\ 0 <= m - k
    BY <1>8, <1>9
  <2>2. QED
    BY <2>1
<1>11. q # <<>> /\ Head(q) = q[1]
  BY <1>8, <1>9, <1>10, ListFacts
<1>12. q[1].kind # "wait"
  <2>1. CASE m > k
    <3>1. 0 \in 0..1 /\ Len(q) > Len(a)
      BY <1>9, <2>1
    <3>2. \E s \in Sessions : q[1] = Invalidation(s)
      BY <1>8, <3>1, QueueShrinks
    <3>3. QED
      BY <3>2 DEF Invalidation
  <2>2. CASE m = k
    <3>1. 1 \in 1..k /\ (m - k) + 1 = 1
      BY <1>10, <2>2
    <3>2. \A i \in 1..k : q[(m - k) + i] = a[i]
      BY <1>8, <1>9 DEF Queue
    <3>3. q[1] = y
      BY <1>8, <3>1, <3>2
    <3>4. QED
      BY <1>4, <3>3
  <2>3. QED
    BY <1>10, <2>1, <2>2
<1>13. QED
  BY <1>7, <1>11, <1>12, Heard, Ranks

\* No gate is waited for in vain.
LEMMA NoTimeout ==
  ASSUME LocallySound, InStep, NEW r \in Rank, Waits(r, "gate"), gates[Peer(r)] = <<>>, ~crashed
  PROVE  ~PeerAway(Peer(r))
<1> DEFINE p == Peer(r)
<1>1. /\ job[r] # None /\ Head1(r).do = "gate" /\ sent[r]
      /\ p \in Rank /\ Peer(p) = r /\ p # r /\ (p = L \/ p = W) /\ (r = W <=> p = L)
  BY Ranks DEF Waits, At
<1>2. (stopped => job[L] = None) /\ (sent[W] => job[W] # None)
  BY Ranks DEF LocallySound, At
<1>3. \A b \in Rank, q \in Rank : GatesTo(b, "gate", q) # <<>>
  BY DEF GatesTo
<1>4. ASSUME NEW b \in Rank, NEW pre \in Pres, NEW c \in BOOLEAN,
             Together(b, pre, c, Peer(b))
      PROVE  ~PeerAway(p)
  <2>1. alive /\ job[L] # None /\ job[W] # None /\ ~stopped
    BY <1>2, <1>4, Ranks DEF Together, Linked
  <2>2. CASE pre = "none"
    <3>1. Together(r, "none", c, p)
      BY <1>4, <2>2, Mirror, Ranks
    <3>2. todo[p] = todo[r] /\ gates[r] = GateOut(r)
      BY <3>1 DEF Together, Linked, Onward
    <3>3. Head1(p).do = "gate"
      BY <1>1, <3>2 DEF Head1
    <3>4. gates[r] # <<>>
      BY <3>2 DEF GateOut
    <3>5. QED
      BY <1>1, <2>1, <3>3, <3>4 DEF PeerAway, WorkerGone
  <2>3. CASE pre = "gate"
    <3>1. gates[Peer(b)] # <<>> /\ Waits(b, "gate")
      BY <1>3, <1>4, <2>3, Ranks DEF Together, Linked
    <3>2. b = p
      BY <1>1, <3>1, Ranks
    <3>3. gates[r] # <<>> /\ Head1(p).do = "gate"
      BY <1>1, <3>1, <3>2 DEF Waits, At
    <3>4. QED
      BY <1>1, <2>1, <3>3 DEF PeerAway, WorkerGone
  <2>4. CASE pre = "vote"
    <3>1. Waits(b, "vote") /\ frames[Peer(b)] = VotesTo(b, "vote", c, Peer(b))
      BY <1>4, <2>4 DEF Together, Linked
    <3>2. b = p
      BY <1>1, <3>1, Ranks DEF Waits, At
    <3>3. frames[r] # <<>> /\ Head(frames[r]) = VoteFrame(p, c)
      <4>1. PICK x, y : x = VoteFrame(p, c) /\ y = VoteFrame(r, sync[r].cancelled)
        OBVIOUS
      <4>2. frames[r] = <<x, y>> \/ frames[r] = <<x>>
        BY <1>1, <3>1, <3>2, <4>1 DEF VotesTo
      <4>3. <<x, y>> # <<>> /\ <<x>> # <<>> /\ Head(<<x>>) = x /\ Head(<<x, y>>) = x
        BY Tuples
      <4>4. QED
        BY <4>1, <4>2, <4>3
    <3>4. Head(frames[r]).kind # "wait"
      BY <3>3 DEF VoteFrame
    <3>5. Arrived(p)
      BY <1>1, <3>3, <3>4, Heard
    <3>6. Head1(p).do = "vote"
      BY <3>1, <3>2 DEF Waits, At
    <3>7. QED
      BY <1>1, <2>1, <3>5, <3>6 DEF PeerAway, WorkerGone
  <2>5. QED
    BY <2>2, <2>3, <2>4 DEF Pres
<1>5. ASSUME NEW pre \in Pres, NEW c, Replied(pre, c) PROVE FALSE
  <2>1. ~sent[W] /\ Linked(L, pre, W)
    BY <1>5 DEF Replied
  <2>2. r = L /\ p = W
    BY <1>1, <2>1, Ranks
  <2>3. pre # "gate"
    BY <1>3, <2>1, <2>2, Ranks DEF Linked
  <2>4. pre # "vote"
    BY <1>1, <2>1, <2>2 DEF Linked, Waits, At
  <2>5. pre = "none"
    BY <2>3, <2>4 DEF Pres
  <2>6. QED
    BY <1>1, <1>5, <2>2, <2>5, RepliedHead
<1>6. CASE Announcing
  <2>1. r = L /\ p = W /\ alive /\ job[W] = None
    BY <1>1, <1>6, Ranks DEF Announcing, Ahead0
  <2>2. Arrived(W)
    BY <1>1, <1>6, <2>1, AnnouncedHeard
  <2>3. QED
    BY <1>1, <1>2, <2>1, <2>2, Ranks DEF PeerAway, WorkerGone
<1>7. ASSUME NEW pre \in Pres, NEW n \in 1..2, alive, Block(pre), frames[L] # <<>>,
             Head(frames[L]).kind # "wait"
      PROVE  ~PeerAway(p)
  <2>1. pre = "gate" => gates[L] # <<>> /\ Waits(W, "gate")
    BY <1>3, <1>7, Ranks DEF Block
  <2>2. pre \in {"none", "gate"} /\ (pre = "none" => ~sent[W]) /\ job[W] # None
    BY <1>7 DEF Block
  <2>3. r = L /\ p = W
    BY <1>1, <2>1, <2>2, Ranks
  <2>4. Arrived(W)
    BY <1>7, Heard, Ranks
  <2>5. (Head1(W).do = "gate" /\ sent[W]) => gates[L] # <<>>
    BY <2>1, <2>2
  <2>6. QED
    BY <1>1, <1>7, <2>2, <2>3, <2>4, <2>5, Ranks DEF PeerAway, WorkerGone
<1>8. ASSUME NEW pre \in Pres, NEW n \in 1..2, Keeping(pre, n) PROVE ~PeerAway(p)
  <2>1. /\ alive /\ Block(pre) /\ Queue(frames[L], Announced, 1)
        /\ frames[L][1] = [kind |-> "COMMIT", mode |-> "KEEP", n |-> n]
    BY <1>8, QueueIs DEF Keeping, Ahead0
  <2>2. frames[L] # <<>> /\ Head(frames[L]) = frames[L][1]
    <3>1. IsList(frames[L]) /\ 1 <= Len(frames[L]) - Len(Announced) /\ IsList(Announced)
      BY <2>1, Tuples DEF Queue, Announced
    <3>2. Len(frames[L]) \in Nat /\ Len(Announced) \in Nat
      BY <3>1, ListFacts
    <3>3. Len(frames[L]) # 0
      BY <3>1, <3>2
    <3>4. QED
      BY <3>1, <3>3, ListFacts
  <2>3. Head(frames[L]).kind # "wait"
    BY <2>1, <2>2
  <2>4. QED
    BY <1>7, <2>1, <2>2, <2>3
<1>9. ASSUME NEW pre \in Pres, NEW n \in 1..2, Replaying(pre, n) PROVE ~PeerAway(p)
  <2>1. PICK x : x = [kind |-> "COMMIT", mode |-> "REPLAY", n |-> n]
    OBVIOUS
  <2>2. frames[L] = <<x>> /\ alive /\ Block(pre)
    BY <1>9, <2>1 DEF Replaying
  <2>3. <<x>> # <<>> /\ Head(<<x>>) = x
    BY Tuples
  <2>4. x.kind # "wait"
    BY <2>1
  <2>5. QED
    BY <1>7, <2>2, <2>3, <2>4
<1>10. CASE Over
  BY <1>1, <1>10, Ranks DEF Over
<1>11. QED
  BY <1>4, <1>5, <1>6, <1>8, <1>9, <1>10 DEF InStep

LEMMA NothingFails ==
  ASSUME LocallySound, InStep
  PROVE  /\ ~EvalFault /\ ~Abandon /\ \A r \in Rank : ~SyncFault(r)
         /\ ~crashed => (\A c : ~SendFails(c)) /\ \A r \in Rank : ~GateTimeout(r)
<1>1. /\ env.faults = {} /\ ~env.slow
      /\ \A r \in Rank : failed[r] = FALSE /\ gateDead[r] = FALSE
  BY DEF LocallySound, FailStop
<1>2. ~alive => stopped
  BY DEF InStep, Together, Replied, Linked, Announcing, Keeping, Ahead0, Replaying, Over
<1>3. ~crashed => \A c : ~SendFails(c)
  BY <1>2 DEF SendFails, WorkerGone
<1>4. ~EvalFault /\ \A r \in Rank : ~SyncFault(r)
  BY <1>1 DEF EvalFault, SyncFault
<1>5. ~Abandon
  BY <1>1, Ranks DEF Abandon, OwnFailure
<1>6. ~crashed => \A r \in Rank : ~GateTimeout(r)
  BY <1>1, NoTimeout DEF GateTimeout
<1>7. QED
  BY <1>3, <1>4, <1>5, <1>6


-----------------------------------------------------------------------------
(* Each rank's own state stays sound.                                      *)

SessionSound(x) ==
  /\ DOMAIN x = Sessions /\ x = [s \in Sessions |-> x[s]]
  /\ \A s \in Sessions : x[s].pure = TRUE /\ x[s].toks \in Seq(Token)
JobSound(j, q) == j # None => j \in Commands /\ j.op # "INVALIDATE" /\ Shape(q, j)
SyncSound(y) == y.rc \in {OK, INTERRUPTED} /\ y.cancelled \in BOOLEAN
WaitSound(r) == sent[r] \in BOOLEAN /\ (sent[r] => At(r, "gate") \/ At(r, "vote"))
Domains ==
  /\ DOMAIN sess = Rank /\ sess = [r \in Rank |-> sess[r]]
  /\ DOMAIN job = Rank /\ DOMAIN todo = Rank /\ DOMAIN sent = Rank
  /\ DOMAIN sync = Rank /\ DOMAIN frames = Rank /\ DOMAIN gates = Rank
  /\ DOMAIN gateSeq = Rank /\ DOMAIN gateDead = Rank /\ DOMAIN failed = Rank
  /\ DOMAIN logits = Sessions

LEMMA SoundParts ==
  ASSUME LocallySound
  PROVE  /\ FailStop /\ env \in Settings /\ Domains /\ torn = FALSE
         /\ stopped \in BOOLEAN /\ alive \in BOOLEAN /\ (stopped => job[L] = None)
         /\ \A r \in Rank : /\ gateDead[r] = FALSE /\ failed[r] = FALSE /\ gateSeq[r] \in Nat
                            /\ WaitSound(r) /\ SyncSound(sync[r]) /\ SessionSound(sess[r])
                            /\ JobSound(job[r], todo[r])
<1>1. /\ FailStop /\ env \in Settings /\ Domains /\ torn = FALSE
      /\ stopped \in BOOLEAN /\ alive \in BOOLEAN /\ (stopped => job[L] = None)
  BY DEF LocallySound, Domains
<1>2. ASSUME NEW r \in Rank
      PROVE  /\ gateDead[r] = FALSE /\ failed[r] = FALSE /\ gateSeq[r] \in Nat
             /\ WaitSound(r) /\ SyncSound(sync[r]) /\ SessionSound(sess[r])
             /\ JobSound(job[r], todo[r])
  BY DEF LocallySound, WaitSound, SyncSound, SessionSound, JobSound
<1>3. QED
  BY <1>1, <1>2

\* A step of rank r leaves the state sound when it leaves its part so.
LEMMA SoundAfter ==
  ASSUME LocallySound, NEW r \in Rank, Domains',
         env' = env, torn' = torn, gateDead' = gateDead, \A q \in Rank : failed'[q] = FALSE,
         stopped' \in BOOLEAN, alive' \in BOOLEAN, stopped' => job'[L] = None,
         \A q \in Rank : gateSeq'[q] \in Nat,
         job'[Peer(r)] = job[Peer(r)], todo'[Peer(r)] = todo[Peer(r)],
         sent'[Peer(r)] = sent[Peer(r)], sync'[Peer(r)] = sync[Peer(r)],
         sess'[Peer(r)] = sess[Peer(r)],
         WaitSound(r)', SyncSound(sync'[r]), SessionSound(sess'[r]), JobSound(job'[r], todo'[r])
  PROVE  LocallySound'
<1>1. /\ FailStop /\ env \in Settings /\ torn = FALSE
      /\ \A q \in Rank : /\ gateDead[q] = FALSE
                         /\ WaitSound(q) /\ SyncSound(sync[q]) /\ SessionSound(sess[q])
                         /\ JobSound(job[q], todo[q])
  BY SoundParts
<1>2. FailStop' /\ Commands' = Commands
  BY <1>1 DEF FailStop, Commands
<1>3. Peer(r) \in Rank
  BY Ranks
<1>4. WaitSound(Peer(r))'
  <2>1. WaitSound(Peer(r))
    BY <1>1, <1>3
  <2>2. PICK p : p = Peer(r)
    OBVIOUS
  <2>3. WaitSound(p) /\ job'[p] = job[p] /\ todo'[p] = todo[p] /\ sent'[p] = sent[p]
    BY <2>1, <2>2
  <2>4. WaitSound(p)'
    BY <2>3 DEF WaitSound, At, Head1
  <2>5. QED
    BY <2>2, <2>4 DEF WaitSound, At, Head1, Peer
<1>5. /\ SyncSound(sync'[Peer(r)]) /\ SessionSound(sess'[Peer(r)])
      /\ JobSound(job'[Peer(r)], todo'[Peer(r)])
  BY <1>1, <1>3
<1>6. ASSUME NEW q \in Rank
      PROVE  /\ WaitSound(q)' /\ SyncSound(sync'[q]) /\ SessionSound(sess'[q])
             /\ JobSound(job'[q], todo'[q])
  <2>1. q = r \/ q = Peer(r)
    BY Ranks
  <2>2. CASE q = r
    <3>1. WaitSound(q)'
      BY <2>2 DEF WaitSound, At, Head1
    <3>2. QED
      BY <2>2, <3>1
  <2>3. CASE q = Peer(r)
    <3>1. WaitSound(q)'
      BY <1>4, <2>3 DEF WaitSound, At, Head1, Peer
    <3>2. QED
      BY <1>5, <2>3, <3>1
  <2>4. QED
    BY <2>1, <2>2, <2>3
<1>7. ASSUME NEW q \in Rank
      PROVE  /\ gateDead'[q] = FALSE /\ failed'[q] = FALSE /\ gateSeq'[q] \in Nat
             /\ sent'[q] \in BOOLEAN
             /\ sent'[q] => At(q, "gate")' \/ At(q, "vote")'
             /\ sync'[q].rc \in {OK, INTERRUPTED} /\ sync'[q].cancelled \in BOOLEAN
             /\ DOMAIN sess'[q] = Sessions /\ sess'[q] = [s \in Sessions |-> sess'[q][s]]
             /\ \A s \in Sessions :
                  sess'[q][s].pure = TRUE /\ sess'[q][s].toks \in Seq(Token)
             /\ job'[q] # None => /\ job'[q] \in Commands' /\ job'[q].op # "INVALIDATE"
                                  /\ Shape(todo'[q], job'[q])
  <2>1. gateDead'[q] = FALSE /\ failed'[q] = FALSE /\ gateSeq'[q] \in Nat
    BY <1>1
  <2>2. sent'[q] \in BOOLEAN /\ (sent'[q] => At(q, "gate")' \/ At(q, "vote")')
    BY <1>6 DEF WaitSound
  <2>3. sync'[q].rc \in {OK, INTERRUPTED} /\ sync'[q].cancelled \in BOOLEAN
    BY <1>6 DEF SyncSound
  <2>4. /\ DOMAIN sess'[q] = Sessions /\ sess'[q] = [s \in Sessions |-> sess'[q][s]]
        /\ \A s \in Sessions : sess'[q][s].pure = TRUE /\ sess'[q][s].toks \in Seq(Token)
    BY <1>6 DEF SessionSound
  <2>5. job'[q] # None => /\ job'[q] \in Commands' /\ job'[q].op # "INVALIDATE"
                          /\ Shape(todo'[q], job'[q])
    BY <1>2, <1>6 DEF JobSound
  <2>6. QED
    BY <2>1, <2>2, <2>3, <2>4, <2>5
<1>8. torn' = FALSE /\ env' \in Settings
  BY <1>1
<1>9. QED
  BY <1>2, <1>7, <1>8 DEF LocallySound, Domains

LEMMA SessUpdated ==
  ASSUME LocallySound, NEW r \in Rank, NEW x, sess' = [sess EXCEPT ![r] = x]
  PROVE  /\ DOMAIN sess' = Rank /\ sess' = [q \in Rank |-> sess'[q]]
         /\ sess'[r] = x /\ sess'[Peer(r)] = sess[Peer(r)]
<1>1. DOMAIN sess = Rank /\ Peer(r) \in Rank /\ Peer(r) # r
  BY Ranks DEF LocallySound
<1>2. QED
  BY <1>1

LEMMA SessionUpdated ==
  ASSUME NEW x, SessionSound(x), NEW s \in Sessions, NEW y, y.pure = TRUE, y.toks \in Seq(Token)
  PROVE  SessionSound([x EXCEPT ![s] = y])
<1> DEFINE z == [x EXCEPT ![s] = y]
<1>1. DOMAIN z = Sessions /\ z[s] = y /\ \A k \in Sessions : k # s => z[k] = x[k]
  BY DEF SessionSound
<1>2. z = [k \in Sessions |-> z[k]]
  BY DEF SessionSound
<1>3. \A k \in Sessions : x[k].pure = TRUE /\ x[k].toks \in Seq(Token)
  BY DEF SessionSound
<1> HIDE DEF z
<1>4. SessionSound(z)
  BY <1>1, <1>2, <1>3 DEF SessionSound
<1>5. QED
  BY <1>4 DEF z

LEMMA SessionForgotten ==
  ASSUME NEW x, SessionSound(x), NEW s \in Sessions
  PROVE  SessionSound([z \in Sessions |-> IF z = s THEN Fresh ELSE x[z]])
<1>1. Fresh.pure = TRUE /\ Fresh.toks \in Seq(Token)
  BY DEF Fresh
<1> DEFINE y == [z \in Sessions |-> IF z = s THEN Fresh ELSE x[z]]
<1>2. DOMAIN y = Sessions /\ y = [k \in Sessions |-> y[k]]
  OBVIOUS
<1>3. \A k \in Sessions : y[k].pure = TRUE /\ y[k].toks \in Seq(Token)
  BY <1>1 DEF SessionSound
<1> HIDE DEF y
<1>4. SessionSound(y)
  BY <1>2, <1>3 DEF SessionSound
<1>5. QED
  BY <1>4 DEF y

\* What is left of a list after an answer.
LEMMA AnswersLeft ==
  ASSUME NEW q, NEW c, Shape(q, c), q[1].do \in {"ack", "half"}, Len(q) > 1
  PROVE  /\ Shape(Tail(q), c)
         /\ \A i \in 1..Len(Tail(q)) : Tail(q)[i].do \in {"ack", "half"}
<1> DEFINE t == Tail(q)
<1>1. /\ IsList(q) /\ q # <<>> /\ q[Len(q)].do \in {"half", "commit"} /\ Len(q) \in Nat
  BY ListFacts DEF Shape
<1>2. IsList(t) /\ Len(t) = Len(q) - 1 /\ \A i \in 1..Len(q) - 1 : t[i] = q[i + 1]
  BY <1>1, ListFacts
<1>3. PICK n \in Nat : n = Len(q)
  BY <1>1
<1>4. n > 1 /\ Len(t) = n - 1 /\ \A i \in 1..n - 1 : t[i] = q[i + 1] /\ i + 1 \in 1..n
  BY <1>2, <1>3
<1> HIDE DEF t
<1>5. \A i \in 1..n : q[i].do \in {"ack", "half"} /\ (q[i].do = "half" => q[i].s \in ToSet(c.ss))
  <2>1. 1 \in 1..n /\ \A i \in 1..n : i \in 1..n /\ i >= 1
    BY <1>4
  <2>2. QED
    BY <1>3, <2>1 DEF Shape
<1>6. \A i \in 1..n - 1 : t[i].do \in {"ack", "half"} /\ (t[i].do = "half" => t[i].s \in ToSet(c.ss))
  BY <1>4, <1>5
<1>7. n - 1 \in 1..n - 1 /\ (n - 1) + 1 = n
  BY <1>4
<1>8. t[Len(t)].do \in {"half", "commit"}
  <2>1. t[n - 1] = q[n]
    BY <1>4, <1>7
  <2>2. QED
    BY <1>1, <1>3, <1>4, <2>1
<1>9. t # <<>>
  <2>1. Len(t) # 0
    BY <1>4
  <2>2. QED
    BY <1>2, <2>1, ListFacts
<1>10. \A i \in 1..n - 1 : \A j \in i..n - 1 : j \in 1..n - 1
  OBVIOUS
<1>11. Shape(t, c)
  BY <1>2, <1>4, <1>6, <1>8, <1>9, <1>10 DEF Shape
<1>12. QED
  BY <1>4, <1>6, <1>11 DEF t

LEMMA ThreeSteps ==
  ASSUME NEW v, NEW a, NEW h
  PROVE  <<v>> \o <<a, h>> = <<v, a, h>>
<1>1. PICK x, y, z : x = <<v>> /\ y = <<a, h>> /\ z = <<v, a, h>>
  OBVIOUS
<1>2. /\ IsList(x) /\ Len(x) = 1 /\ x[1] = v /\ IsList(y) /\ Len(y) = 2
  BY <1>1, Tuples
<1>3. y[1] = a /\ y[2] = h
  BY <1>1
<1>4. IsList(z) /\ Len(z) = 3 /\ z[1] = v /\ z[2] = a /\ z[3] = h
  <2>1. IsList(<<v, a, h>>) /\ Len(<<v, a, h>>) = 3
        /\ <<v, a, h>>[1] = v /\ <<v, a, h>>[2] = a /\ <<v, a, h>>[3] = h
    BY Triple
  <2>2. QED
    BY <1>1, <2>1
<1>5. /\ IsList(x \o y) /\ Len(x \o y) = Len(x) + Len(y)
      /\ \A i \in 1..Len(x) : (x \o y)[i] = x[i]
      /\ \A i \in 1..Len(y) : (x \o y)[Len(x) + i] = y[i]
  <2>1. \A u, w : IsList(u) /\ IsList(w) =>
          /\ IsList(u \o w) /\ Len(u \o w) = Len(u) + Len(w)
          /\ \A i \in 1..Len(u) : (u \o w)[i] = u[i]
          /\ \A i \in 1..Len(w) : (u \o w)[Len(u) + i] = w[i]
    BY ConcatLists
  <2>2. IsList(x) /\ IsList(y)
    BY <1>2
  <2>3. QED
    BY <2>1, <2>2
<1>6. (x \o y)[1] = v /\ (x \o y)[2] = a /\ (x \o y)[3] = h /\ Len(x \o y) = 3
  <2>1. 1 \in 1..1 /\ 1 \in 1..2 /\ 2 \in 1..2 /\ 1 + 1 = 2 /\ 1 + 2 = 3
    OBVIOUS
  <2>2. QED
    BY <1>2, <1>3, <1>5, <2>1
<1>7. \A i \in 1..3 : i = 1 \/ i = 2 \/ i = 3
  OBVIOUS
<1>8. \A i \in 1..Len(x \o y) : (x \o y)[i] = z[i]
  BY <1>4, <1>6, <1>7
<1>9. x \o y = z
  BY <1>4, <1>5, <1>6, <1>8, ListEqual
<1>10. QED
  BY <1>1, <1>9

LEMMA SkipShape ==
  ASSUME NEW r \in Rank, LocallySound, job[r] # None, job[r].op = "SYNC", NEW rc
  PROVE  /\ Skip(r, rc) = <<Vote(3, rc), Ack, Half(job[r].ss[1])>>
         /\ Shape(Skip(r, rc), job[r])
<1> DEFINE c == job[r]
           v == Vote(3, rc)
           a == Ack
           h == Half(c.ss[1])
           q == <<v, a, h>>
<1>1. env \in Settings /\ c \in Commands /\ c.ss[1] \in ToSet(c.ss)
  <2>1. env \in Settings /\ c \in Commands
    BY DEF LocallySound
  <2>2. QED
    BY <2>1, CommandFacts
<1>2. v.do = "vote" /\ a.do = "ack" /\ h.do = "half" /\ h.s = c.ss[1]
  BY DEF Vote, Ack, Half
<1>3. Skip(r, rc) = <<v>> \o <<a, h>>
  BY DEF Skip, Ending
<1> HIDE DEF v, a, h
<1>4. IsList(q) /\ Len(q) = 3 /\ q[1] = v /\ q[2] = a /\ q[3] = h
  BY Triple
<1>5. <<v>> \o <<a, h>> = q
  BY ThreeSteps
<1>6. q # <<>>
  BY <1>4, ListFacts
<1> HIDE DEF q
<1>7. \A i \in 1..3 : i = 1 \/ i = 2 \/ i = 3
  OBVIOUS
<1>8. /\ \A i \in 1..3 : /\ q[i].do \in {"vote", "ack", "half"}
                         /\ q[i].do = "half" => q[i].s \in ToSet(c.ss)
                         /\ q[i].do \in {"ack", "half"} => i # 1
      /\ \A i \in 2..3 : q[i].do \in {"ack", "half"}
  BY <1>1, <1>2, <1>4, <1>7
<1>9. \A i \in 1..3 : i # 1 => \A j \in i..3 : j \in 2..3
  OBVIOUS
<1>10. Shape(q, c)
  BY <1>2, <1>4, <1>6, <1>8, <1>9 DEF Shape
<1>11. QED
  BY <1>3, <1>5, <1>10 DEF q, v, a, h

LEMMA WrittenSound ==
  ASSUME LocallySound, NEW r \in Rank, Written(r),
         UNCHANGED <<gateDead, failed, torn, logits, env>>,
         \/ sync' = sync
         \/ \E d \in BOOLEAN : sync' = [sync EXCEPT ![r] = [rc |-> sync[r].rc, cancelled |-> d]],
         gateSeq' = gateSeq \/ gateSeq' = [gateSeq EXCEPT ![r] = gateSeq[r] + 1]
  PROVE  LocallySound'
<1>1. /\ Domains /\ stopped \in BOOLEAN /\ alive \in BOOLEAN /\ (stopped => job[L] = None)
      /\ \A q \in Rank : /\ gateDead[q] = FALSE /\ failed[q] = FALSE /\ gateSeq[q] \in Nat
                         /\ SyncSound(sync[q]) /\ SessionSound(sess[q])
                         /\ JobSound(job[q], todo[q])
  BY SoundParts
<1>2. /\ job' = job /\ todo' = todo /\ sess' = sess /\ alive' = alive /\ stopped' = stopped
      /\ sent' = [sent EXCEPT ![r] = TRUE] /\ (At(r, "gate") \/ At(r, "vote"))
      /\ Stands(Peer(r)) /\ Head1(r)' = Head1(r)
  BY DEF Written
<1>3. \/ frames' = frames \/ \E x : frames' = [frames EXCEPT ![r] = x]
  BY DEF Written
<1>4. \/ gates' = gates \/ \E x : gates' = [gates EXCEPT ![r] = x]
  BY DEF Written
<1>5. Domains'
  <2>1. DOMAIN frames' = Rank /\ DOMAIN gates' = Rank
    BY <1>1, <1>3, <1>4 DEF Domains
  <2>2. DOMAIN sync' = Rank /\ DOMAIN gateSeq' = Rank /\ DOMAIN sent' = Rank
    BY <1>1, <1>2 DEF Domains
  <2>3. QED
    BY <1>1, <1>2, <2>1, <2>2 DEF Domains
<1>6. WaitSound(r)'
  <2>1. sent'[r] = TRUE
    BY <1>1, <1>2 DEF Domains
  <2>2. At(r, "gate")' \/ At(r, "vote")'
    BY <1>2 DEF At
  <2>3. QED
    BY <2>1, <2>2 DEF WaitSound
<1>7. SyncSound(sync'[r])
  <2>1. CASE sync' = sync
    BY <1>1, <2>1
  <2>2. ASSUME NEW d \in BOOLEAN, sync' = [sync EXCEPT ![r] = [rc |-> sync[r].rc, cancelled |-> d]]
        PROVE  SyncSound(sync'[r])
    <3>1. sync'[r] = [rc |-> sync[r].rc, cancelled |-> d]
      BY <1>1, <2>2 DEF Domains
    <3>2. QED
      BY <1>1, <3>1 DEF SyncSound
  <2>3. QED
    BY <2>1, <2>2
<1>8. SessionSound(sess'[r]) /\ JobSound(job'[r], todo'[r])
  BY <1>1, <1>2
<1>9. \A q \in Rank : gateSeq'[q] \in Nat
  BY <1>1 DEF Domains
<1>10. /\ job'[Peer(r)] = job[Peer(r)] /\ todo'[Peer(r)] = todo[Peer(r)]
       /\ sent'[Peer(r)] = sent[Peer(r)] /\ sync'[Peer(r)] = sync[Peer(r)]
       /\ sess'[Peer(r)] = sess[Peer(r)]
  BY <1>2 DEF Stands
<1>11. /\ env' = env /\ torn' = torn /\ gateDead' = gateDead /\ \A q \in Rank : failed'[q] = FALSE
  BY <1>1
<1>12. stopped' \in BOOLEAN /\ alive' \in BOOLEAN /\ (stopped' => job'[L] = None)
  BY <1>1, <1>2
<1>13. QED
  BY <1>5, <1>6, <1>7, <1>8, <1>9, <1>10, <1>11, <1>12, SoundAfter

\* The list of a rank that has passed a step.
LEMMA OnwardShape ==
  ASSUME LocallySound, NEW r \in Rank, NEW kind \in {"gate", "vote"}, NEW c, Waits(r, kind)
  PROVE  Shape(Onward(r, kind, c), job[r])
<1>1. job[r] # None /\ Head1(r).do = kind
  BY DEF Waits, At
<1>2. Shape(Tail(todo[r]), job[r]) /\ (kind = "vote" => job[r].op = "SYNC")
  BY <1>1, HeadFacts
<1>3. CASE kind = "gate"
  BY <1>2, <1>3 DEF Onward
<1>4. CASE kind = "vote"
  <2>1. \A rc : Shape(Skip(r, rc), job[r])
    BY <1>1, <1>2, <1>4, SkipShape
  <2>2. Shape(AfterVote(r, c), job[r])
    <3>1. \E rc : AfterVote(r, c) = Skip(r, rc) \/ AfterVote(r, c) = Tail(todo[r])
      BY DEF AfterVote
    <3>2. QED
      BY <1>2, <2>1, <3>1
  <2>3. QED
    BY <1>4, <2>2 DEF Onward
<1>5. QED
  BY <1>3, <1>4

LEMMA JoinedSound ==
  ASSUME LocallySound, NEW r \in Rank, Waits(r, "gate")
  PROVE  SessionSound(Joined(r)) /\ Head1(r).s \in Sessions
<1>1. job[r] # None /\ Head1(r).do = "gate"
  BY DEF Waits, At
<1>2. Shape(todo[r], job[r]) /\ 1 \in 1..Len(todo[r]) /\ Head1(r) = todo[r][1]
  BY <1>1, HeadFacts
<1>3. Head1(r).s \in Sessions /\ Head1(r).toks \in Seq(Token)
  BY <1>1, <1>2 DEF Shape
<1>4. PICK x, s, y : /\ x = sess[r] /\ s = Head1(r).s
                     /\ y = [toks |-> Head1(r).toks, valid |-> TRUE, pure |-> TRUE]
  OBVIOUS
<1>5. SessionSound(x) /\ s \in Sessions /\ y.pure = TRUE /\ y.toks \in Seq(Token)
  BY <1>3, <1>4, SoundParts
<1>6. SessionSound([x EXCEPT ![s] = y])
  BY <1>5, SessionUpdated
<1>7. Joined(r) = [x EXCEPT ![s] = y]
  BY <1>4 DEF Joined
<1>8. QED
  BY <1>3, <1>6, <1>7

LEMMA PassesSound ==
  ASSUME LocallySound, NEW r \in Rank, NEW kind \in {"gate", "vote"}, NEW c \in BOOLEAN,
         Passes(r, kind, c), UNCHANGED <<gateDead, failed, torn, env>>,
         DOMAIN logits' = Sessions,
         \/ sync' = sync
         \/ \E rc \in {OK, INTERRUPTED}, d \in BOOLEAN :
              sync' = [sync EXCEPT ![r] = [rc |-> rc, cancelled |-> d]]
  PROVE  LocallySound'
<1>1. /\ Domains /\ stopped \in BOOLEAN /\ alive \in BOOLEAN /\ (stopped => job[L] = None)
      /\ \A q \in Rank : /\ gateDead[q] = FALSE /\ failed[q] = FALSE /\ gateSeq[q] \in Nat
                         /\ SyncSound(sync[q]) /\ SessionSound(sess[q])
                         /\ JobSound(job[q], todo[q])
  BY SoundParts
<1>2. /\ Waits(r, kind)
      /\ job' = job /\ alive' = alive /\ stopped' = stopped /\ gateSeq' = gateSeq
      /\ todo' = [todo EXCEPT ![r] = Onward(r, kind, c)]
      /\ sent' = [sent EXCEPT ![r] = FALSE]
      /\ sess' = [sess EXCEPT ![r] = SessionsOf(r, kind)]
      /\ Stands(Peer(r))
      /\ gates' = gates \/ \E x : gates' = [gates EXCEPT ![Peer(r)] = x]
      /\ frames' = frames \/ \E x : frames' = [frames EXCEPT ![Peer(r)] = x]
  BY DEF Passes
<1>3. /\ DOMAIN sess' = Rank /\ sess' = [q \in Rank |-> sess'[q]]
      /\ sess'[r] = SessionsOf(r, kind)
  <2>1. PICK x : x = SessionsOf(r, kind)
    OBVIOUS
  <2>2. sess' = [sess EXCEPT ![r] = x]
    BY <1>2, <2>1
  <2>3. QED
    BY <2>1, <2>2, SessUpdated
<1>4. Domains'
  <2>1. DOMAIN frames' = Rank /\ DOMAIN gates' = Rank
    BY <1>1, <1>2 DEF Domains
  <2>2. DOMAIN sync' = Rank /\ DOMAIN todo' = Rank /\ DOMAIN sent' = Rank
    BY <1>1, <1>2 DEF Domains
  <2>3. QED
    BY <1>1, <1>2, <1>3, <2>1, <2>2 DEF Domains
<1>5. sent'[r] = FALSE /\ todo'[r] = Onward(r, kind, c) /\ job'[r] = job[r]
  BY <1>1, <1>2 DEF Domains
<1>6. WaitSound(r)'
  BY <1>5 DEF WaitSound
<1>7. SyncSound(sync'[r])
  <2>1. CASE sync' = sync
    BY <1>1, <2>1
  <2>2. ASSUME NEW rc \in {OK, INTERRUPTED}, NEW d \in BOOLEAN,
               sync' = [sync EXCEPT ![r] = [rc |-> rc, cancelled |-> d]]
        PROVE  SyncSound(sync'[r])
    <3>1. sync'[r] = [rc |-> rc, cancelled |-> d]
      BY <1>1, <2>2 DEF Domains
    <3>2. QED
      BY <3>1 DEF SyncSound
  <2>3. QED
    BY <2>1, <2>2
<1>8. SessionSound(sess'[r])
  <2>1. CASE kind = "gate"
    BY <1>2, <1>3, <2>1, JoinedSound DEF SessionsOf
  <2>2. CASE kind = "vote"
    BY <1>1, <1>3, <2>2 DEF SessionsOf
  <2>3. QED
    BY <2>1, <2>2
<1>9. JobSound(job'[r], todo'[r])
  <2>1. Shape(Onward(r, kind, c), job[r])
    BY <1>2, OnwardShape
  <2>2. QED
    BY <1>1, <1>5, <2>1 DEF JobSound
<1>10. /\ job'[Peer(r)] = job[Peer(r)] /\ todo'[Peer(r)] = todo[Peer(r)]
       /\ sent'[Peer(r)] = sent[Peer(r)] /\ sync'[Peer(r)] = sync[Peer(r)]
       /\ sess'[Peer(r)] = sess[Peer(r)]
  BY <1>2 DEF Stands
<1>11. /\ env' = env /\ torn' = torn /\ gateDead' = gateDead /\ \A q \in Rank : failed'[q] = FALSE
       /\ \A q \in Rank : gateSeq'[q] \in Nat
  BY <1>1, <1>2
<1>12. stopped' \in BOOLEAN /\ alive' \in BOOLEAN /\ (stopped' => job'[L] = None)
  BY <1>1, <1>2
<1>13. QED
  BY <1>4, <1>6, <1>7, <1>8, <1>9, <1>10, <1>11, <1>12, SoundAfter

\* A rank that takes nothing but its list a step further, or ends its command.
LEMMA ReturnsSound ==
  ASSUME LocallySound, NEW r \in Rank, sent' = [sent EXCEPT ![r] = FALSE],
         NEW x, SessionSound(x), sess' = sess \/ sess' = [sess EXCEPT ![r] = x],
         \/ job' = job /\ \E q : Shape(q, job[r]) /\ todo' = [todo EXCEPT ![r] = q]
         \/ job' = [job EXCEPT ![r] = None] /\ todo' = [todo EXCEPT ![r] = <<>>],
         UNCHANGED <<gateDead, torn, env, sync, gates, gateSeq, alive, stopped>>,
         DOMAIN failed' = Rank, \A q \in Rank : failed'[q] = FALSE,
         DOMAIN frames' = Rank, DOMAIN logits' = Sessions
  PROVE  LocallySound'
<1>1. /\ Domains /\ stopped \in BOOLEAN /\ alive \in BOOLEAN /\ (stopped => job[L] = None)
      /\ \A q \in Rank : /\ gateDead[q] = FALSE /\ gateSeq[q] \in Nat
                         /\ SyncSound(sync[q]) /\ SessionSound(sess[q])
                         /\ JobSound(job[q], todo[q])
  BY SoundParts
<1>2. Peer(r) \in Rank /\ Peer(r) # r
  BY Ranks
<1>3. /\ DOMAIN sess' = Rank /\ sess' = [q \in Rank |-> sess'[q]]
      /\ SessionSound(sess'[r]) /\ sess'[Peer(r)] = sess[Peer(r)]
  <2>1. CASE sess' = sess
    BY <1>1, <2>1 DEF Domains
  <2>2. CASE sess' = [sess EXCEPT ![r] = x]
    BY <2>2, SessUpdated
  <2>3. QED
    BY <2>1, <2>2
<1>4. /\ DOMAIN job' = Rank /\ DOMAIN todo' = Rank /\ DOMAIN sent' = Rank
      /\ job'[Peer(r)] = job[Peer(r)] /\ todo'[Peer(r)] = todo[Peer(r)]
      /\ sent'[Peer(r)] = sent[Peer(r)] /\ sent'[r] = FALSE
  BY <1>1, <1>2 DEF Domains
<1>5. Domains'
  BY <1>1, <1>3, <1>4 DEF Domains
<1>6. JobSound(job'[r], todo'[r])
  <2>1. ASSUME NEW q, job' = job, Shape(q, job[r]), todo' = [todo EXCEPT ![r] = q]
        PROVE  JobSound(job'[r], todo'[r])
    <3>1. todo'[r] = q /\ job'[r] = job[r]
      BY <1>1, <2>1 DEF Domains
    <3>2. QED
      BY <1>1, <2>1, <3>1 DEF JobSound
  <2>2. CASE job' = [job EXCEPT ![r] = None]
    <3>1. job'[r] = None
      BY <1>1, <2>2 DEF Domains
    <3>2. QED
      BY <3>1 DEF JobSound
  <2>3. QED
    BY <2>1, <2>2
<1>7. WaitSound(r)'
  BY <1>4 DEF WaitSound
<1>8. job'[L] = job[L] \/ job'[L] = None
  BY <1>1, Ranks DEF Domains
<1>9. stopped' \in BOOLEAN /\ alive' \in BOOLEAN /\ (stopped' => job'[L] = None)
  BY <1>1, <1>8
<1>10. /\ SyncSound(sync'[r]) /\ sync'[Peer(r)] = sync[Peer(r)]
       /\ \A q \in Rank : gateSeq'[q] \in Nat
  BY <1>1
<1>11. env' = env /\ torn' = torn /\ gateDead' = gateDead
  OBVIOUS
<1>12. QED
  BY <1>3, <1>4, <1>5, <1>6, <1>7, <1>9, <1>10, <1>11, SoundAfter

LEMMA GivesSound ==
  ASSUME LocallySound, NEW f, Gives(f), UNCHANGED <<gateDead, failed, torn, logits, env, sync>>
  PROVE  LocallySound'
<1>1. /\ Domains /\ SessionSound(sess[W]) /\ \A q \in Rank : failed[q] = FALSE
  BY SoundParts, Ranks
<1>2. /\ job[W] # None /\ Head1(W).do \in {"ack", "half"}
      /\ frames' = [frames EXCEPT ![W] = Append(frames[W], f)]
      /\ sess' = sess /\ gates' = gates /\ gateSeq' = gateSeq /\ alive' = alive
      /\ stopped' = stopped /\ sent' = [sent EXCEPT ![W] = FALSE]
      /\ \/ job' = job /\ todo' = [todo EXCEPT ![W] = Tail(todo[W])] /\ Len(todo[W]) > 1
         \/ job' = [job EXCEPT ![W] = None] /\ todo' = [todo EXCEPT ![W] = <<>>]
  BY DEF Gives
<1>3. PICK x : x = sess[W]
  OBVIOUS
<1>4. SessionSound(x)
  BY <1>1, <1>3
<1>5. \/ job' = job /\ \E q : Shape(q, job[W]) /\ todo' = [todo EXCEPT ![W] = q]
      \/ job' = [job EXCEPT ![W] = None] /\ todo' = [todo EXCEPT ![W] = <<>>]
  <2>1. CASE job' = job /\ todo' = [todo EXCEPT ![W] = Tail(todo[W])] /\ Len(todo[W]) > 1
    <3>1. Shape(todo[W], job[W]) /\ todo[W][1] = Head1(W)
      BY <1>2, HeadFacts, Ranks
    <3>2. PICK q, c : q = todo[W] /\ c = job[W]
      OBVIOUS
    <3>3. Shape(q, c) /\ q[1].do \in {"ack", "half"} /\ Len(q) > 1
      BY <1>2, <2>1, <3>1, <3>2
    <3>4. Shape(Tail(q), c)
      BY <3>3, AnswersLeft
    <3>5. QED
      BY <2>1, <3>2, <3>4
  <2>2. QED
    BY <1>2, <2>1
<1>6. DOMAIN frames' = Rank /\ DOMAIN failed' = Rank /\ DOMAIN logits' = Sessions
  BY <1>1, <1>2 DEF Domains
<1>7. W \in Rank /\ \A q \in Rank : failed'[q] = FALSE
  BY <1>1, Ranks
<1>8. UNCHANGED <<gateDead, torn, env, sync, gates, gateSeq, alive, stopped>>
  BY <1>2
<1>9. QED
  BY <1>2, <1>4, <1>5, <1>6, <1>7, <1>8, ReturnsSound

\* The leader has read an answer.
LEMMA ReadsSound ==
  ASSUME LocallySound, UNCHANGED <<gateDead, torn, env, sync, gates, gateSeq, alive, stopped>>,
         DOMAIN failed' = Rank, \A q \in Rank : failed'[q] = FALSE,
         DOMAIN frames' = Rank, DOMAIN logits' = Sessions,
         job[L] # None, Head1(L).do \in {"ack", "half"},
         \/ TakesAnswer
         \/ Returns /\ sess' = sess
         \/ \E s \in Sessions : Forgets(s)
  PROVE  LocallySound'
<1>1. SessionSound(sess[L]) /\ L \in Rank
  BY SoundParts, Ranks
<1>2. PICK x : x = sess[L]
  OBVIOUS
<1>3. CASE TakesAnswer
  <2>1. /\ job' = job /\ sess' = sess /\ Len(todo[L]) > 1
        /\ sent' = [sent EXCEPT ![L] = FALSE] /\ todo' = [todo EXCEPT ![L] = Tail(todo[L])]
    BY <1>3 DEF TakesAnswer
  <2>2. Shape(todo[L], job[L]) /\ todo[L][1] = Head1(L)
    BY HeadFacts, Ranks
  <2>3. PICK q, c : q = todo[L] /\ c = job[L]
    OBVIOUS
  <2>4. Shape(q, c) /\ q[1].do \in {"ack", "half"} /\ Len(q) > 1
    BY <2>1, <2>2, <2>3
  <2>5. Shape(Tail(q), c)
    BY <2>4, AnswersLeft
  <2>6. \E z : Shape(z, job[L]) /\ todo' = [todo EXCEPT ![L] = z]
    BY <2>1, <2>3, <2>5
  <2>7. SessionSound(x)
    BY <1>1, <1>2
  <2>8. QED
    BY <1>1, <2>1, <2>6, <2>7, ReturnsSound
<1>4. CASE Returns /\ sess' = sess
  <2>1. SessionSound(x)
    BY <1>1, <1>2
  <2>2. QED
    BY <1>1, <1>4, <2>1, ReturnsSound DEF Returns
<1>5. ASSUME NEW s \in Sessions, Forgets(s) PROVE LocallySound'
  <2>1. PICK y : y = [z \in Sessions |-> IF z = s THEN Fresh ELSE x[z]]
    OBVIOUS
  <2>2. SessionSound(y)
    BY <1>1, <1>2, <2>1, SessionForgotten
  <2>3. /\ job' = [job EXCEPT ![L] = None] /\ todo' = [todo EXCEPT ![L] = <<>>]
        /\ sent' = [sent EXCEPT ![L] = FALSE]
    BY <1>5 DEF Forgets, Returns
  <2>4. sess' = [sess EXCEPT ![L] = y]
    BY <1>2, <1>5, <2>1 DEF Forgets
  <2>5. QED
    BY <1>1, <2>2, <2>3, <2>4, ReturnsSound
<1>6. QED
  BY <1>3, <1>4, <1>5

\* The sessions a commit leaves.
LEMMA KeptSound ==
  ASSUME LocallySound, NEW r \in Rank, job[r] # None, Head1(r).do = "commit", NEW n \in 1..2
  PROVE  /\ job[r].ss[1] \in Sessions /\ Head1(r).kept.pure = TRUE
         /\ Head1(r).kept.toks \in Seq(Token)
         /\ LET s == job[r].ss[1]
                x == KeptOf(r, s, Head1(r).kept, n) IN
            /\ x.pure = TRUE /\ x.toks \in Seq(Token)
            /\ SessionSound([sess[r] EXCEPT ![s] = x])
            /\ SessionSound([sess[r] EXCEPT ![s] = Head1(r).kept])
<1>1. /\ Shape(todo[r], job[r]) /\ 1 \in 1..Len(todo[r]) /\ Head1(r) = todo[r][1]
      /\ job[r] \in Commands /\ job[r].op = "VERIFY" /\ env \in Settings
  BY HeadFacts
<1>2. /\ Head1(r).kept.pure = TRUE /\ Head1(r).kept.toks \in Seq(Token)
  BY <1>1 DEF Shape
<1>3. job[r].ss[1] \in Sessions /\ job[r].toks \in Seq(Token) /\ Len(job[r].toks) = 2
  BY <1>1, CommandFacts
<1>4. SessionSound(sess[r])
  BY SoundParts
<1>5. PICK s, k, p, y : /\ s = job[r].ss[1] /\ k = Head1(r).kept /\ p = job[r].toks /\ y = sess[r]
  OBVIOUS
<1>6. SubSeq(p, 1, n) \in Seq(Token)
  <2>1. p \in Seq(Token) /\ \A i \in 1..n : i \in 1..Len(p)
    <3>1. Len(p) = 2 /\ p \in Seq(Token)
      BY <1>3, <1>5
    <3>2. \A i \in 1..n : i \in 1..2
      OBVIOUS
    <3>3. QED
      BY <3>1, <3>2
  <2>2. \A i \in 1..n : p[i] \in Token
    BY <2>1
  <2>3. QED
    BY <2>1, <2>2, SubSeqProperties
<1>7. PICK x : x = KeptOf(r, s, k, n)
  OBVIOUS
<1>8. x.pure = TRUE /\ x.toks \in Seq(Token)
  <2>1. x.toks = k.toks \o SubSeq(p, 1, n)
    BY <1>5, <1>7 DEF KeptOf
  <2>2. k.toks \o SubSeq(p, 1, n) \in Seq(Token)
    BY <1>2, <1>5, <1>6, ConcatProperties
  <2>3. x.pure = TRUE
    BY <1>3, <1>4, <1>5, <1>7 DEF KeptOf, SessionSound
  <2>4. QED
    BY <2>1, <2>2, <2>3
<1>9. SessionSound([y EXCEPT ![s] = x])
  BY <1>3, <1>4, <1>5, <1>8, SessionUpdated
<1>10. SessionSound([y EXCEPT ![s] = k])
  BY <1>2, <1>3, <1>4, <1>5, SessionUpdated
<1>11. QED
  BY <1>2, <1>3, <1>5, <1>7, <1>8, <1>9, <1>10

LEMMA CommitsSound ==
  ASSUME LocallySound, UNCHANGED <<gateDead, torn, env, sync, gates, gateSeq, alive, stopped, failed>>,
         DOMAIN frames' = Rank, DOMAIN logits' = Sessions,
         NEW r \in Rank, job[r] # None, Head1(r).do = "commit", NEW n \in 1..2,
         Keeps(r, n) \/ Replays(r, n)
  PROVE  LocallySound'
<1>1. Domains /\ \A q \in Rank : failed[q] = FALSE
  BY SoundParts
<1>2. PICK s, k, x : s = job[r].ss[1] /\ k = Head1(r).kept /\ x = KeptOf(r, s, k, n)
  OBVIOUS
<1>3. /\ SessionSound([sess[r] EXCEPT ![s] = x]) /\ SessionSound([sess[r] EXCEPT ![s] = k])
      /\ k.toks \in Seq(Token)
  BY <1>2, KeptSound
<1>4. DOMAIN failed' = Rank /\ \A q \in Rank : failed'[q] = FALSE
  BY <1>1 DEF Domains
<1>5. UNCHANGED <<gateDead, torn, env, sync, gates, gateSeq, alive, stopped>>
  OBVIOUS
<1>6. CASE Keeps(r, n)
  <2>1. PICK y : y = [sess[r] EXCEPT ![s] = x]
    OBVIOUS
  <2>2. /\ job' = [job EXCEPT ![r] = None] /\ todo' = [todo EXCEPT ![r] = <<>>]
        /\ sent' = [sent EXCEPT ![r] = FALSE] /\ sess' = [sess EXCEPT ![r] = y]
    BY <1>2, <1>6, <2>1 DEF Keeps, WithSession
  <2>3. SessionSound(y)
    BY <1>3, <2>1
  <2>4. QED
    BY <1>4, <1>5, <2>2, <2>3, ReturnsSound
<1>7. CASE Replays(r, n)
  <2>1. PICK y, q : y = [sess[r] EXCEPT ![s] = k] /\ q = ReplaySteps(s, k, job[r].toks, n)
    OBVIOUS
  <2>2. /\ job' = job /\ todo' = [todo EXCEPT ![r] = q]
        /\ sent' = [sent EXCEPT ![r] = FALSE] /\ sess' = [sess EXCEPT ![r] = y]
    BY <1>2, <1>7, <2>1 DEF Replays, WithSession
  <2>3. Shape(q, job[r])
    <3>1. PICK c : c = job[r]
      OBVIOUS
    <3>2. env \in Settings /\ c \in Commands /\ c.op = "VERIFY"
      BY <3>1, HeadFacts
    <3>3. Shape(ReplaySteps(c.ss[1], k, c.toks, n), c)
      BY <1>3, <3>2, ReplayShape
    <3>4. QED
      BY <1>2, <2>1, <3>1, <3>3
  <2>4. SessionSound(y)
    BY <1>3, <2>1
  <2>5. job' = job /\ \E z : Shape(z, job[r]) /\ todo' = [todo EXCEPT ![r] = z]
    BY <2>2, <2>3
  <2>6. QED
    BY <1>4, <1>5, <2>2, <2>4, <2>5, ReturnsSound
<1>8. QED
  BY <1>6, <1>7

LEMMA BeginsSound ==
  ASSUME LocallySound, NEW r \in Rank, NEW c \in Commands, c.op # "INVALIDATE", ~stopped,
         job' = [job EXCEPT ![r] = c], todo' = [todo EXCEPT ![r] = Steps(r, c)],
         sent' = [sent EXCEPT ![r] = FALSE],
         sync' = [sync EXCEPT ![r] = [rc |-> OK, cancelled |-> FALSE]],
         UNCHANGED <<gateDead, torn, env, gates, gateSeq, alive, stopped, failed, sess, logits>>,
         DOMAIN frames' = Rank
  PROVE  LocallySound'
<1>1. /\ Domains /\ stopped \in BOOLEAN /\ alive \in BOOLEAN
      /\ \A q \in Rank : /\ failed[q] = FALSE /\ gateSeq[q] \in Nat /\ SessionSound(sess[q])
  BY SoundParts
<1>2. Peer(r) \in Rank /\ Peer(r) # r
  BY Ranks
<1>3. Shape(Steps(r, c), c)
  BY StepsShape
<1>4. /\ job'[r] = c /\ todo'[r] = Steps(r, c) /\ sent'[r] = FALSE
      /\ sync'[r] = [rc |-> OK, cancelled |-> FALSE]
  BY <1>1 DEF Domains
<1>5. /\ job'[Peer(r)] = job[Peer(r)] /\ todo'[Peer(r)] = todo[Peer(r)]
      /\ sent'[Peer(r)] = sent[Peer(r)] /\ sync'[Peer(r)] = sync[Peer(r)]
      /\ sess'[Peer(r)] = sess[Peer(r)]
  BY <1>1, <1>2 DEF Domains
<1>6. Domains'
  <2>1. DOMAIN job' = Rank /\ DOMAIN todo' = Rank /\ DOMAIN sent' = Rank /\ DOMAIN sync' = Rank
    BY <1>1 DEF Domains
  <2>2. QED
    BY <1>1, <2>1 DEF Domains
<1>7. WaitSound(r)'
  BY <1>4 DEF WaitSound
<1>8. SyncSound(sync'[r])
  <2>1. SyncSound([rc |-> OK, cancelled |-> FALSE])
    BY DEF SyncSound
  <2>2. QED
    BY <1>4, <2>1
<1>9. JobSound(job'[r], todo'[r])
  BY <1>3, <1>4 DEF JobSound
<1>10. SessionSound(sess'[r]) /\ \A q \in Rank : gateSeq'[q] \in Nat /\ failed'[q] = FALSE
  BY <1>1
<1>11. env' = env /\ torn' = torn /\ gateDead' = gateDead
  OBVIOUS
<1>12. stopped' \in BOOLEAN /\ alive' \in BOOLEAN /\ (stopped' => job'[L] = None)
  BY <1>1
<1>13. QED
  BY <1>5, <1>6, <1>7, <1>8, <1>9, <1>10, <1>11, <1>12, SoundAfter

\* A session is forgotten between commands, or nothing of a rank's own changes.
LEMMA QuietSound ==
  ASSUME LocallySound, NEW r \in Rank, UNCHANGED <<job, todo, sent, sync>>,
         NEW s \in Sessions,
         \/ sess' = sess
         \/ sess' = [sess EXCEPT ![r] = [z \in Sessions |-> IF z = s THEN Fresh ELSE sess[r][z]]],
         UNCHANGED <<gateDead, torn, env, gates, gateSeq, failed, logits>>,
         alive' \in BOOLEAN, stopped' \in BOOLEAN, stopped' => job'[L] = None,
         DOMAIN frames' = Rank
  PROVE  LocallySound'
<1>1. /\ Domains
      /\ \A q \in Rank : /\ failed[q] = FALSE /\ gateSeq[q] \in Nat /\ SessionSound(sess[q])
                         /\ WaitSound(q) /\ SyncSound(sync[q]) /\ JobSound(job[q], todo[q])
  BY SoundParts
<1>2. /\ DOMAIN sess' = Rank /\ sess' = [q \in Rank |-> sess'[q]]
      /\ SessionSound(sess'[r]) /\ sess'[Peer(r)] = sess[Peer(r)]
  <2>1. CASE sess' = sess
    BY <1>1, <2>1 DEF Domains
  <2>2. CASE sess' = [sess EXCEPT ![r] = [z \in Sessions |-> IF z = s THEN Fresh ELSE sess[r][z]]]
    <3>1. PICK x : x = sess[r]
      OBVIOUS
    <3>2. PICK y : y = [z \in Sessions |-> IF z = s THEN Fresh ELSE x[z]]
      OBVIOUS
    <3>3. SessionSound(y)
      BY <1>1, <3>1, <3>2, SessionForgotten
    <3>4. sess' = [sess EXCEPT ![r] = y]
      BY <2>2, <3>1, <3>2
    <3>5. QED
      BY <3>3, <3>4, SessUpdated
  <2>3. QED
    BY <2>1, <2>2
<1>3. Domains'
  BY <1>1, <1>2 DEF Domains
<1>4. WaitSound(r)'
  BY <1>1 DEF WaitSound, At, Head1
<1>5. SyncSound(sync'[r]) /\ JobSound(job'[r], todo'[r])
  BY <1>1
<1>6. /\ job'[Peer(r)] = job[Peer(r)] /\ todo'[Peer(r)] = todo[Peer(r)]
      /\ sent'[Peer(r)] = sent[Peer(r)] /\ sync'[Peer(r)] = sync[Peer(r)]
  OBVIOUS
<1>7. \A q \in Rank : gateSeq'[q] \in Nat /\ failed'[q] = FALSE
  BY <1>1
<1>8. env' = env /\ torn' = torn /\ gateDead' = gateDead
  OBVIOUS
<1>9. QED
  BY <1>2, <1>3, <1>4, <1>5, <1>6, <1>7, <1>8, SoundAfter

LEMMA IssueSound ==
  ASSUME LocallySound, InStep, NEW c \in Commands, Issue(c)
  PROVE  LocallySound'
<1>1. /\ stopped \in BOOLEAN /\ alive \in BOOLEAN /\ (stopped => job[L] = None)
  BY SoundParts
<1>2. /\ UNCHANGED <<gateDead, torn, env, gates, gateSeq, alive, stopped, failed, logits>>
      /\ DOMAIN frames' = Rank /\ job[L] = None /\ ~stopped
      /\ \/ /\ c.op = "INVALIDATE" /\ UNCHANGED <<job, todo, sent, sync>>
            /\ \E s \in Sessions :
                 sess' = [sess EXCEPT ![L] =
                            [z \in Sessions |-> IF z = s THEN Fresh ELSE sess[L][z]]]
         \/ /\ c.op # "INVALIDATE" /\ sess' = sess /\ job' = [job EXCEPT ![L] = c]
            /\ todo' = [todo EXCEPT ![L] = Steps(L, c)] /\ sent' = [sent EXCEPT ![L] = FALSE]
            /\ sync' = [sync EXCEPT ![L] = [rc |-> OK, cancelled |-> FALSE]]
  BY IssueAnnounces
<1>3. CASE c.op = "INVALIDATE"
  <2>1. PICK s \in Sessions :
          sess' = [sess EXCEPT ![L] = [z \in Sessions |-> IF z = s THEN Fresh ELSE sess[L][z]]]
    BY <1>2, <1>3
  <2>2. UNCHANGED <<job, todo, sent, sync>>
    BY <1>2, <1>3
  <2>3. alive' \in BOOLEAN /\ stopped' \in BOOLEAN /\ (stopped' => job'[L] = None)
    BY <1>1, <1>2, <2>2
  <2>4. QED
    BY <1>2, <2>1, <2>2, <2>3, QuietSound, Ranks
<1>4. CASE c.op # "INVALIDATE"
  BY <1>2, <1>4, BeginsSound, Ranks
<1>5. QED
  BY <1>3, <1>4

LEMMA StopSound ==
  ASSUME LocallySound, InStep, Stop
  PROVE  LocallySound'
<1>1. /\ UNCHANGED <<gateDead, torn, env, sync, gates, gateSeq, alive, failed, logits,
                     sess, job, todo, sent>>
      /\ DOMAIN frames' = Rank /\ stopped' = TRUE /\ job[L] = None
  BY StopAnnounces
<1>2. /\ Domains /\ alive \in BOOLEAN /\ L \in Rank
      /\ \A q \in Rank : /\ failed[q] = FALSE /\ gateSeq[q] \in Nat /\ SessionSound(sess[q])
                         /\ WaitSound(q) /\ SyncSound(sync[q]) /\ JobSound(job[q], todo[q])
  BY SoundParts, Ranks
<1>3. Domains' /\ WaitSound(L)'
  BY <1>1, <1>2 DEF Domains, WaitSound, At, Head1
<1>4. /\ \A q \in Rank : gateSeq'[q] \in Nat /\ failed'[q] = FALSE
      /\ SessionSound(sess'[L]) /\ SyncSound(sync'[L]) /\ JobSound(job'[L], todo'[L])
      /\ alive' \in BOOLEAN /\ stopped' \in BOOLEAN /\ job'[L] = None
  BY <1>1, <1>2
<1>5. QED
  BY <1>1, <1>2, <1>3, <1>4, SoundAfter

LEMMA ReceiveSound ==
  ASSUME LocallySound, InStep, Receive
  PROVE  LocallySound'
<1>1. /\ UNCHANGED <<gateDead, torn, env, gates, gateSeq, stopped, failed, logits>>
      /\ DOMAIN frames' = Rank /\ job[W] = None
      /\ \/ /\ UNCHANGED <<job, todo, sent, sync, alive>>
            /\ \E s \in Sessions :
                 sess' = [sess EXCEPT ![W] =
                            [z \in Sessions |-> IF z = s THEN Fresh ELSE sess[W][z]]]
         \/ /\ sess' = sess /\ sess[W] = sess[L] /\ job[L] # None /\ alive' = alive
            /\ \E c : c = job[L] /\ Begin(W, c)
         \/ UNCHANGED <<sess, job, todo, sent, sync>> /\ alive' = FALSE
  BY ReceiveHears
<1>2. /\ Domains /\ alive \in BOOLEAN /\ stopped \in BOOLEAN /\ W \in Rank
      /\ (stopped => job[L] = None)
      /\ \A q \in Rank : /\ failed[q] = FALSE /\ gateSeq[q] \in Nat /\ SessionSound(sess[q])
                         /\ WaitSound(q) /\ SyncSound(sync[q]) /\ JobSound(job[q], todo[q])
  BY SoundParts, Ranks
<1>3. ASSUME NEW s \in Sessions, UNCHANGED <<job, todo, sent, sync, alive>>,
             sess' = [sess EXCEPT ![W] = [z \in Sessions |-> IF z = s THEN Fresh ELSE sess[W][z]]]
      PROVE  LocallySound'
  <2>1. alive' \in BOOLEAN /\ stopped' \in BOOLEAN /\ (stopped' => job'[L] = None)
    BY <1>1, <1>2, <1>3
  <2>2. QED
    BY <1>1, <1>2, <1>3, <2>1, QuietSound
<1>4. ASSUME sess' = sess, job[L] # None, alive' = alive, NEW c, c = job[L], Begin(W, c)
      PROVE  LocallySound'
  <2>1. c \in Commands /\ c.op # "INVALIDATE" /\ ~stopped
    BY <1>2, <1>4, Ranks DEF JobSound
  <2>2. /\ job' = [job EXCEPT ![W] = c] /\ todo' = [todo EXCEPT ![W] = Steps(W, c)]
        /\ sent' = [sent EXCEPT ![W] = FALSE]
        /\ sync' = [sync EXCEPT ![W] = [rc |-> OK, cancelled |-> FALSE]]
    BY <1>4 DEF Begin, Goto
  <2>3. UNCHANGED <<gateDead, torn, env, gates, gateSeq, alive, stopped, failed, sess, logits>>
    BY <1>1, <1>4
  <2>4. QED
    BY <1>1, <1>2, <2>1, <2>2, <2>3, BeginsSound
<1>5. CASE UNCHANGED <<sess, job, todo, sent, sync>> /\ alive' = FALSE
  <2>1. Domains' /\ WaitSound(W)'
    BY <1>1, <1>2, <1>5 DEF Domains, WaitSound, At, Head1
  <2>2. /\ \A q \in Rank : gateSeq'[q] \in Nat /\ failed'[q] = FALSE
        /\ SessionSound(sess'[W]) /\ SyncSound(sync'[W]) /\ JobSound(job'[W], todo'[W])
        /\ alive' \in BOOLEAN /\ stopped' \in BOOLEAN /\ (stopped' => job'[L] = None)
    BY <1>1, <1>2, <1>5
  <2>3. QED
    BY <1>1, <1>2, <1>5, <2>1, <2>2, SoundAfter
<1>6. QED
  BY <1>1, <1>3, <1>4, <1>5


-----------------------------------------------------------------------------
(* The logits, in terms of the leader's command j, what it has to do q, its*)
(* sessions x and the logits lg.                                           *)

First(q) == IF q = <<>> THEN [do |-> "none"] ELSE Head(q)
Owes(j, q, s) == j # None /\ \E i \in 1..Len(q) : q[i].do = "half" /\ q[i].s = s
SettledAs(j, q, x, s) ==
  IF j # None /\ First(q).do = "commit" /\ s = j.ss[1] THEN First(q).kept ELSE x[s]
Agreed(y, s, half, owes) ==
  y.valid => /\ half # <<>> /\ half[1] = Of(s, y) /\ y.pure = TRUE
             /\ ~owes => half = <<Of(s, y), Of(s, y)>>
Due(j, q, x) ==
  j # None => \A i \in 1..Len(q) : q[i].do = "gate" /\ ~q[i].head => q[2] = Commit(x[j.ss[1]])
Fit(j, q, x, lg) ==
  /\ \A s \in Sessions : Agreed(SettledAs(j, q, x, s), s, lg[s], Owes(j, q, s))
  /\ Due(j, q, x)

LEMMA FitIs ==
  /\ LogitsFit <=> Fit(job[L], todo[L], sess[L], logits)
  /\ LogitsFit' <=> Fit(job'[L], todo'[L], sess'[L], logits')
<1>1. LogitsFit <=> Fit(job[L], todo[L], sess[L], logits)
  <2>1. \A s : Owed(s) <=> Owes(job[L], todo[L], s)
    BY DEF Owed, Owes
  <2>2. \A s : Settled(s) = SettledAs(job[L], todo[L], sess[L], s)
    BY DEF Settled, SettledAs, At, Head1, First
  <2>3. QED
    BY <2>1, <2>2 DEF LogitsFit, Fit, Due, Agreed
<1>2. LogitsFit' <=> Fit(job'[L], todo'[L], sess'[L], logits')
  <2>1. \A s : Owed(s)' <=> Owes(job'[L], todo'[L], s)
    BY DEF Owed, Owes
  <2>2. \A s : Settled(s)' = SettledAs(job'[L], todo'[L], sess'[L], s)
    BY DEF Settled, SettledAs, At, Head1, First
  <2>3. QED
    BY <2>1, <2>2 DEF LogitsFit, Fit, Due, Agreed
<1>3. QED
  BY <1>1, <1>2

LEMMA FitStands ==
  ASSUME LogitsFit, job'[L] = job[L], todo'[L] = todo[L], sess'[L] = sess[L], logits' = logits
  PROVE  LogitsFit'
  BY FitIs

\* What a list begins with.
LEMMA FirstOf ==
  ASSUME NEW q, NEW j, Shape(q, j)
  PROVE  /\ First(q) = q[1] /\ Len(q) \in Nat /\ 1 \in 1..Len(q)
         /\ \A i \in 1..Len(q) : q[i].do = "commit" => i = Len(q) /\ j.op = "VERIFY"
         /\ \A i \in 1..Len(q) : q[i].do = "gate" /\ ~q[i].head => i = 1 /\ j.op = "VERIFY"
         /\ \A i \in 1..Len(q) : q[i].do = "half" =>
              q[i].s \in ToSet(j.ss) /\ \A k \in i..Len(q) : q[k].do \in {"ack", "half"}
<1>1. /\ q # <<>> /\ Head(q) = q[1] /\ Len(q) \in Nat /\ 1 \in 1..Len(q)
  BY ShapeFacts
<1>2. First(q) = q[1]
  BY <1>1 DEF First
<1>3. /\ \A i \in 1..Len(q) : q[i].do = "commit" => i = Len(q) /\ j.op = "VERIFY"
      /\ \A i \in 1..Len(q) : q[i].do = "gate" /\ ~q[i].head => i = 1 /\ j.op = "VERIFY"
      /\ \A i \in 1..Len(q) : q[i].do = "half" =>
           q[i].s \in ToSet(j.ss) /\ \A k \in i..Len(q) : q[k].do \in {"ack", "half"}
  BY DEF Shape
<1>4. QED
  BY <1>1, <1>2, <1>3

\* No commit is among the steps of a command that is no block.
LEMMA Unsettled ==
  ASSUME NEW q, NEW j, Shape(q, j), q[1].do # "commit"
  PROVE  \A x, s : SettledAs(j, q, x, s) = x[s]
<1>1. First(q).do # "commit"
  BY FirstOf
<1>2. QED
  BY <1>1 DEF SettledAs

\* A step of a sync the answer to which is still to come.
LEMMA SyncFit ==
  ASSUME NEW j, j # None, j.op = "SYNC", ToSet(j.ss) = {j.ss[1]},
         NEW q, Shape(q, j), NEW p, Shape(p, j), NEW x, NEW lg, Fit(j, q, x, lg)
  PROVE  Fit(j, p, x, lg)
<1>1. q[1].do # "commit" /\ p[1].do # "commit"
  BY FirstOf
<1>2. \A s \in Sessions : SettledAs(j, q, x, s) = x[s] /\ SettledAs(j, p, x, s) = x[s]
  BY <1>1, Unsettled
<1>3. \A s \in Sessions : Owes(j, q, s) => Owes(j, p, s)
  <2>1. Len(p) \in 1..Len(p) /\ p[Len(p)].do = "half"
    <3>1. Len(p) \in Nat /\ 1 \in 1..Len(p)
      BY FirstOf
    <3>2. p[Len(p)].do \in {"half", "commit"}
      BY DEF Shape
    <3>3. Len(p) \in 1..Len(p)
      BY <3>1
    <3>4. QED
      BY <3>2, <3>3, FirstOf
  <2>2. p[Len(p)].s = j.ss[1]
    BY <2>1, FirstOf
  <2>3. ASSUME NEW s, Owes(j, q, s) PROVE s = j.ss[1]
    <3>1. PICK i \in 1..Len(q) : q[i].do = "half" /\ q[i].s = s
      BY <2>3 DEF Owes
    <3>2. QED
      BY <3>1, FirstOf
  <2>4. QED
    BY <2>1, <2>2, <2>3 DEF Owes
<1>4. ASSUME NEW s \in Sessions PROVE Agreed(SettledAs(j, p, x, s), s, lg[s], Owes(j, p, s))
  <2>1. Agreed(x[s], s, lg[s], Owes(j, q, s))
    BY <1>2 DEF Fit
  <2>2. Agreed(x[s], s, lg[s], Owes(j, p, s))
    BY <1>3, <2>1 DEF Agreed
  <2>3. QED
    BY <1>2, <2>2
<1>5. Due(j, p, x)
  BY FirstOf DEF Due
<1>6. QED
  BY <1>4, <1>5 DEF Fit

\* A session is forgotten, and the answers for it with it.
LEMMA ForgottenFit ==
  ASSUME NEW j, NEW q, NEW x, NEW lg, Fit(j, q, x, lg), NEW s0 \in Sessions, NEW p,
         j # None => Shape(q, j) /\ q[1].do # "commit" /\ ToSet(j.ss) = {s0}
  PROVE  Fit(None, p, [z \in Sessions |-> IF z = s0 THEN Fresh ELSE x[z]], lg)
<1> DEFINE y == [z \in Sessions |-> IF z = s0 THEN Fresh ELSE x[z]]
<1>1. ASSUME NEW s \in Sessions PROVE Agreed(y[s], s, lg[s], FALSE)
  <2>1. CASE s = s0
    <3>1. y[s].valid = FALSE
      BY <2>1 DEF Fresh
    <3>2. QED
      BY <3>1 DEF Agreed
  <2>2. CASE s # s0
    <3>1. ~Owes(j, q, s)
      <4>1. ASSUME j # None, NEW i \in 1..Len(q), q[i].do = "half", q[i].s = s PROVE FALSE
        <5>1. q[i].s \in ToSet(j.ss)
          BY <4>1, FirstOf
        <5>2. QED
          BY <2>2, <4>1, <5>1
      <4>2. QED
        BY <4>1 DEF Owes
    <3>2. SettledAs(j, q, x, s) = x[s]
      <4>1. CASE j = None
        BY <4>1 DEF SettledAs
      <4>2. CASE j # None
        BY <4>2, Unsettled
      <4>3. QED
        BY <4>1, <4>2
    <3>3. Agreed(x[s], s, lg[s], FALSE)
      BY <3>1, <3>2 DEF Fit, Agreed
    <3>4. y[s] = x[s]
      BY <2>2
    <3>5. QED
      BY <3>3, <3>4
  <2>3. QED
    BY <2>1, <2>2
<1>2. \A s \in Sessions : SettledAs(None, p, y, s) = y[s] /\ Owes(None, p, s) = FALSE
  BY DEF SettledAs, Owes
<1> HIDE DEF y
<1>3. Fit(None, p, y, lg)
  BY <1>1, <1>2 DEF Fit, Due
<1>4. QED
  BY <1>3 DEF y


\* What is left of a list whose first step is no gate.
LEMMA RestOwes ==
  ASSUME NEW j, NEW q, Shape(q, j), Len(q) > 1
  PROVE  \A s : Owes(j, q, s) => Owes(j, Tail(q), s) \/ (q[1].do = "half" /\ q[1].s = s)
<1> DEFINE t == Tail(q)
<1>1. IsList(q) /\ q # <<>>
  BY ShapeFacts
<1>2. Len(q) \in Nat /\ Len(t) = Len(q) - 1 /\ \A i \in 1..Len(q) - 1 : t[i] = q[i + 1]
  BY <1>1, ListFacts
<1>3. PICK n \in Nat : n = Len(q)
  BY <1>2
<1> HIDE DEF t
<1>4. Len(t) = n - 1 /\ \A i \in 1..n - 1 : t[i] = q[i + 1]
  BY <1>2, <1>3
<1>5. \A i \in 1..n : i = 1 \/ (i - 1 \in 1..n - 1 /\ (i - 1) + 1 = i)
  OBVIOUS
<1>6. ASSUME NEW s, Owes(j, q, s)
      PROVE  Owes(j, t, s) \/ (q[1].do = "half" /\ q[1].s = s)
  <2>1. PICK i \in 1..n : j # None /\ q[i].do = "half" /\ q[i].s = s
    BY <1>3, <1>6 DEF Owes
  <2>2. CASE i = 1
    BY <2>1, <2>2
  <2>3. CASE i - 1 \in 1..n - 1 /\ (i - 1) + 1 = i
    <3>1. t[i - 1] = q[i]
      BY <1>4, <2>3
    <3>2. QED
      BY <1>4, <2>1, <2>3, <3>1 DEF Owes
  <2>4. QED
    BY <1>5, <2>2, <2>3
<1>7. QED
  BY <1>6 DEF t

\* The leader takes an answer: an acknowledgement, or the second half of s0.
LEMMA TakenFit ==
  ASSUME NEW j, j # None, NEW q, Shape(q, j), q[1].do \in {"ack", "half"}, Len(q) > 1,
         NEW x, NEW lg, DOMAIN lg = Sessions, Fit(j, q, x, lg), NEW lh,
         \/ q[1].do = "ack" /\ lh = lg
         \/ q[1].do = "half" /\ lh = [lg EXCEPT ![q[1].s] = <<lg[q[1].s][1], Of(q[1].s, x[q[1].s])>>]
  PROVE  Fit(j, Tail(q), x, lh)
<1> DEFINE t == Tail(q)
<1>1. /\ Shape(t, j) /\ \A i \in 1..Len(t) : t[i].do \in {"ack", "half"}
  BY AnswersLeft
<1>2. \A s : Owes(j, q, s) => Owes(j, t, s) \/ (q[1].do = "half" /\ q[1].s = s)
  BY RestOwes
<1> HIDE DEF t
<1>3. t[1].do \in {"ack", "half"}
  BY <1>1, FirstOf
<1>4. \A s : SettledAs(j, q, x, s) = x[s] /\ SettledAs(j, t, x, s) = x[s]
  BY <1>1, <1>3, Unsettled
<1>5. ASSUME NEW s \in Sessions PROVE Agreed(x[s], s, lh[s], Owes(j, t, s))
  <2>1. Agreed(x[s], s, lg[s], Owes(j, q, s))
    BY <1>4 DEF Fit
  <2>2. CASE lh[s] = lg[s] /\ (Owes(j, q, s) => Owes(j, t, s))
    BY <2>1, <2>2 DEF Agreed
  <2>3. CASE q[1].do = "half" /\ s = q[1].s
    <3>1. PICK a, b : a = lg[s][1] /\ b = Of(s, x[s])
      OBVIOUS
    <3>2. lh[s] = <<a, b>>
      BY <2>3, <3>1
    <3>3. <<a, b>> # <<>> /\ <<a, b>>[1] = a
      BY Tuples
    <3>4. x[s].valid => a = b /\ x[s].pure = TRUE
      BY <2>1, <3>1 DEF Agreed
    <3>5. x[s].valid => /\ lh[s] # <<>> /\ lh[s][1] = b /\ x[s].pure = TRUE
                        /\ lh[s] = <<b, b>>
      BY <3>2, <3>3, <3>4
    <3>6. QED
      BY <3>1, <3>5 DEF Agreed
  <2>4. CASE q[1].do = "ack"
    BY <1>2, <2>2, <2>4
  <2>5. CASE q[1].do = "half" /\ s # q[1].s
    <3>1. lh[s] = lg[s]
      BY <2>5
    <3>2. QED
      BY <1>2, <2>2, <2>5, <3>1
  <2>6. QED
    BY <2>3, <2>4, <2>5
<1>6. Due(j, t, x)
  BY <1>1 DEF Due
<1>7. Fit(j, t, x, lh)
  BY <1>4, <1>5, <1>6 DEF Fit
<1>8. QED
  BY <1>7 DEF t

\* The last answer of a command is taken.
LEMMA EndedFit ==
  ASSUME NEW j, j # None, NEW q, Shape(q, j), q[1].do = "half", Len(q) = 1,
         NEW x, NEW lg, DOMAIN lg = Sessions, Fit(j, q, x, lg), NEW p
  PROVE  Fit(None, p, x, [lg EXCEPT ![q[1].s] = <<lg[q[1].s][1], Of(q[1].s, x[q[1].s])>>])
<1> DEFINE lh == [lg EXCEPT ![q[1].s] = <<lg[q[1].s][1], Of(q[1].s, x[q[1].s])>>]
<1>1. \A s : SettledAs(j, q, x, s) = x[s]
  BY Unsettled
<1>2. \A s : SettledAs(None, p, x, s) = x[s] /\ Owes(None, p, s) = FALSE
  BY DEF SettledAs, Owes
<1>3. ASSUME NEW s \in Sessions PROVE Agreed(x[s], s, lh[s], FALSE)
  <2>1. Agreed(x[s], s, lg[s], Owes(j, q, s))
    BY <1>1 DEF Fit
  <2>2. CASE s = q[1].s
    <3>1. PICK a, b : a = lg[s][1] /\ b = Of(s, x[s])
      OBVIOUS
    <3>2. lh[s] = <<a, b>>
      BY <2>2, <3>1
    <3>3. <<a, b>> # <<>> /\ <<a, b>>[1] = a
      BY Tuples
    <3>4. x[s].valid => a = b /\ x[s].pure = TRUE
      BY <2>1, <3>1 DEF Agreed
    <3>5. x[s].valid => /\ lh[s] # <<>> /\ lh[s][1] = b /\ x[s].pure = TRUE
                        /\ lh[s] = <<b, b>>
      BY <3>2, <3>3, <3>4
    <3>6. QED
      BY <3>1, <3>5 DEF Agreed
  <2>3. CASE s # q[1].s
    <3>1. lh[s] = lg[s]
      BY <2>3
    <3>2. ~Owes(j, q, s)
      <4>1. \A i \in 1..Len(q) : i = 1
        OBVIOUS
      <4>2. QED
        BY <2>3, <4>1 DEF Owes
    <3>3. QED
      BY <2>1, <3>1, <3>2 DEF Agreed
  <2>4. QED
    BY <2>2, <2>3
<1> HIDE DEF lh
<1>4. Fit(None, p, x, lh)
  BY <1>2, <1>3 DEF Fit, Due
<1>5. QED
  BY <1>4 DEF lh

\* The same, and the sync it ended was interrupted.
LEMMA EndedForgotten ==
  ASSUME NEW j, j # None, NEW q, Shape(q, j), q[1].do = "half", ToSet(j.ss) = {j.ss[1]},
         NEW x, NEW lg, DOMAIN lg = Sessions, Fit(j, q, x, lg), NEW p,
         j.ss[1] \in Sessions, NEW y,
         y = [z \in Sessions |-> IF z = j.ss[1] THEN Fresh ELSE x[z]]
  PROVE  Fit(None, p, y, [lg EXCEPT ![q[1].s] = <<lg[q[1].s][1], Of(q[1].s, x[q[1].s])>>])
<1> DEFINE lh == [lg EXCEPT ![q[1].s] = <<lg[q[1].s][1], Of(q[1].s, x[q[1].s])>>]
<1>1. Fit(None, p, y, lg)
  BY ForgottenFit
<1>2. q[1].s = j.ss[1]
  <2>1. 1 \in 1..Len(q) /\ \A i \in 1..Len(q) : q[i].do = "half" => q[i].s \in ToSet(j.ss)
    BY FirstOf
  <2>2. QED
    BY <2>1
<1>3. \A s \in Sessions : s # q[1].s => lh[s] = lg[s]
  OBVIOUS
<1>4. y[q[1].s].valid = FALSE
  BY <1>2 DEF Fresh
<1> HIDE DEF lh
<1>5. \A s : SettledAs(None, p, y, s) = y[s] /\ Owes(None, p, s) = FALSE
  BY DEF SettledAs, Owes
<1>6. ASSUME NEW s \in Sessions PROVE Agreed(y[s], s, lh[s], FALSE)
  <2>1. Agreed(y[s], s, lg[s], FALSE)
    <3>1. Agreed(SettledAs(None, p, y, s), s, lg[s], Owes(None, p, s))
      BY <1>1 DEF Fit
    <3>2. SettledAs(None, p, y, s) = y[s] /\ Owes(None, p, s) = FALSE
      BY <1>5
    <3>3. QED
      BY <3>1, <3>2
  <2>2. CASE s = q[1].s
    BY <1>4, <2>2 DEF Agreed
  <2>3. CASE s # q[1].s
    BY <1>3, <2>1, <2>3
  <2>4. QED
    BY <2>2, <2>3
<1>7. Fit(None, p, y, lh)
  BY <1>5, <1>6 DEF Fit, Due
<1>8. QED
  BY <1>7 DEF lh

\* The leader is at the commit of a block: its logits are those of the kept session.
LEMMA CommitFits ==
  ASSUME NEW j, j # None, NEW q, Shape(q, j), q[1].do = "commit",
         NEW x, NEW lg, Fit(j, q, x, lg)
  PROVE  /\ Agreed(q[1].kept, j.ss[1], lg[j.ss[1]], FALSE) \/ j.ss[1] \notin Sessions
         /\ \A s \in Sessions : s # j.ss[1] => Agreed(x[s], s, lg[s], FALSE)
<1>1. First(q) = q[1] /\ Len(q) = 1
  BY FirstOf
<1>2. \A s : ~Owes(j, q, s)
  <2>1. \A i \in 1..Len(q) : i = 1
    BY <1>1
  <2>2. QED
    BY <2>1 DEF Owes
<1>3. ASSUME NEW s \in Sessions PROVE Agreed(SettledAs(j, q, x, s), s, lg[s], FALSE)
  BY <1>2 DEF Fit, Agreed
<1>4. \A s : SettledAs(j, q, x, s) = IF s = j.ss[1] THEN q[1].kept ELSE x[s]
  BY <1>1 DEF SettledAs
<1>5. QED
  BY <1>3, <1>4


\* A block is kept: n of its tokens, and both halves of their logits.
LEMMA KeptFit ==
  ASSUME NEW j, j # None, NEW q, Shape(q, j), q[1].do = "commit", j.ss[1] \in Sessions,
         NEW x, DOMAIN x = Sessions, NEW lg, DOMAIN lg = Sessions, Fit(j, q, x, lg), NEW p,
         NEW y, y.pure = TRUE
  PROVE  Fit(None, p, [x EXCEPT ![j.ss[1]] = y],
                      [lg EXCEPT ![j.ss[1]] = <<Of(j.ss[1], y), Of(j.ss[1], y)>>])
<1> DEFINE s0 == j.ss[1]
           xs == [x EXCEPT ![s0] = y]
           lh == [lg EXCEPT ![s0] = <<Of(s0, y), Of(s0, y)>>]
<1>1. \A s \in Sessions : s # s0 => Agreed(x[s], s, lg[s], FALSE)
  BY CommitFits
<1>2. xs[s0] = y /\ lh[s0] = <<Of(s0, y), Of(s0, y)>>
  OBVIOUS
<1>3. \A s \in Sessions : s # s0 => xs[s] = x[s] /\ lh[s] = lg[s]
  OBVIOUS
<1> HIDE DEF xs, lh, s0
<1>4. Agreed(y, s0, <<Of(s0, y), Of(s0, y)>>, FALSE)
  <2>1. PICK b : b = Of(s0, y)
    OBVIOUS
  <2>2. <<b, b>> # <<>> /\ <<b, b>>[1] = b
    BY Tuples
  <2>3. QED
    BY <2>1, <2>2 DEF Agreed
<1>5. ASSUME NEW s \in Sessions PROVE Agreed(xs[s], s, lh[s], FALSE)
  BY <1>1, <1>2, <1>3, <1>4
<1>6. \A s : SettledAs(None, p, xs, s) = xs[s] /\ Owes(None, p, s) = FALSE
  BY DEF SettledAs, Owes
<1>7. Fit(None, p, xs, lh)
  BY <1>5, <1>6 DEF Fit, Due
<1>8. QED
  BY <1>7 DEF xs, lh, s0

\* A block is replayed: the session is what it was before the block.
LEMMA ReplayedFit ==
  ASSUME NEW j, j # None, NEW q, Shape(q, j), q[1].do = "commit", j.ss[1] \in Sessions,
         NEW x, DOMAIN x = Sessions, NEW lg, Fit(j, q, x, lg),
         NEW p, Shape(p, j), p[1].do = "gate",
         \A i \in 1..Len(p) : p[i].do = "gate" => p[i].head = TRUE
  PROVE  Fit(j, p, [x EXCEPT ![j.ss[1]] = q[1].kept], lg)
<1> DEFINE s0 == j.ss[1]
           xs == [x EXCEPT ![s0] = q[1].kept]
<1>1. /\ Agreed(q[1].kept, s0, lg[s0], FALSE)
      /\ \A s \in Sessions : s # s0 => Agreed(x[s], s, lg[s], FALSE)
  BY CommitFits
<1>2. xs[s0] = q[1].kept /\ \A s \in Sessions : s # s0 => xs[s] = x[s]
  OBVIOUS
<1> HIDE DEF xs, s0
<1>3. ASSUME NEW s \in Sessions PROVE Agreed(xs[s], s, lg[s], FALSE)
  BY <1>1, <1>2
<1>4. \A s : SettledAs(j, p, xs, s) = xs[s]
  BY Unsettled
<1>5. ASSUME NEW s \in Sessions PROVE Agreed(xs[s], s, lg[s], Owes(j, p, s))
  BY <1>3 DEF Agreed
<1>6. Due(j, p, xs)
  BY DEF Due
<1>7. Fit(j, p, xs, lg)
  BY <1>4, <1>5, <1>6 DEF Fit
<1>8. QED
  BY <1>7 DEF xs, s0

\* A gate of a command is joined: the first half of the logits of its session, which is
\* owed the second.
LEMMA JoinedFit ==
  ASSUME NEW j, j # None, NEW q, Shape(q, j), q[1].do = "gate", q[1].head, Len(q) > 1,
         NEW x, DOMAIN x = Sessions, NEW lg, DOMAIN lg = Sessions, Fit(j, q, x, lg),
         NEW y, y.pure = TRUE, Shape(Tail(q), j)
  PROVE  Fit(j, Tail(q), [x EXCEPT ![q[1].s] = y], [lg EXCEPT ![q[1].s] = <<Of(q[1].s, y)>>])
<1> DEFINE s0 == q[1].s
           t == Tail(q)
           xs == [x EXCEPT ![s0] = y]
           lh == [lg EXCEPT ![s0] = <<Of(s0, y)>>]
<1>1. IsList(q) /\ q # <<>> /\ 1 \in 1..Len(q)
  BY ShapeFacts
<1>2. Len(q) \in Nat /\ Len(t) = Len(q) - 1 /\ \A i \in 1..Len(q) - 1 : t[i] = q[i + 1]
  BY <1>1, ListFacts
<1>3. PICK n \in Nat : n = Len(q)
  BY <1>2
<1>4. s0 \in Sessions /\ \E k \in 1..n : q[k].do = "half" /\ q[k].s = s0
  <2>1. s0 \in Sessions /\ \E k \in 1..n : q[k] = Half(s0)
    BY <1>1, <1>3 DEF Shape
  <2>2. Half(s0).do = "half" /\ Half(s0).s = s0
    BY DEF Half
  <2>3. QED
    BY <2>1, <2>2
<1>5. xs[s0] = y /\ lh[s0] = <<Of(s0, y)>>
  BY <1>4
<1>6. \A s \in Sessions : s # s0 => xs[s] = x[s] /\ lh[s] = lg[s]
  OBVIOUS
<1>7. \A s : Owes(j, q, s) => Owes(j, t, s)
  BY RestOwes
<1>8. Owes(j, q, s0)
  BY <1>3, <1>4 DEF Owes
<1>9. \A s : SettledAs(j, q, x, s) = x[s]
  BY Unsettled
<1> HIDE DEF xs, lh, t
<1>10. Len(t) = n - 1 /\ n > 1 /\ \A i \in 1..n - 1 : t[i] = q[i + 1]
  BY <1>2, <1>3
<1>11. t[1].do # "commit"
  <2>1. t[1] = q[2] /\ 2 \in 1..n
    <3>1. 1 \in 1..n - 1 /\ 1 + 1 = 2 /\ 2 \in 1..n
      BY <1>10
    <3>2. QED
      BY <1>10, <3>1
  <2>2. ASSUME q[2].do = "commit" PROVE FALSE
    <3>1. n = 2
      BY <1>3, <2>1, <2>2, FirstOf
    <3>2. PICK k \in 1..2 : q[k].do = "half"
      BY <1>4, <3>1
    <3>3. k = 1 \/ k = 2
      OBVIOUS
    <3>4. QED
      BY <2>2, <3>2, <3>3
  <2>3. QED
    BY <2>1, <2>2
<1>12. \A s : SettledAs(j, t, xs, s) = xs[s]
  <2>1. Shape(t, j)
    BY DEF t
  <2>2. QED
    BY <1>11, <2>1, Unsettled
<1>13. ASSUME NEW s \in Sessions PROVE Agreed(xs[s], s, lh[s], Owes(j, t, s))
  <2>1. CASE s = s0
    <3>1. Owes(j, t, s) /\ xs[s] = y /\ lh[s] = <<Of(s, y)>>
      BY <1>5, <1>7, <1>8, <2>1
    <3>2. PICK b : b = Of(s, y)
      OBVIOUS
    <3>3. <<b>> # <<>> /\ <<b>>[1] = b
      BY Tuples
    <3>4. QED
      BY <3>1, <3>2, <3>3 DEF Agreed
  <2>2. CASE s # s0
    <3>1. Agreed(x[s], s, lg[s], Owes(j, q, s))
      BY <1>9 DEF Fit
    <3>2. xs[s] = x[s] /\ lh[s] = lg[s] /\ (Owes(j, q, s) => Owes(j, t, s))
      BY <1>6, <1>7, <2>2
    <3>3. QED
      BY <3>1, <3>2 DEF Agreed
  <2>3. QED
    BY <2>1, <2>2
<1>14. Due(j, t, xs)
  <2>1. ASSUME NEW i \in 1..Len(t), t[i].do = "gate", ~t[i].head PROVE FALSE
    <3>1. i \in 1..n - 1 /\ i + 1 \in 1..n /\ i + 1 # 1
      BY <1>10
    <3>2. t[i] = q[i + 1]
      BY <1>10, <3>1
    <3>3. i + 1 = 1
      BY <1>3, <2>1, <3>1, <3>2, FirstOf
    <3>4. QED
      BY <3>1, <3>3
  <2>2. QED
    BY <2>1 DEF Due
<1>15. Fit(j, t, xs, lh)
  BY <1>12, <1>13, <1>14 DEF Fit
<1>16. QED
  BY <1>15 DEF xs, lh, t

\* The gate of a block is joined: the logits wait for the commit.
LEMMA BlockFit ==
  ASSUME NEW j, j # None, NEW q, Shape(q, j), q[1].do = "gate", ~q[1].head,
         NEW x, DOMAIN x = Sessions, NEW lg, Fit(j, q, x, lg), NEW y, Shape(Tail(q), j)
  PROVE  Fit(j, Tail(q), [x EXCEPT ![q[1].s] = y], lg)
<1> DEFINE s0 == q[1].s
           t == Tail(q)
           xs == [x EXCEPT ![s0] = y]
<1>1. IsList(q) /\ q # <<>> /\ 1 \in 1..Len(q)
  BY ShapeFacts
<1>2. Len(q) = 2 /\ s0 = j.ss[1] /\ q[2].do = "commit" /\ s0 \in Sessions
  BY <1>1 DEF Shape
<1>3. q[2] = Commit(x[s0])
  BY <1>1, <1>2 DEF Fit, Due
<1>4. Len(t) = 1 /\ t[1] = q[2]
  <2>1. Len(t) = Len(q) - 1 /\ \A i \in 1..Len(q) - 1 : t[i] = q[i + 1]
    BY <1>1, ListFacts
  <2>2. 1 \in 1..1 /\ 1 + 1 = 2 /\ 2 - 1 = 1
    OBVIOUS
  <2>3. QED
    BY <1>2, <2>1, <2>2
<1>5. xs[s0] = y /\ \A s \in Sessions : s # s0 => xs[s] = x[s]
  BY <1>2
<1>6. Shape(t, j)
  OBVIOUS
<1> HIDE DEF t, xs
<1>7. First(t) = t[1] /\ t[1].do = "commit" /\ t[1].kept = x[s0]
  <2>1. First(t) = t[1]
    BY <1>6, FirstOf
  <2>2. QED
    BY <1>3, <1>4, <2>1 DEF Commit
<1>8. ASSUME NEW s \in Sessions PROVE SettledAs(j, t, xs, s) = SettledAs(j, q, x, s)
  <2>1. SettledAs(j, q, x, s) = x[s]
    BY Unsettled
  <2>2. SettledAs(j, t, xs, s) = IF s = s0 THEN x[s0] ELSE xs[s]
    BY <1>2, <1>7 DEF SettledAs
  <2>3. QED
    BY <1>5, <2>1, <2>2
<1>9. \A s : ~Owes(j, t, s) /\ ~Owes(j, q, s)
  <2>1. \A i \in 1..Len(q) : i = 1 \/ i = 2
    BY <1>2
  <2>2. \A i \in 1..Len(t) : i = 1
    BY <1>4
  <2>3. QED
    BY <1>2, <1>7, <2>1, <2>2 DEF Owes
<1>10. ASSUME NEW s \in Sessions PROVE Agreed(SettledAs(j, t, xs, s), s, lg[s], Owes(j, t, s))
  BY <1>8, <1>9 DEF Fit, Agreed
<1>11. Due(j, t, xs)
  <2>1. \A i \in 1..Len(t) : i = 1
    BY <1>4
  <2>2. QED
    BY <1>7, <2>1 DEF Due
<1>12. Fit(j, t, xs, lg)
  BY <1>10, <1>11 DEF Fit
<1>13. QED
  BY <1>12 DEF t, xs

\* A command is begun.
LEMMA BegunFit ==
  ASSUME LocallySound, LogitsFit, job[L] = None, NEW c \in Commands, c.op # "INVALIDATE"
  PROVE  Fit(c, Steps(L, c), sess[L], logits)
<1>1. c # None /\ c.ss[1] \in Sessions
  <2>1. env \in Settings
    BY SoundParts
  <2>2. QED
    BY <2>1, CommandFacts
<1>2. Shape(Steps(L, c), c)
  BY StepsShape, Ranks
<1>3. \A s \in Sessions : Agreed(sess[L][s], s, logits[s], FALSE)
  <2>1. \A s : SettledAs(job[L], todo[L], sess[L], s) = sess[L][s] /\ ~Owes(job[L], todo[L], s)
    BY DEF SettledAs, Owes
  <2>2. Fit(job[L], todo[L], sess[L], logits)
    BY FitIs
  <2>3. QED
    BY <2>1, <2>2 DEF Fit, Agreed
<1>4. PICK q, x : q = Steps(L, c) /\ x = sess[L]
  OBVIOUS
<1>5. Shape(q, c)
  BY <1>2, <1>4
<1>6. q[1].do # "commit" /\ Due(c, q, x)
  <2>1. CASE c.op # "VERIFY"
    <3>1. q[1].do # "commit"
      BY <1>5, <2>1, FirstOf
    <3>2. Due(c, q, x)
      BY <1>5, <2>1, FirstOf DEF Due
    <3>3. QED
      BY <3>1, <3>2
  <2>2. CASE c.op = "VERIFY"
    <3>1. PICK g, k : /\ g = BlockGate(c.ss[1], sess[L][c.ss[1]].toks \o c.toks)
                      /\ k = Commit(x[c.ss[1]])
      OBVIOUS
    <3>2. q = <<g, k>>
      BY <1>4, <2>2, <3>1 DEF Steps
    <3>3. <<g, k>>[1] = g /\ <<g, k>>[2] = k
      OBVIOUS
    <3>4. g.do = "gate"
      BY <3>1 DEF BlockGate
    <3>5. q[1].do # "commit" /\ q[2] = Commit(x[c.ss[1]])
      BY <3>1, <3>2, <3>3, <3>4
    <3>6. QED
      BY <3>5 DEF Due
  <2>3. QED
    BY <2>1, <2>2
<1>7. \A s : SettledAs(c, q, x, s) = x[s]
  BY <1>5, <1>6, Unsettled
<1>8. ASSUME NEW s \in Sessions PROVE Agreed(x[s], s, logits[s], Owes(c, q, s))
  BY <1>3, <1>4 DEF Agreed
<1>9. Fit(c, q, x, logits)
  BY <1>6, <1>7, <1>8 DEF Fit
<1>10. QED
  BY <1>4, <1>9


\* What the leader's steps make of the logits.
LEMMA GateJoinFits ==
  ASSUME LocallySound, InStep, LogitsFit, GateJoin(L)
  PROVE  LogitsFit'
<1>1. Waits(L, "gate") /\ gates[Peer(L)] # <<>>
  BY DEF GateJoin
<1>2. PICK c \in BOOLEAN : Passable(L, "gate", c)
  BY <1>1, HalfArrives, Ranks
<1>3. /\ Passes(L, "gate", c)
      /\ logits' = IF Head1(L).head
                   THEN [logits EXCEPT ![Head1(L).s] =
                           <<Of(Head1(L).s, Joined(L)[Head1(L).s])>>]
                   ELSE logits
  BY <1>2, GateJoinPasses, Ranks
<1>4. /\ job' = job /\ todo'[L] = Tail(todo[L]) /\ sess'[L] = Joined(L)
  <2>1. L \in Rank /\ job' = job
    BY <1>3, Ranks DEF Passes
  <2>2. todo'[L] = Onward(L, "gate", c) /\ sess'[L] = SessionsOf(L, "gate")
    BY <1>3, <2>1, PassedRank
  <2>3. QED
    BY <2>1, <2>2 DEF Onward, SessionsOf
<1>5. job[L] # None /\ Head1(L).do = "gate"
  BY <1>1 DEF Waits, At
<1>6. /\ Shape(todo[L], job[L]) /\ Head1(L) = todo[L][1] /\ Len(todo[L]) > 1
      /\ Shape(Tail(todo[L]), job[L])
  BY <1>5, HeadFacts, Ranks
<1>7. SessionSound(sess[L]) /\ DOMAIN logits = Sessions
  BY SoundParts, Ranks DEF Domains
<1>8. PICK j, q, x, lg, y : /\ j = job[L] /\ q = todo[L] /\ x = sess[L] /\ lg = logits
                            /\ y = [toks |-> Head1(L).toks, valid |-> TRUE, pure |-> TRUE]
  OBVIOUS
<1>9. /\ j # None /\ Shape(q, j) /\ q[1].do = "gate" /\ Len(q) > 1 /\ Shape(Tail(q), j)
      /\ DOMAIN x = Sessions /\ DOMAIN lg = Sessions /\ y.pure = TRUE /\ Head1(L) = q[1]
  BY <1>5, <1>6, <1>7, <1>8 DEF SessionSound
<1>10. Fit(j, q, x, lg)
  BY <1>8, FitIs
<1>11. sess'[L] = [x EXCEPT ![q[1].s] = y]
  BY <1>4, <1>8, <1>9 DEF Joined
<1>12. CASE q[1].head
  <2>1. q[1].s \in Sessions
    BY <1>1, <1>9, JoinedSound, Ranks
  <2>2. Joined(L)[q[1].s] = y
    BY <1>4, <1>9, <1>11, <2>1
  <2>3. logits' = [lg EXCEPT ![q[1].s] = <<Of(q[1].s, y)>>]
    BY <1>3, <1>8, <1>9, <1>12, <2>2
  <2>4. Fit(j, Tail(q), [x EXCEPT ![q[1].s] = y], [lg EXCEPT ![q[1].s] = <<Of(q[1].s, y)>>])
    BY <1>9, <1>10, <1>12, JoinedFit
  <2>5. Fit(job'[L], todo'[L], sess'[L], logits')
    BY <1>4, <1>8, <1>11, <2>3, <2>4
  <2>6. QED
    BY <2>5, FitIs
<1>13. CASE ~q[1].head
  <2>1. logits' = lg
    BY <1>3, <1>8, <1>9, <1>13
  <2>2. Fit(j, Tail(q), [x EXCEPT ![q[1].s] = y], lg)
    BY <1>9, <1>10, <1>13, BlockFit
  <2>3. Fit(job'[L], todo'[L], sess'[L], logits')
    BY <1>4, <1>8, <1>11, <2>1, <2>2
  <2>4. QED
    BY <2>3, FitIs
<1>14. QED
  BY <1>12, <1>13

LEMMA VoteReadFits ==
  ASSUME LocallySound, InStep, LogitsFit, VoteRead(L), Delivered(L)
  PROVE  LogitsFit'
<1>1. Waits(L, "vote") /\ Delivered(L)
  BY DEF VoteRead
<1>2. PICK c \in BOOLEAN : Passable(L, "vote", c)
  BY <1>1, HalfArrives, Ranks
<1>3. Passes(L, "vote", c) /\ logits' = logits
  BY <1>2, VoteReadPasses, Ranks
<1>4. /\ job' = job /\ todo'[L] = Onward(L, "vote", c) /\ sess'[L] = sess[L]
  <2>1. L \in Rank /\ job' = job
    BY <1>3, Ranks DEF Passes
  <2>2. todo'[L] = Onward(L, "vote", c) /\ sess'[L] = SessionsOf(L, "vote")
    <3>1. PICK k : k = "vote"
      OBVIOUS
    <3>2. Passes(L, k, c)
      BY <1>3, <3>1
    <3>3. todo'[L] = Onward(L, k, c) /\ sess'[L] = SessionsOf(L, k)
      BY <2>1, <3>2, PassedRank
    <3>4. QED
      BY <3>1, <3>3
  <2>3. QED
    BY <2>1, <2>2 DEF SessionsOf
<1>5. job[L] # None /\ Head1(L).do = "vote"
  BY <1>1 DEF Waits, At
<1>6. /\ Shape(todo[L], job[L]) /\ job[L].op = "SYNC" /\ job[L] \in Commands /\ env \in Settings
  BY <1>5, HeadFacts, Ranks
<1>7. Shape(Onward(L, "vote", c), job[L])
  BY <1>1, OnwardShape, Ranks
<1>8. PICK j, q, p, x, lg : /\ j = job[L] /\ q = todo[L] /\ p = Onward(L, "vote", c)
                            /\ x = sess[L] /\ lg = logits
  OBVIOUS
<1>9. Fit(j, q, x, lg)
  BY <1>8, FitIs
<1>10. j # None /\ j.op = "SYNC" /\ ToSet(j.ss) = {j.ss[1]} /\ Shape(q, j) /\ Shape(p, j)
  <2>1. j \in Commands /\ j.op = "SYNC" /\ env \in Settings
    BY <1>6, <1>8
  <2>2. ToSet(j.ss) = {j.ss[1]}
    BY <2>1, CommandFacts
  <2>3. QED
    BY <1>5, <1>6, <1>7, <1>8, <2>2
<1>11. Fit(j, p, x, lg)
  BY <1>9, <1>10, SyncFit
<1>12. Fit(job'[L], todo'[L], sess'[L], logits')
  BY <1>3, <1>4, <1>8, <1>11
<1>13. QED
  BY <1>12, FitIs

\* The session of a sync.
LEMMA SyncSession ==
  ASSUME LocallySound, job[L] # None, job[L].op = "SYNC", NEW s \in Sessions, s \in ToSet(job[L].ss)
  PROVE  ToSet(job[L].ss) = {s} /\ s = job[L].ss[1]
<1>1. job[L] \in Commands /\ env \in Settings
  BY HeadFacts, Ranks
<1>2. PICK j : j = job[L]
  OBVIOUS
<1>3. ToSet(j.ss) = {j.ss[1]}
  BY <1>1, <1>2, CommandFacts
<1>4. QED
  BY <1>2, <1>3

LEMMA Forgotten ==
  ASSUME LocallySound, NEW s \in Sessions, Forgets(s)
  PROVE  /\ job'[L] = None
         /\ sess'[L] = [z \in Sessions |-> IF z = s THEN Fresh ELSE sess[L][z]]
<1>1. Domains /\ L \in Rank
  BY SoundParts, Ranks
<1>2. QED
  BY <1>1 DEF Forgets, Returns, Domains

LEMMA LeaderAckFits ==
  ASSUME LocallySound, InStep, LogitsFit, LeaderAck, Delivered(L)
  PROVE  LogitsFit'
<1>1. /\ logits' = logits /\ job[L] # None /\ Head1(L).do = "ack"
      /\ \/ TakesAnswer
         \/ \E s \in Sessions : s \in ToSet(job[L].ss) /\ job[L].op = "SYNC" /\ Forgets(s)
  BY LeaderAckReads
<1>2. Shape(todo[L], job[L]) /\ Head1(L) = todo[L][1]
  BY <1>1, HeadFacts, Ranks
<1>3. Domains /\ L \in Rank
  BY SoundParts, Ranks
<1>4. PICK j, q, x, lg, p : /\ j = job[L] /\ q = todo[L] /\ x = sess[L] /\ lg = logits
                            /\ p = todo'[L]
  OBVIOUS
<1>5. Fit(j, q, x, lg)
  BY <1>4, FitIs
<1>6. j # None /\ Shape(q, j) /\ q[1].do = "ack" /\ DOMAIN lg = Sessions
  BY <1>1, <1>2, <1>3, <1>4 DEF Domains
<1>7. CASE TakesAnswer
  <2>1. job'[L] = j /\ sess'[L] = x /\ p = Tail(q) /\ Len(q) > 1
    BY <1>3, <1>4, <1>7 DEF TakesAnswer, Domains
  <2>2. Fit(j, Tail(q), x, lg)
    BY <1>5, <1>6, <2>1, TakenFit
  <2>3. Fit(job'[L], todo'[L], sess'[L], logits')
    BY <1>1, <1>4, <2>1, <2>2
  <2>4. QED
    BY <2>3, FitIs
<1>8. ASSUME NEW s \in Sessions, s \in ToSet(job[L].ss), job[L].op = "SYNC", Forgets(s)
      PROVE  LogitsFit'
  <2>1. ToSet(j.ss) = {s}
    BY <1>1, <1>4, <1>8, SyncSession
  <2>2. Fit(None, p, [z \in Sessions |-> IF z = s THEN Fresh ELSE x[z]], lg)
    BY <1>5, <1>6, <2>1, ForgottenFit
  <2>3. job'[L] = None /\ sess'[L] = [z \in Sessions |-> IF z = s THEN Fresh ELSE x[z]]
    BY <1>4, <1>8, Forgotten
  <2>4. Fit(job'[L], todo'[L], sess'[L], logits')
    BY <1>1, <1>4, <2>2, <2>3
  <2>5. QED
    BY <2>4, FitIs
<1>9. QED
  BY <1>1, <1>7, <1>8

LEMMA LeaderHalfFits ==
  ASSUME LocallySound, InStep, LogitsFit, LeaderHalf, Delivered(L)
  PROVE  LogitsFit'
<1>1. /\ job[L] # None /\ Head1(L).do = "half"
      /\ logits' = [logits EXCEPT ![Head1(L).s] =
                      <<logits[Head1(L).s][1], Of(Head1(L).s, sess[L][Head1(L).s])>>]
      /\ \/ TakesAnswer
         \/ Returns /\ sess' = sess /\ Len(todo[L]) = 1
         \/ \E s \in Sessions : s \in ToSet(job[L].ss) /\ job[L].op = "SYNC" /\ Forgets(s)
  BY LeaderHalfReads
<1>2. Shape(todo[L], job[L]) /\ Head1(L) = todo[L][1]
  BY <1>1, HeadFacts, Ranks
<1>3. Domains /\ L \in Rank
  BY SoundParts, Ranks
<1>4. PICK j, q, x, lg, p : /\ j = job[L] /\ q = todo[L] /\ x = sess[L] /\ lg = logits
                            /\ p = todo'[L]
  OBVIOUS
<1>5. Fit(j, q, x, lg)
  BY <1>4, FitIs
<1>6. j # None /\ Shape(q, j) /\ q[1].do = "half" /\ DOMAIN lg = Sessions
  BY <1>1, <1>2, <1>3, <1>4 DEF Domains
<1>7. PICK lh : lh = [lg EXCEPT ![q[1].s] = <<lg[q[1].s][1], Of(q[1].s, x[q[1].s])>>]
  OBVIOUS
<1>8. logits' = lh
  BY <1>1, <1>2, <1>4, <1>7
<1>9. CASE TakesAnswer
  <2>1. job'[L] = j /\ sess'[L] = x /\ p = Tail(q) /\ Len(q) > 1
    BY <1>3, <1>4, <1>9 DEF TakesAnswer, Domains
  <2>2. Fit(j, Tail(q), x, lh)
    BY <1>5, <1>6, <1>7, <2>1, TakenFit
  <2>3. Fit(job'[L], todo'[L], sess'[L], logits')
    BY <1>4, <1>8, <2>1, <2>2
  <2>4. QED
    BY <2>3, FitIs
<1>10. CASE Returns /\ sess' = sess /\ Len(todo[L]) = 1
  <2>1. job'[L] = None /\ sess'[L] = x /\ Len(q) = 1
    BY <1>3, <1>4, <1>10 DEF Returns, Domains
  <2>2. Fit(None, p, x, lh)
    BY <1>5, <1>6, <1>7, <2>1, EndedFit
  <2>3. Fit(job'[L], todo'[L], sess'[L], logits')
    BY <1>4, <1>8, <2>1, <2>2
  <2>4. QED
    BY <2>3, FitIs
<1>11. ASSUME NEW s \in Sessions, s \in ToSet(job[L].ss), job[L].op = "SYNC", Forgets(s)
       PROVE  LogitsFit'
  <2>1. ToSet(j.ss) = {j.ss[1]} /\ s = j.ss[1]
    BY <1>1, <1>4, <1>11, SyncSession
  <2>2. PICK y : y = [z \in Sessions |-> IF z = s THEN Fresh ELSE x[z]]
    OBVIOUS
  <2>3. y = [z \in Sessions |-> IF z = j.ss[1] THEN Fresh ELSE x[z]] /\ j.ss[1] \in Sessions
    BY <2>1, <2>2
  <2>4. Fit(None, p, y, lh)
    BY <1>5, <1>6, <1>7, <2>1, <2>3, EndedForgotten
  <2>5. job'[L] = None /\ sess'[L] = y
    BY <1>4, <1>11, <2>2, Forgotten
  <2>6. Fit(job'[L], todo'[L], sess'[L], logits')
    BY <1>4, <1>8, <2>4, <2>5
  <2>7. QED
    BY <2>6, FitIs
<1>12. QED
  BY <1>1, <1>9, <1>10, <1>11

LEMMA LeaderCommitFits ==
  ASSUME LocallySound, InStep, LogitsFit, LeaderCommit
  PROVE  LogitsFit'
<1>1. /\ job[L] # None /\ Head1(L).do = "commit" /\ job[L].op = "VERIFY"
      /\ \E n \in 1..2 :
           LET s == job[L].ss[1]
               k == KeptOf(L, s, Head1(L).kept, n) IN
           \/ Keeps(L, n) /\ logits' = [logits EXCEPT ![s] = <<Of(s, k), Of(s, k)>>]
           \/ Replays(L, n) /\ logits' = logits
  BY LeaderCommits
<1>2. Shape(todo[L], job[L]) /\ Head1(L) = todo[L][1] /\ job[L] \in Commands /\ env \in Settings
  BY <1>1, HeadFacts, Ranks
<1>3. Domains /\ L \in Rank /\ SessionSound(sess[L])
  BY SoundParts, Ranks
<1>4. PICK n \in 1..2 :
        LET s == job[L].ss[1]
            k == KeptOf(L, s, Head1(L).kept, n) IN
        \/ Keeps(L, n) /\ logits' = [logits EXCEPT ![s] = <<Of(s, k), Of(s, k)>>]
        \/ Replays(L, n) /\ logits' = logits
  BY <1>1
<1>5. PICK j, q, x, lg, p, y :
        /\ j = job[L] /\ q = todo[L] /\ x = sess[L] /\ lg = logits /\ p = todo'[L]
        /\ y = KeptOf(L, job[L].ss[1], Head1(L).kept, n)
  OBVIOUS
<1>6. Fit(j, q, x, lg)
  BY <1>5, FitIs
<1>7. j.ss[1] \in Sessions /\ y.pure = TRUE /\ Head1(L).kept.toks \in Seq(Token)
  BY <1>1, <1>3, <1>5, KeptSound
<1>8. /\ j # None /\ Shape(q, j) /\ q[1].do = "commit" /\ j.op = "VERIFY" /\ j \in Commands
      /\ DOMAIN lg = Sessions /\ DOMAIN x = Sessions /\ Head1(L) = q[1]
  BY <1>1, <1>2, <1>3, <1>5 DEF Domains, SessionSound
<1>9. CASE Keeps(L, n) /\ logits' = [lg EXCEPT ![j.ss[1]] = <<Of(j.ss[1], y), Of(j.ss[1], y)>>]
  <2>1. Fit(None, p, [x EXCEPT ![j.ss[1]] = y],
                     [lg EXCEPT ![j.ss[1]] = <<Of(j.ss[1], y), Of(j.ss[1], y)>>])
    BY <1>6, <1>7, <1>8, KeptFit
  <2>2. job'[L] = None /\ sess'[L] = [x EXCEPT ![j.ss[1]] = y]
    BY <1>3, <1>5, <1>9 DEF Keeps, WithSession, Domains
  <2>3. Fit(job'[L], todo'[L], sess'[L], logits')
    BY <1>5, <1>9, <2>1, <2>2
  <2>4. QED
    BY <2>3, FitIs
<1>10. CASE Replays(L, n) /\ logits' = logits
  <2>1. PICK k : k = q[1].kept
    OBVIOUS
  <2>2. p = ReplaySteps(j.ss[1], k, j.toks, n)
    BY <1>3, <1>5, <1>8, <1>10, <2>1 DEF Replays, Domains
  <2>3. k.toks \in Seq(Token)
    BY <1>7, <1>8, <2>1
  <2>4. /\ Shape(p, j) /\ p[1].do = "gate"
        /\ \A i \in 1..Len(p) : p[i].do = "gate" => p[i].head = TRUE
    BY <1>2, <1>8, <2>2, <2>3, ReplayShape
  <2>5. Fit(j, p, [x EXCEPT ![j.ss[1]] = q[1].kept], lg)
    BY <1>6, <1>7, <1>8, <2>4, ReplayedFit
  <2>6. job'[L] = j /\ sess'[L] = [x EXCEPT ![j.ss[1]] = q[1].kept]
    BY <1>3, <1>5, <1>8, <1>10 DEF Replays, WithSession, Domains
  <2>7. Fit(job'[L], todo'[L], sess'[L], logits')
    BY <1>5, <1>10, <2>5, <2>6
  <2>8. QED
    BY <2>7, FitIs
<1>11. QED
  BY <1>4, <1>5, <1>9, <1>10

LEMMA IssueFits ==
  ASSUME LocallySound, InStep, LogitsFit, NEW c \in Commands, Issue(c)
  PROVE  LogitsFit'
<1>1. /\ logits' = logits /\ job[L] = None
      /\ \/ /\ c.op = "INVALIDATE" /\ UNCHANGED <<job, todo, sent, sync>>
            /\ \E s \in Sessions :
                 sess' = [sess EXCEPT ![L] =
                            [z \in Sessions |-> IF z = s THEN Fresh ELSE sess[L][z]]]
         \/ /\ c.op # "INVALIDATE" /\ sess' = sess /\ job' = [job EXCEPT ![L] = c]
            /\ todo' = [todo EXCEPT ![L] = Steps(L, c)]
  BY IssueAnnounces
<1>2. Domains /\ L \in Rank
  BY SoundParts, Ranks
<1>3. PICK j, q, x, lg : j = job[L] /\ q = todo[L] /\ x = sess[L] /\ lg = logits
  OBVIOUS
<1>4. CASE c.op = "INVALIDATE"
  <2>1. PICK s \in Sessions :
          sess' = [sess EXCEPT ![L] = [z \in Sessions |-> IF z = s THEN Fresh ELSE sess[L][z]]]
    BY <1>1, <1>4
  <2>2. /\ sess'[L] = [z \in Sessions |-> IF z = s THEN Fresh ELSE x[z]]
        /\ job'[L] = None /\ todo'[L] = q
    BY <1>1, <1>2, <1>3, <1>4, <2>1 DEF Domains
  <2>3. Fit(j, q, x, lg) /\ j = None
    BY <1>1, <1>3, FitIs
  <2>4. Fit(None, q, [z \in Sessions |-> IF z = s THEN Fresh ELSE x[z]], lg)
    BY <2>3, ForgottenFit
  <2>5. Fit(job'[L], todo'[L], sess'[L], logits')
    BY <1>1, <1>3, <2>2, <2>4
  <2>6. QED
    BY <2>5, FitIs
<1>5. CASE c.op # "INVALIDATE"
  <2>1. Fit(c, Steps(L, c), sess[L], logits)
    BY <1>1, <1>5, BegunFit
  <2>2. job'[L] = c /\ todo'[L] = Steps(L, c) /\ sess'[L] = sess[L]
    BY <1>1, <1>2, <1>5 DEF Domains
  <2>3. Fit(job'[L], todo'[L], sess'[L], logits')
    BY <1>1, <2>1, <2>2
  <2>4. QED
    BY <2>3, FitIs
<1>6. QED
  BY <1>4, <1>5


-----------------------------------------------------------------------------
(* The invariant.                                                          *)

\* It holds at the start: no rank has anything to do.
LEMMA PairStarts ==
  ASSUME PairInit
  PROVE  PairInv
<1>1. Domains
  BY DEF PairInit, Domains
<1>2. /\ torn = FALSE /\ alive = TRUE /\ stopped = FALSE /\ env \in Settings
      /\ \A r \in Rank : /\ job[r] = None /\ todo[r] = <<>> /\ sent[r] = FALSE
                         /\ frames[r] = <<>> /\ gates[r] = <<>> /\ gateSeq[r] = 0
                         /\ gateDead[r] = FALSE /\ failed[r] = FALSE
                         /\ sync[r] = [rc |-> OK, cancelled |-> FALSE]
                         /\ sess[r] = [s \in Sessions |-> Fresh]
  BY DEF PairInit
<1>3. ASSUME NEW r \in Rank
      PROVE  /\ DOMAIN sess[r] = Sessions /\ sess[r] = [s \in Sessions |-> sess[r][s]]
             /\ \A s \in Sessions :
                  /\ sess[r][s].pure = TRUE /\ sess[r][s].toks \in Seq(Token)
                  /\ sess[r][s].valid = FALSE
  <2>1. Fresh.toks \in Seq(Token) /\ Fresh.pure = TRUE /\ Fresh.valid = FALSE
    BY DEF Fresh
  <2>2. \A s \in Sessions : sess[r][s] = Fresh
    BY <1>2
  <2>3. DOMAIN sess[r] = Sessions /\ sess[r] = [s \in Sessions |-> sess[r][s]]
    BY <1>2
  <2>4. QED
    BY <2>1, <2>2, <2>3
<1>4. ASSUME FailStop PROVE LocallySound
  <2>1. \A r \in Rank : sync[r].rc \in {OK, INTERRUPTED} /\ sync[r].cancelled \in BOOLEAN
    <3>1. SyncSound([rc |-> OK, cancelled |-> FALSE])
      BY DEF SyncSound
    <3>2. QED
      BY <1>2, <3>1 DEF SyncSound
  <2>2. \A r \in Rank : gateSeq[r] \in Nat
    BY <1>2
  <2>3. QED
    BY <1>1, <1>2, <1>3, <1>4, <2>1, <2>2 DEF LocallySound, Domains
<1>5. InStep
  <2>1. /\ job[L] = None /\ job[W] = None /\ ~stopped /\ alive /\ sess[L] = sess[W]
        /\ frames[L] = <<>> /\ frames[W] = <<>> /\ gates[L] = <<>> /\ gates[W] = <<>>
        /\ gateSeq[L] = 0 /\ gateSeq[W] = 0 /\ sent[L] = FALSE
    BY <1>2, Ranks
  <2>2. Announced = <<>>
    BY <2>1 DEF Announced
  <2>3. Queue(frames[L], Announced, 0) /\ Erased(frames[L]) = {}
    BY <2>1, <2>2, QueueNothing
  <2>4. Queued(0)
    BY <2>3, QueueIs
  <2>5. sess[L] = Wipe(frames[L], sess[W])
    <3>1. sess[W] = [s \in Sessions |-> sess[W][s]]
      BY <1>3, Ranks
    <3>2. Wipe(frames[L], sess[W]) = [s \in Sessions |-> sess[W][s]]
      BY <2>3 DEF Wipe
    <3>3. QED
      BY <2>1, <3>1, <3>2
  <2>6. GateOut(L) = <<>> /\ Passed(L) = gateSeq[W]
    BY <2>1 DEF GateOut, Passed, Waits
  <2>7. Announcing
    BY <2>1, <2>4, <2>5, <2>6, QueueIs DEF Announcing, Ahead0
  <2>8. QED
    BY <2>7 DEF InStep
<1>6. LogitsFit
  <2>1. job[L] = None /\ \A s \in Sessions : sess[L][s].valid = FALSE
    BY <1>2, <1>3, Ranks
  <2>2. QED
    BY <2>1 DEF LogitsFit, Settled, At
<1>7. Permitted
  BY <1>2, Ranks DEF PairInit, Permitted
<1>8. QED
  BY <1>4, <1>5, <1>6, <1>7 DEF PairInv

\* Each action keeps it.
LEMMA WriteKeeps ==
  ASSUME LocallySound, InStep, LogitsFit, NEW r \in Rank, GateSend(r) \/ VoteSend(r)
  PROVE  (LocallySound /\ InStep /\ LogitsFit)'
<1>1. /\ Written(r) /\ UNCHANGED <<gateDead, failed, torn, logits, env>>
      /\ \/ sync' = sync
         \/ \E d \in BOOLEAN : sync' = [sync EXCEPT ![r] = [rc |-> sync[r].rc, cancelled |-> d]]
      /\ gateSeq' = gateSeq \/ gateSeq' = [gateSeq EXCEPT ![r] = gateSeq[r] + 1]
  BY GateSendWrites, VoteSendWrites
<1>2. LocallySound' /\ InStep'
  BY <1>1, WrittenSound, WrittenKeeps
<1>3. job' = job /\ todo' = todo /\ sess' = sess
  BY <1>1 DEF Written
<1>4. LogitsFit'
  BY <1>1, <1>3, FitStands
<1>5. QED
  BY <1>2, <1>4

LEMMA PassKeeps ==
  ASSUME LocallySound, InStep, LogitsFit, NEW r \in Rank, GateJoin(r) \/ VoteRead(r),
         VoteRead(r) => Delivered(r)
  PROVE  (LocallySound /\ InStep /\ LogitsFit)'
<1>1. \E kind \in {"gate", "vote"}, c \in BOOLEAN :
        /\ Passable(r, kind, c) /\ Passes(r, kind, c)
        /\ UNCHANGED <<gateDead, failed, torn, env>>
        /\ \/ sync' = sync
           \/ \E rc \in {OK, INTERRUPTED}, d \in BOOLEAN :
                sync' = [sync EXCEPT ![r] = [rc |-> rc, cancelled |-> d]]
        /\ DOMAIN logits' = Sessions /\ (r = W => logits' = logits)
  <2>1. DOMAIN logits = Sessions
    BY DEF LocallySound
  <2>2. CASE GateJoin(r)
    <3>1. Waits(r, "gate") /\ gates[Peer(r)] # <<>>
      BY <2>2 DEF GateJoin
    <3>2. PICK c \in BOOLEAN : Passable(r, "gate", c)
      BY <3>1, HalfArrives
    <3>3. /\ Passes(r, "gate", c) /\ UNCHANGED <<gateDead, failed, torn, env, sync>>
          /\ logits' = IF r = L /\ Head1(L).head
                       THEN [logits EXCEPT ![Head1(L).s] =
                               <<Of(Head1(L).s, Joined(L)[Head1(L).s])>>]
                       ELSE logits
      BY <2>2, <3>2, GateJoinPasses
    <3>4. DOMAIN logits' = Sessions /\ (r = W => logits' = logits)
      BY <2>1, <3>3, Ranks
    <3>5. QED
      BY <3>2, <3>3, <3>4
  <2>3. CASE VoteRead(r)
    <3>1. Waits(r, "vote") /\ Delivered(r)
      BY <2>3 DEF VoteRead
    <3>2. PICK c \in BOOLEAN : Passable(r, "vote", c)
      BY <3>1, HalfArrives
    <3>3. /\ Passes(r, "vote", c) /\ UNCHANGED <<gateDead, failed, torn, env, logits>>
          /\ \E rc \in {OK, INTERRUPTED}, d \in BOOLEAN :
               sync' = [sync EXCEPT ![r] = [rc |-> rc, cancelled |-> d]]
      BY <2>3, <3>2, VoteReadPasses
    <3>4. QED
      BY <2>1, <3>2, <3>3
  <2>4. QED
    BY <2>2, <2>3
<1>2. PICK kind \in {"gate", "vote"}, c \in BOOLEAN :
        /\ Passable(r, kind, c) /\ Passes(r, kind, c)
        /\ UNCHANGED <<gateDead, failed, torn, env>>
        /\ \/ sync' = sync
           \/ \E rc \in {OK, INTERRUPTED}, d \in BOOLEAN :
                sync' = [sync EXCEPT ![r] = [rc |-> rc, cancelled |-> d]]
        /\ DOMAIN logits' = Sessions /\ (r = W => logits' = logits)
  BY <1>1
<1>3. LocallySound' /\ InStep'
  BY <1>2, PassesSound, PassesKeeps
<1>4. LogitsFit'
  <2>1. CASE r = L
    BY <2>1, GateJoinFits, VoteReadFits
  <2>2. CASE r = W
    <3>1. job'[L] = job[L] /\ todo'[L] = todo[L] /\ sess'[L] = sess[L]
      BY <1>2, <2>2, Ranks DEF Passes, Stands
    <3>2. QED
      BY <1>2, <2>2, <3>1, FitStands
  <2>3. QED
    BY <2>1, <2>2, Ranks
<1>5. QED
  BY <1>3, <1>4

LEMMA AnswerKeeps ==
  ASSUME LocallySound, InStep, LogitsFit, WorkerAck \/ WorkerHalf
  PROVE  (LocallySound /\ InStep /\ LogitsFit)'
<1>1. PICK f : Gives(f)
  BY WorkerAckGives, WorkerHalfGives
<1>2. UNCHANGED <<gateDead, failed, torn, logits, env, sync>>
  BY WorkerAckGives, WorkerHalfGives
<1>3. LocallySound' /\ InStep'
  BY <1>1, <1>2, GivesSound, GivesKeeps
<1>4. job'[L] = job[L] /\ todo'[L] = todo[L] /\ sess'[L] = sess[L]
  BY <1>1 DEF Gives, Stands
<1>5. QED
  BY <1>2, <1>3, <1>4, FitStands

LEMMA ReadKeeps ==
  ASSUME LocallySound, InStep, LogitsFit, LeaderAck \/ LeaderHalf, Delivered(L)
  PROVE  (LocallySound /\ InStep /\ LogitsFit)'
<1>1. Domains /\ \A r \in Rank : failed[r] = FALSE
  BY SoundParts
<1>2. CASE LeaderAck
  <2>1. /\ InStep'
        /\ UNCHANGED <<gateDead, torn, env, sync, gates, gateSeq, alive, stopped, logits>>
        /\ DOMAIN failed' = Rank /\ \A r \in Rank : failed'[r] = FALSE
        /\ DOMAIN frames' = Rank /\ job[L] # None /\ Head1(L).do = "ack"
        /\ TakesAnswer \/ \E s \in Sessions : Forgets(s)
    BY <1>2, LeaderAckReads
  <2>2. DOMAIN logits' = Sessions
    BY <1>1, <2>1 DEF Domains
  <2>3. LocallySound'
    BY <2>1, <2>2, ReadsSound
  <2>4. QED
    BY <1>2, <2>1, <2>3, LeaderAckFits
<1>3. CASE LeaderHalf
  <2>1. /\ InStep'
        /\ UNCHANGED <<gateDead, torn, env, sync, gates, gateSeq, alive, stopped, failed>>
        /\ DOMAIN frames' = Rank /\ job[L] # None /\ Head1(L).do = "half"
        /\ TakesAnswer \/ (Returns /\ sess' = sess) \/ \E s \in Sessions : Forgets(s)
    BY <1>3, LeaderHalfReads
  <2>2. logits' = [logits EXCEPT ![Head1(L).s] =
                     <<logits[Head1(L).s][1], Of(Head1(L).s, sess[L][Head1(L).s])>>]
    BY <1>3, LeaderHalfReads
  <2>3. DOMAIN logits' = Sessions
    BY <1>1, <2>2 DEF Domains
  <2>4. DOMAIN failed' = Rank /\ \A r \in Rank : failed'[r] = FALSE
    BY <1>1, <2>1 DEF Domains
  <2>5. LocallySound'
    BY <2>1, <2>3, <2>4, ReadsSound
  <2>6. QED
    BY <1>3, <2>1, <2>5, LeaderHalfFits
<1>4. QED
  BY <1>2, <1>3

LEMMA CommitKeeps ==
  ASSUME LocallySound, InStep, LogitsFit, LeaderCommit \/ WorkerCommit
  PROVE  (LocallySound /\ InStep /\ LogitsFit)'
<1>1. Domains
  BY SoundParts
<1>2. CASE LeaderCommit
  <2>1. /\ InStep'
        /\ UNCHANGED <<gateDead, torn, env, sync, gates, gateSeq, alive, stopped, failed>>
        /\ DOMAIN frames' = Rank /\ job[L] # None /\ Head1(L).do = "commit"
    BY <1>2, LeaderCommits
  <2>2. PICK n \in 1..2 :
          LET s == job[L].ss[1]
              x == KeptOf(L, s, Head1(L).kept, n) IN
          \/ Keeps(L, n) /\ logits' = [logits EXCEPT ![s] = <<Of(s, x), Of(s, x)>>]
          \/ Replays(L, n) /\ logits' = logits
    BY <1>2, LeaderCommits
  <2>3. DOMAIN logits' = Sessions
    BY <1>1, <2>2 DEF Domains
  <2>4. Keeps(L, n) \/ Replays(L, n)
    BY <2>2
  <2>5. LocallySound'
    BY <2>1, <2>3, <2>4, CommitsSound, Ranks
  <2>6. QED
    BY <1>2, <2>1, <2>5, LeaderCommitFits
<1>3. CASE WorkerCommit
  <2>1. /\ InStep'
        /\ UNCHANGED <<gateDead, torn, env, sync, gates, gateSeq, alive, stopped, failed, logits>>
        /\ DOMAIN frames' = Rank /\ job[W] # None /\ Head1(W).do = "commit"
    BY <1>3, WorkerCommits
  <2>2. PICK n \in 1..2 : Keeps(W, n) \/ Replays(W, n)
    BY <1>3, WorkerCommits
  <2>3. DOMAIN logits' = Sessions
    BY <1>1, <2>1 DEF Domains
  <2>4. LocallySound'
    BY <2>1, <2>2, <2>3, CommitsSound, Ranks
  <2>5. job'[L] = job[L] /\ todo'[L] = todo[L] /\ sess'[L] = sess[L]
    BY <1>1, <2>2, Ranks DEF Keeps, Replays, WithSession, Domains
  <2>6. QED
    BY <2>1, <2>4, <2>5, FitStands
<1>4. QED
  BY <1>2, <1>3

LEMMA AnnounceKeeps ==
  ASSUME LocallySound, InStep, LogitsFit, Stop \/ \E c \in Commands : Issue(c)
  PROVE  (LocallySound /\ InStep /\ LogitsFit)'
<1>1. CASE Stop
  <2>1. InStep' /\ UNCHANGED <<logits, sess, job, todo>>
    BY <1>1, StopAnnounces
  <2>2. QED
    BY <1>1, <2>1, StopSound, FitStands
<1>2. ASSUME NEW c \in Commands, Issue(c)
      PROVE  (LocallySound /\ InStep /\ LogitsFit)'
  <2>1. InStep'
    BY <1>2, IssueAnnounces
  <2>2. QED
    BY <1>2, <2>1, IssueSound, IssueFits
<1>3. QED
  BY <1>1, <1>2

LEMMA ReceiveKeeps ==
  ASSUME LocallySound, InStep, LogitsFit, Receive
  PROVE  (LocallySound /\ InStep /\ LogitsFit)'
<1>1. /\ InStep' /\ logits' = logits
      /\ \/ /\ UNCHANGED <<job, todo>>
            /\ \E s \in Sessions :
                 sess' = [sess EXCEPT ![W] =
                            [z \in Sessions |-> IF z = s THEN Fresh ELSE sess[W][z]]]
         \/ sess' = sess /\ \E c : Begin(W, c)
         \/ UNCHANGED <<sess, job, todo>>
  BY ReceiveHears
<1>2. Domains
  BY SoundParts
<1>3. job'[L] = job[L] /\ todo'[L] = todo[L] /\ sess'[L] = sess[L]
  BY <1>1, <1>2, Ranks DEF Begin, Goto, Domains
<1>4. QED
  BY <1>1, <1>3, ReceiveSound, FitStands


LEMMA StutterKeeps ==
  ASSUME LocallySound, InStep, LogitsFit,
         UNCHANGED <<sess, job, todo, sent, sync, frames, gates, gateSeq, gateDead>>,
         UNCHANGED <<failed, torn, alive, stopped, logits, env>>
  PROVE  (LocallySound /\ InStep /\ LogitsFit)'
<1>1. /\ UNCHANGED <<sess, job, todo, sent, sync, frames, gates, gateSeq, gateDead>>
      /\ UNCHANGED <<failed, torn, alive, stopped, logits, env>>
  OBVIOUS
<1>2. LocallySound'
  <2>1. /\ Domains /\ alive \in BOOLEAN /\ stopped \in BOOLEAN /\ (stopped => job[L] = None)
        /\ \A q \in Rank : /\ failed[q] = FALSE /\ gateSeq[q] \in Nat /\ SessionSound(sess[q])
                           /\ WaitSound(q) /\ SyncSound(sync[q]) /\ JobSound(job[q], todo[q])
    BY SoundParts
  <2>2. Domains' /\ WaitSound(L)'
    BY <1>1, <2>1, Ranks DEF Domains, WaitSound, At, Head1
  <2>3. /\ \A q \in Rank : gateSeq'[q] \in Nat /\ failed'[q] = FALSE
        /\ SessionSound(sess'[L]) /\ SyncSound(sync'[L]) /\ JobSound(job'[L], todo'[L])
        /\ alive' \in BOOLEAN /\ stopped' \in BOOLEAN /\ (stopped' => job'[L] = None)
    BY <1>1, <2>1, Ranks
  <2>4. QED
    BY <1>1, <2>2, <2>3, SoundAfter, Ranks
<1>3. LogitsFit'
  BY <1>1, FitStands
<1>4. \A r \in Rank : Stands(r)
  BY <1>1 DEF Stands
<1>5. \A r \in Rank :
         /\ Head1(r)' = Head1(r) /\ VoteOut(r)' = VoteOut(r) /\ GateOut(r)' = GateOut(r)
         /\ Passed(r)' = Passed(r) /\ GateFrame(r)' = GateFrame(r)
         /\ \A x : Waits(r, x)' <=> Waits(r, x)
         /\ \A c : VoteFrame(r, c)' = VoteFrame(r, c)
         /\ \A pre, c : Onward(r, pre, c)' = Onward(r, pre, c)
         /\ \A pre : SessionsOf(r, pre)' = SessionsOf(r, pre)
  BY <1>4, Unmoved
<1>6. \A b, p \in Rank : \A pre :
         /\ GatesTo(b, pre, p)' = GatesTo(b, pre, p)
         /\ \A c : VotesTo(b, pre, c, p)' = VotesTo(b, pre, c, p)
  BY <1>1, <1>5 DEF GatesTo, VotesTo
<1>7. \A b, p \in Rank : \A pre : Linked(b, pre, p) => Linked(b, pre, p)'
  BY <1>1, <1>5, <1>6 DEF Linked
<1>8. ASSUME NEW b \in Rank, NEW pre \in Pres, NEW c \in BOOLEAN, Together(b, pre, c, Peer(b))
      PROVE  InStep'
  <2>1. PICK p \in Rank : p = Peer(b)
    BY Ranks
  <2>2. Together(b, pre, c, p)'
    BY <1>1, <1>5, <1>6, <1>7, <1>8, <2>1 DEF Together
  <2>3. Together(b, pre, c, Peer(b))'
    BY <2>1, <2>2 DEF Together, Linked, Peer
  <2>4. QED
    BY <2>3 DEF InStep
<1>9. ASSUME NEW pre \in Pres, NEW c \in BOOLEAN, Replied(pre, c) PROVE InStep'
  <2>1. Linked(L, pre, W)' /\ Onward(L, pre, c)' = Onward(L, pre, c)
        /\ VoteFrame(L, c)' = VoteFrame(L, c)
    BY <1>5, <1>7, <1>9, Ranks DEF Replied
  <2>2. PICK rest, in : rest = Onward(L, pre, c) /\ in = Replies(pre)
    OBVIOUS
  <2>3. Answered(rest, in)'
    BY <1>1, <1>9, <2>2, AnsweredStands DEF Replied
  <2>4. Replies(pre)' = Replies(pre)
    BY <1>1 DEF Replies
  <2>5. Answered(Onward(L, pre, c), Replies(pre))'
    BY <2>1, <2>2, <2>3, <2>4 DEF Answered, HalfFrame
  <2>6. Replied(pre, c)'
    BY <1>1, <1>9, <2>1, <2>5 DEF Replied
  <2>7. QED
    BY <2>6 DEF InStep
<1>10. Announced' = Announced
  BY <1>1, <1>5, Ranks DEF Announced
<1>11. /\ \A n : Queued(n) => Queued(n)'
       /\ \A x : Wiped(x)' = Wiped(x)
  BY <1>1, <1>10, QueueIs
<1>12. Steps(L, job[L])' = Steps(L, job[L])
  <2>1. PICK c : c = job[L]
    OBVIOUS
  <2>2. sess' = sess /\ job'[L] = c
    BY <1>1, <2>1
  <2>3. Steps(L, c)' = Steps(L, c)
    BY <2>2, StepsStand
  <2>4. Steps(L, job[L])' = Steps(L, c)'
    BY <2>2 DEF Steps, EvalSteps, Kept, Ahead
  <2>5. QED
    BY <2>1, <2>3, <2>4
<1>13. \A n : Ahead0(n) => Ahead0(n)'
  BY <1>1, <1>11, <1>12 DEF Ahead0
<1>14. ASSUME Announcing PROVE InStep'
  <2>1. sess'[L] = Wiped(sess[W])'
    <3>1. PICK x : x = sess[W]
      OBVIOUS
    <3>2. sess'[L] = Wiped(x)'
      BY <1>1, <1>11, <1>14, <3>1 DEF Announcing
    <3>3. sess'[W] = x
      BY <1>1, <3>1
    <3>4. QED
      BY <3>2, <3>3 DEF Wiped, Unheard
  <2>2. Announcing'
    BY <1>1, <1>5, <1>13, <1>14, <2>1, Ranks DEF Announcing
  <2>3. QED
    BY <2>2 DEF InStep
<1>15. ASSUME NEW pre \in Pres, NEW n \in 1..2, Keeping(pre, n) \/ Replaying(pre, n)
       PROVE  InStep'
  <2>1. /\ CommitStep(pre)' = CommitStep(pre)
        /\ BlockSessions(pre, n)' = BlockSessions(pre, n)
        /\ ReplaySessions(pre)' = ReplaySessions(pre)
    BY <1>4, BlockStands, Ranks
  <2>2. Block(pre) => Block(pre)'
    BY <1>1, <1>5, <1>6, <2>1, Ranks DEF Block
  <2>3. ASSUME Keeping(pre, n) PROVE Keeping(pre, n)'
    <3>1. Ahead0(1)' /\ Block(pre)'
      BY <1>13, <2>2, <2>3 DEF Keeping
    <3>2. PICK x : x = BlockSessions(pre, n)
      OBVIOUS
    <3>3. sess'[L] = Wiped(x)'
      BY <1>1, <1>11, <2>3, <3>2 DEF Keeping, BlockSessions
    <3>4. BlockSessions(pre, n)' = x
      BY <2>1, <3>2
    <3>5. sess'[L] = Wiped(BlockSessions(pre, n))'
      BY <3>3, <3>4 DEF Wiped, Unheard
    <3>6. QED
      BY <1>1, <2>3, <3>1, <3>5 DEF Keeping, BlockSessions
  <2>4. ASSUME Replaying(pre, n) PROVE Replaying(pre, n)'
    <3>1. /\ Block(pre)' /\ job[L] = job[W] /\ n > 0 /\ alive /\ frames[W] = <<>>
          /\ gates[W] = <<>> /\ sess[L] = ReplaySessions(pre)
          /\ frames[L] = <<[kind |-> "COMMIT", mode |-> "REPLAY", n |-> n]>>
          /\ todo[L] = ReplaySteps(job[W].ss[1], CommitStep(pre).kept, job[L].toks, n)
      BY <2>2, <2>4 DEF Replaying, ReplaySessions
    <3>2. sess'[L] = ReplaySessions(pre)'
      BY <1>1, <2>1, <3>1
    <3>3. todo'[L] = ReplaySteps(job'[W].ss[1], CommitStep(pre)'.kept, job'[L].toks, n)
      BY <1>1, <2>1, <3>1
    <3>4. QED
      BY <1>1, <3>1, <3>2, <3>3 DEF Replaying, ReplaySessions
  <2>5. QED
    BY <1>15, <2>3, <2>4 DEF InStep
<1>16. ASSUME Over PROVE InStep'
  BY <1>1, <1>16 DEF Over, InStep
<1>17. InStep'
  BY <1>8, <1>9, <1>14, <1>15, <1>16 DEF InStep
<1>18. QED
  BY <1>2, <1>3, <1>17

-----------------------------------------------------------------------------
(* A worker that has died.                                                 *)

(* The leader waits for what is not there, or may announce a command.      *)
Misses ==
  \/ Waits(L, "gate") /\ gates[W] = <<>>
  \/ Waits(L, "vote") /\ frames[W] = <<>>
  \/ job[L] # None /\ Head1(L).do \in {"ack", "half"} /\ frames[W] = <<>>
  \/ job[L] = None /\ ~stopped

\* Of a pair in step, it has then read everything the worker has sent.
LEMMA MissesAll ==
  ASSUME LocallySound, InStep, Misses
  PROVE  frames[W] = <<>> /\ gates[W] = <<>>
<1>1. \A b \in Rank, q \in Rank : GatesTo(b, "gate", q) # <<>>
  BY DEF GatesTo
<1>2. \A b \in Rank, q \in Rank : \A c : VotesTo(b, "vote", c, q) # <<>>
  BY DEF VotesTo
<1>3. job[L] # None =>
        \/ Waits(L, "gate") /\ gates[W] = <<>>
        \/ Waits(L, "vote") /\ frames[W] = <<>>
        \/ Head1(L).do \in {"ack", "half"} /\ frames[W] = <<>>
  BY DEF Misses
<1>4. (job[L] = None => ~stopped) /\ \A x : Waits(L, x) => Head1(L).do = x
  BY DEF Misses, Waits, At
<1>5. ASSUME NEW b \in Rank, NEW pre \in Pres, NEW c \in BOOLEAN,
             Together(b, pre, c, Peer(b))
      PROVE  frames[W] = <<>> /\ gates[W] = <<>>
  <2>1. job[L] # None
    BY <1>5 DEF Together, Linked
  <2>2. CASE pre = "none"
    <3>1. Together(L, "none", c, W)
      BY <1>5, <2>2, Mirror, Ranks
    <3>2. /\ todo[W] = todo[L] /\ frames[W] = VoteOut(W) /\ gates[W] = GateOut(W)
      BY <3>1 DEF Together, Linked, Onward, VotesTo, GatesTo
    <3>3. Head1(W) = Head1(L)
      BY <3>2 DEF Head1
    <3>4. /\ Head1(L).do # "gate" => gates[W] = <<>>
          /\ Head1(L).do # "vote" => frames[W] = <<>>
      BY <3>2, <3>3 DEF VoteOut, GateOut, Waits, At
    <3>5. QED
      BY <1>3, <1>4, <2>1, <3>4
  <2>3. CASE pre # "none" /\ b = W
    BY <1>5, <2>3 DEF Together, Linked
  <2>4. CASE pre = "gate" /\ b = L
    <3>1. Waits(L, "gate") /\ gates[W] # <<>>
      BY <1>1, <1>5, <2>4, Ranks DEF Together, Linked
    <3>2. QED
      BY <1>3, <1>4, <2>1, <3>1
  <2>5. CASE pre = "vote" /\ b = L
    <3>1. Waits(L, "vote") /\ frames[W] # <<>>
      BY <1>2, <1>5, <2>5, Ranks DEF Together, Linked
    <3>2. QED
      BY <1>3, <1>4, <2>1, <3>1
  <2>6. QED
    BY <2>2, <2>3, <2>4, <2>5, Ranks DEF Pres
<1>6. ASSUME NEW pre \in Pres, NEW c \in BOOLEAN, Replied(pre, c)
      PROVE  frames[W] = <<>> /\ gates[W] = <<>>
  <2>1. /\ Linked(L, pre, W) /\ ~sent[W] /\ job[L] # None
        /\ pre = "vote" => frames[W] # <<>>
        /\ Answered(Onward(L, pre, c), Replies(pre))
    BY <1>6 DEF Replied, Linked
  <2>2. CASE pre = "none"
    <3>1. \A i \in 1..Len(todo[L]) : todo[L][i].do \in {"ack", "half"}
      BY <2>1, <2>2 DEF Answered, Onward
    <3>2. 1 \in 1..Len(todo[L]) /\ Head1(L) = todo[L][1]
      BY <2>1, HeadFacts, Ranks
    <3>3. Head1(L).do \in {"ack", "half"}
      BY <3>1, <3>2
    <3>4. gates[W] = <<>>
      BY <2>1, <2>2 DEF Linked, GatesTo, GateOut, Waits
    <3>5. QED
      BY <1>3, <1>4, <2>1, <3>3, <3>4
  <2>3. CASE pre = "gate"
    <3>1. Waits(L, "gate") /\ gates[W] # <<>>
      BY <1>1, <2>1, <2>3, Ranks DEF Linked
    <3>2. QED
      BY <1>3, <1>4, <2>1, <3>1
  <2>4. CASE pre = "vote"
    <3>1. Waits(L, "vote") /\ frames[W] # <<>>
      BY <2>1, <2>4 DEF Linked
    <3>2. QED
      BY <1>3, <1>4, <2>1, <3>1
  <2>5. QED
    BY <2>2, <2>3, <2>4 DEF Pres
<1>7. ASSUME Announcing \/ \E pre \in Pres, n \in 1..2 : Keeping(pre, n) \/ Replaying(pre, n)
      PROVE  frames[W] = <<>> /\ gates[W] = <<>>
  BY <1>7 DEF Announcing, Keeping, Ahead0, Replaying
<1>8. ~Over
  BY <1>4 DEF Over
<1>9. QED
  BY <1>5, <1>6, <1>7, <1>8 DEF InStep


\* What keeps the pair in step: all but a leader that waits for a dead worker.
LEMMA ActionKeeps ==
  ASSUME LocallySound, InStep, LogitsFit, PairNext, ~(crashed /\ Misses)
  PROVE  (LocallySound /\ InStep /\ LogitsFit)'
<1>1. /\ ~EvalFault /\ ~Abandon /\ \A r \in Rank : ~SyncFault(r)
      /\ ~crashed => (\A c : ~SendFails(c)) /\ \A r \in Rank : ~GateTimeout(r)
  BY NothingFails
<1>2. /\ \A c : ~SendFails(c)
      /\ ~GateTimeout(L)
      /\ VoteRead(L) \/ LeaderAck \/ LeaderHalf => Delivered(L)
  <2>1. \A c : SendFails(c) => Misses
    BY DEF SendFails, Misses
  <2>2. GateTimeout(L) => Misses
    BY Ranks DEF GateTimeout, Misses
  <2>3. (VoteRead(L) /\ frames[W] = <<>>) => Misses
    BY DEF VoteRead, Misses
  <2>4. ((LeaderAck \/ LeaderHalf) /\ frames[W] = <<>>) => Misses
    BY DEF LeaderAck, LeaderHalf, Doing, At, Misses
  <2>5. VoteRead(L) \/ LeaderAck \/ LeaderHalf => Arrived(L)
    BY DEF VoteRead, LeaderAck, LeaderHalf
  <2>6. QED
    BY <1>1, <2>1, <2>2, <2>3, <2>4, <2>5, Ranks DEF Delivered
<1>3. CASE LeaderStep
  <2>1. CASE GateSend(L) \/ VoteSend(L)
    BY <2>1, WriteKeeps, Ranks
  <2>2. CASE GateJoin(L) \/ VoteRead(L)
    BY <1>2, <2>2, PassKeeps, Ranks
  <2>3. CASE LeaderAck \/ LeaderHalf
    BY <1>2, <2>3, ReadKeeps
  <2>4. CASE LeaderCommit
    BY <2>4, CommitKeeps
  <2>5. QED
    BY <1>1, <1>2, <1>3, <2>1, <2>2, <2>3, <2>4 DEF LeaderStep, Gating, Voting
<1>4. CASE WorkerStep
  <2>1. ~crashed
    BY <1>4 DEF WorkerStep
  <2>2. CASE GateSend(W) \/ VoteSend(W)
    BY <2>2, WriteKeeps, Ranks
  <2>3. CASE GateJoin(W) \/ VoteRead(W)
    <3>1. VoteRead(W) => Delivered(W)
      BY DEF VoteRead, Delivered, L, W
    <3>2. QED
      BY <2>3, <3>1, PassKeeps, Ranks
  <2>4. CASE WorkerAck \/ WorkerHalf
    BY <2>4, AnswerKeeps
  <2>5. CASE WorkerCommit
    BY <2>5, CommitKeeps
  <2>6. CASE Receive
    BY <2>6, ReceiveKeeps
  <2>7. QED
    BY <1>1, <1>4, <2>1, <2>2, <2>3, <2>4, <2>5, <2>6, Ranks DEF WorkerStep, Gating, Voting
<1>5. CASE Stop \/ \E c \in Commands : Issue(c)
  BY <1>5, AnnounceKeeps
<1>6. CASE Crash
  <2>1. /\ UNCHANGED <<sess, job, todo, sent, sync, frames, gates, gateSeq, gateDead>>
        /\ UNCHANGED <<failed, torn, alive, stopped, logits, env>>
    BY <1>6 DEF Crash, setting
  <2>2. QED
    BY <2>1, StutterKeeps
<1>7. QED
  BY <1>1, <1>2, <1>3, <1>4, <1>5, <1>6, Ranks DEF PairNext

\* So the leader of a pair in step comes to be without its worker.
LEMMA BecomesBereft ==
  ASSUME LocallySound, InStep, LogitsFit, Permitted, crashed, Misses
  PROVE  Bereft
<1>1. frames[W] = <<>> /\ gates[W] = <<>>
  BY MissesAll
<1>2. FailStop /\ env \in Settings /\ torn = FALSE /\ Domains /\ SessionSound(sess[L])
  BY SoundParts, Ranks
<1>3. "VERIFY" \notin env.ops /\ (job[L] # None => job[L].op # "VERIFY")
  BY <1>2 DEF FailStop, Permitted
<1>4. job[L] # None => job[L] \in Commands /\ job[L].op # "INVALIDATE" /\ Shape(todo[L], job[L])
  BY HeadFacts, Ranks
<1>5. ~At(L, "commit")
  BY <1>3, HeadFacts, Ranks DEF At
<1>6. ASSUME NEW s \in Sessions
      PROVE  /\ sess[L][s].toks \in Seq(Token)
             /\ sess[L][s].valid => Sampled(s) \/ (job[L] # None /\ s \in ToSet(job[L].ss))
  <2>1. sess[L][s].toks \in Seq(Token)
    BY <1>2 DEF SessionSound
  <2>2. ASSUME sess[L][s].valid, ~Owed(s) PROVE Sampled(s)
    <3>1. Settled(s) = sess[L][s]
      BY <1>5 DEF Settled
    <3>2. QED
      BY <2>2, <3>1 DEF LogitsFit, Sampled
  <2>3. ASSUME Owed(s) PROVE job[L] # None /\ s \in ToSet(job[L].ss)
    BY <1>4, <2>3 DEF Owed, Shape
  <2>4. QED
    BY <2>1, <2>2, <2>3
<1>7. /\ DOMAIN sess = Rank /\ DOMAIN job = Rank /\ DOMAIN todo = Rank
      /\ DOMAIN frames = Rank /\ DOMAIN gates = Rank /\ DOMAIN logits = Sessions
      /\ DOMAIN sess[L] = Sessions
  BY <1>2 DEF Domains, SessionSound
<1>8. QED
  BY <1>1, <1>2, <1>3, <1>4, <1>6, <1>7 DEF Bereft

\* It stays so: what a step may do to its sessions and to its command.
Stays(s) == sess'[L][s] = sess[L][s] /\ logits'[s] = logits[s]
LEMMA StaysBereft ==
  ASSUME Bereft, UNCHANGED <<env, crashed, torn>>,
         DOMAIN sess' = Rank, DOMAIN job' = Rank, DOMAIN todo' = Rank,
         DOMAIN frames' = Rank, DOMAIN gates' = Rank, DOMAIN logits' = Sessions,
         frames'[W] = <<>>, gates'[W] = <<>>, DOMAIN sess'[L] = Sessions,
         \A s \in Sessions : sess'[L][s].toks \in Seq(Token),
         \A s \in Sessions :
           \/ sess'[L][s].valid = FALSE
           \/ job'[L] # None /\ s \in ToSet(job'[L].ss)
           \/ Stays(s) /\ (job[L] = None \/ s \notin ToSet(job[L].ss)),
         job'[L] # None => /\ job'[L] \in Commands /\ job'[L].op \notin {"VERIFY", "INVALIDATE"}
                           /\ Shape(todo'[L], job'[L])
  PROVE  Bereft'
<1>1. /\ FailStop' /\ env' \in Settings /\ crashed' /\ torn' = FALSE
      /\ Commands' = Commands
  BY DEF Bereft, FailStop, Commands
<1>2. ASSUME NEW s \in Sessions, sess'[L][s].valid
      PROVE  Sampled(s)' \/ (job'[L] # None /\ s \in ToSet(job'[L].ss))
  <2>1. CASE Stays(s) /\ (job[L] = None \/ s \notin ToSet(job[L].ss))
    <3>1. Sampled(s)
      BY <1>2, <2>1 DEF Bereft, Stays
    <3>2. Sampled(s)'
      BY <2>1, <3>1 DEF Stays, Sampled
    <3>3. QED
      BY <3>2
  <2>2. QED
    BY <1>2, <2>1
<1>3. QED
  BY <1>1, <1>2 DEF Bereft

\* Forgetting sessions.
LEMMA BereftForgets ==
  ASSUME Bereft, NEW ss, sess' = Invalid(L, ss)
  PROVE  /\ DOMAIN sess' = Rank /\ DOMAIN sess'[L] = Sessions
         /\ \A s \in Sessions :
              /\ sess'[L][s].toks \in Seq(Token)
              /\ s \in ToSet(ss) => sess'[L][s].valid = FALSE
              /\ s \notin ToSet(ss) => sess'[L][s] = sess[L][s]
<1>1. DOMAIN sess = Rank /\ \A s \in Sessions : sess[L][s].toks \in Seq(Token)
  BY DEF Bereft
<1>2. /\ DOMAIN sess' = Rank
      /\ sess'[L] = [s \in Sessions |-> IF s \in ToSet(ss) THEN Fresh ELSE sess[L][s]]
  BY <1>1, Ranks DEF Invalid
<1>3. Fresh.toks \in Seq(Token) /\ Fresh.valid = FALSE
  BY DEF Fresh
<1>4. QED
  BY <1>1, <1>2, <1>3

\* The command is over: its sessions are forgotten.
LEMMA BereftGivesUp ==
  ASSUME Bereft, NEW down, GiveUp(frames, down),
         UNCHANGED <<env, crashed, gates, logits>>, torn' = FALSE
  PROVE  Bereft'
<1>1. /\ DOMAIN job = Rank /\ DOMAIN todo = Rank /\ DOMAIN frames = Rank /\ DOMAIN gates = Rank
      /\ DOMAIN logits = Sessions /\ frames[W] = <<>> /\ gates[W] = <<>> /\ torn = FALSE
  BY DEF Bereft
<1>2. PICK ss : ss = job[L].ss
  OBVIOUS
<1>3. /\ sess' = Invalid(L, ss) /\ frames' = TellInvalid(frames, ss, down)
      /\ job' = [job EXCEPT ![L] = None] /\ todo' = [todo EXCEPT ![L] = <<>>]
  BY <1>2 DEF GiveUp, Return, Goto
<1>4. DOMAIN frames' = Rank /\ frames'[W] = <<>>
  BY <1>1, <1>3, Ranks DEF TellInvalid
<1>5. DOMAIN job' = Rank /\ DOMAIN todo' = Rank /\ job'[L] = None
  BY <1>1, <1>3, Ranks
<1>6. /\ DOMAIN sess' = Rank /\ DOMAIN sess'[L] = Sessions
      /\ \A s \in Sessions :
           /\ sess'[L][s].toks \in Seq(Token)
           /\ s \in ToSet(ss) => sess'[L][s].valid = FALSE
           /\ s \notin ToSet(ss) => sess'[L][s] = sess[L][s]
  BY <1>3, BereftForgets
<1>7. \A s \in Sessions : \/ sess'[L][s].valid = FALSE
                          \/ Stays(s) /\ (job[L] = None \/ s \notin ToSet(job[L].ss))
  BY <1>2, <1>6 DEF Stays
<1>8. QED
  BY <1>1, <1>4, <1>5, <1>6, <1>7, StaysBereft

\* A gate is passed without the worker's half.
LEMMA BereftComputes ==
  ASSUME Bereft, At(L, "gate"), NEW pure, Computed(L, Head1(L), pure),
         UNCHANGED <<env, crashed, torn, job, frames>>, DOMAIN gates' = Rank, gates'[W] = <<>>
  PROVE  Bereft'
<1>1. /\ DOMAIN sess = Rank /\ DOMAIN job = Rank /\ DOMAIN todo = Rank
      /\ DOMAIN frames = Rank /\ DOMAIN logits = Sessions /\ frames[W] = <<>>
      /\ DOMAIN sess[L] = Sessions /\ \A s \in Sessions : sess[L][s].toks \in Seq(Token)
      /\ job[L] # None => /\ job[L] \in Commands /\ job[L].op \notin {"VERIFY", "INVALIDATE"}
                          /\ Shape(todo[L], job[L])
  BY DEF Bereft
<1>2. job[L] # None /\ Head1(L).do = "gate"
  BY DEF At
<1>3. PICK g, q, c : g = Head1(L) /\ q = todo[L] /\ c = job[L]
  OBVIOUS
<1>4. /\ Shape(q, c) /\ c.op # "VERIFY" /\ g = q[1] /\ g.do = "gate"
      /\ 1 \in 1..Len(q) /\ Shape(Tail(q), c)
  <2>1. Shape(q, c) /\ c.op # "VERIFY" /\ g.do = "gate"
    BY <1>1, <1>2, <1>3
  <2>2. q # <<>> /\ Head(q) = q[1] /\ 1 \in 1..Len(q)
    BY <2>1, ShapeFacts
  <2>3. g = q[1]
    BY <1>3, <2>2 DEF Head1
  <2>4. Shape(Tail(q), c)
    BY <2>1, <2>3, ShapeFacts
  <2>5. QED
    BY <2>1, <2>2, <2>3, <2>4
<1>5. g.s \in Sessions /\ g.toks \in Seq(Token) /\ g.s \in ToSet(c.ss)
  <2>1. /\ g.s \in Sessions /\ g.toks \in Seq(Token)
        /\ \E j \in 1..Len(q) : q[j] = Half(g.s)
    BY <1>4 DEF Shape
  <2>2. PICK j \in 1..Len(q) : q[j] = Half(g.s)
    BY <2>1
  <2>3. q[j].do = "half" /\ q[j].s = g.s
    BY <2>2 DEF Half
  <2>4. g.s \in ToSet(c.ss)
    BY <1>4, <2>3 DEF Shape
  <2>5. QED
    BY <2>1, <2>4
<1>6. PICK x : /\ x.toks = g.toks
               /\ sess' = [sess EXCEPT ![L] = [sess[L] EXCEPT ![g.s] = x]]
               /\ \/ logits' = logits
                  \/ logits' = [logits EXCEPT ![g.s] = <<Of(g.s, x)>>]
  <2>1. Computed(L, g, pure)
    BY <1>3
  <2>2. PICK x : x = [toks |-> g.toks, valid |-> TRUE,
                      pure |-> pure /\ (sess[L][g.s].pure \/ Len(g.toks) = 1)]
    OBVIOUS
  <2>3. /\ sess' = [sess EXCEPT ![L] = [sess[L] EXCEPT ![g.s] = x]]
        /\ \/ logits' = logits
           \/ logits' = [logits EXCEPT ![g.s] = <<Of(g.s, x)>>]
    BY <2>1, <2>2 DEF Computed, WithSession
  <2>4. x.toks = g.toks
    BY <2>2
  <2>5. QED
    BY <2>3, <2>4
<1>7. /\ DOMAIN sess' = Rank /\ DOMAIN sess'[L] = Sessions /\ sess'[L][g.s] = x
      /\ \A s \in Sessions : s # g.s => sess'[L][s] = sess[L][s]
  BY <1>1, <1>5, <1>6, Ranks
<1>8. DOMAIN logits' = Sessions /\ \A s \in Sessions : s # g.s => logits'[s] = logits[s]
  BY <1>1, <1>5, <1>6
<1>9. \A s \in Sessions : sess'[L][s].toks \in Seq(Token)
  BY <1>1, <1>5, <1>6, <1>7
<1>10. /\ DOMAIN todo' = Rank /\ todo'[L] = Tail(q)
  BY <1>1, <1>3, Ranks DEF Computed, Advance, Goto
<1>11. /\ job'[L] = c /\ c # None /\ c \in Commands /\ c.op \notin {"VERIFY", "INVALIDATE"}
       /\ Shape(todo'[L], job'[L])
  BY <1>1, <1>2, <1>3, <1>4, <1>10
<1>12. \A s \in Sessions :
         \/ job'[L] # None /\ s \in ToSet(job'[L].ss)
         \/ Stays(s) /\ (job[L] = None \/ s \notin ToSet(job[L].ss))
  BY <1>3, <1>5, <1>7, <1>8, <1>11 DEF Stays
<1>13. DOMAIN job' = Rank /\ DOMAIN frames' = Rank /\ frames'[W] = <<>>
  BY <1>1
<1>14. QED
  BY <1>7, <1>8, <1>9, <1>10, <1>11, <1>12, <1>13, StaysBereft

\* What a rank that has lost its peer has left to do.
LEMMA EndingShape ==
  ASSUME NEW c, c.ss[1] \in ToSet(c.ss)
  PROVE  Shape(<<Ack, Half(c.ss[1])>>, c)
<1>1. PICK a, h : a = Ack /\ h = Half(c.ss[1])
  OBVIOUS
<1>2. a.do = "ack" /\ h.do = "half" /\ h.s = c.ss[1]
  BY <1>1 DEF Ack, Half
<1>3. PICK q : q = <<a, h>>
  OBVIOUS
<1>4. IsList(q) /\ Len(q) = 2 /\ q[1] = a /\ q[2] = h /\ q # <<>>
  BY <1>3, Tuples
<1>5. \A i \in 1..2 : i = 1 \/ i = 2
  OBVIOUS
<1>6. /\ \A i \in 1..2 : /\ q[i].do \in {"ack", "half"}
                         /\ q[i].do = "half" => q[i].s \in ToSet(c.ss)
      /\ q[2].do = "half"
  BY <1>2, <1>4, <1>5
<1>7. \A i \in 1..2 : \A j \in i..2 : j \in 1..2
  OBVIOUS
<1>8. Shape(q, c)
  BY <1>4, <1>6, <1>7 DEF Shape
<1>9. QED
  BY <1>1, <1>3, <1>8

\* A step that changes neither the sessions nor the logits, and the steps left
\* to the leader only to those a lost sync ends with.
LEMMA BereftGoesOn ==
  ASSUME Bereft,
         UNCHANGED <<env, crashed, torn, sess, job, logits>>,
         DOMAIN frames' = Rank, DOMAIN gates' = Rank, frames'[W] = <<>>, gates'[W] = <<>>,
         todo' = todo \/ (job[L] # None /\ todo' = [todo EXCEPT ![L] = Ending(L)])
  PROVE  Bereft'
<1>1. /\ DOMAIN sess = Rank /\ DOMAIN job = Rank /\ DOMAIN todo = Rank /\ DOMAIN logits = Sessions
      /\ DOMAIN sess[L] = Sessions /\ \A s \in Sessions : sess[L][s].toks \in Seq(Token)
      /\ job[L] # None => /\ job[L] \in Commands /\ job[L].op \notin {"VERIFY", "INVALIDATE"}
                          /\ Shape(todo[L], job[L])
      /\ env \in Settings
  BY DEF Bereft
<1>2. DOMAIN todo' = Rank /\ (job[L] # None => Shape(todo'[L], job[L]))
  <2>1. CASE todo' = todo
    BY <1>1, <2>1
  <2>2. CASE job[L] # None /\ todo' = [todo EXCEPT ![L] = Ending(L)]
    <3>1. PICK c : c = job[L]
      OBVIOUS
    <3>2. c.ss[1] \in ToSet(c.ss)
      BY <1>1, <2>2, <3>1, CommandFacts
    <3>3. todo'[L] = <<Ack, Half(c.ss[1])>> /\ DOMAIN todo' = Rank
      BY <1>1, <2>2, <3>1, Ranks DEF Ending
    <3>4. Shape(todo'[L], c)
      BY <3>2, <3>3, EndingShape
    <3>5. QED
      BY <3>1, <3>3, <3>4
  <2>3. QED
    BY <2>1, <2>2
<1>3. \A s \in Sessions :
        \/ job'[L] # None /\ s \in ToSet(job'[L].ss)
        \/ Stays(s) /\ (job[L] = None \/ s \notin ToSet(job[L].ss))
  BY DEF Stays
<1>4. QED
  BY <1>1, <1>2, <1>3, StaysBereft

\* Nothing is there for the leader to read.
LEMMA BereftReads ==
  ASSUME Bereft
  PROVE  /\ Next1(L) = Frame("eof") /\ Consumed(L) = frames
         /\ Next1(L).kind = "eof"
         /\ ~Agrees(L, Next1(L))
<1>1. crashed /\ torn = FALSE /\ frames[W] = <<>>
  BY DEF Bereft
<1>2. Next1(L) = Frame("eof") /\ Consumed(L) = frames
  BY <1>1, Ranks DEF Next1, Consumed, WorkerGone
<1>3. Next1(L).kind = "eof"
  BY <1>2 DEF Frame
<1>4. QED
  BY <1>2, <1>3 DEF Agrees

\* The gates and votes of a leader without a worker.
LEMMA BereftWaits ==
  ASSUME Bereft, Gating(L) \/ Voting(L)
  PROVE  Bereft'
<1>1. /\ DOMAIN frames = Rank /\ DOMAIN gates = Rank /\ frames[W] = <<>> /\ gates[W] = <<>>
  BY DEF Bereft
<1>2. CASE GateSend(L)
  <2>1. /\ At(L, "gate") /\ UNCHANGED <<env, crashed, torn, job, frames>>
        /\ \/ Computed(L, Head1(L), FALSE) /\ gates' = gates
           \/ /\ \E m : gates' = [gates EXCEPT ![L] = m]
              /\ UNCHANGED <<sess, logits, todo>>
    BY <1>2 DEF GateSend, Doing, link, setting
  <2>2. DOMAIN gates' = Rank /\ gates'[W] = <<>>
    BY <1>1, <2>1, Ranks
  <2>3. CASE Computed(L, Head1(L), FALSE)
    BY <2>1, <2>2, <2>3, BereftComputes
  <2>4. CASE UNCHANGED <<sess, logits, todo>>
    BY <1>1, <2>1, <2>2, <2>4, BereftGoesOn
  <2>5. QED
    BY <2>1, <2>3, <2>4
<1>3. CASE GateJoin(L)
  BY <1>1, <1>3, Ranks DEF GateJoin
<1>4. CASE GateTimeout(L)
  <2>1. /\ At(L, "gate") /\ UNCHANGED <<env, crashed, torn, job, frames, gates>>
        /\ Computed(L, Head1(L), FALSE)
    BY <1>4 DEF GateTimeout, Waits, link, setting
  <2>2. QED
    BY <1>1, <2>1, BereftComputes
<1>5. CASE VoteSend(L)
  <2>1. /\ UNCHANGED <<env, crashed, torn, sess, job, gates, logits>> /\ job[L] # None
        /\ \/ frames' = frames /\ todo' = [todo EXCEPT ![L] = Ending(L)]
           \/ todo' = todo /\ \E m : frames' = [frames EXCEPT ![L] = m]
    BY <1>5 DEF VoteSend, Doing, At, link, setting, Lost, Goto, Send
  <2>2. DOMAIN frames' = Rank /\ frames'[W] = <<>>
    BY <1>1, <2>1, Ranks
  <2>3. QED
    BY <1>1, <2>1, <2>2, BereftGoesOn
<1>6. CASE VoteRead(L)
  <2>1. Consumed(L) = frames /\ ~Agrees(L, Next1(L))
    BY BereftReads
  <2>2. /\ UNCHANGED <<env, crashed, torn, sess, job, gates, logits>> /\ job[L] # None
        /\ frames' = frames /\ todo' = [todo EXCEPT ![L] = Ending(L)]
    BY <1>6, <2>1 DEF VoteRead, Waits, At, link, setting, Lost, Goto
  <2>3. QED
    BY <1>1, <2>2, BereftGoesOn
<1>7. QED
  BY <1>2, <1>3, <1>4, <1>5, <1>6 DEF Gating, Voting

\* Its commands end, all in the same way.
LEMMA BereftEnds ==
  ASSUME Bereft, Abandon \/ LeaderAck \/ LeaderHalf \/ LeaderCommit
  PROVE  Bereft'
<1>1. torn = FALSE /\ Next1(L).kind = "eof" /\ Consumed(L) = frames
  BY BereftReads DEF Bereft
<1>2. job[L] # None =>
        job[L].op # "VERIFY" /\ Shape(todo[L], job[L]) /\ Head1(L).do # "commit"
  <2>1. job[L] # None => job[L].op # "VERIFY" /\ Shape(todo[L], job[L])
    BY DEF Bereft
  <2>2. QED
    BY <2>1, ShapeFacts DEF Head1
<1>3. CASE Abandon
  <2>1. PICK down : down = failed[L]
    OBVIOUS
  <2>2. /\ GiveUp(frames, down) /\ UNCHANGED <<env, crashed, torn, gates, logits>>
    BY <1>3, <2>1 DEF Abandon, link, setting
  <2>3. QED
    BY <1>1, <2>2, BereftGivesUp
<1>4. CASE LeaderAck
  <2>1. PICK down : down = failed'[L]
    OBVIOUS
  <2>2. GiveUp(Consumed(L), failed'[L]) /\ UNCHANGED <<env, crashed, torn, gates, logits>>
    BY <1>1, <1>4 DEF LeaderAck, link, setting
  <2>3. GiveUp(frames, down)
    BY <1>1, <2>1, <2>2
  <2>4. QED
    BY <1>1, <2>2, <2>3, BereftGivesUp
<1>5. CASE LeaderHalf
  <2>1. PICK down : down = failed[L]
    OBVIOUS
  <2>2. job[L] # None
    BY <1>5 DEF LeaderHalf, Doing, At
  <2>3. /\ GiveUp(Consumed(L), failed[L]) /\ UNCHANGED <<env, crashed, gates, logits>>
        /\ torn' = torn
    BY <1>1, <1>2, <1>5, <2>2 DEF LeaderHalf, setting
  <2>4. GiveUp(frames, down)
    BY <1>1, <2>1, <2>3
  <2>5. QED
    BY <1>1, <2>3, <2>4, BereftGivesUp
<1>6. CASE LeaderCommit
  BY <1>2, <1>6 DEF LeaderCommit, Doing, At
<1>7. QED
  BY <1>3, <1>4, <1>5, <1>6

\* It may still issue commands: writing to the dead worker fails, or does not.
LEMMA BereftIssues ==
  ASSUME Bereft, Permitted, NEW c \in Commands, c.op \in env.ops, Issue(c) \/ SendFails(c)
  PROVE  Bereft'
<1>1. /\ DOMAIN sess = Rank /\ DOMAIN job = Rank /\ DOMAIN todo = Rank
      /\ DOMAIN frames = Rank /\ DOMAIN gates = Rank /\ DOMAIN logits = Sessions
      /\ frames[W] = <<>> /\ gates[W] = <<>> /\ DOMAIN sess[L] = Sessions /\ env \in Settings
      /\ \A s \in Sessions : sess[L][s].toks \in Seq(Token)
  BY DEF Bereft
<1>2. job[L] = None /\ UNCHANGED <<env, crashed, torn, gates, logits>>
  BY DEF Issue, SendFails, link, setting
<1>3. c.op # "VERIFY"
  BY DEF Bereft, FailStop, Permitted
<1>4. ASSUME sess' = Invalid(L, c.ss), UNCHANGED <<job, todo>>,
             DOMAIN frames' = Rank, frames'[W] = <<>>
      PROVE  Bereft'
  <2>1. PICK ss : ss = c.ss
    OBVIOUS
  <2>2. /\ DOMAIN sess' = Rank /\ DOMAIN sess'[L] = Sessions
        /\ \A s \in Sessions :
             /\ sess'[L][s].toks \in Seq(Token)
             /\ s \in ToSet(ss) => sess'[L][s].valid = FALSE
             /\ s \notin ToSet(ss) => sess'[L][s] = sess[L][s]
    BY <1>4, <2>1, BereftForgets
  <2>3. \A s \in Sessions : \/ sess'[L][s].valid = FALSE
                            \/ Stays(s) /\ job[L] = None
    BY <1>2, <2>2 DEF Stays
  <2>4. job'[L] = None /\ DOMAIN job' = Rank /\ DOMAIN todo' = Rank
        /\ DOMAIN gates' = Rank /\ gates'[W] = <<>> /\ DOMAIN logits' = Sessions
    BY <1>1, <1>2, <1>4
  <2>5. QED
    BY <1>2, <1>4, <2>2, <2>3, <2>4, StaysBereft
<1>5. CASE Issue(c) /\ c.op = "INVALIDATE"
  <2>1. sess' = Invalid(L, c.ss) /\ UNCHANGED <<job, todo>>
        /\ \E ss, down : frames' = TellInvalid(frames, ss, down)
    BY <1>5 DEF Issue
  <2>2. DOMAIN frames' = Rank /\ frames'[W] = <<>>
    BY <1>1, <2>1, Ranks DEF TellInvalid
  <2>3. QED
    BY <1>4, <2>1, <2>2
<1>6. CASE Issue(c) /\ c.op # "INVALIDATE"
  <2>1. /\ sess' = sess /\ \E m : frames' = [frames EXCEPT ![L] = m]
        /\ job' = [job EXCEPT ![L] = c] /\ todo' = [todo EXCEPT ![L] = Steps(L, c)]
    BY <1>6 DEF Issue, Begin, Goto, Send
  <2>2. PICK q : q = Steps(L, c)
    OBVIOUS
  <2>3. Shape(q, c)
    BY <1>1, <1>3, <1>6, <2>2, StepsOf, Ranks
  <2>4. /\ DOMAIN frames' = Rank /\ frames'[W] = <<>> /\ DOMAIN gates' = Rank
        /\ gates'[W] = <<>> /\ DOMAIN logits' = Sessions
    BY <1>1, <1>2, <2>1, Ranks
  <2>5. DOMAIN job' = Rank /\ DOMAIN todo' = Rank /\ job'[L] = c /\ todo'[L] = q
    BY <1>1, <2>1, <2>2, Ranks
  <2>6. /\ job'[L] \in Commands /\ job'[L].op \notin {"VERIFY", "INVALIDATE"}
        /\ Shape(todo'[L], job'[L])
    BY <1>3, <1>6, <2>3, <2>5
  <2>7. \A s \in Sessions : Stays(s)
    BY <1>2, <2>1 DEF Stays
  <2>8. DOMAIN sess' = Rank /\ DOMAIN sess'[L] = Sessions
        /\ \A s \in Sessions : sess'[L][s].toks \in Seq(Token)
    BY <1>1, <2>1
  <2>9. QED
    BY <1>2, <2>4, <2>5, <2>6, <2>7, <2>8, StaysBereft
<1>7. CASE SendFails(c)
  <2>1. UNCHANGED <<job, todo, frames>> /\ (sess' = Invalid(L, c.ss) \/ sess' = sess)
    BY <1>7 DEF SendFails
  <2>2. CASE sess' = Invalid(L, c.ss)
    BY <1>1, <1>4, <2>1, <2>2
  <2>3. CASE sess' = sess
    BY <1>1, <1>2, <2>1, <2>3, BereftGoesOn
  <2>4. QED
    BY <2>1, <2>2, <2>3
<1>8. QED
  BY <1>5, <1>6, <1>7

\* So a leader without its worker stays so, and holds nothing it should not.
LEMMA BereftKeeps ==
  ASSUME Bereft, Permitted, PairNext \/ UNCHANGED pairVars
  PROVE  Bereft'
<1>1. /\ DOMAIN frames = Rank /\ DOMAIN gates = Rank /\ frames[W] = <<>> /\ gates[W] = <<>>
      /\ crashed /\ env.faults = {}
  BY DEF Bereft, FailStop
<1>2. ~WorkerStep /\ ~Crash /\ ~EvalFault /\ ~SyncFault(L)
  BY <1>1 DEF WorkerStep, Crash, WorkerGone, EvalFault, SyncFault
<1>3. CASE LeaderStep
  BY <1>3, BereftWaits, BereftEnds DEF LeaderStep
<1>4. CASE \E c \in Commands : c.op \in env.ops /\ (Issue(c) \/ SendFails(c))
  BY <1>4, BereftIssues
<1>5. CASE Stop
  <2>1. /\ UNCHANGED <<env, crashed, torn, sess, job, gates, logits, todo>>
        /\ \E m : frames' = [frames EXCEPT ![L] = m]
    BY <1>5 DEF Stop, Send, setting
  <2>2. DOMAIN frames' = Rank /\ frames'[W] = <<>>
    BY <1>1, <2>1, Ranks
  <2>3. QED
    BY <1>1, <2>1, <2>2, BereftGoesOn
<1>6. CASE UNCHANGED pairVars
  <2>1. UNCHANGED <<env, crashed, torn, sess, job, gates, logits, todo, frames>>
    BY <1>6 DEF pairVars
  <2>2. QED
    BY <1>1, <2>1, BereftGoesOn
<1>7. QED
  BY <1>1, <1>2, <1>3, <1>4, <1>5, <1>6 DEF PairNext

-----------------------------------------------------------------------------
(* What the setting permits.                                               *)

\* What a step does to the command a rank executes.
LEMMA JobsOf ==
  ASSUME PairNext \/ UNCHANGED pairVars
  PROVE  /\ env' = env /\ (crashed' = crashed \/ (env.crashes /\ crashed' = TRUE))
         /\ \/ job' = job
            \/ \E r \in Rank : job' = [job EXCEPT ![r] = None]
            \/ \E c : c.op \in env.ops /\ job' = [job EXCEPT ![L] = c]
            \/ \E x : job' = [job EXCEPT ![W] = x]
<1> USE DEF link, setting, Return
<1>1. ASSUME NEW r \in Rank, Gating(r) \/ Voting(r)
      PROVE  UNCHANGED <<env, crashed, job>>
  BY <1>1 DEF Gating, Voting, GateSend, GateJoin, GateTimeout, VoteSend, VoteRead
<1>2. CASE Abandon \/ LeaderAck \/ LeaderHalf
  BY <1>2, Ranks DEF Abandon, LeaderAck, LeaderHalf, GiveUp
<1>3. CASE LeaderCommit \/ WorkerCommit
  BY <1>3, Ranks DEF LeaderCommit, WorkerCommit, Keep, Replay, WorkerExits
<1>4. CASE WorkerAck \/ WorkerHalf
  BY <1>4, Ranks DEF WorkerAck, WorkerHalf, WorkerExits
<1>5. CASE Receive
  BY <1>5 DEF Receive, Begin
<1>6. ASSUME NEW c \in Commands, c.op \in env.ops, Issue(c) \/ SendFails(c)
      PROVE  /\ env' = env /\ crashed' = crashed
             /\ job' = job \/ job' = [job EXCEPT ![L] = c]
  BY <1>6 DEF Issue, SendFails, Begin
<1>7. CASE Stop \/ Crash
  BY <1>7 DEF Stop, Crash
<1>8. CASE EvalFault
  BY <1>8, Ranks DEF EvalFault, GiveUp
<1>9. ASSUME NEW r \in Rank, SyncFault(r)
      PROVE  UNCHANGED <<env, crashed, job>>
  BY <1>9 DEF SyncFault
<1>10. CASE UNCHANGED pairVars
  BY <1>10 DEF pairVars
<1>11. QED
  BY <1>1, <1>2, <1>3, <1>4, <1>5, <1>6, <1>7, <1>8, <1>9, <1>10, Ranks
     DEF PairNext, LeaderStep, WorkerStep

LEMMA PermittedKeeps ==
  ASSUME Permitted, PairNext \/ UNCHANGED pairVars
  PROVE  Permitted'
<1>1. DOMAIN job = Rank /\ (crashed => env.crashes) /\ (job[L] # None => job[L].op \in env.ops)
  BY DEF Permitted
<1>2. /\ env' = env /\ (crashed' = crashed \/ (env.crashes /\ crashed' = TRUE))
      /\ \/ job' = job
         \/ \E r \in Rank : job' = [job EXCEPT ![r] = None]
         \/ \E c : c.op \in env.ops /\ job' = [job EXCEPT ![L] = c]
         \/ \E x : job' = [job EXCEPT ![W] = x]
  BY JobsOf
<1>3. DOMAIN job' = Rank /\ (job'[L] # None => job'[L].op \in env.ops)
  BY <1>1, <1>2, Ranks
<1>4. QED
  BY <1>1, <1>2, <1>3 DEF Permitted

(* The inductive invariant of a pair whose worker may die: until the leader*)
(* waits for a dead worker, each rank's own state is sound, the two are in *)
(* step, the leader ahead in announcements only, and the logits are those  *)
(* of the checkpoints; from then on it is without its worker, and holds no *)
(* session but from before.                                                *)
THEOREM PairInvariant == PairSpec => []PairInv
<1>1. PairInit => PairInv
  BY PairStarts
<1>2. PairInv /\ [PairNext]_pairVars => PairInv'
  <2> SUFFICES ASSUME PairInv, PairNext \/ UNCHANGED pairVars PROVE PairInv'
    OBVIOUS
  <2>1. env' = env
    BY JobsOf
  <2>2. FailStop' <=> FailStop
    BY <2>1 DEF FailStop
  <2>3. ASSUME FailStop
        PROVE  Permitted' /\ ((LocallySound /\ InStep /\ LogitsFit)' \/ Bereft')
    <3>1. Permitted /\ ((LocallySound /\ InStep /\ LogitsFit) \/ Bereft)
      BY <2>3 DEF PairInv
    <3>2. Permitted'
      BY <3>1, PermittedKeeps
    <3>3. CASE Bereft
      BY <3>1, <3>2, <3>3, BereftKeeps
    <3>4. CASE LocallySound /\ InStep /\ LogitsFit /\ PairNext /\ crashed /\ Misses
      BY <3>1, <3>2, <3>4, BecomesBereft, BereftKeeps
    <3>5. CASE LocallySound /\ InStep /\ LogitsFit /\ PairNext /\ ~(crashed /\ Misses)
      BY <3>2, <3>5, ActionKeeps
    <3>6. CASE LocallySound /\ InStep /\ LogitsFit /\ UNCHANGED pairVars
      <4>1. /\ UNCHANGED <<sess, job, todo, sent, sync, frames, gates, gateSeq, gateDead>>
            /\ UNCHANGED <<failed, torn, alive, stopped, logits, env>>
        BY <3>6 DEF pairVars
      <4>2. QED
        BY <3>2, <3>6, <4>1, StutterKeeps
    <3>7. QED
      BY <3>1, <3>3, <3>4, <3>5, <3>6
  <2>4. QED
    BY <2>2, <2>3 DEF PairInv
<1>3. QED
  BY <1>1, <1>2, PTL DEF PairSpec

(* A pair of which nothing fails but the worker as a whole holds the same  *)
(* sessions on both ranks between commands, and one of which nothing fails *)
(* stays a pair, whatever the leader cancels.                              *)
THEOREM PairInStepCorrect == PairSpec => [](FailStop => PairInStep)
<1>1. PairInv => (FailStop => PairInStep)
  <2> SUFFICES ASSUME PairInv, FailStop PROVE PairInStep
    OBVIOUS
  <2>1. Permitted /\ ((LocallySound /\ InStep) \/ Bereft)
    BY DEF PairInv
  <2>2. ASSUME Healthy
        PROVE  (\A r \in Rank : ~failed[r]) /\ (~alive => stopped)
    <3>1. ~crashed
      BY <2>1, <2>2 DEF Permitted, Healthy
    <3>2. LocallySound /\ InStep
      BY <2>1, <3>1 DEF Bereft
    <3>3. ~alive => stopped
      BY <3>2 DEF InStep, Together, Replied, Linked, Announcing, Keeping, Ahead0, Replaying, Over
    <3>4. QED
      BY <3>2, <3>3 DEF LocallySound
  <2>3. ASSUME Quiet PROVE MirroredSessions
    <3>1. /\ job[L] = None /\ job[W] = None /\ frames[L] = <<>> /\ alive /\ ~crashed /\ ~stopped
      BY <2>3, Ranks DEF Quiet, WorkerGone
    <3>2. LocallySound /\ InStep
      BY <2>1, <3>1 DEF Bereft
    <3>3. Announcing
      BY <3>1, <3>2 DEF InStep, Together, Replied, Linked, Keeping, Replaying, Block, Over
    <3>4. Unheard = {}
      <4>1. Len(frames[L]) = 0
        BY <3>1, Tuples
      <4>2. QED
        BY <4>1 DEF Unheard
    <3>5. \A s \in Sessions : sess[L][s] = sess[W][s]
      BY <3>3, <3>4 DEF Announcing, Wiped
    <3>6. /\ sent[L] = FALSE
          /\ gates[W] = <<>> /\ gates[L] = GateOut(L) /\ Passed(L) = gateSeq[W]
      BY <3>1, <3>2, <3>3, Ranks DEF Announcing, Ahead0, LocallySound, At
    <3>7. gates[L] = <<>> /\ gateSeq[L] = gateSeq[W]
      BY <3>6 DEF GateOut, Passed, Waits
    <3>8. \A r \in Rank : gates[r] = <<>>
      BY <3>6, <3>7, Ranks
    <3>9. QED
      BY <3>5, <3>7, <3>8 DEF MirroredSessions
  <2>4. CancelKeepsThePair
    BY <2>2 DEF CancelKeepsThePair
  <2>5. QED
    BY <2>3, <2>4 DEF PairInStep, MirroredSessions
<1>2. QED
  BY <1>1, PairInvariant, PTL

(* Of a pair of which nothing fails but the worker as a whole, the logits a*)
(* token is sampled from are two halves of one evaluation of the session's *)
(* checkpoint.                                                             *)
THEOREM LogitsAgreeCorrect == PairSpec => [](FailStop => LogitsAgree)
<1>1. PairInv => (FailStop => LogitsAgree)
  <2> SUFFICES ASSUME PairInv, FailStop, job[L] = None, NEW s \in Sessions, sess[L][s].valid
               PROVE  LET half == [s |-> s, toks |-> sess[L][s].toks, pure |-> TRUE] IN
                      logits[s] = <<half, half>>
    BY DEF LogitsAgree
  <2>1. Sampled(s)
    <3>1. CASE Bereft
      BY <3>1 DEF Bereft
    <3>2. CASE LogitsFit
      <4>1. Settled(s) = sess[L][s] /\ ~Owed(s)
        BY DEF Settled, Owed, At
      <4>2. QED
        BY <3>2, <4>1 DEF LogitsFit, Sampled
    <3>3. QED
      BY <3>1, <3>2 DEF PairInv
  <2>2. Of(s, sess[L][s]) = [s |-> s, toks |-> sess[L][s].toks, pure |-> TRUE]
    BY <2>1 DEF Of, Sampled
  <2>3. QED
    BY <2>1, <2>2 DEF Sampled
<1>2. QED
  BY <1>1, PairInvariant, PTL
=============================================================================
