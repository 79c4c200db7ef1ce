---------------------------- MODULE FlbRouter_proofs ----------------------------
(***************************************************************************)
(* Theorems about FlbRouter: what flb_router_match() decides for strings   *)
(* of every length, and the invariants of the configuration and routing.   *)
(***************************************************************************)
EXTENDS FlbRouter, FiniteSetTheorems, WellFoundedInduction, TLAPS

-----------------------------------------------------------------------------
(* The match.  Its recursive function exists, and what it computes is shown *)
(* by induction on the number of characters of the pattern that are left,  *)
(* each time by way of the least counterexample.                           *)

\* A set of natural numbers has a least element.
LEMMA LeastElement ==
  ASSUME NEW T, T \subseteq Nat, T # {}
  PROVE  \E x \in T : \A y \in T : x =< y
<1> DEFINE R == OpToRel(<, Nat)
<1>1. IsWellFoundedOn(R, Nat)
  BY NatLessThanWellFounded
<1>2. PICK x \in T : \A y \in T : ~ (<<y, x>> \in R)
  <2> HIDE DEF R
  <2> QED BY <1>1, WFMin
<1>3. \A y \in T : ~ (y < x)
  BY <1>2 DEF OpToRel
<1> QED BY <1>3

\* The value of the recursive function of flb_router_match() at j, computed
\* from the others.
Round(g, tag, match, j) ==
  IF j = Len(match) + 1 THEN {Len(tag) + 1} ELSE Step(tag, match, j, g[j + 1])

\* Step yields positions.
LEMMA StepPositions ==
  ASSUME NEW S, NEW tag \in Seq(S), NEW match, NEW j,
         NEW later \in SUBSET Positions(tag)
  PROVE  Step(tag, match, j, later) \in SUBSET Positions(tag)
BY DEF Step, Positions, Occurrences

\* The recursive function exists on the last k + 1 positions of the pattern.
Solution(tag, match, k) ==
  {g \in [(Len(match) + 1 - k)..(Len(match) + 1) -> SUBSET Positions(tag)] :
     \A j \in (Len(match) + 1 - k)..(Len(match) + 1) : g[j] = Round(g, tag, match, j)}

LEMMA SolutionExists ==
  ASSUME NEW S, NEW tag \in Seq(S), NEW match \in Seq(S)
  PROVE  Solution(tag, match, Len(match)) # {}
<1> DEFINE n == Len(match)
           T == {k \in 0..n : Solution(tag, match, k) = {}}
<1>1. n \in Nat /\ Len(tag) \in Nat
  OBVIOUS
<1>2. Solution(tag, match, 0) # {}
  <2> DEFINE g == [j \in (n + 1 - 0)..(n + 1) |-> {Len(tag) + 1}]
  <2>1. g \in [(n + 1 - 0)..(n + 1) -> SUBSET Positions(tag)]
    BY <1>1 DEF Positions
  <2>2. \A j \in (n + 1 - 0)..(n + 1) : g[j] = Round(g, tag, match, j)
    BY <1>1 DEF Round
  <2> HIDE DEF g
  <2> QED BY <2>1, <2>2 DEF Solution
<1>3. ASSUME NEW k \in 0..n, k > 0, Solution(tag, match, k - 1) # {}
      PROVE  Solution(tag, match, k) # {}
  <2>1. PICK g : g \in Solution(tag, match, k - 1)
    BY <1>3
  <2> DEFINE D == (n + 1 - (k - 1))..(n + 1)
             E == (n + 1 - k)..(n + 1)
             f == n + 1 - k
             h == [j \in E |-> IF j = f THEN Step(tag, match, f, g[f + 1]) ELSE g[j]]
  <2>2. /\ g \in [D -> SUBSET Positions(tag)]
        /\ \A j \in D : g[j] = Round(g, tag, match, j)
    BY <2>1 DEF Solution
  <2>3. /\ \A j \in E : j = f \/ j \in D
        /\ \A j \in D : j \in E /\ j # f
        /\ f \in E /\ f + 1 \in D /\ f # n + 1
        /\ \A j \in D : j # n + 1 => j + 1 \in D
    BY <1>1, <1>3, SMTT(30)
  <2> HIDE DEF D, E, f
  <2>4. \A j \in D : h[j] = g[j]
    BY <2>3
  <2>5. h[f] = Step(tag, match, f, h[f + 1])
    BY <2>3, <2>4
  <2>6. h \in [E -> SUBSET Positions(tag)]
    <3>1. Step(tag, match, f, g[f + 1]) \in SUBSET Positions(tag)
      BY <2>2, <2>3, StepPositions
    <3> QED BY <3>1, <2>2, <2>3
  <2>7. ASSUME NEW j \in E PROVE h[j] = Round(h, tag, match, j)
    <3>1. CASE j = f
      BY <3>1, <2>3, <2>5 DEF Round
    <3>2. CASE j # f
      <4>1. j \in D /\ h[j] = Round(g, tag, match, j)
        BY <3>2, <2>2, <2>3, <2>4, <2>7
      <4>2. j # n + 1 => h[j + 1] = g[j + 1]
        BY <4>1, <2>3, <2>4
      <4> HIDE DEF h
      <4> QED BY <4>1, <4>2 DEF Round
    <3> QED BY <3>1, <3>2
  <2> HIDE DEF h
  <2> QED BY <2>6, <2>7 DEF Solution, E
<1>4. T = {}
  <2> SUFFICES ASSUME T # {} PROVE FALSE
    OBVIOUS
  <2>0. T \subseteq Nat
    BY <1>1
  <2>1. PICK k \in T : \A y \in T : k =< y
    <3> HIDE DEF T
    <3> QED BY <2>0, LeastElement
  <2>2. k > 0
    BY <2>1, <1>2, <1>1
  <2>3. k - 1 \in 0..n /\ k - 1 \notin T
    BY <2>1, <2>2, <1>1
  <2> QED BY <2>1, <2>2, <2>3, <1>3
<1> QED BY <1>1, <1>4

\* The equations of the recursive function have a solution, so it solves them.
LEMMA MatchSolves ==
  ASSUME NEW S, NEW tag \in Seq(S), NEW match \in Seq(S)
  PROVE  \E g : /\ \A j \in 1..(Len(match) + 1) : g[j] = Round(g, tag, match, j)
                /\ flb_router_match(tag, match) <=> 1 \in g[1]
<1> DEFINE n == Len(match)
           F(g) == [j \in 1..(Len(match) + 1) |->
                      IF j = Len(match) + 1 THEN {Len(tag) + 1}
                      ELSE Step(tag, match, j, g[j + 1])]
           from == CHOOSE g : g = F(g)
<1>0. n \in Nat /\ n + 1 - n = 1
  OBVIOUS
<1>1. PICK h : h \in Solution(tag, match, n)
  BY SolutionExists
<1>2. h = F(h)
  BY <1>0, <1>1 DEF Solution, Round
<1>3. from = F(from)
  <2> HIDE DEF F
  <2> QED BY <1>2
<1>4. flb_router_match(tag, match) <=> 1 \in from[1]
  BY DEF flb_router_match
<1> HIDE DEF from
<1>5. \A j \in 1..(Len(match) + 1) : from[j] = Round(from, tag, match, j)
  BY <1>3 DEF Round
<1> QED BY <1>4, <1>5

\* What the j-th character of the pattern asks of a cut.
Piece(cut, tag, match, j) ==
  IF match[j] = Star THEN cut[j - 1] =< cut[j]
  ELSE cut[j] = cut[j - 1] + 1 /\ tag[cut[j]] = match[j]

\* The cuts of the tag from its i-th character on into the pieces of the pattern
\* from its j-th character on.
Cuts(tag, match, i, j) ==
  {cut \in [(j - 1)..Len(match) -> 0..Len(tag)] :
     /\ cut[j - 1] = i - 1 /\ cut[Len(match)] = Len(tag)
     /\ \A l \in j..Len(match) : Piece(cut, tag, match, l)}

CutFrom(tag, match, j) == {i \in Positions(tag) : Cuts(tag, match, i, j) # {}}

\* The j-th character of the pattern takes the piece from i up to e.
Takes(tag, match, j, i, e) ==
  IF match[j] = Star THEN i =< e
  ELSE e = i + 1 /\ i \in DOMAIN tag /\ tag[i] = match[j]

\* There is a cut from i if the j-th character takes a piece that ends before a
\* position with a cut for the rest.
LEMMA CutStep ==
  ASSUME NEW S, NEW tag \in Seq(S), NEW match \in Seq(S),
         NEW j \in 1..Len(match), NEW i \in Positions(tag)
  PROVE  i \in CutFrom(tag, match, j) <=>
           \E e \in CutFrom(tag, match, j + 1) : Takes(tag, match, j, i, e)
<1> DEFINE n == Len(match)  m == Len(tag)
           Fits(e) == Takes(tag, match, j, i, e)
<1>0. n \in Nat /\ m \in Nat /\ DOMAIN tag = 1..m /\ i \in 1..(m + 1)
      /\ j \in 1..n /\ Positions(tag) = 1..(m + 1)
  BY DEF Positions
<1>1. ASSUME i \in CutFrom(tag, match, j)
      PROVE  \E e \in CutFrom(tag, match, j + 1) : Fits(e)
  <2>1. PICK cut : cut \in Cuts(tag, match, i, j)
    BY <1>1 DEF CutFrom
  <2>2. /\ cut \in [(j - 1)..n -> 0..m]
        /\ cut[j - 1] = i - 1 /\ cut[n] = m
        /\ \A l \in j..n : Piece(cut, tag, match, l)
    BY <2>1 DEF Cuts
  <2> DEFINE rest == [l \in j..n |-> cut[l]]
             e == cut[j] + 1
  <2>3. cut[j] \in 0..m /\ e \in 1..(m + 1) /\ cut[j] = e - 1
    <3>1. j \in (j - 1)..n
      BY <1>0
    <3>2. cut[j] \in 0..m
      BY <3>1, <2>2
    <3> QED BY <3>2, <1>0
  <2>4. rest \in [((j + 1) - 1)..n -> 0..m] /\ rest[(j + 1) - 1] = e - 1 /\ rest[n] = m
    BY <2>2, <2>3, <1>0
  <2>5. \A l \in (j + 1)..n : Piece(rest, tag, match, l)
    <3> SUFFICES ASSUME NEW l \in (j + 1)..n PROVE Piece(rest, tag, match, l)
      OBVIOUS
    <3>1. rest[l] = cut[l] /\ rest[l - 1] = cut[l - 1] /\ Piece(cut, tag, match, l)
      BY <2>2, <1>0
    <3> HIDE DEF rest
    <3> QED BY <3>1 DEF Piece
  <2>6. rest \in Cuts(tag, match, e, j + 1)
    <3> HIDE DEF rest, e
    <3> QED BY <2>4, <2>5 DEF Cuts
  <2>7. Fits(e)
    <3>1. Piece(cut, tag, match, j)
      BY <2>2, <1>0
    <3> QED BY <3>1, <2>2, <2>3, <1>0 DEF Piece, Takes
  <2>8. e \in CutFrom(tag, match, j + 1)
    <3> HIDE DEF rest, e
    <3> QED BY <2>3, <2>6, <1>0 DEF CutFrom
  <2> QED BY <2>7, <2>8
<1>2. ASSUME NEW e \in CutFrom(tag, match, j + 1), Fits(e)
      PROVE  i \in CutFrom(tag, match, j)
  <2>0. e \in 1..(m + 1)
    BY <1>0 DEF CutFrom
  <2>1. PICK rest : rest \in Cuts(tag, match, e, j + 1)
    BY DEF CutFrom
  <2>2. /\ rest \in [j..n -> 0..m] /\ rest[j] = e - 1 /\ rest[n] = m
        /\ \A l \in (j + 1)..n : Piece(rest, tag, match, l)
    <3>1. (j + 1) - 1 = j
      BY <1>0
    <3> QED BY <2>1, <3>1 DEF Cuts
  <2> DEFINE cut == [l \in (j - 1)..n |-> IF l = j - 1 THEN i - 1 ELSE rest[l]]
  <2>3. cut \in [(j - 1)..n -> 0..m] /\ cut[j - 1] = i - 1 /\ cut[n] = m
        /\ \A l \in j..n : cut[l] = rest[l]
    BY <2>2, <1>0
  <2> HIDE DEF cut
  <2>4. ASSUME NEW l \in j..n PROVE Piece(cut, tag, match, l)
    <3>1. CASE l = j
      <4>1. cut[j] = e - 1 /\ cut[j - 1] = i - 1
        BY <2>2, <2>3, <1>0
      <4> QED BY <3>1, <4>1, <1>2, <1>0, <2>0 DEF Piece, Takes
    <3>2. CASE l # j
      <4>1. l \in (j + 1)..n /\ l - 1 \in j..n
        BY <3>2, <2>4, <1>0
      <4>2. cut[l] = rest[l] /\ cut[l - 1] = rest[l - 1] /\ Piece(rest, tag, match, l)
        BY <4>1, <2>2, <2>3
      <4> QED BY <4>2 DEF Piece
    <3> QED BY <3>1, <3>2
  <2>5. cut \in Cuts(tag, match, i, j)
    BY <2>3, <2>4 DEF Cuts
  <2> QED BY <2>5 DEF CutFrom
<1> QED BY <1>1, <1>2

\* Only the end of the tag is cut for an empty rest of the pattern.
LEMMA CutEnd ==
  ASSUME NEW S, NEW tag \in Seq(S), NEW match \in Seq(S)
  PROVE  CutFrom(tag, match, Len(match) + 1) = {Len(tag) + 1}
<1> DEFINE n == Len(match)  m == Len(tag)
<1>0. n \in Nat /\ m \in Nat /\ Positions(tag) = 1..(m + 1) /\ (n + 1) - 1 = n
  BY DEF Positions
<1>1. ASSUME NEW i \in CutFrom(tag, match, n + 1) PROVE i = m + 1
  <2>1. PICK cut : cut \in Cuts(tag, match, i, n + 1)
    BY DEF CutFrom
  <2>2. cut[n] = i - 1 /\ cut[n] = m
    BY <2>1, <1>0 DEF Cuts
  <2>3. i \in 1..(m + 1)
    BY <1>0 DEF CutFrom
  <2> QED BY <2>2, <2>3, <1>0
<1>2. m + 1 \in CutFrom(tag, match, n + 1)
  <2> DEFINE cut == [l \in n..n |-> m]
  <2>1. cut \in [n..n -> 0..m] /\ cut[n] = (m + 1) - 1 /\ cut[n] = m
    BY <1>0
  <2>2. \A l \in (n + 1)..n : FALSE
    BY <1>0
  <2> HIDE DEF cut
  <2>3. cut \in Cuts(tag, match, m + 1, n + 1)
    BY <2>1, <2>2, <1>0 DEF Cuts
  <2> QED BY <2>3, <1>0 DEF CutFrom
<1> QED BY <1>1, <1>2

\* One round of the loop computes the positions with a cut from those for the
\* next character.
LEMMA StepCuts ==
  ASSUME NEW S, NEW tag \in Seq(S), NEW match \in Seq(S), NEW j \in 1..Len(match)
  PROVE  Step(tag, match, j, CutFrom(tag, match, j + 1)) = CutFrom(tag, match, j)
<1> DEFINE n == Len(match)  m == Len(tag)
           P == Positions(tag)
           now == CutFrom(tag, match, j)
           later == CutFrom(tag, match, j + 1)
<1>0. n \in Nat /\ m \in Nat /\ DOMAIN tag = 1..m /\ P = 1..(m + 1)
  BY DEF Positions
<1>1. later \subseteq P /\ now \subseteq P
  BY DEF CutFrom
<1>2. ASSUME NEW i \in P
      PROVE  i \in now <=> \E e \in later : Takes(tag, match, j, i, e)
  BY CutStep
<1> HIDE DEF later, now, P
<1>3. CASE match[j] # Star
  <2>1. Step(tag, match, j, later) = {i \in Occurrences(tag, match[j]) : i + 1 \in later}
    BY <1>3 DEF Step
  <2>2. ASSUME NEW i \in P
        PROVE  i \in now <=> i + 1 \in later /\ i \in DOMAIN tag /\ tag[i] = match[j]
    BY <1>2, <1>3 DEF Takes
  <2>3. \A i \in DOMAIN tag : i \in P
    BY <1>0
  <2> QED BY <2>1, <2>2, <2>3, <1>1 DEF Occurrences, now, later
<1>4. CASE match[j] = Star /\ j = n
  <2>1. Step(tag, match, j, later) = P
    BY <1>4 DEF Step, P
  <2>2. m + 1 \in later
    BY <1>4, CutEnd DEF later
  <2>3. ASSUME NEW i \in P PROVE i \in now
    <3>1. i =< m + 1
      BY <1>0
    <3> QED BY <3>1, <2>2, <1>2, <1>4 DEF Takes
  <2> QED BY <2>1, <2>3, <1>1 DEF now, later
<1>5. CASE match[j] = Star /\ j # n
  <2>0. j + 1 \in 1..n
    BY <1>0, <1>5
  <2> DEFINE last == CutFrom(tag, match, (j + 1) + 1)
  <2>1. ASSUME NEW i \in P
        PROVE  i \in later <=> \E e \in last : Takes(tag, match, j + 1, i, e)
    <3> DEFINE q == j + 1
    <3>1. q \in 1..Len(match)
      BY <2>0
    <3> HIDE DEF q
    <3>2. i \in CutFrom(tag, match, q) <=>
            \E e \in CutFrom(tag, match, q + 1) : Takes(tag, match, q, i, e)
      BY <3>1, CutStep DEF P
    <3> QED BY <3>2 DEF q, later
  <2>2. last \subseteq P
    BY DEF CutFrom, P
  <2> HIDE DEF last
  <2>3. CASE match[j + 1] = Star
    <3>1. Step(tag, match, j, later) = later
      BY <1>5, <2>3 DEF Step
    <3>2. ASSUME NEW i \in P, NEW e \in later, i =< e PROVE i \in later
      <4>1. PICK d \in last : e =< d
        BY <1>1, <2>1, <2>3 DEF Takes
      <4>2. i =< d
        BY <4>1, <3>2, <1>0, <1>1, <2>2
      <4> QED BY <4>1, <4>2, <2>1, <2>3 DEF Takes
    <3>3. ASSUME NEW i \in P PROVE i \in now <=> i \in later
      <4>1. i =< i
        BY <1>0
      <4> QED BY <4>1, <3>2, <1>2, <1>5 DEF Takes
    <3> QED BY <3>1, <3>3, <1>1 DEF now, later
  <2>4. CASE match[j + 1] # Star
    <3>1. Step(tag, match, j, later) =
            {i \in P : \E pos \in Occurrences(tag, match[j + 1]) : pos >= i /\ pos \in later}
      BY <1>5, <2>4 DEF Step, P
    <3>2. \A e \in later : e \in Occurrences(tag, match[j + 1])
      BY <1>1, <2>1, <2>4 DEF Occurrences, Takes
    <3>3. ASSUME NEW i \in P
          PROVE  i \in now <=> \E e \in later : e >= i
      <4>1. \A e \in later : i =< e <=> e >= i
        BY <1>0, <1>1
      <4> QED BY <4>1, <1>2, <1>5 DEF Takes
    <3>4. ASSUME NEW i \in P
          PROVE  i \in now <=>
                   \E pos \in Occurrences(tag, match[j + 1]) : pos >= i /\ pos \in later
      BY <3>2, <3>3
    <3> QED BY <3>1, <3>4, <1>1 DEF now, later
  <2> QED BY <2>3, <2>4
<1> QED BY <1>3, <1>4, <1>5

\* flb_router_match() (src/flb_router.c) decides what a pattern means, for
\* strings of every length over every alphabet: it finds a cut of the tag
\* whenever there is one, and answers yes only then.
THEOREM MatchCovers ==
  ASSUME NEW S, NEW tag \in Seq(S), NEW match \in Seq(S)
  PROVE  flb_router_match(tag, match) <=> Covers(tag, match)
<1> DEFINE n == Len(match)  m == Len(tag)
<1>0. n \in Nat /\ m \in Nat
  OBVIOUS
<1>1. PICK g : /\ \A j \in 1..(n + 1) : g[j] = Round(g, tag, match, j)
               /\ flb_router_match(tag, match) <=> 1 \in g[1]
  BY MatchSolves
<1> DEFINE T == {k \in 0..n : g[n + 1 - k] # CutFrom(tag, match, n + 1 - k)}
<1>2. g[n + 1] = CutFrom(tag, match, n + 1)
  <2>1. n + 1 \in 1..(n + 1)
    BY <1>0
  <2> QED BY <2>1, <1>1, CutEnd DEF Round
<1>3. ASSUME NEW j \in 1..n, g[j + 1] = CutFrom(tag, match, j + 1)
      PROVE  g[j] = CutFrom(tag, match, j)
  <2>1. j \in 1..(n + 1) /\ j # n + 1
    BY <1>0
  <2>2. g[j] = Step(tag, match, j, g[j + 1])
    BY <2>1, <1>1 DEF Round
  <2> QED BY <2>2, <1>3, StepCuts
<1>4. T = {}
  <2> SUFFICES ASSUME T # {} PROVE FALSE
    OBVIOUS
  <2>0. T \subseteq Nat
    BY <1>0
  <2>1. PICK k \in T : \A y \in T : k =< y
    <3> HIDE DEF T
    <3> QED BY <2>0, LeastElement
  <2>2. k \in 0..n /\ g[n + 1 - k] # CutFrom(tag, match, n + 1 - k)
    OBVIOUS
  <2>3. k # 0
    BY <2>2, <1>0, <1>2
  <2>4. k - 1 \in 0..n /\ k - 1 \notin T
    BY <2>1, <2>2, <2>3, <1>0, SMTT(30)
  <2>5. n + 1 - k \in 1..n /\ n + 1 - (k - 1) = (n + 1 - k) + 1
    BY <2>2, <2>3, <1>0
  <2>6. g[(n + 1 - k) + 1] = CutFrom(tag, match, (n + 1 - k) + 1)
    BY <2>4, <2>5
  <2> QED BY <2>2, <2>5, <2>6, <1>3
<1>5. g[1] = CutFrom(tag, match, 1)
  <2>1. n \in 0..n /\ n + 1 - n = 1
    BY <1>0
  <2> QED BY <2>1, <1>4
<1>6. 1 \in CutFrom(tag, match, 1) <=> Cuts(tag, match, 1, 1) # {}
  BY <1>0 DEF CutFrom, Positions
<1>7. Covers(tag, match) <=> Cuts(tag, match, 1, 1) # {}
  <2>1. DOMAIN match = 1..n /\ 1 - 1 = 0
    OBVIOUS
  <2> QED BY <2>1 DEF Covers, Cuts, Piece
<1> QED BY <1>1, <1>5, <1>6, <1>7
-----------------------------------------------------------------------------
(* Facts about lists of instances.                                         *)

LEMMA FunctionIsSeq ==
  ASSUME NEW R, NEW n \in Nat, NEW f \in [1..n -> R]
  PROVE  f \in Seq(R) /\ Len(f) = n /\ DOMAIN f = 1..n
OBVIOUS

\* instance_id() counts some of the list; all of it, if all have the plugin.
LEMMA InstanceId ==
  ASSUME NEW R, NEW list \in Seq(R), NEW p
  PROVE  /\ instance_id(list, p) \in 0..Len(list)
         /\ (\A i \in DOMAIN list : list[i].plugin = p) => instance_id(list, p) = Len(list)
<1> DEFINE n == Len(list)
           A == {i \in DOMAIN list : list[i].plugin = p}
<1>0. n \in Nat /\ DOMAIN list = 1..n /\ A \subseteq 1..n
  OBVIOUS
<1>1. IsFiniteSet(1..n) /\ Cardinality(1..n) = n
  BY <1>0, FS_Interval
<1>2. IsFiniteSet(A) /\ Cardinality(A) =< n /\ Cardinality(A) \in Nat
  BY <1>0, <1>1, FS_Subset, FS_CardinalityType
<1>3. (\A i \in DOMAIN list : list[i].plugin = p) => A = 1..n
  BY <1>0
<1>4. instance_id(list, p) = Cardinality(A)
  BY DEF instance_id
<1> HIDE DEF A
<1> QED BY <1>0, <1>1, <1>2, <1>3, <1>4

\* What is left of a list are elements of it.
LEMMA RemaindersOf ==
  ASSUME NEW R, NEW list \in Seq(R), NEW r \in Remainders(list)
  PROVE  /\ r \in Seq(R) /\ Len(r) =< Len(list)
         /\ \A i \in DOMAIN r : \E j \in DOMAIN list : r[i] = list[j]
<1>0. PICK n \in 0..Len(list) :
        \E f \in [1..n -> DOMAIN list] : r = [i \in 1..n |-> list[f[i]]]
  BY DEF Remainders
<1>1. PICK f \in [1..n -> DOMAIN list] : r = [i \in 1..n |-> list[f[i]]]
  BY <1>0
<1>2. n \in Nat /\ Len(list) \in Nat
  BY <1>1
<1>3. \A i \in 1..n : f[i] \in DOMAIN list /\ r[i] = list[f[i]] /\ r[i] \in R
  BY <1>1
<1>4. r \in [1..n -> R]
  BY <1>1, <1>3
<1>5. r \in Seq(R) /\ Len(r) = n /\ DOMAIN r = 1..n
  BY <1>2, <1>4, FunctionIsSeq
<1> QED BY <1>1, <1>2, <1>3, <1>5

\* A list after a change of one element, or of none.
LEMMA ListUpdate ==
  ASSUME NEW R, NEW Q, NEW list \in Seq(R), NEW k, NEW x,
         \A i \in DOMAIN list : list[i] \in Q,
         k \in DOMAIN list => x \in Q
  PROVE  /\ [list EXCEPT ![k] = x] \in Seq(Q)
         /\ Len([list EXCEPT ![k] = x]) = Len(list)
<1> DEFINE n == Len(list)
           f == [list EXCEPT ![k] = x]
<1>0. n \in Nat /\ DOMAIN list = 1..n
  OBVIOUS
<1>1. f \in [1..n -> Q]
  BY <1>0
<1>2. f \in Seq(Q) /\ Len(f) = n
  <2> HIDE DEF f
  <2> QED BY <1>0, <1>1, FunctionIsSeq
<1> QED BY <1>2
-----------------------------------------------------------------------------
(* Type correctness.                                                       *)

InputSet(n) == [plugin : Plugins, id : 0..(MaxInputs - 1),
                tag : InputTags \union {NULL}, routes : SUBSET (1..n)]
OutputSet == [mask_id : SUBSET (0..63), match : Patterns \union {NULL, <<Star>>}]
FilterSet == [plugin : Plugins, id : Nat, match : Values \union {NULL}]

\* The lists of instances and their types.
Lists ==
  /\ outputs \in Seq(OutputSet) /\ inputs \in Seq(InputSet(Len(outputs)))
  /\ filters \in Seq(FilterSet)

Types ==
  /\ Lists /\ sets \in 0..MaxSets
  /\ phase \in {"config", "inputs", "outputs", "filters", "running", "down"}

LEMMA TypeLists == TypeOK <=> Types
<1>1. ASSUME NEW T, outputs \in Seq(T) PROVE DOMAIN outputs = 1..Len(outputs)
  BY <1>1
<1> QED BY <1>1 DEF TypeOK, Types, Lists, InputSet, OutputSet, FilterSet

LEMMA NextMaskType ==
  ASSUME NEW list PROVE NextMask(list) \in SUBSET (0..63)
BY DEF NextMask

LEMMA AddOutputType ==
  ASSUME NEW list \in Seq(OutputSet)
  PROVE  AddOutput(list) \in Seq(OutputSet) /\ Len(AddOutput(list)) = Len(list) + 1
<1>1. [mask_id |-> NextMask(list), match |-> NULL] \in OutputSet
  BY NextMaskType DEF OutputSet
<1> QED BY <1>1 DEF AddOutput

\* A wider range of routes is a wider type.
LEMMA InputsGrow ==
  ASSUME NEW m \in Nat, NEW n \in Nat, m =< n, NEW s \in Seq(InputSet(m))
  PROVE  s \in Seq(InputSet(n))
<1>1. InputSet(m) \subseteq InputSet(n)
  <2>1. 1..m \subseteq 1..n
    OBVIOUS
  <2> QED BY <2>1 DEF InputSet
<1> QED BY <1>1

LEMMA ListsInit == Init => Lists /\ sets \in 0..MaxSets
BY RouterAssumption DEF Init, Lists

LEMMA ListsConfig ==
  ASSUME Lists, sets \in 0..MaxSets
  PROVE  /\ \A p \in Plugins : flb_input(p) \/ flb_filter(p) => Lists'
         /\ flb_output => Lists'
         /\ \A k \in DOMAIN inputs, t \in Tags : flb_input_set(k, t) => Lists'
         /\ \A k \in Latest, m \in Values : flb_output_set(k, m) => Lists'
         /\ \A k \in DOMAIN filters, m \in Values : flb_filter_set(k, m) => Lists'
<1> DEFINE n == Len(outputs)
<1>0. n \in Nat /\ MaxInputs \in Nat
  BY RouterAssumption DEF Lists
<1>1. ASSUME NEW p \in Plugins, flb_input(p) PROVE Lists'
  <2> DEFINE new == [plugin |-> p, id |-> instance_id(inputs, p), tag |-> NULL, routes |-> {}]
  <2>1. inputs' = Append(inputs, new) /\ Len(inputs) < MaxInputs
        /\ UNCHANGED <<outputs, filters>>
    BY <1>1 DEF flb_input
  <2>2. instance_id(inputs, p) \in 0..(MaxInputs - 1)
    <3>1. instance_id(inputs, p) \in 0..Len(inputs) /\ Len(inputs) \in Nat
      BY InstanceId DEF Lists
    <3> QED BY <3>1, <2>1, <1>0
  <2>3. new \in InputSet(n)
    BY <2>2 DEF InputSet
  <2> HIDE DEF new
  <2> QED BY <2>1, <2>3 DEF Lists
<1>2. ASSUME NEW p \in Plugins, flb_filter(p) PROVE Lists'
  <2> DEFINE new == [plugin |-> p, id |-> instance_id(filters, p), match |-> NULL]
  <2>1. filters' = Append(filters, new) /\ UNCHANGED <<inputs, outputs>>
    BY <1>2 DEF flb_filter
  <2>2. instance_id(filters, p) \in 0..Len(filters) /\ Len(filters) \in Nat
    BY InstanceId DEF Lists
  <2>3. new \in FilterSet
    BY <2>2 DEF FilterSet
  <2> HIDE DEF new
  <2> QED BY <2>1, <2>3 DEF Lists
<1>3. ASSUME flb_output PROVE Lists'
  <2>1. outputs' = AddOutput(outputs) /\ UNCHANGED <<inputs, filters>>
    BY <1>3 DEF flb_output
  <2>2. outputs' \in Seq(OutputSet) /\ Len(outputs') = n + 1
    BY <2>1, AddOutputType DEF Lists
  <2>3. inputs' \in Seq(InputSet(n + 1))
    <3>1. inputs \in Seq(InputSet(n)) /\ n + 1 \in Nat /\ n =< n + 1
      BY <1>0 DEF Lists
    <3> QED BY <3>1, <1>0, <2>1, InputsGrow
  <2> QED BY <2>1, <2>2, <2>3 DEF Lists
<1>4. ASSUME NEW k \in DOMAIN inputs, NEW t \in Tags, flb_input_set(k, t) PROVE Lists'
  <2> DEFINE g == in_instance_get(inputs[k].id)
             x == [inputs[g] EXCEPT !.tag = t]
  <2>1. inputs' = [inputs EXCEPT ![g] = x] /\ UNCHANGED <<outputs, filters>>
    BY <1>4 DEF flb_input_set
  <2>2. \A i \in DOMAIN inputs : inputs[i] \in InputSet(n)
    BY DEF Lists
  <2>3. g \in DOMAIN inputs => x \in InputSet(n)
    BY <2>2 DEF InputSet, InputTags
  <2> HIDE DEF g, x
  <2>4. inputs' \in Seq(InputSet(n))
    BY <2>1, <2>2, <2>3, ListUpdate DEF Lists
  <2> QED BY <2>1, <2>4 DEF Lists
<1>5. ASSUME NEW k \in Latest, NEW m \in Values, flb_output_set(k, m) PROVE Lists'
  <2> DEFINE g == out_instance_get(outputs[k].mask_id)
             x == [outputs[g] EXCEPT !.match = OutputValue(m)]
  <2>0. OutputValue(m) \in Patterns \union {NULL}
    BY DEF OutputValue, Values
  <2>1. outputs' = [outputs EXCEPT ![g] = x] /\ UNCHANGED <<inputs, filters>>
    BY <1>5 DEF flb_output_set
  <2>2. \A i \in DOMAIN outputs : outputs[i] \in OutputSet
    BY DEF Lists
  <2>3. g \in DOMAIN outputs => x \in OutputSet
    BY <2>0, <2>2 DEF OutputSet
  <2> HIDE DEF g, x
  <2>4. outputs' \in Seq(OutputSet) /\ Len(outputs') = n
    BY <2>1, <2>2, <2>3, ListUpdate, SMTT(30) DEF Lists
  <2> QED BY <2>1, <2>4 DEF Lists
<1>6. ASSUME NEW k \in DOMAIN filters, NEW m \in Values, flb_filter_set(k, m) PROVE Lists'
  <2> DEFINE g == filter_instance_get(filters[k].id)
             x == [filters[g] EXCEPT !.match = m]
  <2>1. filters' = [filters EXCEPT ![g] = x] /\ UNCHANGED <<inputs, outputs>>
    BY <1>6 DEF flb_filter_set
  <2>2. \A i \in DOMAIN filters : filters[i] \in FilterSet
    BY DEF Lists
  <2>3. g \in DOMAIN filters => x \in FilterSet
    BY <2>2 DEF FilterSet
  <2> HIDE DEF g, x
  <2>4. filters' \in Seq(FilterSet)
    BY <2>1, <2>2, <2>3, ListUpdate DEF Lists
  <2> QED BY <2>1, <2>4 DEF Lists
<1> QED BY <1>1, <1>2, <1>3, <1>4, <1>5, <1>6

LEMMA ListsStart ==
  ASSUME Lists
  PROVE  /\ flb_input_initialize_all => Lists'
         /\ flb_output_init => Lists'
         /\ flb_filter_initialize_all => Lists'
         /\ flb_router_io_set => Lists'
         /\ flb_engine_shutdown => Lists'
<1> DEFINE n == Len(outputs)
<1>0. n \in Nat /\ DOMAIN outputs = 1..n
      /\ Len(inputs) \in Nat /\ DOMAIN inputs = 1..Len(inputs)
  BY DEF Lists
<1>a. \A i \in DOMAIN inputs : inputs[i] \in InputSet(n)
  BY DEF Lists
<1>1. ASSUME flb_input_initialize_all PROVE Lists'
  <2> DEFINE named(i) == [inputs[i] EXCEPT !.tag = Name(inputs[i].plugin, inputs[i].id)]
             tagged == [i \in DOMAIN inputs |->
                          IF inputs[i].tag = NULL /\ inputs[i].plugin \notin Flagged
                          THEN named(i) ELSE inputs[i]]
  <2>1. inputs' \in Remainders(tagged) /\ UNCHANGED <<outputs, filters>>
    BY <1>1 DEF flb_input_initialize_all
  <2>2. ASSUME NEW i \in DOMAIN inputs, inputs[i].plugin \notin Flagged
        PROVE  named(i) \in InputSet(n)
    <3>1. Name(inputs[i].plugin, inputs[i].id) \in InputTags
      BY <1>a, <2>2 DEF InputSet, InputTags
    <3> HIDE DEF InputTags
    <3> QED BY <1>a, <3>1 DEF InputSet
  <2>3. tagged \in [1..Len(inputs) -> InputSet(n)]
    <3> HIDE DEF named
    <3> QED BY <1>0, <1>a, <2>2
  <2> HIDE DEF tagged
  <2>4. tagged \in Seq(InputSet(n))
    BY <1>0, <2>3, FunctionIsSeq
  <2>5. inputs' \in Seq(InputSet(n))
    BY <2>1, <2>4, RemaindersOf
  <2> QED BY <2>1, <2>5 DEF Lists
<1>2. ASSUME inputs' = <<>>, outputs' = <<>>, filters' = <<>> PROVE Lists'
  BY <1>2 DEF Lists
<1>3. ASSUME flb_output_init PROVE Lists'
  <2>1. CASE phase' = "down"
    BY <1>2, <1>3, <2>1 DEF flb_output_init
  <2>2. CASE phase' # "down"
    BY <1>3, <2>2 DEF flb_output_init, Lists
  <2> QED BY <2>1, <2>2
<1>4. ASSUME flb_filter_initialize_all PROVE Lists'
  <2>1. filters' \in Remainders(filters) /\ UNCHANGED <<inputs, outputs>>
    BY <1>4 DEF flb_filter_initialize_all
  <2>2. filters' \in Seq(FilterSet)
    BY <2>1, RemaindersOf DEF Lists
  <2> QED BY <2>1, <2>2 DEF Lists
<1>5. ASSUME flb_router_io_set PROVE Lists'
  <2>1. CASE Len(inputs) = 1 /\ Len(outputs) = 1 /\ outputs[1].match = NULL
    <3> DEFINE x == [inputs[1] EXCEPT !.routes = {1}]
               y == [outputs[1] EXCEPT !.match = <<Star>>]
    <3>1. inputs' = [inputs EXCEPT ![1] = x] /\ outputs' = [outputs EXCEPT ![1] = y]
          /\ UNCHANGED filters
      BY <1>5, <2>1 DEF flb_router_io_set, DefaultRule
    <3>2. x \in InputSet(n)
      BY <1>0, <1>a, <2>1 DEF InputSet
    <3>3. \A o \in DOMAIN outputs : outputs[o] \in OutputSet
      BY DEF Lists
    <3>4. y \in OutputSet
      BY <1>0, <2>1, <3>3 DEF OutputSet
    <3> HIDE DEF x, y
    <3>5. inputs' \in Seq(InputSet(n))
      BY <1>a, <3>1, <3>2, ListUpdate DEF Lists
    <3>6. outputs' \in Seq(OutputSet) /\ Len(outputs') = n
      BY <3>1, <3>3, <3>4, ListUpdate DEF Lists
    <3> QED BY <3>1, <3>5, <3>6 DEF Lists
  <2>2. CASE ~(Len(inputs) = 1 /\ Len(outputs) = 1 /\ outputs[1].match = NULL)
    <3>1. inputs' = [i \in DOMAIN inputs |-> Connect(inputs[i])]
          /\ UNCHANGED <<outputs, filters>>
      BY <1>5, <2>2 DEF flb_router_io_set
    <3>2. ASSUME NEW i \in DOMAIN inputs PROVE Connect(inputs[i]) \in InputSet(n)
      BY <1>0, <1>a DEF InputSet, Connect
    <3>3. inputs' \in [1..Len(inputs) -> InputSet(n)]
      BY <1>0, <3>1, <3>2
    <3>4. inputs' \in Seq(InputSet(n))
      BY <1>0, <3>3, FunctionIsSeq
    <3> QED BY <3>1, <3>4 DEF Lists
  <2> QED BY <2>1, <2>2
<1>6. ASSUME flb_engine_shutdown PROVE Lists'
  BY <1>2, <1>6 DEF flb_engine_shutdown
<1> QED BY <1>1, <1>3, <1>4, <1>5, <1>6

\* Every step keeps the types.
LEMMA TypeStep == TypeOK /\ [Next]_vars => TypeOK'
<1> SUFFICES ASSUME TypeOK, [Next]_vars PROVE TypeOK'
  OBVIOUS
<1>0. Lists /\ sets \in 0..MaxSets /\ MaxSets \in Nat
      /\ phase \in {"config", "inputs", "outputs", "filters", "running", "down"}
  BY TypeLists, RouterAssumption DEF Types
<1> DEFINE Goal == /\ Lists' /\ (sets \in 0..MaxSets)'
                   /\ phase' \in {"config", "inputs", "outputs", "filters", "running", "down"}
<1>1. ASSUME NEW p \in Plugins, flb_input(p) \/ flb_filter(p) PROVE Goal
  <2>1. Lists'
    BY <1>0, <1>1, ListsConfig
  <2> QED BY <2>1, <1>0, <1>1 DEF flb_input, flb_filter
<1>2. ASSUME flb_output PROVE Goal
  <2>1. Lists'
    BY <1>0, <1>2, ListsConfig
  <2> QED BY <2>1, <1>0, <1>2 DEF flb_output
<1>3. ASSUME NEW k \in DOMAIN inputs, NEW t \in Tags, flb_input_set(k, t) PROVE Goal
  <2>1. Lists'
    BY <1>0, <1>3, ListsConfig
  <2>2. SetOne /\ UNCHANGED phase
    BY <1>3 DEF flb_input_set
  <2> QED BY <2>1, <2>2, <1>0 DEF SetOne
<1>4. ASSUME NEW k \in Latest, NEW m \in Values, flb_output_set(k, m) PROVE Goal
  <2>1. Lists'
    BY <1>0, <1>4, ListsConfig
  <2>2. SetOne /\ UNCHANGED phase
    BY <1>4 DEF flb_output_set
  <2> QED BY <2>1, <2>2, <1>0 DEF SetOne
<1>5. ASSUME NEW k \in DOMAIN filters, NEW m \in Values, flb_filter_set(k, m) PROVE Goal
  <2>1. Lists'
    BY <1>0, <1>5, ListsConfig
  <2>2. SetOne /\ UNCHANGED phase
    BY <1>5 DEF flb_filter_set
  <2> QED BY <2>1, <2>2, <1>0 DEF SetOne
<1>6. ASSUME flb_input_initialize_all \/ flb_output_init \/ flb_filter_initialize_all
             \/ flb_router_io_set \/ flb_engine_shutdown
      PROVE  Goal
  <2>1. Lists'
    BY <1>0, <1>6, ListsStart
  <2>2. UNCHANGED sets
    BY <1>6 DEF flb_input_initialize_all, flb_output_init, flb_filter_initialize_all,
                flb_router_io_set, flb_engine_shutdown
  <2>3. phase' \in {"inputs", "outputs", "filters", "running", "down"}
    BY <1>6 DEF flb_input_initialize_all, flb_output_init, flb_filter_initialize_all,
                flb_router_io_set, flb_engine_shutdown
  <2> QED BY <2>1, <2>2, <2>3, <1>0
<1>7. ASSUME UNCHANGED vars PROVE Goal
  BY <1>0, <1>7 DEF vars, Lists
<1>8. Goal
  BY <1>1, <1>2, <1>3, <1>4, <1>5, <1>6, <1>7 DEF Next
<1> QED
  <2>1. TypeOK' <=> Types'
    BY TypeLists, PTL
  <2> QED BY <1>8, <2>1 DEF Types

\* Instances, numbers, tags, routes and masks keep their types in everything
\* an application and the engine do (src/flb_lib.c, src/flb_router.c): above
\* all, the routes of an input name outputs that exist.
THEOREM TypeCorrect == Spec => []TypeOK
<1>1. Init => TypeOK
  BY ListsInit, TypeLists DEF Init, Types
<1> QED BY <1>1, TypeStep, PTL DEF Spec
-----------------------------------------------------------------------------
(* Masks: the first 32 outputs have the bits 0 to 31, the last of them with *)
(* the sign extended; a mask does not change.                              *)

MaskOf(o) == IF o = 32 THEN 31..63 ELSE {o - 1}

MaskInv == \A o \in DOMAIN outputs : o =< 32 => outputs[o].mask_id = MaskOf(o)

LEMMA MaskOfIs == MaskOf(32) = 31..63 /\ \A o \in 1..31 : MaskOf(o) = {o - 1}
<1>1. \A o \in 1..31 : o # 32
  OBVIOUS
<1> QED BY <1>1 DEF MaskOf

LEMMA MaskOfBit == \A o \in 1..32 : o - 1 \in MaskOf(o)
<1>1. \A o \in 1..32 : o = 32 \/ o \in 1..31
  OBVIOUS
<1>2. 32 - 1 \in 31..63
  OBVIOUS
<1> QED BY <1>1, <1>2, MaskOfIs

\* No bit is in two masks.
LEMMA MaskOfUnique ==
  ASSUME NEW o \in 1..32, NEW q \in 1..32, NEW b, b \in MaskOf(o), b \in MaskOf(q)
  PROVE  o = q
<1>1. ASSUME NEW r \in 1..32, b \in MaskOf(r)
      PROVE  b \in Nat /\ (r = 32 => b >= 31) /\ (r # 32 => b + 1 = r)
  <2>1. CASE r = 32
    <3>1. b \in 31..63
      BY <1>1, <2>1, MaskOfIs
    <3> QED BY <2>1, <3>1
  <2>2. CASE r # 32
    <3>1. r \in 1..31
      BY <2>2
    <3>2. b = r - 1
      BY <1>1, <3>1, MaskOfIs
    <3> QED BY <2>2, <3>1, <3>2
  <2> QED BY <2>1, <2>2
<1>2. /\ b \in Nat
      /\ (o = 32 => b >= 31) /\ (o # 32 => b + 1 = o)
      /\ (q = 32 => b >= 31) /\ (q # 32 => b + 1 = q)
  BY <1>1
<1> QED BY <1>2

\* Doubling leads from one mask to the next.
LEMMA NextMaskOf ==
  ASSUME NEW R, NEW list \in Seq(R), Len(list) < 32,
         list # <<>> => list[Len(list)].mask_id = MaskOf(Len(list))
  PROVE  NextMask(list) = MaskOf(Len(list) + 1)
<1> DEFINE n == Len(list)
           int == IF list = <<>> THEN {} ELSE list[n].mask_id \intersect 0..31
           doubled == {i + 1 : i \in int} \intersect 0..31
<1>0. n \in Nat /\ (list = <<>> <=> n = 0)
  OBVIOUS
<1>1. NextMask(list) = IF int = {} THEN {0}
                       ELSE doubled \union (IF 31 \in doubled THEN 32..63 ELSE {})
  BY DEF NextMask
<1>2. CASE n = 0
  <2>1. NextMask(list) = {0}
    BY <1>0, <1>1, <1>2
  <2>2. n + 1 \in 1..31 /\ (n + 1) - 1 = 0
    BY <1>2
  <2> QED BY <2>1, <2>2, MaskOfIs
<1>3. CASE n # 0
  <2>a. n \in 1..31
    <3>1. n \in Nat /\ n < 32 /\ n # 0
      BY <1>0, <1>3
    <3> HIDE DEF n
    <3> QED BY <3>1
  <2>0. n \in 1..31 /\ MaskOf(n) = {n - 1} /\ list # <<>>
    BY <1>0, <1>3, <2>a, MaskOfIs
  <2>1. int = {n - 1}
    <3>1. list[n].mask_id = {n - 1}
      BY <2>0
    <3>2. int = {n - 1} \intersect 0..31
      BY <2>0, <3>1
    <3>3. n - 1 \in 0..31
      BY <2>0
    <3> QED BY <3>2, <3>3
  <2> HIDE DEF int
  <2>2. doubled = {n}
    <3>1. (n - 1) + 1 = n
      BY <2>0
    <3>2. doubled = {(n - 1) + 1} \intersect 0..31
      BY <2>1
    <3>3. n \in 0..31
      BY <2>0
    <3> QED BY <3>1, <3>2, <3>3
  <2> HIDE DEF doubled
  <2>3. CASE n = 31
    <3>1. NextMask(list) = {31} \union 32..63
      BY <1>1, <2>1, <2>2, <2>3
    <3>2. {31} \union 32..63 = 31..63
      OBVIOUS
    <3>3. n + 1 = 32
      BY <2>3
    <3> QED BY <3>1, <3>2, <3>3, MaskOfIs
  <2>4. CASE n # 31
    <3>1. NextMask(list) = {n}
      BY <1>1, <2>1, <2>2, <2>4
    <3>2. n + 1 \in 1..31 /\ (n + 1) - 1 = n
      <4> HIDE DEF n
      <4> QED BY <2>0, <2>4
    <3> QED BY <3>1, <3>2, MaskOfIs
  <2> QED BY <2>3, <2>4
<1> QED BY <1>2, <1>3

LEMMA MaskStep == Lists /\ MaskInv /\ [Next]_vars => MaskInv'
<1> SUFFICES ASSUME Lists, MaskInv, [Next]_vars PROVE MaskInv'
  OBVIOUS
<1> DEFINE n == Len(outputs)
<1>0. n \in Nat /\ DOMAIN outputs = 1..n
      /\ \A o \in DOMAIN outputs : outputs[o] \in OutputSet
  BY DEF Lists
<1>1. ASSUME UNCHANGED outputs PROVE MaskInv'
  BY <1>1 DEF MaskInv
<1>2. ASSUME outputs' = <<>> PROVE MaskInv'
  BY <1>2 DEF MaskInv
<1>3. ASSUME NEW k, NEW m, outputs' = [outputs EXCEPT ![k].match = m] PROVE MaskInv'
  <2>1. DOMAIN outputs' = DOMAIN outputs
    BY <1>3
  <2>2. \A o \in DOMAIN outputs : outputs'[o].mask_id = outputs[o].mask_id
    BY <1>0, <1>3 DEF OutputSet
  <2> QED BY <2>1, <2>2 DEF MaskInv
<1>4. ASSUME flb_output PROVE MaskInv'
  <2> DEFINE new == [mask_id |-> NextMask(outputs), match |-> NULL]
  <2>1. outputs' = Append(outputs, new)
    BY <1>4 DEF flb_output, AddOutput
  <2>2. new.mask_id = NextMask(outputs)
    OBVIOUS
  <2> HIDE DEF new
  <2>3. DOMAIN outputs' = 1..(n + 1) /\ outputs'[n + 1] = new
        /\ \A o \in 1..n : outputs'[o] = outputs[o]
    BY <1>0, <2>1 DEF Lists
  <2>4. n + 1 =< 32 => NextMask(outputs) = MaskOf(n + 1)
    <3>1. outputs \in Seq(OutputSet)
      BY DEF Lists
    <3>2. n + 1 =< 32 => n < 32 /\ (outputs # <<>> => outputs[n].mask_id = MaskOf(n))
      BY <1>0 DEF MaskInv, Lists
    <3> QED BY <3>1, <3>2, NextMaskOf
  <2>5. ASSUME NEW o \in DOMAIN outputs', o =< 32 PROVE outputs'[o].mask_id = MaskOf(o)
    <3>1. CASE o = n + 1
      BY <3>1, <2>2, <2>3, <2>4, <2>5
    <3>2. CASE o # n + 1
      <4>1. o \in 1..n
        BY <3>2, <2>3, <2>5, <1>0
      <4> QED BY <4>1, <1>0, <2>3, <2>5 DEF MaskInv
    <3> QED BY <3>1, <3>2
  <2> QED BY <2>5 DEF MaskInv
<1>5. ASSUME NEW p \in Plugins, flb_input(p) \/ flb_filter(p) PROVE MaskInv'
  BY <1>1, <1>5 DEF flb_input, flb_filter
<1>6. ASSUME NEW k \in DOMAIN inputs, NEW t \in Tags, flb_input_set(k, t) PROVE MaskInv'
  BY <1>1, <1>6 DEF flb_input_set
<1>7. ASSUME NEW k \in Latest, NEW m \in Values, flb_output_set(k, m) PROVE MaskInv'
  BY <1>3, <1>7 DEF flb_output_set
<1>8. ASSUME NEW k \in DOMAIN filters, NEW m \in Values, flb_filter_set(k, m) PROVE MaskInv'
  BY <1>1, <1>8 DEF flb_filter_set
<1>9. ASSUME flb_input_initialize_all \/ flb_filter_initialize_all PROVE MaskInv'
  BY <1>1, <1>9 DEF flb_input_initialize_all, flb_filter_initialize_all
<1>10. ASSUME flb_output_init PROVE MaskInv'
  BY <1>1, <1>2, <1>10 DEF flb_output_init
<1>11. ASSUME flb_router_io_set PROVE MaskInv'
  BY <1>1, <1>3, <1>11 DEF flb_router_io_set, DefaultRule
<1>12. ASSUME flb_engine_shutdown PROVE MaskInv'
  BY <1>2, <1>12 DEF flb_engine_shutdown
<1>13. ASSUME UNCHANGED vars PROVE MaskInv'
  BY <1>1, <1>13 DEF vars
<1> QED BY <1>4, <1>5, <1>6, <1>7, <1>8, <1>9, <1>10, <1>11, <1>12, <1>13 DEF Next

LEMMA MaskAlways == Spec => [](Lists /\ MaskInv)
<1>1. Init => MaskInv
  BY DEF Init, MaskInv
<1>2. Spec => []Lists
  <2>1. TypeOK => Lists
    BY TypeLists DEF Types
  <2> QED BY <2>1, TypeCorrect, PTL
<1> QED BY <1>1, <1>2, MaskStep, PTL DEF Spec

\* With the masks of 32 outputs, a mask gives back the outputs it was made of.
LEMMA MasksInverse ==
  ASSUME Lists, MaskInv, Len(outputs) =< 32, NEW R \in SUBSET DOMAIN outputs
  PROVE  DirectRoutes(RoutesMask(R)) = R
<1>0. DOMAIN outputs = 1..Len(outputs) /\ Len(outputs) \in Nat
  BY DEF Lists
<1>a. \A o \in DOMAIN outputs : o \in 1..32 /\ o =< 32
  <2>1. PICK n \in Nat : n = Len(outputs)
    BY <1>0
  <2>2. n =< 32 /\ DOMAIN outputs = 1..n
    BY <1>0, <2>1
  <2>3. \A o \in 1..n : o \in 1..32 /\ o =< 32
    BY <2>2
  <2> QED BY <2>2, <2>3
<1>1. \A o \in DOMAIN outputs : outputs[o].mask_id = MaskOf(o) /\ o \in 1..32
  BY <1>a DEF MaskInv
<1>2. \A o \in 1..32 : o - 1 \in MaskOf(o)
  BY MaskOfBit
<1>3. ASSUME NEW o \in 1..32, NEW q \in 1..32, NEW b \in MaskOf(o), b \in MaskOf(q)
      PROVE  o = q
  BY <1>3, MaskOfUnique
<1>4. ASSUME NEW o \in DOMAIN outputs
      PROVE  o \in R <=> outputs[o].mask_id \intersect RoutesMask(R) # {}
  <2>1. ASSUME o \in R PROVE outputs[o].mask_id \intersect RoutesMask(R) # {}
    <3>1. o - 1 \in outputs[o].mask_id
      BY <1>1, <1>2
    <3> QED BY <3>1, <2>1 DEF RoutesMask
  <2>2. ASSUME outputs[o].mask_id \intersect RoutesMask(R) # {} PROVE o \in R
    <3>1. PICK b \in outputs[o].mask_id : b \in RoutesMask(R)
      BY <2>2
    <3>2. PICK q \in R : b \in outputs[q].mask_id
      BY <3>1 DEF RoutesMask
    <3>3. o = q
      <4>1. o \in 1..32 /\ q \in 1..32 /\ b \in MaskOf(o) /\ b \in MaskOf(q)
        BY <3>1, <3>2, <1>1
      <4> QED BY <4>1, <1>3
    <3> QED BY <3>2, <3>3
  <2> QED BY <2>1, <2>2
<1> QED BY <1>4 DEF DirectRoutes

\* A chunk that was stored with the mask of its task comes back, by way of
\* flb_task_create_direct() (src/flb_task.c), to exactly the outputs the task
\* had, with up to 32 outputs.
THEOREM MaskCorrect == Spec => []MaskNamesRoutes
<1>1. Lists /\ MaskInv => MaskNamesRoutes
  <2> SUFFICES ASSUME Lists, MaskInv, Len(outputs) =< 32,
                      NEW i \in Range(inputs), NEW t \in TagsOf(i)
               PROVE  DirectRoutes(RoutesMask(TaskRoutes(i, t))) = TaskRoutes(i, t)
    BY DEF MaskNamesRoutes
  <2>1. i \in InputSet(Len(outputs)) /\ DOMAIN outputs = 1..Len(outputs)
    BY DEF Lists, Range
  <2>2. TaskRoutes(i, t) \in SUBSET DOMAIN outputs
    BY <2>1 DEF TaskRoutes, InputSet
  <2> QED BY <2>2, MasksInverse
<1> QED BY <1>1, MaskAlways, PTL
-----------------------------------------------------------------------------
(* Routes and filters.  What the readers rely on is established phase by   *)
(* phase of flb_engine_start().                                            *)

\* flb_input_initialize_all() gave a tag to every input that needs one.
Named == \A i \in DOMAIN inputs : inputs[i].plugin \notin Dynamic => inputs[i].tag # NULL

\* flb_filter_initialize_all() left filters with a match only.
Loaded == \A f \in DOMAIN filters : filters[f].match # NULL

\* flb_router_io_set() gave every input with a fixed tag its routes.
Connected ==
  \A i \in DOMAIN inputs : inputs[i].plugin \notin Dynamic =>
    inputs[i].routes = {o \in DOMAIN outputs : /\ outputs[o].match # NULL
                                               /\ flb_router_match(inputs[i].tag, outputs[o].match)}

StartInv ==
  /\ phase # "config" => Named
  /\ phase \in {"filters", "running"} => Loaded
  /\ phase = "running" => Connected

\* The characters of names and patterns.
Chars == STRING \union {Star, ".", "0", "1", "2", "3"}

LEMMA Concatenation ==
  ASSUME NEW S, NEW s \in Seq(S), NEW t \in Seq(S)
  PROVE  s \o t \in Seq(S) /\ Len(s \o t) = Len(s) + Len(t) /\ Len(s) \in Nat
OBVIOUS

\* Tags and the values of a match are strings, not NULL.
LEMMA Strs ==
  /\ InputTags \subseteq Seq(Chars) /\ NULL \notin InputTags
  /\ Values \union {<<Star>>} \subseteq Seq(Chars) /\ NULL \notin Values \union {<<Star>>}
  /\ Tags \subseteq InputTags
<1>1. ASSUME NEW p \in Plugins, NEW id \in 0..(MaxInputs - 1)
      PROVE  Name(p, id) \in Seq(Chars)
  <2>1. p \in Seq(Chars) /\ MaxInputs \in 1..4
    BY RouterAssumption DEF Chars
  <2>2. id + 1 \in 1..4
    BY <2>1
  <2>3. Digits[id + 1] \in Chars /\ "." \in Chars
    BY <2>2 DEF Digits, Chars
  <2> DEFINE d == <<".", Digits[id + 1]>>
  <2>4. d \in Seq(Chars)
    BY <2>3
  <2>5. Name(p, id) = p \o d
    BY DEF Name
  <2> HIDE DEF d
  <2> QED BY <2>1, <2>4, <2>5, Concatenation
<1>2. <<Star>> \in Seq(Chars) /\ <<>> \in Seq(Chars)
  BY DEF Chars
<1>3. Tags \subseteq Seq(Chars) /\ Patterns \subseteq Seq(Chars)
  BY RouterAssumption DEF Chars
<1>4. NULL \notin InputTags /\ NULL \notin Values \union {<<Star>>}
  BY RouterAssumption
<1>5. ASSUME NEW t \in InputTags PROVE t \in Seq(Chars)
  <2>1. CASE t \in Tags
    BY <2>1, <1>3
  <2>2. CASE t \notin Tags
    <3>1. PICK p \in Plugins, id \in 0..(MaxInputs - 1) : t = Name(p, id)
      BY <2>2, <1>5 DEF InputTags
    <3> QED BY <3>1, <1>1
  <2> QED BY <2>1, <2>2
<1>6. ASSUME NEW m \in Values \union {<<Star>>} PROVE m \in Seq(Chars)
  BY <1>2, <1>3 DEF Values
<1>7. Tags \subseteq InputTags
  BY DEF InputTags
<1> QED BY <1>4, <1>5, <1>6, <1>7

\* An asterisk alone matches every tag.
LEMMA StarMatches ==
  ASSUME NEW tag \in Seq(Chars)
  PROVE  flb_router_match(tag, <<Star>>)
<1> DEFINE match == <<Star>>
           m == Len(tag)
           cut == [j \in 0..Len(match) |-> IF j = 0 THEN 0 ELSE m]
<1>0. m \in Nat /\ match \in Seq(Chars) /\ Len(match) = 1 /\ match[1] = Star
      /\ DOMAIN match = 1..1
  BY DEF Chars
<1>1. cut \in [0..Len(match) -> 0..Len(tag)] /\ cut[0] = 0 /\ cut[Len(match)] = Len(tag)
  BY <1>0
<1>2. \A j \in DOMAIN match : match[j] = Star /\ cut[j - 1] =< cut[j]
  BY <1>0
<1> HIDE DEF cut, match
<1>3. Covers(tag, match)
  BY <1>1, <1>2 DEF Covers
<1>4. flb_router_match(tag, match)
  BY <1>0, <1>3, MatchCovers
<1> QED BY <1>4 DEF match

LEMMA StartStep == Lists /\ StartInv /\ [Next]_vars => StartInv'
<1> SUFFICES ASSUME Lists, StartInv, [Next]_vars PROVE StartInv'
  OBVIOUS
<1>0. /\ Len(inputs) \in Nat /\ DOMAIN inputs = 1..Len(inputs)
      /\ Len(outputs) \in Nat /\ DOMAIN outputs = 1..Len(outputs)
      /\ \A i \in DOMAIN inputs : inputs[i] \in InputSet(Len(outputs))
      /\ \A o \in DOMAIN outputs : outputs[o] \in OutputSet
  BY DEF Lists
<1>1. ASSUME phase' = "config" PROVE StartInv'
  BY <1>1 DEF StartInv
<1>2. ASSUME phase' = "down", inputs' = <<>> PROVE StartInv'
  BY <1>2 DEF StartInv, Named
<1>3. ASSUME flb_input_initialize_all PROVE StartInv'
  <2> DEFINE named(i) == [inputs[i] EXCEPT !.tag = Name(inputs[i].plugin, inputs[i].id)]
             tagged == [i \in DOMAIN inputs |->
                          IF inputs[i].tag = NULL /\ inputs[i].plugin \notin Flagged
                          THEN named(i) ELSE inputs[i]]
             Good(x) == x.plugin \notin Dynamic => x.tag # NULL
             G == {x \in InputSet(Len(outputs)) : Good(x)}
  <2>1. inputs' \in Remainders(tagged) /\ phase' = "inputs"
    BY <1>3 DEF flb_input_initialize_all
  <2>2. ASSUME NEW i \in DOMAIN inputs, inputs[i].plugin \notin Flagged
        PROVE  named(i) \in G
    <3>1. Name(inputs[i].plugin, inputs[i].id) \in InputTags
      BY <1>0, <2>2 DEF InputSet, InputTags
    <3>2. Name(inputs[i].plugin, inputs[i].id) # NULL
      BY <3>1, Strs
    <3>3. named(i) \in InputSet(Len(outputs)) /\ named(i).tag # NULL
      <4> HIDE DEF InputTags
      <4> QED BY <1>0, <3>1, <3>2 DEF InputSet
    <3> QED BY <3>3
  <2>3. tagged \in [1..Len(inputs) -> G]
    <3> SUFFICES ASSUME NEW i \in DOMAIN inputs PROVE tagged[i] \in G
      BY <1>0
    <3>1. CASE inputs[i].tag = NULL /\ inputs[i].plugin \notin Flagged
      <4> HIDE DEF named, G
      <4> QED BY <3>1, <2>2
    <3>2. CASE ~(inputs[i].tag = NULL /\ inputs[i].plugin \notin Flagged)
      BY <3>2, <1>0, RouterAssumption
    <3> QED BY <3>1, <3>2
  <2> HIDE DEF tagged, G
  <2>4. tagged \in Seq(G)
    BY <1>0, <2>3, FunctionIsSeq
  <2>5. inputs' \in Seq(G)
    BY <2>1, <2>4, RemaindersOf
  <2>6. \A i \in DOMAIN inputs' : inputs'[i] \in G
    BY <2>5
  <2> QED BY <2>1, <2>6 DEF StartInv, Named, G
<1>4. ASSUME flb_output_init PROVE StartInv'
  <2>1. CASE phase' = "down"
    BY <1>2, <1>4, <2>1 DEF flb_output_init
  <2>2. CASE phase' # "down"
    BY <1>4, <2>2 DEF flb_output_init, StartInv, Named
  <2> QED BY <2>1, <2>2
<1>5. ASSUME flb_filter_initialize_all PROVE StartInv'
  <2>1. phase = "outputs" /\ phase' = "filters" /\ UNCHANGED inputs
        /\ \A f \in Range(filters') : Loadable(f)
    BY <1>5 DEF flb_filter_initialize_all
  <2>2. Loaded'
    BY <2>1 DEF Loaded, Loadable, Range
  <2> QED BY <2>1, <2>2 DEF StartInv, Named
<1>6. ASSUME flb_router_io_set PROVE StartInv'
  <2>0. phase = "filters" /\ phase' = "running" /\ UNCHANGED filters /\ Named /\ Loaded
    BY <1>6 DEF flb_router_io_set, StartInv
  <2>1. Loaded'
    BY <2>0 DEF Loaded
  <2>2. CASE Len(inputs) = 1 /\ Len(outputs) = 1 /\ outputs[1].match = NULL
    <3>1. inputs' = [inputs EXCEPT ![1].routes = {1}]
          /\ outputs' = [outputs EXCEPT ![1].match = <<Star>>]
      BY <1>6, <2>2 DEF flb_router_io_set, DefaultRule
    <3>2. DOMAIN inputs' = {1} /\ DOMAIN outputs' = {1} /\ 1 \in DOMAIN inputs /\ 1 \in DOMAIN outputs
      BY <1>0, <2>2, <3>1
    <3>3. inputs'[1].plugin = inputs[1].plugin /\ inputs'[1].tag = inputs[1].tag
          /\ inputs'[1].routes = {1} /\ outputs'[1].match = <<Star>>
      BY <1>0, <3>1, <3>2 DEF InputSet, OutputSet
    <3>4. Named'
      BY <2>0, <3>2, <3>3 DEF Named
    <3>5. ASSUME inputs[1].plugin \notin Dynamic
          PROVE  flb_router_match(inputs'[1].tag, <<Star>>)
      <4>1. inputs[1].tag \in InputTags
        BY <1>0, <2>0, <3>2, <3>5 DEF Named, InputSet
      <4> QED BY <3>3, <4>1, Strs, StarMatches
    <3>6. <<Star>> # NULL
      BY Strs
    <3>7. Connected'
      BY <3>2, <3>3, <3>5, <3>6 DEF Connected
    <3> QED BY <2>0, <2>1, <3>4, <3>7 DEF StartInv
  <2>3. CASE ~(Len(inputs) = 1 /\ Len(outputs) = 1 /\ outputs[1].match = NULL)
    <3>1. inputs' = [i \in DOMAIN inputs |-> Connect(inputs[i])] /\ UNCHANGED outputs
      BY <1>6, <2>3 DEF flb_router_io_set
    <3>2. ASSUME NEW i \in DOMAIN inputs
          PROVE  /\ inputs'[i].plugin = inputs[i].plugin /\ inputs'[i].tag = inputs[i].tag
                 /\ inputs'[i].routes =
                      {o \in DOMAIN outputs : /\ inputs[i].plugin \notin Dynamic
                                              /\ inputs[i].tag # NULL
                                              /\ outputs[o].match # NULL
                                              /\ flb_router_match(inputs[i].tag, outputs[o].match)}
      BY <1>0, <3>1 DEF Connect, InputSet
    <3>3. DOMAIN inputs' = DOMAIN inputs
      BY <3>1
    <3>4. Named'
      BY <2>0, <3>2, <3>3 DEF Named
    <3>5. Connected'
      <4> SUFFICES ASSUME NEW i \in DOMAIN inputs, inputs'[i].plugin \notin Dynamic
                   PROVE  inputs'[i].routes =
                            {o \in DOMAIN outputs' :
                               /\ outputs'[o].match # NULL
                               /\ flb_router_match(inputs'[i].tag, outputs'[o].match)}
        BY <3>3 DEF Connected
      <4>1. inputs[i].plugin \notin Dynamic /\ inputs[i].tag # NULL
        BY <2>0, <3>2 DEF Named
      <4> QED BY <3>1, <3>2, <4>1
    <3> QED BY <2>0, <2>1, <3>4, <3>5 DEF StartInv
  <2> QED BY <2>2, <2>3
<1>7. ASSUME flb_engine_shutdown PROVE StartInv'
  BY <1>2, <1>7 DEF flb_engine_shutdown
<1>8. ASSUME NEW p \in Plugins, flb_input(p) \/ flb_filter(p) PROVE StartInv'
  BY <1>1, <1>8 DEF flb_input, flb_filter
<1>9. ASSUME flb_output PROVE StartInv'
  BY <1>1, <1>9 DEF flb_output
<1>10. ASSUME NEW k, NEW v, flb_input_set(k, v) \/ flb_output_set(k, v) \/ flb_filter_set(k, v)
       PROVE  StartInv'
  BY <1>1, <1>10 DEF flb_input_set, flb_output_set, flb_filter_set, SetOne
<1>11. ASSUME UNCHANGED vars PROVE StartInv'
  BY <1>11 DEF vars, StartInv, Named, Loaded, Connected
<1> QED BY <1>3, <1>4, <1>5, <1>6, <1>7, <1>8, <1>9, <1>10, <1>11 DEF Next

LEMMA StartAlways == Spec => [](Lists /\ StartInv)
<1>1. Init => StartInv
  BY DEF Init, StartInv
<1>2. Spec => []Lists
  BY MaskAlways, PTL
<1> QED BY <1>1, <1>2, StartStep, PTL DEF Spec

\* Covered tabulates the match.
LEMMA CoveredIs ==
  ASSUME NEW t \in InputTags, NEW m \in Values \union {<<Star>>}
  PROVE  Covered[<<t, m>>] <=> flb_router_match(t, m)
<1>1. Covered[<<t, m>>] = Covers(t, m)
  BY DEF Covered
<1>2. t \in Seq(Chars) /\ m \in Seq(Chars)
  BY Strs
<1> QED BY <1>1, <1>2, MatchCovers

\* Once the engine runs, the records of every input go to exactly the outputs
\* whose match covers their tag, be the routes computed by flb_router_io_set()
\* (src/flb_router.c) or for every task (src/flb_task.c).
THEOREM RoutesCorrect == Spec => []RoutesFollowMatch
<1>1. Lists /\ StartInv => RoutesFollowMatch
  <2> SUFFICES ASSUME Lists, Named, Connected, NEW i \in Range(inputs), NEW t \in TagsOf(i)
               PROVE  TaskRoutes(i, t) = {o \in DOMAIN outputs : outputs[o].match # NULL
                                                       /\ Covered[<<t, outputs[o].match>>]}
    BY DEF RoutesFollowMatch, StartInv
  <2>1. PICK k \in DOMAIN inputs : i = inputs[k]
    BY DEF Range
  <2>2. i \in InputSet(Len(outputs)) /\ \A o \in DOMAIN outputs : outputs[o] \in OutputSet
    BY <2>1 DEF Lists
  <2>3. i.plugin \notin Dynamic => i.tag # NULL
    BY <2>1 DEF Named
  <2>4. t \in InputTags
    BY <2>2, <2>3, Strs DEF TagsOf, InputSet
  <2>5. ASSUME NEW o \in DOMAIN outputs, outputs[o].match # NULL
        PROVE  Covered[<<t, outputs[o].match>>] <=> flb_router_match(t, outputs[o].match)
    <3>1. outputs[o].match \in Values \union {<<Star>>}
      BY <2>2, <2>5 DEF OutputSet, Values
    <3> QED BY <2>4, <3>1, CoveredIs
  <2>6. TaskRoutes(i, t) = {o \in DOMAIN outputs : outputs[o].match # NULL
                                            /\ flb_router_match(t, outputs[o].match)}
    <3>1. CASE i.plugin \in Dynamic
      BY <3>1 DEF TaskRoutes
    <3>2. CASE i.plugin \notin Dynamic
      <4>1. t = i.tag /\ TaskRoutes(i, t) = i.routes
        BY <3>2 DEF TaskRoutes, TagsOf
      <4> QED BY <2>1, <3>2, <4>1 DEF Connected
    <3> QED BY <3>1, <3>2
  <2> QED BY <2>5, <2>6
<1> QED BY <1>1, StartAlways, PTL

\* flb_filter_do() (src/flb_filter.c) never hands the router a filter without
\* match, and runs exactly the filters whose match covers the tag.
THEOREM FiltersCorrect == Spec => []FiltersFollowMatch
<1>1. Lists /\ StartInv => FiltersFollowMatch
  <2> SUFFICES ASSUME Lists, Loaded, NEW f \in DOMAIN filters
               PROVE  /\ filters[f].match # NULL
                      /\ \A t \in Tags : f \in FiltersFor(t) <=> Covered[<<t, filters[f].match>>]
    BY DEF FiltersFollowMatch, StartInv
  <2>1. filters[f].match # NULL /\ filters[f] \in FilterSet
    BY DEF Loaded, Lists
  <2>2. filters[f].match \in Values
    BY <2>1 DEF FilterSet
  <2>3. ASSUME NEW t \in Tags
        PROVE  Covered[<<t, filters[f].match>>] <=> flb_router_match(t, filters[f].match)
    BY <2>2, Strs, CoveredIs
  <2> QED BY <2>1, <2>3 DEF FiltersFor
<1> QED BY <1>1, StartAlways, PTL

\* flb_router_match() agrees with what a pattern means on the strings run
\* router compares, whatever their greatest length.
THEOREM MatchCorrect == Spec => []MatchIsCover
<1>1. ASSUME NEW chars, NEW s \in Strings(chars, MaxString) PROVE s \in Seq(chars)
  <2>1. PICK k \in 0..MaxString : s \in [1..k -> chars]
    BY DEF Strings
  <2>2. k \in Nat
    BY <2>1, RouterAssumption
  <2> QED BY <2>1, <2>2, FunctionIsSeq
<1>2. ASSUME NEW tag \in Strings({"a", "b"}, MaxString),
             NEW match \in Strings({"a", "b", Star}, MaxString)
      PROVE  flb_router_match(tag, match) <=> Covers(tag, match)
  <2>1. tag \in Seq({"a", "b"}) /\ match \in Seq({"a", "b", Star})
    BY <1>1
  <2>2. tag \in Seq({"a", "b", Star})
    BY <2>1
  <2> QED BY <2>1, <2>2, MatchCovers
<1>3. MatchIsCover
  BY <1>2 DEF MatchIsCover
<1> QED BY <1>3, PTL
-----------------------------------------------------------------------------
(* Numbers of instances.                                                   *)

\* All instances of a list are of one plugin.
Same(list) == \A j \in DOMAIN list : list[j].plugin = list[1].plugin

MeantSet == [inputs : Seq(InputTags \union {NULL}), outputs : Seq(Patterns \union {NULL}),
             filters : Seq(Values \union {NULL})]

MeantType ==
  /\ meant \in MeantSet
  /\ Len(meant.inputs) = Len(inputs) /\ Len(meant.outputs) = Len(outputs)
  /\ Len(meant.filters) = Len(filters)

OutputsReached ==
  Len(outputs) =< 32 => \A o \in DOMAIN outputs : outputs[o].match = meant.outputs[o]

\* Within a plugin, instances are numbered in the order of their creation.
InputsReached ==
  Same(inputs) => \A i \in DOMAIN inputs : /\ inputs[i].id = i - 1
                                           /\ inputs[i].tag = meant.inputs[i]
FiltersReached ==
  Same(filters) => \A f \in DOMAIN filters : /\ filters[f].id = f - 1
                                             /\ filters[f].match = meant.filters[f]

SetInv == phase = "config" =>
            MeantType /\ OutputsReached /\ InputsReached /\ FiltersReached

LEMMA MinOne == ASSUME NEW k \in Nat PROVE Min({k}) = k
BY DEF Min

\* A list of one plugin with a new element was of that plugin before.
LEMMA SameAppend ==
  ASSUME NEW R, NEW list \in Seq(R), NEW x, Same(Append(list, x))
  PROVE  Same(list) /\ \A j \in DOMAIN list : list[j].plugin = x.plugin
<1> DEFINE n == Len(list)
           new == Append(list, x)
<1>0. n \in Nat /\ DOMAIN list = 1..n /\ DOMAIN new = 1..(n + 1) /\ new[n + 1] = x
      /\ \A j \in 1..n : new[j] = list[j]
  OBVIOUS
<1>1. \A j \in 1..(n + 1) : new[j].plugin = new[1].plugin
  BY <1>0 DEF Same
<1> HIDE DEF new
<1>2. x.plugin = new[1].plugin
  BY <1>0, <1>1
<1>3. ASSUME NEW j \in 1..n PROVE list[j].plugin = new[1].plugin /\ list[1].plugin = new[1].plugin
  <2>1. j \in 1..(n + 1) /\ 1 \in 1..n
    BY <1>0
  <2> QED BY <2>1, <1>0, <1>1
<1> QED BY <1>0, <1>2, <1>3 DEF Same

LEMMA SetInputs ==
  ASSUME Lists, MeantType, InputsReached
  PROVE  /\ \A p \in Plugins : flb_input(p) => InputsReached'
         /\ \A k \in DOMAIN inputs, t \in Tags : flb_input_set(k, t) => InputsReached'
<1> DEFINE n == Len(inputs)
           D == InputSet(Len(outputs))
<1>0. n \in Nat /\ DOMAIN inputs = 1..n /\ inputs \in Seq(D)
      /\ \A i \in DOMAIN inputs : inputs[i] \in D
  BY DEF Lists
<1>a. meant \in MeantSet /\ meant.inputs \in Seq(InputTags \union {NULL})
      /\ Len(meant.inputs) = n /\ DOMAIN meant.inputs = 1..n
  BY DEF MeantType, MeantSet
<1>1. ASSUME NEW p \in Plugins, flb_input(p) PROVE InputsReached'
  <2> DEFINE new == [plugin |-> p, id |-> instance_id(inputs, p), tag |-> NULL, routes |-> {}]
  <2>1. inputs' = Append(inputs, new)
        /\ meant' = [meant EXCEPT !.inputs = Append(meant.inputs, NULL)]
    BY <1>1 DEF flb_input
  <2>2. meant'.inputs = Append(meant.inputs, NULL)
    BY <1>a, <2>1 DEF MeantSet
  <2>3. new.plugin = p /\ new.id = instance_id(inputs, p) /\ new.tag = NULL
    OBVIOUS
  <2> HIDE DEF new
  <2>4. DOMAIN inputs' = 1..(n + 1) /\ inputs'[n + 1] = new /\ meant'.inputs[n + 1] = NULL
        /\ \A i \in 1..n : inputs'[i] = inputs[i] /\ meant'.inputs[i] = meant.inputs[i]
    BY <1>0, <1>a, <2>1, <2>2
  <2>5. ASSUME Same(inputs'), NEW i \in DOMAIN inputs'
        PROVE  inputs'[i].id = i - 1 /\ inputs'[i].tag = meant'.inputs[i]
    <3>1. Same(inputs) /\ \A j \in DOMAIN inputs : inputs[j].plugin = p
      BY <1>0, <2>1, <2>3, <2>5, SameAppend
    <3>2. CASE i = n + 1
      <4>1. instance_id(inputs, p) = n
        BY <1>0, <3>1, InstanceId
      <4>2. (n + 1) - 1 = n
        BY <1>0
      <4> QED BY <3>2, <4>1, <4>2, <2>3, <2>4
    <3>3. CASE i # n + 1
      <4>1. i \in 1..n
        BY <3>3, <2>4, <2>5, <1>0
      <4> QED BY <4>1, <3>1, <2>4, <1>0 DEF InputsReached
    <3> QED BY <3>2, <3>3
  <2> QED BY <2>5 DEF InputsReached
<1>2. ASSUME NEW k \in DOMAIN inputs, NEW t \in Tags, flb_input_set(k, t) PROVE InputsReached'
  <2> DEFINE g == in_instance_get(inputs[k].id)
  <2>1. inputs' = [inputs EXCEPT ![g].tag = t]
        /\ meant' = [meant EXCEPT !.inputs = [meant.inputs EXCEPT ![k] = t]]
    BY <1>2 DEF flb_input_set
  <2>2. meant'.inputs = [meant.inputs EXCEPT ![k] = t]
    BY <1>a, <2>1 DEF MeantSet
  <2>3. DOMAIN inputs' = DOMAIN inputs
        /\ \A i \in DOMAIN inputs : /\ inputs'[i].plugin = inputs[i].plugin
                                    /\ inputs'[i].id = inputs[i].id
                                    /\ inputs'[i].tag = IF i = g THEN t ELSE inputs[i].tag
    <3> HIDE DEF g
    <3> QED BY <1>0, <2>1 DEF InputSet
  <2>4. Same(inputs') => Same(inputs)
    <3>1. 1 \in DOMAIN inputs
      BY <1>0
    <3> QED BY <2>3, <3>1 DEF Same
  <2>5. ASSUME Same(inputs) PROVE g = k
    <3>1. \A i \in DOMAIN inputs : inputs[i].id = i - 1
      BY <2>5 DEF InputsReached
    <3>2. {i \in DOMAIN inputs : inputs[i].id = inputs[k].id} = {k}
      BY <1>0, <3>1
    <3> QED BY <1>0, <3>2, MinOne DEF in_instance_get
  <2> HIDE DEF g
  <2>6. ASSUME Same(inputs'), NEW i \in DOMAIN inputs'
        PROVE  inputs'[i].id = i - 1 /\ inputs'[i].tag = meant'.inputs[i]
    <3>1. g = k /\ i \in DOMAIN inputs /\ inputs[i].id = i - 1
          /\ inputs[i].tag = meant.inputs[i]
      BY <2>3, <2>4, <2>5, <2>6 DEF InputsReached
    <3>2. meant'.inputs[i] = IF i = k THEN t ELSE meant.inputs[i]
      BY <1>0, <1>a, <2>2, <3>1
    <3> QED BY <2>3, <3>1, <3>2
  <2> QED BY <2>6 DEF InputsReached
<1> QED BY <1>1, <1>2

LEMMA SetFilters ==
  ASSUME Lists, MeantType, FiltersReached
  PROVE  /\ \A p \in Plugins : flb_filter(p) => FiltersReached'
         /\ \A k \in DOMAIN filters, t \in Values : flb_filter_set(k, t) => FiltersReached'
<1> DEFINE n == Len(filters)
           D == FilterSet
<1>0. n \in Nat /\ DOMAIN filters = 1..n /\ filters \in Seq(D)
      /\ \A i \in DOMAIN filters : filters[i] \in D
  BY DEF Lists
<1>a. meant \in MeantSet /\ meant.filters \in Seq(Values \union {NULL})
      /\ Len(meant.filters) = n /\ DOMAIN meant.filters = 1..n
  BY DEF MeantType, MeantSet
<1>1. ASSUME NEW p \in Plugins, flb_filter(p) PROVE FiltersReached'
  <2> DEFINE new == [plugin |-> p, id |-> instance_id(filters, p), match |-> NULL]
  <2>1. filters' = Append(filters, new)
        /\ meant' = [meant EXCEPT !.filters = Append(meant.filters, NULL)]
    BY <1>1 DEF flb_filter
  <2>2. meant'.filters = Append(meant.filters, NULL)
    BY <1>a, <2>1 DEF MeantSet
  <2>3. new.plugin = p /\ new.id = instance_id(filters, p) /\ new.match = NULL
    OBVIOUS
  <2> HIDE DEF new
  <2>4. DOMAIN filters' = 1..(n + 1) /\ filters'[n + 1] = new /\ meant'.filters[n + 1] = NULL
        /\ \A i \in 1..n : filters'[i] = filters[i] /\ meant'.filters[i] = meant.filters[i]
    BY <1>0, <1>a, <2>1, <2>2
  <2>5. ASSUME Same(filters'), NEW i \in DOMAIN filters'
        PROVE  filters'[i].id = i - 1 /\ filters'[i].match = meant'.filters[i]
    <3>1. Same(filters) /\ \A j \in DOMAIN filters : filters[j].plugin = p
      BY <1>0, <2>1, <2>3, <2>5, SameAppend
    <3>2. CASE i = n + 1
      <4>1. instance_id(filters, p) = n
        BY <1>0, <3>1, InstanceId
      <4>2. (n + 1) - 1 = n
        BY <1>0
      <4> QED BY <3>2, <4>1, <4>2, <2>3, <2>4
    <3>3. CASE i # n + 1
      <4>1. i \in 1..n
        BY <3>3, <2>4, <2>5, <1>0
      <4> QED BY <4>1, <3>1, <2>4, <1>0 DEF FiltersReached
    <3> QED BY <3>2, <3>3
  <2> QED BY <2>5 DEF FiltersReached
<1>2. ASSUME NEW k \in DOMAIN filters, NEW t \in Values, flb_filter_set(k, t) PROVE FiltersReached'
  <2> DEFINE g == filter_instance_get(filters[k].id)
  <2>1. filters' = [filters EXCEPT ![g].match = t]
        /\ meant' = [meant EXCEPT !.filters = [meant.filters EXCEPT ![k] = t]]
    BY <1>2 DEF flb_filter_set
  <2>2. meant'.filters = [meant.filters EXCEPT ![k] = t]
    BY <1>a, <2>1 DEF MeantSet
  <2>3. DOMAIN filters' = DOMAIN filters
        /\ \A i \in DOMAIN filters : /\ filters'[i].plugin = filters[i].plugin
                                    /\ filters'[i].id = filters[i].id
                                    /\ filters'[i].match = IF i = g THEN t ELSE filters[i].match
    <3> HIDE DEF g
    <3> QED BY <1>0, <2>1 DEF FilterSet
  <2>4. Same(filters') => Same(filters)
    <3>1. 1 \in DOMAIN filters
      BY <1>0
    <3> QED BY <2>3, <3>1 DEF Same
  <2>5. ASSUME Same(filters) PROVE g = k
    <3>1. \A i \in DOMAIN filters : filters[i].id = i - 1
      BY <2>5 DEF FiltersReached
    <3>2. {i \in DOMAIN filters : filters[i].id = filters[k].id} = {k}
      BY <1>0, <3>1
    <3> QED BY <1>0, <3>2, MinOne DEF filter_instance_get
  <2> HIDE DEF g
  <2>6. ASSUME Same(filters'), NEW i \in DOMAIN filters'
        PROVE  filters'[i].id = i - 1 /\ filters'[i].match = meant'.filters[i]
    <3>1. g = k /\ i \in DOMAIN filters /\ filters[i].id = i - 1
          /\ filters[i].match = meant.filters[i]
      BY <2>3, <2>4, <2>5, <2>6 DEF FiltersReached
    <3>2. meant'.filters[i] = IF i = k THEN t ELSE meant.filters[i]
      BY <1>0, <1>a, <2>2, <3>1
    <3> QED BY <2>3, <3>1, <3>2
  <2> QED BY <2>6 DEF FiltersReached
<1> QED BY <1>1, <1>2

LEMMA SetOutputs ==
  ASSUME Lists, MaskInv, MeantType, OutputsReached
  PROVE  /\ flb_output => OutputsReached'
         /\ \A k \in Latest, m \in Values : flb_output_set(k, m) => OutputsReached'
<1>0. PICK n \in Nat : n = Len(outputs)
  BY DEF Lists
<1>a. DOMAIN outputs = 1..n /\ outputs \in Seq(OutputSet)
      /\ \A o \in DOMAIN outputs : outputs[o] \in OutputSet
  BY <1>0 DEF Lists
<1>b. meant \in MeantSet /\ meant.outputs \in Seq(Patterns \union {NULL})
      /\ Len(meant.outputs) = n /\ DOMAIN meant.outputs = 1..n
  BY <1>0 DEF MeantType, MeantSet
<1>c. n =< 32 => \A o \in 1..n : outputs[o].match = meant.outputs[o]
  BY <1>0, <1>a DEF OutputsReached
<1>1. ASSUME flb_output PROVE OutputsReached'
  <2> DEFINE new == [mask_id |-> NextMask(outputs), match |-> NULL]
  <2>1. outputs' = Append(outputs, new)
        /\ meant' = [meant EXCEPT !.outputs = Append(meant.outputs, NULL)]
    BY <1>1 DEF flb_output, AddOutput
  <2>2. meant'.outputs = Append(meant.outputs, NULL)
    BY <1>b, <2>1 DEF MeantSet
  <2>3. new.match = NULL
    OBVIOUS
  <2> HIDE DEF new
  <2>4. Len(outputs') = n + 1 /\ DOMAIN outputs' = 1..(n + 1) /\ outputs'[n + 1] = new
        /\ meant'.outputs[n + 1] = NULL
        /\ \A o \in 1..n : outputs'[o] = outputs[o] /\ meant'.outputs[o] = meant.outputs[o]
    BY <1>0, <1>a, <1>b, <2>1, <2>2
  <2>5. ASSUME n + 1 =< 32, NEW o \in 1..(n + 1)
        PROVE  outputs'[o].match = meant'.outputs[o]
    <3>1. CASE o = n + 1
      BY <3>1, <2>3, <2>4
    <3>2. CASE o # n + 1
      <4>1. o \in 1..n /\ n =< 32
        BY <3>2, <2>5
      <4> QED BY <4>1, <2>4, <1>c
    <3> QED BY <3>1, <3>2
  <2> QED BY <2>4, <2>5 DEF OutputsReached
<1>2. ASSUME NEW k \in Latest, NEW m \in Values, flb_output_set(k, m) PROVE OutputsReached'
  <2> DEFINE g == out_instance_get(outputs[k].mask_id)
             x == [outputs[g] EXCEPT !.match = OutputValue(m)]
  <2>1. outputs' = [outputs EXCEPT ![g] = x]
        /\ meant' = [meant EXCEPT !.outputs = [meant.outputs EXCEPT ![k] = OutputValue(m)]]
    BY <1>2 DEF flb_output_set
  <2>2. meant'.outputs = [meant.outputs EXCEPT ![k] = OutputValue(m)]
    BY <1>b, <2>1 DEF MeantSet
  <2>3. k \in 1..n
    BY <1>a DEF Latest
  <2>4. DOMAIN outputs' = 1..n /\ Len(outputs') = n
        /\ \A o \in 1..n : outputs'[o].match = IF o = g THEN OutputValue(m) ELSE outputs[o].match
    <3>1. \A o \in 1..n : o = g => x.match = OutputValue(m)
      BY <1>a DEF OutputSet
    <3> HIDE DEF g, x
    <3>2. DOMAIN outputs' = 1..n /\ \A o \in 1..n : outputs'[o] = IF o = g THEN x ELSE outputs[o]
      BY <1>a, <2>1
    <3>3. Len(outputs') = n
      BY <1>0, <1>a, <2>1
    <3> QED BY <3>1, <3>2, <3>3
  <2>5. ASSUME n =< 32 PROVE g = k
    <3>1. \A o \in 1..n : o \in 1..32 /\ o =< 32
      BY <2>5
    <3>2. \A o \in 1..n : outputs[o].mask_id = MaskOf(o)
      BY <3>1, <1>a DEF MaskInv
    <3>3. ASSUME NEW o \in 1..n, MaskOf(o) = MaskOf(k) PROVE o = k
      <4>1. o - 1 \in MaskOf(o) /\ o \in 1..32 /\ k \in 1..32
        BY <3>1, <2>3, MaskOfBit
      <4> QED BY <4>1, <3>3, MaskOfUnique
    <3>4. {o \in DOMAIN outputs : outputs[o].mask_id = outputs[k].mask_id} = {k}
      BY <1>a, <2>3, <3>2, <3>3
    <3> QED BY <2>3, <3>4, MinOne DEF out_instance_get
  <2> HIDE DEF g, x
  <2>6. ASSUME n =< 32, NEW o \in 1..n PROVE outputs'[o].match = meant'.outputs[o]
    <3>1. meant'.outputs[o] = IF o = k THEN OutputValue(m) ELSE meant.outputs[o]
      BY <1>b, <2>2
    <3> QED BY <2>4, <2>5, <2>6, <3>1, <1>c
  <2> QED BY <2>4, <2>6 DEF OutputsReached
<1> QED BY <1>1, <1>2

\* What was meant has an entry for every instance.
LEMMA MeantStep ==
  ASSUME Lists, MeantType
  PROVE  /\ \A p \in Plugins : flb_input(p) \/ flb_filter(p) => MeantType'
         /\ flb_output => MeantType'
         /\ \A k \in DOMAIN inputs, t \in Tags : flb_input_set(k, t) => MeantType'
         /\ \A k \in Latest, m \in Values : flb_output_set(k, m) => MeantType'
         /\ \A k \in DOMAIN filters, m \in Values : flb_filter_set(k, m) => MeantType'
<1> DEFINE T == InputTags \union {NULL}
           P == Patterns \union {NULL}
           V == Values \union {NULL}
<1>0. /\ meant \in MeantSet /\ meant.inputs \in Seq(T) /\ meant.outputs \in Seq(P)
      /\ meant.filters \in Seq(V) /\ NULL \in T /\ NULL \in P /\ NULL \in V
      /\ Len(meant.inputs) = Len(inputs) /\ Len(meant.outputs) = Len(outputs)
      /\ Len(meant.filters) = Len(filters)
  BY DEF MeantType, MeantSet
<1>a. inputs \in Seq(InputSet(Len(outputs))) /\ outputs \in Seq(OutputSet)
      /\ filters \in Seq(FilterSet)
  BY DEF Lists
<1>b. MeantSet = [inputs : Seq(T), outputs : Seq(P), filters : Seq(V)]
  BY DEF MeantSet
<1> HIDE DEF T, P, V
<1>1. ASSUME NEW s \in Seq(T), meant' = [meant EXCEPT !.inputs = s], Len(s) = Len(inputs'),
             Len(outputs') = Len(outputs), Len(filters') = Len(filters)
      PROVE  MeantType'
  <2>1. meant' \in MeantSet /\ meant'.inputs = s /\ meant'.outputs = meant.outputs
        /\ meant'.filters = meant.filters
    BY <1>0, <1>1, <1>b
  <2> QED BY <2>1, <1>0, <1>1 DEF MeantType
<1>2. ASSUME NEW s \in Seq(P), meant' = [meant EXCEPT !.outputs = s], Len(s) = Len(outputs'),
             Len(inputs') = Len(inputs), Len(filters') = Len(filters)
      PROVE  MeantType'
  <2>1. meant' \in MeantSet /\ meant'.inputs = meant.inputs /\ meant'.outputs = s
        /\ meant'.filters = meant.filters
    BY <1>0, <1>2, <1>b
  <2> QED BY <2>1, <1>0, <1>2 DEF MeantType
<1>3. ASSUME NEW s \in Seq(V), meant' = [meant EXCEPT !.filters = s], Len(s) = Len(filters'),
             Len(inputs') = Len(inputs), Len(outputs') = Len(outputs)
      PROVE  MeantType'
  <2>1. meant' \in MeantSet /\ meant'.inputs = meant.inputs /\ meant'.outputs = meant.outputs
        /\ meant'.filters = s
    BY <1>0, <1>3, <1>b
  <2> QED BY <2>1, <1>0, <1>3 DEF MeantType
<1>4. ASSUME NEW p \in Plugins, flb_input(p) PROVE MeantType'
  <2> DEFINE s == Append(meant.inputs, NULL)
  <2>1. meant' = [meant EXCEPT !.inputs = s] /\ UNCHANGED <<outputs, filters>>
    BY <1>4 DEF flb_input
  <2>2. s \in Seq(T) /\ Len(s) = Len(inputs')
    BY <1>0, <1>4, <1>a DEF flb_input
  <2> HIDE DEF s
  <2> QED BY <2>1, <2>2, <1>1
<1>5. ASSUME NEW p \in Plugins, flb_filter(p) PROVE MeantType'
  <2> DEFINE s == Append(meant.filters, NULL)
  <2>1. meant' = [meant EXCEPT !.filters = s] /\ UNCHANGED <<inputs, outputs>>
    BY <1>5 DEF flb_filter
  <2>2. s \in Seq(V) /\ Len(s) = Len(filters')
    BY <1>0, <1>5, <1>a DEF flb_filter
  <2> HIDE DEF s
  <2> QED BY <2>1, <2>2, <1>3
<1>6. ASSUME flb_output PROVE MeantType'
  <2> DEFINE s == Append(meant.outputs, NULL)
  <2>1. meant' = [meant EXCEPT !.outputs = s] /\ UNCHANGED <<inputs, filters>>
    BY <1>6 DEF flb_output
  <2>2. s \in Seq(P) /\ Len(s) = Len(outputs')
    BY <1>0, <1>6, <1>a, AddOutputType DEF flb_output
  <2> HIDE DEF s
  <2> QED BY <2>1, <2>2, <1>2
<1>7. ASSUME NEW k \in DOMAIN inputs, NEW t \in Tags, flb_input_set(k, t) PROVE MeantType'
  <2> DEFINE s == [meant.inputs EXCEPT ![k] = t]
  <2>1. meant' = [meant EXCEPT !.inputs = s] /\ UNCHANGED <<outputs, filters>>
    BY <1>7 DEF flb_input_set
  <2>2. s \in Seq(T)
    BY <1>0 DEF T, InputTags
  <2>3. Len(s) = Len(inputs')
    BY <1>0, <1>7, <1>a DEF flb_input_set
  <2> HIDE DEF s
  <2> QED BY <2>1, <2>2, <2>3, <1>1
<1>8. ASSUME NEW k \in Latest, NEW m \in Values, flb_output_set(k, m) PROVE MeantType'
  <2> DEFINE s == [meant.outputs EXCEPT ![k] = OutputValue(m)]
  <2>1. meant' = [meant EXCEPT !.outputs = s] /\ UNCHANGED <<inputs, filters>>
    BY <1>8 DEF flb_output_set
  <2>2. s \in Seq(P)
    <3>1. OutputValue(m) \in P /\ \A i \in DOMAIN meant.outputs : meant.outputs[i] \in P
      BY <1>0 DEF P, OutputValue, Values
    <3> QED BY <3>1, <1>0, ListUpdate
  <2>3. Len(s) = Len(outputs')
    BY <1>0, <1>8, <1>a DEF flb_output_set
  <2> HIDE DEF s
  <2> QED BY <2>1, <2>2, <2>3, <1>2
<1>9. ASSUME NEW k \in DOMAIN filters, NEW m \in Values, flb_filter_set(k, m) PROVE MeantType'
  <2> DEFINE s == [meant.filters EXCEPT ![k] = m]
  <2>1. meant' = [meant EXCEPT !.filters = s] /\ UNCHANGED <<inputs, outputs>>
    BY <1>9 DEF flb_filter_set
  <2>2. s \in Seq(V)
    BY <1>0 DEF V
  <2>3. Len(s) = Len(filters')
    BY <1>0, <1>9, <1>a DEF flb_filter_set
  <2> HIDE DEF s
  <2> QED BY <2>1, <2>2, <2>3, <1>3
<1> QED BY <1>4, <1>5, <1>6, <1>7, <1>8, <1>9

\* A part of SetInv stands while the instances it speaks of are left alone.
LEMMA SetFrame ==
  ASSUME MeantType
  PROVE  /\ InputsReached /\ UNCHANGED inputs /\ meant'.inputs = meant.inputs => InputsReached'
         /\ OutputsReached /\ UNCHANGED outputs /\ meant'.outputs = meant.outputs => OutputsReached'
         /\ FiltersReached /\ UNCHANGED filters /\ meant'.filters = meant.filters => FiltersReached'
BY DEF InputsReached, OutputsReached, FiltersReached, Same

\* Setting or adding one kind of instance leaves what was meant for the others.
LEMMA MeantFrame ==
  ASSUME meant \in MeantSet, NEW s
  PROVE  /\ meant' = [meant EXCEPT !.inputs = s] =>
              meant'.outputs = meant.outputs /\ meant'.filters = meant.filters
         /\ meant' = [meant EXCEPT !.outputs = s] =>
              meant'.inputs = meant.inputs /\ meant'.filters = meant.filters
         /\ meant' = [meant EXCEPT !.filters = s] =>
              meant'.inputs = meant.inputs /\ meant'.outputs = meant.outputs
BY DEF MeantSet

LEMMA SetStep == Lists /\ MaskInv /\ SetInv /\ [Next]_vars => SetInv'
<1> SUFFICES ASSUME Lists, MaskInv, SetInv, [Next]_vars PROVE SetInv'
  OBVIOUS
<1> DEFINE Goal == MeantType' /\ OutputsReached' /\ InputsReached' /\ FiltersReached'
<1>1. ASSUME phase' # "config" PROVE SetInv'
  BY <1>1 DEF SetInv
<1>2. ASSUME phase = "config", NEW p \in Plugins, flb_input(p) PROVE Goal
  <2>0. MeantType /\ OutputsReached /\ InputsReached /\ FiltersReached /\ meant \in MeantSet
    BY <1>2 DEF SetInv, MeantType
  <2>1. MeantType' /\ InputsReached'
    BY <2>0, <1>2, MeantStep, SetInputs
  <2>2. UNCHANGED <<outputs, filters>> /\ meant' = [meant EXCEPT !.inputs = Append(meant.inputs, NULL)]
    BY <1>2 DEF flb_input
  <2>3. meant'.outputs = meant.outputs /\ meant'.filters = meant.filters
    BY <2>0, <2>2, MeantFrame
  <2> QED BY <2>0, <2>1, <2>2, <2>3, SetFrame
<1>3. ASSUME phase = "config", NEW p \in Plugins, flb_filter(p) PROVE Goal
  <2>0. MeantType /\ OutputsReached /\ InputsReached /\ FiltersReached /\ meant \in MeantSet
    BY <1>3 DEF SetInv, MeantType
  <2>1. MeantType' /\ FiltersReached'
    BY <2>0, <1>3, MeantStep, SetFilters
  <2>2. UNCHANGED <<inputs, outputs>> /\ meant' = [meant EXCEPT !.filters = Append(meant.filters, NULL)]
    BY <1>3 DEF flb_filter
  <2>3. meant'.inputs = meant.inputs /\ meant'.outputs = meant.outputs
    BY <2>0, <2>2, MeantFrame
  <2> QED BY <2>0, <2>1, <2>2, <2>3, SetFrame
<1>4. ASSUME phase = "config", flb_output PROVE Goal
  <2>0. MeantType /\ OutputsReached /\ InputsReached /\ FiltersReached /\ meant \in MeantSet
    BY <1>4 DEF SetInv, MeantType
  <2>1. MeantType' /\ OutputsReached'
    BY <2>0, <1>4, MeantStep, SetOutputs
  <2>2. UNCHANGED <<inputs, filters>> /\ meant' = [meant EXCEPT !.outputs = Append(meant.outputs, NULL)]
    BY <1>4 DEF flb_output
  <2>3. meant'.inputs = meant.inputs /\ meant'.filters = meant.filters
    BY <2>0, <2>2, MeantFrame
  <2> QED BY <2>0, <2>1, <2>2, <2>3, SetFrame
<1>5. ASSUME phase = "config", NEW k \in DOMAIN inputs, NEW t \in Tags, flb_input_set(k, t)
      PROVE  Goal
  <2>0. MeantType /\ OutputsReached /\ InputsReached /\ FiltersReached /\ meant \in MeantSet
    BY <1>5 DEF SetInv, MeantType
  <2>1. MeantType' /\ InputsReached'
    BY <2>0, <1>5, MeantStep, SetInputs
  <2>2. UNCHANGED <<outputs, filters>>
        /\ meant' = [meant EXCEPT !.inputs = [meant.inputs EXCEPT ![k] = t]]
    BY <1>5 DEF flb_input_set
  <2>3. meant'.outputs = meant.outputs /\ meant'.filters = meant.filters
    BY <2>0, <2>2, MeantFrame
  <2> QED BY <2>0, <2>1, <2>2, <2>3, SetFrame
<1>6. ASSUME phase = "config", NEW k \in Latest, NEW m \in Values, flb_output_set(k, m)
      PROVE  Goal
  <2>0. MeantType /\ OutputsReached /\ InputsReached /\ FiltersReached /\ meant \in MeantSet
    BY <1>6 DEF SetInv, MeantType
  <2>1. MeantType' /\ OutputsReached'
    BY <2>0, <1>6, MeantStep, SetOutputs
  <2>2. UNCHANGED <<inputs, filters>>
        /\ meant' = [meant EXCEPT !.outputs = [meant.outputs EXCEPT ![k] = OutputValue(m)]]
    BY <1>6 DEF flb_output_set
  <2>3. meant'.inputs = meant.inputs /\ meant'.filters = meant.filters
    BY <2>0, <2>2, MeantFrame
  <2> QED BY <2>0, <2>1, <2>2, <2>3, SetFrame
<1>7. ASSUME phase = "config", NEW k \in DOMAIN filters, NEW m \in Values, flb_filter_set(k, m)
      PROVE  Goal
  <2>0. MeantType /\ OutputsReached /\ InputsReached /\ FiltersReached /\ meant \in MeantSet
    BY <1>7 DEF SetInv, MeantType
  <2>1. MeantType' /\ FiltersReached'
    BY <2>0, <1>7, MeantStep, SetFilters
  <2>2. UNCHANGED <<inputs, outputs>>
        /\ meant' = [meant EXCEPT !.filters = [meant.filters EXCEPT ![k] = m]]
    BY <1>7 DEF flb_filter_set
  <2>3. meant'.inputs = meant.inputs /\ meant'.outputs = meant.outputs
    BY <2>0, <2>2, MeantFrame
  <2> QED BY <2>0, <2>1, <2>2, <2>3, SetFrame
<1>8. ASSUME UNCHANGED vars PROVE SetInv'
  BY <1>8 DEF vars, SetInv, MeantType, InputsReached, OutputsReached, FiltersReached, Same
<1>9. ASSUME flb_input_initialize_all \/ flb_output_init \/ flb_filter_initialize_all
             \/ flb_router_io_set \/ flb_engine_shutdown
      PROVE  SetInv'
  <2>1. phase' # "config"
    BY <1>9 DEF flb_input_initialize_all, flb_output_init, flb_filter_initialize_all,
                flb_router_io_set, flb_engine_shutdown
  <2> QED BY <1>1, <2>1
<1>10. ASSUME NEW p \in Plugins, flb_input(p) \/ flb_filter(p) PROVE SetInv'
  <2>1. phase = "config"
    BY <1>10 DEF flb_input, flb_filter
  <2> QED BY <1>2, <1>3, <1>10, <2>1 DEF SetInv
<1>11. ASSUME flb_output PROVE SetInv'
  <2>1. phase = "config"
    BY <1>11 DEF flb_output
  <2> QED BY <1>4, <1>11, <2>1 DEF SetInv
<1>12. ASSUME NEW k \in DOMAIN inputs, NEW t \in Tags, flb_input_set(k, t) PROVE SetInv'
  <2>1. phase = "config"
    BY <1>12 DEF flb_input_set, SetOne
  <2> QED BY <1>5, <1>12, <2>1 DEF SetInv
<1>13. ASSUME NEW k \in Latest, NEW m \in Values, flb_output_set(k, m) PROVE SetInv'
  <2>1. phase = "config"
    BY <1>13 DEF flb_output_set, SetOne
  <2> QED BY <1>6, <1>13, <2>1 DEF SetInv
<1>14. ASSUME NEW k \in DOMAIN filters, NEW m \in Values, flb_filter_set(k, m) PROVE SetInv'
  <2>1. phase = "config"
    BY <1>14 DEF flb_filter_set, SetOne
  <2> QED BY <1>7, <1>14, <2>1 DEF SetInv
<1> QED BY <1>8, <1>9, <1>10, <1>11, <1>12, <1>13, <1>14 DEF Next

\* The number an application got for an instance (src/flb_lib.c) reaches that
\* instance: for up to 32 outputs, and for inputs and filters of one plugin,
\* however many there are and in whatever order they are created and set.
THEOREM SetsCorrect == Spec => []SetsReachInstance
<1>1. Init => SetInv
  <2> SUFFICES ASSUME Init PROVE MeantType /\ OutputsReached /\ InputsReached /\ FiltersReached
    BY DEF SetInv
  <2>1. meant = [inputs |-> <<>>, outputs |-> <<>>, filters |-> <<>>]
        /\ inputs = <<>> /\ outputs = <<>> /\ filters = <<>>
    BY DEF Init
  <2>2. MeantType
    BY <2>1 DEF MeantType, MeantSet
  <2>3. DOMAIN inputs = {} /\ DOMAIN outputs = {} /\ DOMAIN filters = {}
    BY <2>1
  <2> QED BY <2>2, <2>3 DEF OutputsReached, InputsReached, FiltersReached
<1>2. SetInv => SetsReachInstance
  BY DEF SetInv, SetsReachInstance, OutputsReached, InputsReached, FiltersReached, Same
<1> QED BY <1>1, <1>2, MaskAlways, SetStep, PTL DEF Spec
=============================================================================
