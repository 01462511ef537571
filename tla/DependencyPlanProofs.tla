------------------------ MODULE DependencyPlanProofs ------------------------
(***************************************************************************)
(* Proofs about DependencyPlan, for every finite catalog: the collected    *)
(* dependencies are the least set that contains the wanted ones and all    *)
(* that its members need; the depth-first search ends; without a cycle it  *)
(* lists them in order, and it reports a cycle only when no order exists.  *)
(* Recursion and induction over the numbers are reduced to the existence   *)
(* of least elements, which is a fact about sets.                          *)
(***************************************************************************)
EXTENDS DependencyPlan, FiniteSetTheorems, WellFoundedInduction, TLAPS

-----------------------------------------------------------------------------
(* Induction and recursion over the numbers *)

LEMMA Least ==
    ASSUME NEW S \in SUBSET Nat, S # {}
    PROVE  \E i \in S : \A j \in S : i <= j
<1> DEFINE R == {p \in Nat \X Nat : p[1] < p[2]}
<1>1. IsWellFoundedOn(R, Nat)
      BY NatLessThanWellFounded DEF OpToRel
<1>2. PICK i \in S : \A j \in S : ~(<<j, i>> \in R)
      BY <1>1, WFMin
<1>3. \A j \in S : ~(j < i)
      BY <1>2
<1> QED BY <1>3

\* A set with 0 that goes on from each number to the next has them all.
LEMMA AllNumbers ==
    ASSUME NEW S, 0 \in S, \A n \in Nat : n \in S => n + 1 \in S
    PROVE  Nat \subseteq S
<1> SUFFICES ASSUME Nat \ S # {} PROVE FALSE
  OBVIOUS
<1>1. PICK m \in Nat \ S : \A j \in Nat \ S : m <= j
  BY Least
<1>2. m - 1 \in Nat /\ m - 1 \notin S
  BY <1>1
<1> QED
  BY <1>1, <1>2

\* f[n] is what n applications of g make of s.
Iterates(f, S, g, s) ==
    f \in [Nat -> S] /\ f[0] = s /\ \A n \in Nat : f[n + 1] = g[f[n]]

\* Whatever a function on a set is, it can be iterated.
LEMMA Iteration ==
    ASSUME NEW S, NEW g \in [S -> S], NEW s \in S
    PROVE  \E f : Iterates(f, S, g, s)
<1> DEFINE Begins(n, h) == /\ h \in [0..n -> S]
                           /\ h[0] = s
                           /\ \A i \in 0..(n - 1) : h[i + 1] = g[h[i]]
<1>1. \A n \in Nat : \E h : Begins(n, h)
  <2> DEFINE T == {n \in Nat : \E h : Begins(n, h)}
  <2>1. 0 \in T
    <3>1. Begins(0, [i \in 0..0 |-> s])
      OBVIOUS
    <3> QED
      BY <3>1
  <2>2. ASSUME NEW n \in Nat, n \in T PROVE n + 1 \in T
    <3>1. PICK h : Begins(n, h)
      BY <2>2
    <3> DEFINE k == [i \in 0..(n + 1) |-> IF i = n + 1 THEN g[h[n]] ELSE h[i]]
    <3>2. h \in [0..n -> S] /\ h[0] = s /\ \A i \in 0..(n - 1) : h[i + 1] = g[h[i]]
      BY <3>1
    <3>3. h[n] \in S /\ g[h[n]] \in S
      BY <3>2
    <3>4. \A i \in 0..(n + 1) : i # n + 1 => i \in 0..n
      OBVIOUS
    <3>5. k \in [0..(n + 1) -> S]
      BY <3>2, <3>3, <3>4
    <3>6. k[0] = s /\ k[n + 1] = g[h[n]] /\ \A i \in 0..n : k[i] = h[i]
      BY <3>2
    <3>7. \A i \in 0..((n + 1) - 1) : k[i + 1] = g[k[i]]
      <4> SUFFICES ASSUME NEW i \in 0..n PROVE k[i + 1] = g[k[i]]
        OBVIOUS
      <4> HIDE DEF k
      <4>1. CASE i = n
        BY <3>6, <4>1
      <4>2. CASE i # n
        <5>1. i \in 0..(n - 1) /\ i + 1 \in 0..n
          BY <4>2
        <5> QED
          BY <3>2, <3>6, <5>1
      <4> QED
        BY <4>1, <4>2
    <3>8. Begins(n + 1, k)
      BY <3>5, <3>6, <3>7
    <3> QED
      BY <3>8
  <2> HIDE DEF Begins
  <2>3. Nat \subseteq T
    BY <2>1, <2>2, AllNumbers
  <2> QED
    BY <2>3
<1>2. ASSUME NEW n \in Nat, NEW h, NEW k, Begins(n, h), Begins(n + 1, k)
      PROVE  h[n] = k[n]
  <2> DEFINE T == {i \in Nat : i <= n => h[i] = k[i]}
  <2>1. 0 \in T
    BY <1>2
  <2>2. ASSUME NEW i \in Nat, i \in T PROVE i + 1 \in T
    <3> SUFFICES ASSUME i + 1 <= n PROVE h[i + 1] = k[i + 1]
      OBVIOUS
    <3>1. h[i] = k[i] /\ i \in 0..(n - 1) /\ i \in 0..((n + 1) - 1)
      BY <2>2
    <3> QED
      BY <1>2, <3>1
  <2>3. Nat \subseteq T
    <3> HIDE DEF T
    <3> QED
      BY <2>1, <2>2, AllNumbers
  <2> QED
    BY <2>3
<1> DEFINE start(n) == CHOOSE h : Begins(n, h)
           f == [n \in Nat |-> start(n)[n]]
<1>3. \A n \in Nat : Begins(n, start(n))
  <2> HIDE DEF Begins
  <2> QED
    BY <1>1
<1> HIDE DEF start
<1>4. f \in [Nat -> S]
  <2>1. \A n \in Nat : start(n) \in [0..n -> S] /\ n \in 0..n
    BY <1>3
  <2>2. \A n \in Nat : start(n)[n] \in S
    BY <2>1
  <2> QED
    BY <2>2
<1>5. f[0] = s
  BY <1>3
<1>6. ASSUME NEW n \in Nat PROVE f[n + 1] = g[f[n]]
  <2>1. Begins(n, start(n)) /\ Begins(n + 1, start(n + 1))
    BY <1>3
  <2>2. start(n)[n] = start(n + 1)[n]
    <3> HIDE DEF Begins
    <3> QED
      BY <1>2, <2>1
  <2>3. start(n + 1)[n + 1] = g[start(n + 1)[n]]
    <3>1. n \in 0..((n + 1) - 1)
      OBVIOUS
    <3> QED
      BY <2>1, <3>1
  <2> QED
    BY <2>2, <2>3
<1> HIDE DEF f
<1> QED
  BY <1>4, <1>5, <1>6 DEF Iterates

\* Two iterations agree.
LEMMA SameIteration ==
    ASSUME NEW S, NEW g \in [S -> S], NEW s \in S,
           NEW f, Iterates(f, S, g, s),
           NEW h, h[0] = s, \A n \in Nat : h[n] \in S => h[n + 1] = g[h[n]]
    PROVE  \A n \in Nat : h[n] = f[n]
<1> USE DEF Iterates
<1> DEFINE T == {n \in Nat : h[n] = f[n]}
<1>1. 0 \in T
  OBVIOUS
<1>2. \A n \in Nat : n \in T => n + 1 \in T
  OBVIOUS
<1>3. Nat \subseteq T
  <2> HIDE DEF T
  <2> QED
    BY <1>1, <1>2, AllNumbers
<1> QED
  BY <1>3

-----------------------------------------------------------------------------
(* What the wanted need *)

Closed(ids) == \A d \in ids : ToSet(Prerequisites[d]) \subseteq ids

LEMMA GrownFacts ==
    ASSUME NEW ids \in SUBSET Deps
    PROVE  /\ ids \subseteq Grown(ids) /\ Grown(ids) \subseteq Deps
           /\ Grown(ids) = ids <=> Closed(ids)
           /\ \A C \in SUBSET Deps : ids \subseteq C /\ Closed(C) => Grown(ids) \subseteq C
<1>1. \A d \in Deps : ToSet(Prerequisites[d]) \subseteq Deps
  BY CatalogAssumption DEF ToSet
<1> QED
  BY <1>1 DEF Grown, Closed

\* The collection as a function of the rounds.
LEMMA Rounds ==
    ASSUME NEW wanted \in SUBSET Deps
    PROVE  \E a \in [Nat -> SUBSET Deps] :
               /\ a[0] = wanted
               /\ \A n \in Nat : a[n + 1] = Grown(a[n])
               /\ Needed(wanted) = a[Cardinality(Deps)]
<1> DEFINE Ids == SUBSET Deps
           g == [ids \in Ids |-> Grown(ids)]
           Run(h) == h = [n \in Nat |-> IF n = 0 THEN wanted ELSE Grown(h[n - 1])]
           after == CHOOSE h : Run(h)
<1>1. g \in [Ids -> Ids] /\ wanted \in Ids
  BY GrownFacts
<1>2. PICK a : Iterates(a, Ids, g, wanted)
  <2> HIDE DEF g, Ids
  <2> QED
    BY <1>1, Iteration
<1> USE DEF Iterates
<1>3. \A n \in Nat : a[n + 1] = Grown(a[n])
  BY <1>2
<1>4. Run(a)
  <2>1. \A n \in Nat : n # 0 => n - 1 \in Nat /\ a[(n - 1) + 1] = Grown(a[n - 1])
    BY <1>3
  <2>2. \A n \in Nat : a[n] = IF n = 0 THEN wanted ELSE Grown(a[n - 1])
    BY <1>2, <2>1
  <2> QED
    BY <1>2, <2>2
<1>5. Run(after)
  <2> HIDE DEF Run
  <2> QED
    BY <1>4
<1>6. after[0] = wanted /\ \A n \in Nat : after[n + 1] = Grown(after[n])
  <2> HIDE DEF after
  <2> QED
    BY <1>5
<1>7. \A n \in Nat : after[n] = a[n]
  <2>1. \A n \in Nat : after[n] \in Ids => after[n + 1] = g[after[n]]
    BY <1>6
  <2> HIDE DEF after, g, Ids, Iterates
  <2> QED
    BY <1>1, <1>2, <1>6, <2>1, SameIteration
<1>8. Needed(wanted) = after[Cardinality(Deps)]
  BY DEF Needed
<1>9. Cardinality(Deps) \in Nat
  BY CatalogAssumption, FS_CardinalityType
<1> HIDE DEF after
<1> QED
  BY <1>2, <1>3, <1>7, <1>8, <1>9

\* resolve_ordered_set collects the least set that has the wanted dependencies
\* and all that its members need: it grows in every round or is complete, and
\* it has no room for more rounds than there are dependencies.
THEOREM NeededIsClosure ==
    ASSUME NEW wanted \in SUBSET Deps
    PROVE  /\ wanted \subseteq Needed(wanted) /\ Needed(wanted) \subseteq Deps
           /\ Closed(Needed(wanted))
           /\ \A C \in SUBSET Deps : wanted \subseteq C /\ Closed(C) => Needed(wanted) \subseteq C
<1>1. PICK a \in [Nat -> SUBSET Deps] :
          /\ a[0] = wanted
          /\ \A n \in Nat : a[n + 1] = Grown(a[n])
          /\ Needed(wanted) = a[Cardinality(Deps)]
  BY Rounds
<1>2. IsFiniteSet(Deps) /\ Cardinality(Deps) \in Nat
  BY CatalogAssumption, FS_CardinalityType
<1>3. \A n \in Nat : /\ a[n] \in SUBSET Deps
                     /\ IsFiniteSet(a[n]) /\ Cardinality(a[n]) \in Nat
  BY <1>1, <1>2, FS_Subset, FS_CardinalityType
<1>4. \A n \in Nat : wanted \subseteq a[n]
  <2> DEFINE T == {n \in Nat : wanted \subseteq a[n]}
  <2>1. 0 \in T
    BY <1>1
  <2>2. \A n \in Nat : n \in T => n + 1 \in T
    BY <1>1, <1>3, GrownFacts
  <2>3. Nat \subseteq T
    <3> HIDE DEF T
    <3> QED
      BY <2>1, <2>2, AllNumbers
  <2> QED
    BY <2>3
<1>5. ASSUME NEW C \in SUBSET Deps, wanted \subseteq C, Closed(C)
      PROVE  \A n \in Nat : a[n] \subseteq C
  <2> DEFINE T == {n \in Nat : a[n] \subseteq C}
  <2>1. 0 \in T
    BY <1>1, <1>5
  <2>2. ASSUME NEW n \in Nat, n \in T PROVE n + 1 \in T
    <3>1. a[n] \in SUBSET Deps /\ a[n] \subseteq C
      BY <1>3, <2>2
    <3>2. Grown(a[n]) \subseteq C
      BY <1>5, <3>1, GrownFacts
    <3> QED
      BY <1>1, <3>2
  <2>3. Nat \subseteq T
    <3> HIDE DEF T
    <3> QED
      BY <2>1, <2>2, AllNumbers
  <2> QED
    BY <2>3
<1>6. \A n \in Nat : a[n + 1] = a[n] \/ Cardinality(a[n]) >= n
  <2> DEFINE T == {n \in Nat : a[n + 1] = a[n] \/ Cardinality(a[n]) >= n}
  <2>1. 0 \in T
    BY <1>3
  <2>2. ASSUME NEW n \in Nat, n \in T PROVE n + 1 \in T
    <3>1. CASE a[n + 1] = a[n]
      BY <1>1, <3>1
    <3>2. CASE a[n + 1] # a[n] /\ Cardinality(a[n]) >= n
      <4>1. a[n] \in SUBSET a[n + 1] /\ IsFiniteSet(a[n + 1])
        BY <1>1, <1>3, GrownFacts
      <4>2. /\ Cardinality(a[n]) <= Cardinality(a[n + 1])
            /\ Cardinality(a[n + 1]) = Cardinality(a[n]) => a[n + 1] = a[n]
        BY <4>1, FS_Subset
      <4>3. Cardinality(a[n]) \in Nat /\ Cardinality(a[n + 1]) \in Nat
        BY <1>3
      <4>4. Cardinality(a[n + 1]) >= n + 1
        BY <3>2, <4>2, <4>3
      <4> QED
        BY <4>4
    <3> QED
      BY <2>2, <3>1, <3>2
  <2>3. Nat \subseteq T
    <3> HIDE DEF T
    <3> QED
      BY <2>1, <2>2, AllNumbers
  <2> QED
    BY <2>3
<1> DEFINE last == a[Cardinality(Deps)]
<1>7. Grown(last) = last
  <2>1. CASE a[Cardinality(Deps) + 1] = last
    BY <1>1, <1>2, <2>1
  <2>2. CASE Cardinality(last) >= Cardinality(Deps)
    <3>1. /\ Cardinality(last) <= Cardinality(Deps)
          /\ Cardinality(Deps) = Cardinality(last) => Deps = last
      BY <1>2, <1>3, FS_Subset
    <3>2. Deps = last
      BY <1>2, <1>3, <2>2, <3>1
    <3>3. Grown(last) \subseteq Deps /\ last \subseteq Grown(last)
      BY <1>2, <1>3, GrownFacts
    <3> QED
      BY <3>2, <3>3
  <2> QED
    BY <1>2, <1>6, <2>1, <2>2
<1>8. Closed(last)
  BY <1>2, <1>3, <1>7, GrownFacts
<1> QED
  BY <1>1, <1>2, <1>3, <1>4, <1>5, <1>8

\* What is needed needs nothing else.
LEMMA NeededAgain ==
    ASSUME NEW wanted \in SUBSET Deps
    PROVE  Needed(Needed(wanted)) = Needed(wanted)
<1>1. Needed(wanted) \in SUBSET Deps /\ Closed(Needed(wanted))
  BY NeededIsClosure
<1>2. /\ Needed(wanted) \subseteq Needed(Needed(wanted))
      /\ Needed(Needed(wanted)) \subseteq Needed(wanted)
  BY <1>1, NeededIsClosure
<1> QED
  BY <1>2

-----------------------------------------------------------------------------
(* The depth-first search *)

LEMMA Appended ==
    ASSUME NEW S, NEW s \in Seq(S), NEW x \in S
    PROVE  /\ Append(s, x) \in Seq(S)
           /\ Len(Append(s, x)) = Len(s) + 1
           /\ \A i \in 1..Len(s) : Append(s, x)[i] = s[i]
           /\ Append(s, x)[Len(s) + 1] = x
           /\ ToSet(Append(s, x)) = ToSet(s) \cup {x}
<1>1. /\ Append(s, x) \in Seq(S)
      /\ Len(Append(s, x)) = Len(s) + 1
      /\ \A i \in 1..Len(s) : Append(s, x)[i] = s[i]
      /\ Append(s, x)[Len(s) + 1] = x
  OBVIOUS
<1>2. DOMAIN s = 1..Len(s) /\ DOMAIN Append(s, x) = 1..(Len(s) + 1) /\ Len(s) \in Nat
  OBVIOUS
<1>3. \A i \in 1..(Len(s) + 1) : i \in 1..Len(s) \/ i = Len(s) + 1
  BY <1>2
<1>4. \A i \in 1..Len(s) : i \in 1..(Len(s) + 1)
  BY <1>2
<1>5. Len(s) + 1 \in 1..(Len(s) + 1)
  BY <1>2
<1> QED
  BY <1>1, <1>2, <1>3, <1>4, <1>5 DEF ToSet

LEMMA WithoutLast ==
    ASSUME NEW S, NEW s \in Seq(S), s # <<>>
    PROVE  /\ Front(s) \in Seq(S)
           /\ Len(s) \in Nat /\ Len(s) > 0
           /\ Len(Front(s)) = Len(s) - 1
           /\ \A i \in 1..(Len(s) - 1) : Front(s)[i] = s[i]
           /\ Last(s) \in S /\ Last(s) = s[Len(s)]
           /\ ToSet(s) = ToSet(Front(s)) \cup {Last(s)}
<1> DEFINE n == Len(s)
           t == Front(s)
<1>1. n \in Nat /\ n > 0 /\ DOMAIN s = 1..n /\ \A i \in 1..n : s[i] \in S
  OBVIOUS
<1>2. /\ t \in Seq(S)
      /\ Len(t) = n - 1
      /\ \A i \in 1..(n - 1) : t[i] = s[i]
  BY <1>1 DEF Front
<1>3. DOMAIN t = 1..(n - 1)
  BY <1>2
<1>4. Last(s) = s[n]
  BY DEF Last
<1> HIDE DEF n, t
<1>5. \A i : i \in 1..n <=> i \in 1..(n - 1) \/ i = n
  BY <1>1
<1>6. ToSet(s) = ToSet(t) \cup {s[n]}
  BY <1>1, <1>2, <1>3, <1>5 DEF ToSet
<1> QED
  BY <1>1, <1>2, <1>4, <1>5, <1>6 DEF n, t

Distinct(s) == \A i, j \in 1..Len(s) : s[i] = s[j] => i = j

\* What the dependency at i needs comes before it.
Preceded(order, i) ==
    \A d \in ToSet(Prerequisites[order[i]]) : \E j \in 1..(i - 1) : order[j] = d

\* The search visits what is needed, once; each dependency that it is visiting
\* is listed by the one outside; what a visited one needs was visited before.
Visits(s, needed) ==
    /\ s \in [path : Seq(Deps), ordered : Seq(Deps)]
    /\ Distinct(s.path) /\ Distinct(s.ordered)
    /\ ToSet(s.path) \cap ToSet(s.ordered) = {}
    /\ ToSet(s.path) \subseteq needed /\ ToSet(s.ordered) \subseteq needed
    /\ \A i \in 1..(Len(s.path) - 1) : s.path[i + 1] \in ToSet(Prerequisites[s.path[i]])
    /\ \A i \in 1..Len(s.ordered) : Preceded(s.ordered, i)

\* Every entry and every exit counts.
Weight(s) == Cardinality(ToSet(s.path)) + 2 * Cardinality(ToSet(s.ordered))

LEMMA Sizes ==
    ASSUME NEW needed \in SUBSET Deps, NEW s, Visits(s, needed)
    PROVE  /\ IsFiniteSet(ToSet(s.path)) /\ Cardinality(ToSet(s.path)) \in Nat
           /\ IsFiniteSet(ToSet(s.ordered)) /\ Cardinality(ToSet(s.ordered)) \in Nat
           /\ Weight(s) \in Nat
           /\ Weight(s) <= 2 * Cardinality(Deps)
<1>1. IsFiniteSet(Deps) /\ Cardinality(Deps) \in Nat
  BY CatalogAssumption, FS_CardinalityType
<1>2. ToSet(s.path) \in SUBSET Deps /\ ToSet(s.ordered) \in SUBSET Deps
  BY DEF Visits
<1>3. /\ IsFiniteSet(ToSet(s.path)) /\ Cardinality(ToSet(s.path)) \in Nat
      /\ IsFiniteSet(ToSet(s.ordered)) /\ Cardinality(ToSet(s.ordered)) \in Nat
  BY <1>1, <1>2, FS_Subset, FS_CardinalityType
<1>4. Cardinality(ToSet(s.path) \cap ToSet(s.ordered)) = 0
  BY FS_EmptySet DEF Visits
<1>5. Cardinality(ToSet(s.path) \cup ToSet(s.ordered))
        = Cardinality(ToSet(s.path)) + Cardinality(ToSet(s.ordered))
  <2>1. Cardinality(ToSet(s.path) \cup ToSet(s.ordered))
          = Cardinality(ToSet(s.path)) + Cardinality(ToSet(s.ordered))
            - Cardinality(ToSet(s.path) \cap ToSet(s.ordered))
    BY <1>3, FS_Union
  <2> QED
    BY <1>3, <1>4, <2>1
<1>6. Cardinality(ToSet(s.path) \cup ToSet(s.ordered)) <= Cardinality(Deps)
  <2>1. ToSet(s.path) \cup ToSet(s.ordered) \in SUBSET Deps
    BY <1>2
  <2> QED
    BY <1>1, <2>1, FS_Subset
<1> QED
  BY <1>1, <1>3, <1>5, <1>6 DEF Weight

LEMMA NotEnteredVisits == ASSUME NEW needed PROVE Visits(NotEntered, needed) /\ Weight(NotEntered) = 0
<1>1. ToSet(<<>>) = {} /\ Len(<<>>) = 0 /\ <<>> \in Seq(Deps)
  BY DEF ToSet
<1> QED
  BY <1>1, FS_EmptySet DEF Visits, NotEntered, Distinct, Weight

LEMMA EnterVisits ==
    ASSUME NEW needed \in SUBSET Deps, NEW s, Visits(s, needed),
           NEW d \in needed, d \notin ToSet(s.path), d \notin ToSet(s.ordered),
           s.path = <<>> \/ d \in ToSet(Prerequisites[Last(s.path)])
    PROVE  Visits(Enter(s, d), needed) /\ Weight(Enter(s, d)) = Weight(s) + 1
<1> DEFINE p == s.path
           t == Append(p, d)
<1>0. s \in [path : Seq(Deps), ordered : Seq(Deps)] /\ p \in Seq(Deps) /\ d \in Deps
  BY DEF Visits
<1>1. Enter(s, d) = [path |-> t, ordered |-> s.ordered]
  BY <1>0 DEF Enter
<1>2. /\ t \in Seq(Deps) /\ Len(t) = Len(p) + 1 /\ t[Len(p) + 1] = d
      /\ \A i \in 1..Len(p) : t[i] = p[i]
      /\ ToSet(t) = ToSet(p) \cup {d}
  BY <1>0, Appended
<1>3. Len(p) \in Nat /\ \A i \in 1..Len(p) : p[i] \in ToSet(p)
  BY <1>0 DEF ToSet
<1>4. Distinct(t)
  <2>1. \A i \in 1..Len(t) : i \in 1..Len(p) \/ i = Len(p) + 1
    BY <1>2, <1>3
  <2>2. Distinct(p)
    BY DEF Visits
  <2>3. \A i \in 1..Len(p) : t[i] # d
    BY <1>2, <1>3
  <2> HIDE DEF p, t
  <2> QED
    BY <1>2, <2>1, <2>2, <2>3 DEF Distinct
<1>5. \A i \in 1..(Len(t) - 1) : t[i + 1] \in ToSet(Prerequisites[t[i]])
  <2> SUFFICES ASSUME NEW i \in 1..Len(p) PROVE t[i + 1] \in ToSet(Prerequisites[t[i]])
    BY <1>2, <1>3
  <2>1. CASE i = Len(p)
    <3>1. p # <<>> /\ Last(p) = p[i]
      BY <1>0, <2>1 DEF Last
    <3> QED
      BY <1>2, <2>1, <3>1
  <2>2. CASE i # Len(p)
    <3>1. i \in 1..(Len(p) - 1) /\ i + 1 \in 1..Len(p)
      BY <1>3, <2>2
    <3>2. p[i + 1] \in ToSet(Prerequisites[p[i]])
      BY <3>1 DEF Visits
    <3> HIDE DEF p, t
    <3> QED
      BY <1>2, <3>1, <3>2
  <2> QED
    BY <2>1, <2>2
<1>6. Visits(Enter(s, d), needed)
  BY <1>1, <1>2, <1>4, <1>5 DEF Visits
<1>7. Weight(Enter(s, d)) = Weight(s) + 1
  <2>1. Cardinality(ToSet(t)) = Cardinality(ToSet(p)) + 1
    BY <1>2, Sizes, FS_AddElement
  <2> QED
    BY <1>1, <2>1, Sizes DEF Weight
<1> QED
  BY <1>6, <1>7

LEMMA LeaveVisits ==
    ASSUME NEW needed \in SUBSET Deps, NEW s, Visits(s, needed), s.path # <<>>,
           ToSet(Prerequisites[Last(s.path)]) \subseteq ToSet(s.ordered)
    PROVE  Visits(Leave(s), needed) /\ Weight(Leave(s)) = Weight(s) + 1
<1> DEFINE p == s.path
           o == s.ordered
           d == Last(p)
           u == Append(o, d)
<1>0. p \in Seq(Deps) /\ o \in Seq(Deps) /\ p # <<>>
  BY DEF Visits
<1>1. /\ Front(p) \in Seq(Deps) /\ Len(p) \in Nat /\ Len(p) > 0 /\ Len(Front(p)) = Len(p) - 1
      /\ \A i \in 1..(Len(p) - 1) : Front(p)[i] = p[i]
      /\ d \in Deps /\ d = p[Len(p)]
      /\ ToSet(p) = ToSet(Front(p)) \cup {d}
  BY <1>0, WithoutLast
<1>2. /\ u \in Seq(Deps) /\ Len(u) = Len(o) + 1 /\ u[Len(o) + 1] = d
      /\ \A i \in 1..Len(o) : u[i] = o[i]
      /\ ToSet(u) = ToSet(o) \cup {d}
  BY <1>0, <1>1, Appended
<1>3. /\ DOMAIN o = 1..Len(o) /\ Len(o) \in Nat
      /\ DOMAIN Front(p) = 1..(Len(p) - 1)
  BY <1>0, <1>1
<1>4. /\ Distinct(p) /\ Distinct(o) /\ ToSet(p) \cap ToSet(o) = {}
      /\ ToSet(p) \subseteq needed /\ ToSet(o) \subseteq needed
      /\ \A i \in 1..(Len(p) - 1) : p[i + 1] \in ToSet(Prerequisites[p[i]])
      /\ \A i \in 1..Len(o) : Preceded(o, i)
      /\ ToSet(Prerequisites[d]) \subseteq ToSet(o)
  BY DEF Visits
<1>5. Leave(s) = [path |-> Front(p), ordered |-> u]
  BY DEF Leave
<1> HIDE DEF p, o, d, u
<1>6. d \notin ToSet(Front(p))
  <2>1. \A i \in 1..(Len(p) - 1) : p[i] # p[Len(p)]
    BY <1>1, <1>4 DEF Distinct
  <2> QED
    BY <1>1, <1>3, <2>1 DEF ToSet
<1>7. d \notin ToSet(o)
  BY <1>1, <1>4
<1>8. Distinct(Front(p))
  BY <1>1, <1>4 DEF Distinct
<1>9. Distinct(u)
  <2>1. \A i \in 1..Len(u) : i \in 1..Len(o) \/ i = Len(o) + 1
    BY <1>2, <1>3
  <2>2. \A i \in 1..Len(o) : u[i] # d
    BY <1>2, <1>3, <1>7 DEF ToSet
  <2> QED
    BY <1>2, <1>4, <2>1, <2>2 DEF Distinct
<1>10. \A i \in 1..(Len(Front(p)) - 1) : Front(p)[i + 1] \in ToSet(Prerequisites[Front(p)[i]])
  <2> SUFFICES ASSUME NEW i \in 1..(Len(p) - 2)
               PROVE  Front(p)[i + 1] \in ToSet(Prerequisites[Front(p)[i]])
    BY <1>1
  <2>1. i \in 1..(Len(p) - 1) /\ i + 1 \in 1..(Len(p) - 1)
    BY <1>1
  <2> QED
    BY <1>1, <1>4, <2>1
<1>11. \A i \in 1..Len(u) : Preceded(u, i)
  <2> SUFFICES ASSUME NEW i \in 1..Len(u), NEW e \in ToSet(Prerequisites[u[i]])
               PROVE  \E j \in 1..(i - 1) : u[j] = e
    BY DEF Preceded
  <2>1. CASE i \in 1..Len(o)
    <3>1. PICK j \in 1..(i - 1) : o[j] = e
      BY <1>2, <1>4, <2>1 DEF Preceded
    <3>2. j \in 1..Len(o)
      BY <1>3, <2>1
    <3> QED
      BY <1>2, <3>1, <3>2
  <2>2. CASE i = Len(o) + 1
    <3>1. e \in ToSet(o)
      BY <1>2, <1>4, <2>2
    <3>2. PICK j \in 1..Len(o) : o[j] = e
      BY <1>3, <3>1 DEF ToSet
    <3>3. j \in 1..(i - 1)
      BY <1>3, <2>2
    <3> QED
      BY <1>2, <3>2, <3>3
  <2> QED
    BY <1>2, <1>3, <2>1, <2>2
<1>12. Visits(Leave(s), needed)
  <2>1. ToSet(Front(p)) \cap ToSet(u) = {}
    BY <1>1, <1>2, <1>4, <1>6
  <2>2. ToSet(Front(p)) \subseteq needed /\ ToSet(u) \subseteq needed
    BY <1>1, <1>2, <1>4
  <2> QED
    BY <1>1, <1>2, <1>5, <1>8, <1>9, <1>10, <1>11, <2>1, <2>2 DEF Visits
<1>13. Weight(Leave(s)) = Weight(s) + 1
  <2>1. /\ IsFiniteSet(ToSet(p)) /\ Cardinality(ToSet(p)) \in Nat
        /\ IsFiniteSet(ToSet(o)) /\ Cardinality(ToSet(o)) \in Nat
    BY Sizes DEF p, o
  <2>2. ToSet(Front(p)) = ToSet(p) \ {d} /\ d \in ToSet(p)
    BY <1>1, <1>6
  <2>3. Cardinality(ToSet(Front(p))) = Cardinality(ToSet(p)) - 1
    BY <2>1, <2>2, FS_RemoveElement
  <2>4. Cardinality(ToSet(u)) = Cardinality(ToSet(o)) + 1
    BY <1>2, <1>7, <2>1, FS_AddElement
  <2>5. Weight(s) = Cardinality(ToSet(p)) + 2 * Cardinality(ToSet(o))
    BY DEF Weight, p, o
  <2>6. Weight(Leave(s)) = Cardinality(ToSet(Front(p))) + 2 * Cardinality(ToSet(u))
    BY <1>5 DEF Weight
  <2> QED
    BY <2>1, <2>3, <2>4, <2>5, <2>6
<1> QED
  BY <1>12, <1>13

\* Where it looks for the next dependency.
LEMMA Followed ==
    ASSUME NEW needed \in SUBSET Deps, NEW s, Visits(s, needed)
    PROVE  /\ Unvisited(s, needed) = {} =>
                  \A d \in ToSet(Ahead(s)) \cap needed : d \in ToSet(s.ordered)
           /\ Unvisited(s, needed) # {} =>
                  /\ Following(s, needed) \in ToSet(Ahead(s))
                  /\ Following(s, needed) \in needed
                  /\ Following(s, needed) \notin ToSet(s.ordered)
<1>1. Ahead(s) \in Seq(Deps)
  <2>1. CASE s.path = <<>>
    BY <2>1, CatalogAssumption DEF Ahead
  <2>2. CASE s.path # <<>>
    <3>1. Last(s.path) \in Deps
      BY <2>2, WithoutLast DEF Visits
    <3> QED
      BY <2>2, <3>1, CatalogAssumption DEF Ahead
  <2> QED
    BY <2>1, <2>2
<1>2. Unvisited(s, needed) \in SUBSET Nat
  BY <1>1 DEF Unvisited
<1>3. Unvisited(s, needed) # {} =>
          \E i \in Unvisited(s, needed) : \A j \in Unvisited(s, needed) : i <= j
  BY <1>2, Least
<1> DEFINE i == CHOOSE i \in Unvisited(s, needed) : \A j \in Unvisited(s, needed) : i <= j
<1>4. Unvisited(s, needed) # {} => i \in Unvisited(s, needed)
  BY <1>3
<1>5. Following(s, needed) = Ahead(s)[i]
  BY DEF Following
<1> HIDE DEF i
<1> QED
  BY <1>4, <1>5 DEF Unvisited, ToSet

\* Where it stays, it has visited everything or has come to a cycle.
Ended(s, needed) ==
    \/ s.path = <<>> /\ needed \subseteq ToSet(s.ordered)
    \/ /\ s.path # <<>>
       /\ \E k \in 1..Len(s.path) : s.path[k] \in ToSet(Prerequisites[Last(s.path)])

LEMMA DfsVisits ==
    ASSUME NEW needed \in SUBSET Deps, Closed(needed), NEW s, Visits(s, needed)
    PROVE  /\ Visits(Dfs(s, needed), needed)
           /\ \/ Dfs(s, needed) = s /\ Ended(s, needed)
              \/ Weight(Dfs(s, needed)) = Weight(s) + 1
<1>1. CASE Unvisited(s, needed) = {} /\ s.path = <<>>
  <2>1. ToSet(Ahead(s)) = Deps
    BY <1>1, CatalogAssumption DEF Ahead
  <2> QED
    BY <1>1, <2>1, Followed DEF Dfs, Ended
<1>2. CASE Unvisited(s, needed) = {} /\ s.path # <<>>
  <2>1. Last(s.path) \in needed
    <3>1. s.path \in Seq(Deps) /\ s.path # <<>>
      BY <1>2 DEF Visits
    <3>2. Last(s.path) \in ToSet(s.path)
      BY <3>1, WithoutLast
    <3> QED
      BY <3>2 DEF Visits
  <2>2. ToSet(Ahead(s)) = ToSet(Prerequisites[Last(s.path)])
    BY <1>2 DEF Ahead
  <2>3. ToSet(Prerequisites[Last(s.path)]) \subseteq ToSet(s.ordered)
    BY <1>2, <2>1, <2>2, Followed DEF Closed
  <2> QED
    BY <1>2, <2>3, LeaveVisits DEF Dfs
<1>3. CASE Unvisited(s, needed) # {} /\ Following(s, needed) \in ToSet(s.path)
  <2>1. s.path # <<>>
    BY <1>3 DEF ToSet
  <2>2. Following(s, needed) \in ToSet(Prerequisites[Last(s.path)])
    BY <1>3, <2>1, Followed DEF Ahead
  <2>3. \E k \in 1..Len(s.path) : s.path[k] = Following(s, needed)
    BY <1>3 DEF ToSet, Visits
  <2> QED
    BY <1>3, <2>1, <2>2, <2>3 DEF Dfs, Ended
<1>4. CASE Unvisited(s, needed) # {} /\ Following(s, needed) \notin ToSet(s.path)
  <2>1. s.path = <<>> \/ Following(s, needed) \in ToSet(Prerequisites[Last(s.path)])
    BY <1>4, Followed DEF Ahead
  <2> QED
    BY <1>4, <2>1, Followed, EnterVisits DEF Dfs
<1> QED
  BY <1>1, <1>2, <1>3, <1>4

\* The search as a function of its steps.
LEMMA SearchRun ==
    ASSUME NEW wanted \in SUBSET Deps
    PROVE  \E r : /\ r[0] = NotEntered
                  /\ \A n \in Nat : r[n + 1] = Dfs(r[n], Needed(wanted))
                  /\ Search(wanted) = r[2 * Cardinality(Deps)]
<1> DEFINE needed == Needed(wanted)
           Positions == {s \in [path : Seq(Deps), ordered : Seq(Deps)] : Visits(s, needed)}
           g == [s \in Positions |-> Dfs(s, needed)]
           Run(h) == h = [n \in Nat |-> IF n = 0 THEN NotEntered ELSE Dfs(h[n - 1], needed)]
           run == CHOOSE h : Run(h)
<1>1. needed \in SUBSET Deps /\ Closed(needed)
  BY NeededIsClosure
<1>2. \A s \in Positions : Dfs(s, needed) \in Positions
  <2> TAKE s \in Positions
  <2>1. Visits(Dfs(s, needed), needed)
    BY <1>1, DfsVisits
  <2> QED
    BY <2>1 DEF Visits
<1>3. g \in [Positions -> Positions] /\ NotEntered \in Positions
  BY <1>2, NotEnteredVisits DEF Visits
<1>4. PICK r : Iterates(r, Positions, g, NotEntered)
  <2> HIDE DEF g, Positions
  <2> QED
    BY <1>3, Iteration
<1>5. r \in [Nat -> Positions] /\ r[0] = NotEntered /\ \A n \in Nat : r[n + 1] = Dfs(r[n], needed)
  <2> HIDE DEF Positions
  <2> QED
    BY <1>4 DEF Iterates
<1> HIDE DEF Positions, needed
<1>6. Run(r)
  <2>1. \A n \in Nat : n # 0 => n - 1 \in Nat /\ r[(n - 1) + 1] = Dfs(r[n - 1], needed)
    BY <1>5
  <2>2. \A n \in Nat : r[n] = IF n = 0 THEN NotEntered ELSE Dfs(r[n - 1], needed)
    BY <1>5, <2>1
  <2> QED
    BY <1>5, <2>2
<1>7. Run(run)
  <2> HIDE DEF Run
  <2> QED
    BY <1>6
<1>8. run[0] = NotEntered /\ \A n \in Nat : run[n + 1] = Dfs(run[n], needed)
  <2> HIDE DEF run
  <2> QED
    BY <1>7
<1>9. Search(wanted) = run[2 * Cardinality(Deps)]
  BY DEF Search, needed
<1> HIDE DEF run
<1> QED
  BY <1>8, <1>9 DEF needed

\* The search ends within its bound, with everything visited or at a cycle.
LEMMA SearchEnds ==
    ASSUME NEW wanted \in SUBSET Deps
    PROVE  Visits(Search(wanted), Needed(wanted)) /\ Ended(Search(wanted), Needed(wanted))
<1> DEFINE needed == Needed(wanted)
           N == 2 * Cardinality(Deps)
<1>1. needed \in SUBSET Deps /\ Closed(needed)
  BY NeededIsClosure
<1>2. PICK r : /\ r[0] = NotEntered
               /\ \A n \in Nat : r[n + 1] = Dfs(r[n], needed)
               /\ Search(wanted) = r[N]
  BY SearchRun
<1> HIDE DEF needed
<1>3. N \in Nat
  BY CatalogAssumption, FS_CardinalityType
<1> HIDE DEF N
<1> DEFINE Done(s) == Dfs(s, needed) = s /\ Ended(s, needed)
           T == {n \in Nat : Visits(r[n], needed) /\ (Done(r[n]) \/ Weight(r[n]) = n)}
<1>4. 0 \in T
  BY <1>2, NotEnteredVisits
<1>5. ASSUME NEW n \in Nat, n \in T PROVE n + 1 \in T
  <2>1. r[n + 1] = Dfs(r[n], needed) /\ Visits(r[n], needed)
    BY <1>2, <1>5
  <2>2. Visits(r[n + 1], needed)
    BY <1>1, <2>1, DfsVisits
  <2>3. CASE Done(r[n])
    BY <2>1, <2>2, <2>3
  <2>4. CASE ~Done(r[n]) /\ Weight(r[n]) = n
    <3>1. Weight(r[n + 1]) = n + 1
      BY <1>1, <2>1, <2>4, DfsVisits
    <3> QED
      BY <2>2, <3>1
  <2> QED
    BY <1>5, <2>3, <2>4
<1>6. Nat \subseteq T
  <2> HIDE DEF T
  <2> QED
    BY <1>4, <1>5, AllNumbers
<1>7. Visits(r[N], needed) /\ (Done(r[N]) \/ Weight(r[N]) = N)
  BY <1>3, <1>6
<1>8. Done(r[N])
  <2> SUFFICES ASSUME ~Done(r[N]) PROVE FALSE
    OBVIOUS
  <2>1. Weight(r[N]) = N
    BY <1>7
  <2>2. Visits(Dfs(r[N], needed), needed) /\ Weight(Dfs(r[N], needed)) = N + 1
    BY <1>1, <1>7, <2>1, DfsVisits
  <2>3. Weight(Dfs(r[N], needed)) <= N
    BY <1>1, <2>2, Sizes DEF N
  <2> QED
    BY <1>3, <2>2, <2>3
<1> QED
  BY <1>2, <1>7, <1>8 DEF needed

\* resolve_ordered_set: without a cycle it lists what is needed and nothing
\* else, every dependency once and after all that it needs.
THEOREM OrderIsRight ==
    ASSUME NEW wanted \in SUBSET Deps, ~Cyclic(wanted)
    PROVE  InOrder(Order(wanted), wanted) /\ Order(wanted) \in Seq(Deps)
<1> DEFINE s == Search(wanted)
           o == s.ordered
<1>1. Visits(s, Needed(wanted)) /\ Needed(wanted) \subseteq ToSet(o)
  BY SearchEnds DEF Cyclic, Ended
<1>2. o \in Seq(Deps) /\ Distinct(o) /\ ToSet(o) = Needed(wanted)
  BY <1>1 DEF Visits
<1>3. \A i \in 1..Len(o) : Preceded(o, i)
  BY <1>1 DEF Visits
<1>4. DOMAIN o = 1..Len(o)
  BY <1>2
<1> HIDE DEF o
<1>5. IsInjective(o)
  BY <1>2, <1>4 DEF IsInjective, Distinct
<1>6. InOrder(o, wanted)
  BY <1>2, <1>3, <1>4, <1>5 DEF InOrder, Preceded
<1> QED
  BY <1>2, <1>6 DEF o, Order

\* It reports a cycle only when there is no such order: DependencyCycleError
\* never hits a set that could have been listed.
THEOREM CyclesAreReal ==
    ASSUME NEW wanted \in SUBSET Deps, Cyclic(wanted), NEW order \in Seq(Deps)
    PROVE  ~InOrder(order, wanted)
<1> SUFFICES ASSUME InOrder(order, wanted) PROVE FALSE
  OBVIOUS
<1> DEFINE p == Search(wanted).path
<1>1. Visits(Search(wanted), Needed(wanted)) /\ p # <<>>
  BY SearchEnds DEF Cyclic
<1>2. PICK k \in 1..Len(p) : p[k] \in ToSet(Prerequisites[Last(p)])
  BY SearchEnds DEF Cyclic, Ended
<1>3. /\ p \in Seq(Deps) /\ ToSet(p) \subseteq ToSet(order)
      /\ \A i \in 1..(Len(p) - 1) : p[i + 1] \in ToSet(Prerequisites[p[i]])
  BY <1>1 DEF Visits, InOrder
<1>4. Last(p) = p[Len(p)] /\ Len(p) \in Nat /\ DOMAIN p = 1..Len(p)
  BY <1>3 DEF Last
<1> HIDE DEF p
<1> DEFINE I == {i \in 1..Len(order) : \E m \in k..Len(p) : order[i] = p[m]}
<1>5. I \in SUBSET Nat /\ I # {}
  <2>1. p[k] \in ToSet(order)
    BY <1>3, <1>4 DEF ToSet
  <2>2. k \in k..Len(p)
    BY <1>4
  <2> QED
    BY <2>1, <2>2 DEF ToSet
<1>6. PICK i \in I : \A j \in I : i <= j
  <2> HIDE DEF I
  <2> QED
    BY <1>5, Least
<1>7. PICK m \in k..Len(p) : order[i] = p[m]
  OBVIOUS
<1>8. \E l \in k..Len(p) : p[l] \in ToSet(Prerequisites[p[m]])
  <2>1. CASE m = Len(p)
    BY <1>2, <1>4, <2>1
  <2>2. CASE m # Len(p)
    <3>0. k \in 1..Len(p) /\ m \in k..Len(p) /\ Len(p) \in Nat
      BY <1>2, <1>4, <1>7
    <3>1. m \in 1..(Len(p) - 1) /\ m + 1 \in k..Len(p)
      BY <2>2, <3>0
    <3> QED
      BY <1>3, <3>1
  <2> QED
    BY <2>1, <2>2
<1>9. PICK l \in k..Len(p) : p[l] \in ToSet(Prerequisites[order[i]])
  BY <1>7, <1>8
<1>10. PICK j \in 1..(i - 1) : order[j] = p[l]
  <2>1. i \in DOMAIN order
    OBVIOUS
  <2> QED
    BY <1>9, <2>1 DEF InOrder
<1>11. j \in I /\ ~(i <= j)
  BY <1>10
<1> QED
  BY <1>6, <1>11
=============================================================================
