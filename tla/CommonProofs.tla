---------------------------- MODULE CommonProofs ----------------------------
(***************************************************************************)
(* The lemmas that the proofs about the components share.                  *)
(*                                                                         *)
(* First induction, and what the recursive definitions of the models       *)
(* compute.  The induction theorems of the standard library have an        *)
(* operator as a parameter, which the provers cannot instantiate.  Here    *)
(* induction is over a set of naturals (NatSet), and a recursive           *)
(* definition is treated in three steps: a function that satisfies it      *)
(* exists, so that CHOOSE finds one; it is determined; and it has the      *)
(* closed form or the step by step form that the proofs go by.             *)
(*                                                                         *)
(* Then what the free-list operators of alloc.c do, for every list, extent *)
(* and alignment.                                                          *)
(***************************************************************************)
EXTENDS ExtentOps, FiniteSets, FiniteSetsExt, FiniteSetTheorems, SequenceTheorems,
        WellFoundedInduction, TLAPS

\* A nonempty set of naturals has a least element: the scan loops of alloc.c
\* end at a well-defined index.
LEMMA MinProps ==
    ASSUME NEW S \in SUBSET Nat, S # {}
    PROVE  Min(S) \in S /\ \A y \in S : Min(S) <= y
<1> DEFINE R == OpToRel(<, Nat)
<1>1. \A y, x \in Nat : y < x => <<y, x>> \in R
  BY Zenon DEF OpToRel
<1>2. IsWellFoundedOn(R, Nat)
  BY NatLessThanWellFounded
<1> HIDE DEF R
<1>3. PICK x \in S : \A y \in S : ~(<<y, x>> \in R)
  BY <1>2, WFMin, Zenon
<1>4. ASSUME NEW y \in S
      PROVE  x <= y
  <2>1. x \in Nat /\ y \in Nat
    OBVIOUS
  <2>2. ~(y < x)
    BY <1>1, <1>3, <2>1, Zenon
  <2> QED
    BY <2>1, <2>2
<1> QED
  BY <1>4 DEF Min

\* Induction: a set of naturals with 0 in it and with each its successor.
LEMMA NatSet ==
    ASSUME NEW P \in SUBSET Nat, 0 \in P, \A n \in P : n + 1 \in P
    PROVE  P = Nat
<1> SUFFICES ASSUME Nat \ P # {}
             PROVE  FALSE
  OBVIOUS
<1> DEFINE m == Min(Nat \ P)
<1>1. m \in Nat \ P /\ \A y \in Nat \ P : m <= y
  BY MinProps
<1> HIDE DEF m
<1>2. m # 0 /\ m - 1 \in Nat /\ ~(m <= m - 1)
  BY <1>1
<1>3. m - 1 \in P
  BY <1>1, <1>2
<1>4. (m - 1) + 1 = m
  BY <1>1
<1> QED
  BY <1>1, <1>3, <1>4

\* A nonempty bounded set of naturals has a greatest element.
LEMMA MaxProps ==
    ASSUME NEW S \in SUBSET Nat, S # {}, NEW top \in Nat, \A y \in S : y <= top
    PROVE  Max(S) \in S /\ \A y \in S : y <= Max(S)
<1> DEFINE rest == {top - y : y \in S}
<1>1. rest \in SUBSET Nat /\ rest # {}
  OBVIOUS
<1>2. PICK m \in rest : \A y \in rest : m <= y
  BY <1>1, MinProps
<1>3. PICK x \in S : m = top - x
  OBVIOUS
<1>4. ASSUME NEW y \in S
      PROVE  x >= y
  <2>1. top - y \in rest /\ x \in Nat /\ y \in Nat
    OBVIOUS
  <2>2. m <= top - y
    BY <1>2, <2>1
  <2> QED
    BY <1>3, <2>1, <2>2
<1>5. \E z \in S : \A y \in S : z >= y
  BY <1>4
<1>6. Max(S) \in S /\ \A y \in S : Max(S) >= y
  BY <1>5 DEF Max
<1> QED
  <2> SUFFICES ASSUME NEW y \in S
               PROVE  y <= Max(S)
    BY <1>6
  <2>1. Max(S) \in Nat /\ y \in Nat /\ Max(S) >= y
    BY <1>6
  <2> QED
    BY <2>1

LEMMA MaxOfTwo ==
    ASSUME NEW a \in Int, NEW b \in Int
    PROVE  Max({a, b}) = IF a >= b THEN a ELSE b
<1>1. \E z \in {a, b} : \A y \in {a, b} : z >= y
  OBVIOUS
<1>2. Max({a, b}) \in {a, b} /\ \A y \in {a, b} : Max({a, b}) >= y
  BY <1>1 DEF Max
<1> QED
  BY <1>2

LEMMA MinOfTwo ==
    ASSUME NEW a \in Int, NEW b \in Int
    PROVE  Min({a, b}) = IF a <= b THEN a ELSE b
<1>1. \E z \in {a, b} : \A y \in {a, b} : z <= y
  OBVIOUS
<1>2. Min({a, b}) \in {a, b} /\ \A y \in {a, b} : Min({a, b}) <= y
  BY <1>1 DEF Min
<1> QED
  BY <1>2

-----------------------------------------------------------------------------
(* Sums over finite sets, whichever element is taken first.                *)

Picks(c, S) == \A s \in SUBSET S : s # {} => c[s] \in s

SumRec(w, c, S, f) ==
    f = [s \in SUBSET S |-> IF s = {} THEN 0 ELSE w[c[s]] + f[s \ {c[s]}]]

LEMMA SumRecExists ==
    ASSUME NEW S, IsFiniteSet(S), NEW c, Picks(c, S), NEW w
    PROVE  \E f : SumRec(w, c, S, f)
<1> DEFINE D(n) == {s \in SUBSET S : Cardinality(s) <= n}
           E(n, f) == f = [s \in D(n) |-> IF s = {} THEN 0 ELSE w[c[s]] + f[s \ {c[s]}]]
           P == {n \in Nat : \E f : E(n, f)}
<1>1. \A s \in SUBSET S : IsFiniteSet(s) /\ Cardinality(s) \in Nat
  BY FS_Subset, FS_CardinalityType
<1>2. \A s \in SUBSET S : s # {} =>
         s \ {c[s]} \in SUBSET S /\ Cardinality(s \ {c[s]}) = Cardinality(s) - 1
  BY <1>1, FS_RemoveElement DEF Picks
<1>3. 0 \in P
  <2> DEFINE f == [s \in D(0) |-> 0]
  <2>1. \A s \in D(0) : s = {}
    BY <1>1, FS_EmptySet
  <2>2. E(0, f)
    BY <2>1
  <2> QED
    BY <2>2
<1>4. ASSUME NEW n \in P
      PROVE  n + 1 \in P
  <2>1. PICK f : E(n, f)
    OBVIOUS
  <2> DEFINE g == [s \in D(n + 1) |-> IF s = {} THEN 0 ELSE w[c[s]] + f[s \ {c[s]}]]
  <2>2. \A s \in D(n) : s \in D(n + 1) /\ g[s] = f[s]
    <3> SUFFICES ASSUME NEW s \in D(n)
                 PROVE  s \in D(n + 1) /\ g[s] = f[s]
      OBVIOUS
    <3>1. s \in D(n + 1)
      BY <1>1
    <3>2. f[s] = IF s = {} THEN 0 ELSE w[c[s]] + f[s \ {c[s]}]
      BY <2>1
    <3> QED
      BY <3>1, <3>2
  <2>3. \A s \in D(n + 1) : s # {} => s \ {c[s]} \in D(n)
    BY <1>1, <1>2
  <2>4. \A s \in D(n + 1) : g[s] = IF s = {} THEN 0 ELSE w[c[s]] + g[s \ {c[s]}]
    BY <2>2, <2>3
  <2>5. E(n + 1, g)
    <3> HIDE DEF D
    <3>1. g = [s \in D(n + 1) |-> g[s]]
      OBVIOUS
    <3> HIDE DEF g
    <3> QED
      BY <2>4, <3>1
  <2>6. n + 1 \in Nat
    OBVIOUS
  <2> HIDE DEF E, g
  <2> QED
    BY <2>5, <2>6
<1>5. P = Nat
  <2> HIDE DEF P
  <2>1. P \in SUBSET Nat
    BY DEF P
  <2> QED
    BY <1>3, <1>4, <2>1, NatSet
<1>6. Cardinality(S) \in Nat
  BY FS_CardinalityType
<1>7. PICK f : E(Cardinality(S), f)
  BY <1>5, <1>6
<1>8. D(Cardinality(S)) = SUBSET S
  BY FS_Subset
<1> QED
  BY <1>7, <1>8 DEF SumRec

\* The order does not matter: any element may be taken first.
LEMMA SumRecAny ==
    ASSUME NEW S, IsFiniteSet(S), NEW c, Picks(c, S), NEW w, \A x \in S : w[x] \in Nat,
           NEW f, SumRec(w, c, S, f)
    PROVE  \A s \in SUBSET S :
              /\ f[s] \in Nat
              /\ s = {} => f[s] = 0
              /\ \A x \in s : f[s] = w[x] + f[s \ {x}]
<1> DEFINE Q(s) == f[s] \in Nat /\ \A x \in s : f[s] = w[x] + f[s \ {x}]
           P == {n \in Nat : \A s \in SUBSET S : Cardinality(s) <= n => Q(s)}
<1>1. \A s \in SUBSET S : IsFiniteSet(s) /\ Cardinality(s) \in Nat
  BY FS_Subset, FS_CardinalityType
<1>2. \A s \in SUBSET S : \A x \in s :
         s \ {x} \in SUBSET S /\ Cardinality(s \ {x}) = Cardinality(s) - 1
  BY <1>1, FS_RemoveElement
<1>3. \A s \in SUBSET S : f[s] = IF s = {} THEN 0 ELSE w[c[s]] + f[s \ {c[s]}]
  BY DEF SumRec
<1>4. \A s \in SUBSET S : s # {} => c[s] \in s
  BY DEF Picks
<1>e. \A s \in SUBSET S : s = {} => f[s] = 0 /\ Q(s)
  <2> SUFFICES ASSUME NEW s \in SUBSET S, s = {}
               PROVE  f[s] = 0 /\ Q(s)
    OBVIOUS
  <2>1. f[s] = 0
    BY <1>3
  <2>2. \A x \in s : FALSE
    OBVIOUS
  <2> QED
    BY <2>1, <2>2
<1>5. 0 \in P
  <2> SUFFICES ASSUME NEW s \in SUBSET S, Cardinality(s) <= 0
               PROVE  Q(s)
    OBVIOUS
  <2>1. s = {}
    BY <1>1, FS_EmptySet
  <2> HIDE DEF Q
  <2> QED
    BY <1>e, <2>1
<1>6. ASSUME NEW n \in P
      PROVE  n + 1 \in P
  <2>0. n \in Nat /\ \A u \in SUBSET S : Cardinality(u) <= n => Q(u)
    OBVIOUS
  <2> HIDE DEF P
  <2>s. ASSUME NEW s \in SUBSET S, Cardinality(s) <= n + 1
        PROVE  Q(s)
    <3>1. CASE s = {}
      BY <1>e, <3>1
    <3>2. CASE s # {}
      <4>2. PICK y : y = c[s]
        OBVIOUS
      <4>3. y \in s /\ f[s] = w[y] + f[s \ {y}]
        BY <1>3, <1>4, <3>2, <4>2
      <4>4. \A x \in s : s \ {x} \in SUBSET S /\ Cardinality(s \ {x}) <= n
        BY <1>1, <1>2, <2>0, <2>s
      <4>5. \A x \in s : /\ f[s \ {x}] \in Nat /\ w[x] \in Nat
                         /\ \A z \in s \ {x} : f[s \ {x}] = w[z] + f[(s \ {x}) \ {z}]
        BY <2>0, <4>4
      <4>6. f[s] \in Nat
        <5>1. w[y] \in Nat /\ f[s \ {y}] \in Nat
          BY <4>3, <4>5
        <5> QED
          BY <4>3, <5>1
      <4>7. ASSUME NEW x \in s
            PROVE  f[s] = w[x] + f[s \ {x}]
        <5>1. CASE x = y
          BY <4>3, <5>1
        <5>2. CASE x # y
          <6>1. /\ x \in s \ {y} /\ y \in s \ {x}
                /\ (s \ {y}) \ {x} = (s \ {x}) \ {y}
                /\ (s \ {x}) \ {y} \in SUBSET S
            BY <4>3, <5>2
          <6>2. f[s \ {y}] = w[x] + f[(s \ {y}) \ {x}]
            BY <4>3, <4>5, <6>1
          <6>3. f[s \ {x}] = w[y] + f[(s \ {x}) \ {y}]
            BY <4>5, <6>1
          <6>4. f[(s \ {y}) \ {x}] = f[(s \ {x}) \ {y}]
            BY <6>1
          <6>5. f[(s \ {x}) \ {y}] \in Nat
            <7>1. Cardinality((s \ {x}) \ {y}) <= n
              <8>1. /\ s \ {x} \in SUBSET S /\ Cardinality(s \ {x}) <= n
                    /\ Cardinality(s \ {x}) \in Nat
                BY <1>1, <4>4
              <8>2. Cardinality((s \ {x}) \ {y}) = Cardinality(s \ {x}) - 1
                BY <1>2, <6>1, <8>1
              <8> QED
                BY <8>1, <8>2, <2>0
            <7> QED
              BY <2>0, <6>1, <7>1
          <6>6. PICK a, b, m, p, q :
                   /\ a = w[x] /\ b = w[y] /\ m = f[(s \ {x}) \ {y}]
                   /\ p = f[s \ {x}] /\ q = f[s \ {y}]
            OBVIOUS
          <6>7. a \in Nat /\ b \in Nat /\ m \in Nat
            BY <4>3, <4>5, <6>5, <6>6
          <6>8. f[s] = b + q /\ q = a + m /\ p = b + m
            BY <4>3, <6>2, <6>3, <6>4, <6>6
          <6>9. b + (a + m) = a + (b + m)
            BY <6>7
          <6> QED
            BY <6>6, <6>8, <6>9
        <5> QED
          BY <5>1, <5>2
      <4> QED
        BY <4>6, <4>7
    <3> QED
      BY <3>1, <3>2
  <2> HIDE DEF Q
  <2> QED
    BY <2>0, <2>s DEF P
<1>7. P = Nat
  <2>1. P \in SUBSET Nat
    OBVIOUS
  <2> HIDE DEF P
  <2> QED
    BY <1>5, <1>6, <2>1, NatSet
<1> QED
  <2> SUFFICES ASSUME NEW s \in SUBSET S
               PROVE  Q(s) /\ (s = {} => f[s] = 0)
    OBVIOUS
  <2>1. Cardinality(s) \in Nat /\ Cardinality(s) <= Cardinality(s)
    BY <1>1
  <2>2. Cardinality(s) \in P
    BY <1>7, <2>1
  <2> HIDE DEF Q
  <2> QED
    BY <1>e, <2>1, <2>2
\* f adds up w over the subsets of S.
Adds(f, w, S) ==
    \A s \in SUBSET S :
        /\ f[s] \in Nat
        /\ s = {} => f[s] = 0
        /\ \A x \in s : f[s] = w[x] + f[s \ {x}]

LEMMA SumRecAdds ==
    ASSUME NEW S, IsFiniteSet(S), NEW c, Picks(c, S), NEW w, \A x \in S : w[x] \in Nat,
           NEW f, SumRec(w, c, S, f)
    PROVE  Adds(f, w, S)
  BY SumRecAny DEF Adds

\* Nor does the set the sum is part of.
LEMMA AddsSame ==
    ASSUME NEW S, NEW w, NEW f, Adds(f, w, S),
           NEW T, NEW v, NEW g, Adds(g, v, T),
           NEW U \in SUBSET (S \cap T), \A x \in U : w[x] = v[x], IsFiniteSet(U)
    PROVE  f[U] = g[U]
<1> DEFINE P == {n \in Nat : \A s \in SUBSET U : Cardinality(s) = n => f[s] = g[s]}
<1>1. \A s \in SUBSET U : IsFiniteSet(s) /\ Cardinality(s) \in Nat
  BY FS_Subset, FS_CardinalityType
<1>2. \A s \in SUBSET U : (s = {} => f[s] = 0) /\ \A x \in s : f[s] = w[x] + f[s \ {x}]
  BY DEF Adds
<1>3. \A s \in SUBSET U : (s = {} => g[s] = 0) /\ \A x \in s : g[s] = v[x] + g[s \ {x}]
  BY DEF Adds
<1>4. 0 \in P
  <2> SUFFICES ASSUME NEW s \in SUBSET U, Cardinality(s) = 0
               PROVE  f[s] = g[s]
    OBVIOUS
  <2>1. s = {}
    BY <1>1, FS_EmptySet
  <2>2. f[s] = 0 /\ g[s] = 0
    BY <1>2, <1>3, <2>1
  <2> QED
    BY <2>2
<1>5. ASSUME NEW n \in P
      PROVE  n + 1 \in P
  <2>0. n \in Nat /\ \A u \in SUBSET U : Cardinality(u) = n => f[u] = g[u]
    OBVIOUS
  <2>s. ASSUME NEW s \in SUBSET U, Cardinality(s) = n + 1
        PROVE  f[s] = g[s]
    <3>1. s # {}
      <4>1. n + 1 # 0 /\ Cardinality({}) = 0
        BY <2>0, FS_EmptySet
      <4> QED
        BY <2>s, <4>1
    <3>2. PICK x \in s : TRUE
      BY <3>1
    <3>3. s \ {x} \in SUBSET U /\ Cardinality(s \ {x}) = n
      <4>1. Cardinality(s \ {x}) = Cardinality(s) - 1
        BY <1>1, FS_RemoveElement
      <4> QED
        BY <4>1, <2>0, <2>s
    <3>4. f[s \ {x}] = g[s \ {x}] /\ w[x] = v[x]
      BY <2>0, <3>3
    <3>5. f[s] = w[x] + f[s \ {x}] /\ g[s] = v[x] + g[s \ {x}]
      BY <1>2, <1>3
    <3> QED
      BY <3>4, <3>5
  <2> QED
    BY <2>0, <2>s
<1>6. P = Nat
  <2>1. P \in SUBSET Nat
    OBVIOUS
  <2> HIDE DEF P
  <2> QED
    BY <1>4, <1>5, <2>1, NatSet
<1>7. Cardinality(U) \in P
  BY <1>1, <1>6
<1> QED
  BY <1>7

\* The sum of w over S.
AnyOf(S) == [s \in SUBSET S |-> CHOOSE x \in s : TRUE]
Total(w, S) == (CHOOSE f : SumRec(w, AnyOf(S), S, f))[S]

LEMMA AnyPicks == ASSUME NEW S PROVE Picks(AnyOf(S), S)
  BY DEF Picks, AnyOf

\* Whatever was summed up by recursion is the total.
LEMMA TotalIs ==
    ASSUME NEW S, IsFiniteSet(S), NEW c, Picks(c, S), NEW w, \A x \in S : w[x] \in Nat,
           NEW f, SumRec(w, c, S, f)
    PROVE  f[S] = Total(w, S)
<1> DEFINE g == CHOOSE h : SumRec(w, AnyOf(S), S, h)
<1>1. SumRec(w, AnyOf(S), S, g)
  BY SumRecExists, AnyPicks
<1>2. Total(w, S) = g[S]
  BY DEF Total
<1> HIDE DEF g
<1>3. f[S] = g[S]
  <2>1. S \in SUBSET (S \cap S) /\ \A x \in S : w[x] = w[x]
    OBVIOUS
  <2>2. Adds(f, w, S)
    BY SumRecAdds
  <2>3. Adds(g, w, S)
    BY <1>1, AnyPicks, SumRecAdds
  <2> QED
    BY <2>1, <2>2, <2>3, AddsSame
<1> QED
  BY <1>2, <1>3

LEMMA TotalProps ==
    ASSUME NEW S, IsFiniteSet(S), NEW w, \A x \in S : w[x] \in Nat
    PROVE  /\ Total(w, S) \in Nat
           /\ S = {} => Total(w, S) = 0
           /\ \A x \in S : Total(w, S) = w[x] + Total(w, S \ {x})
<1>1. PICK f : SumRec(w, AnyOf(S), S, f)
  BY SumRecExists, AnyPicks
<1>2. f[S] = Total(w, S)
  BY <1>1, AnyPicks, TotalIs
<1>3. /\ f[S] \in Nat
      /\ S = {} => f[S] = 0
      /\ \A x \in S : f[S] = w[x] + f[S \ {x}]
  BY <1>1, AnyPicks, SumRecAny
<1>4. ASSUME NEW x \in S
      PROVE  f[S \ {x}] = Total(w, S \ {x})
  <2>1. IsFiniteSet(S \ {x}) /\ \A y \in S \ {x} : w[y] \in Nat
    BY FS_Subset
  <2>2. PICK g : SumRec(w, AnyOf(S \ {x}), S \ {x}, g)
    BY <2>1, SumRecExists, AnyPicks
  <2>3. g[S \ {x}] = Total(w, S \ {x})
    BY <2>1, <2>2, AnyPicks, TotalIs
  <2>4. f[S \ {x}] = g[S \ {x}]
    <3>1. S \ {x} \in SUBSET (S \cap (S \ {x})) /\ \A y \in S \ {x} : w[y] = w[y]
      OBVIOUS
    <3>2. Adds(f, w, S)
      BY <1>1, AnyPicks, SumRecAdds
    <3>3. Adds(g, w, S \ {x})
      BY <2>1, <2>2, AnyPicks, SumRecAdds
    <3> QED
      BY <2>1, <3>1, <3>2, <3>3, AddsSame
  <2> QED
    BY <2>3, <2>4
<1> QED
  BY <1>2, <1>3, <1>4

\* Only the weights of the members count.
LEMMA TotalSame ==
    ASSUME NEW S, IsFiniteSet(S), NEW w, \A x \in S : w[x] \in Nat,
           NEW v, \A x \in S : v[x] = w[x]
    PROVE  Total(v, S) = Total(w, S)
<1>1. \A x \in S : v[x] \in Nat
  OBVIOUS
<1>2. PICK f : SumRec(w, AnyOf(S), S, f)
  BY SumRecExists, AnyPicks
<1>3. PICK g : SumRec(v, AnyOf(S), S, g)
  BY SumRecExists, AnyPicks
<1>4. f[S] = Total(w, S) /\ g[S] = Total(v, S)
  BY <1>1, <1>2, <1>3, AnyPicks, TotalIs
<1>5. S \in SUBSET (S \cap S) /\ \A x \in S : w[x] = v[x]
  OBVIOUS
<1>6. f[S] = g[S]
  <2>1. Adds(f, w, S)
    BY <1>2, AnyPicks, SumRecAdds
  <2>2. Adds(g, v, S)
    BY <1>1, <1>3, AnyPicks, SumRecAdds
  <2> QED
    BY <1>5, <2>1, <2>2, AddsSame
<1> QED
  BY <1>4, <1>6

\* One more member.
LEMMA TotalAdd ==
    ASSUME NEW S, IsFiniteSet(S), NEW w, NEW x, x \notin S,
           \A y \in S \cup {x} : w[y] \in Nat
    PROVE  Total(w, S \cup {x}) = w[x] + Total(w, S)
<1>1. IsFiniteSet(S \cup {x}) /\ (S \cup {x}) \ {x} = S /\ x \in S \cup {x}
  BY FS_AddElement
<1>2. PICK T : T = S \cup {x}
  OBVIOUS
<1>3. Total(w, T) = w[x] + Total(w, T \ {x})
  BY <1>1, <1>2, TotalProps
<1> QED
  BY <1>1, <1>2, <1>3

\* The sums of the models, under names of their own: the provers do not take
\* LAMBDA.  They are totals.
SumLengths(S) == MapThenSumSet(LAMBDA e : e.len, S)
SumCapacities(r, S) == MapThenSumSet(LAMBDA k : r[k].mem_cap, S)
FoldLengths(s) == FoldLeft(LAMBDA sum, h : sum + h.len, 0, s)

LEMMA SumOfLengths ==
    ASSUME NEW S, IsFiniteSet(S), \A e \in S : e.len \in Nat
    PROVE  SumLengths(S) = Total([e \in S |-> e.len], S)
<1> DEFINE w == [e \in S |-> e.len]
           I(f) == f = [s \in SUBSET S |-> IF s = {} THEN 0
                          ELSE (CHOOSE x \in s : TRUE).len + f[s \ {CHOOSE x \in s : TRUE}]]
           g == CHOOSE f : I(f)
<1>1. SumLengths(S) = g[S]
  BY DEF SumLengths, MapThenSumSet, MapThenFoldSet
<1>2. ASSUME NEW f
      PROVE  SumRec(w, AnyOf(S), S, f) <=> I(f)
  <2>1. \A s \in SUBSET S : s # {} =>
           /\ AnyOf(S)[s] = CHOOSE x \in s : TRUE
           /\ w[AnyOf(S)[s]] = (CHOOSE x \in s : TRUE).len
    BY DEF AnyOf
  <2> HIDE DEF w
  <2> QED
    BY <2>1 DEF SumRec
<1>3. \A x \in S : w[x] \in Nat
  OBVIOUS
<1> HIDE DEF I, w
<1>4. \E f : SumRec(w, AnyOf(S), S, f)
  BY SumRecExists, AnyPicks
<1>5. I(g)
  BY <1>2, <1>4
<1> HIDE DEF g
<1>6. SumRec(w, AnyOf(S), S, g)
  BY <1>2, <1>5
<1>7. g[S] = Total(w, S)
  BY <1>3, <1>6, AnyPicks, TotalIs
<1> QED
  BY <1>1, <1>7 DEF w

LEMMA SumOfCapacities ==
    ASSUME NEW r, NEW S, IsFiniteSet(S), \A k \in S : r[k].mem_cap \in Nat
    PROVE  SumCapacities(r, S) = Total([k \in S |-> r[k].mem_cap], S)
<1> DEFINE w == [k \in S |-> r[k].mem_cap]
           I(f) == f = [s \in SUBSET S |-> IF s = {} THEN 0
                          ELSE r[CHOOSE x \in s : TRUE].mem_cap + f[s \ {CHOOSE x \in s : TRUE}]]
           g == CHOOSE f : I(f)
<1>1. SumCapacities(r, S) = g[S]
  BY DEF SumCapacities, MapThenSumSet, MapThenFoldSet
<1>2. ASSUME NEW f
      PROVE  SumRec(w, AnyOf(S), S, f) <=> I(f)
  <2>1. \A s \in SUBSET S : s # {} =>
           /\ AnyOf(S)[s] = CHOOSE x \in s : TRUE
           /\ w[AnyOf(S)[s]] = r[CHOOSE x \in s : TRUE].mem_cap
    BY DEF AnyOf
  <2> HIDE DEF w
  <2> QED
    BY <2>1 DEF SumRec
<1>3. \A x \in S : w[x] \in Nat
  OBVIOUS
<1> HIDE DEF I, w
<1>4. \E f : SumRec(w, AnyOf(S), S, f)
  BY SumRecExists, AnyPicks
<1>5. I(g)
  BY <1>2, <1>4
<1> HIDE DEF g
<1>6. SumRec(w, AnyOf(S), S, g)
  BY <1>2, <1>5
<1>7. g[S] = Total(w, S)
  BY <1>3, <1>6, AnyPicks, TotalIs
<1> QED
  BY <1>1, <1>7 DEF w

LEMMA FoldOfLengths ==
    ASSUME NEW s, IsFiniteSet(DOMAIN s), DOMAIN s \in SUBSET Nat,
           NEW top \in Nat, \A i \in DOMAIN s : i <= top,
           \A i \in DOMAIN s : s[i].len \in Nat
    PROVE  FoldLengths(s) = Total([i \in DOMAIN s |-> s[i].len], DOMAIN s)
<1> DEFINE D == DOMAIN s
           w == [i \in D |-> s[i].len]
           c == [S \in SUBSET D |-> Max(S)]
           I(f) == f = [S \in SUBSET D |-> IF S = {} THEN 0
                          ELSE f[S \ {Max(S)}] + s[Max(S)].len]
           g == CHOOSE f : I(f)
<1>1. FoldLengths(s) = g[D]
  BY DEF FoldLengths, FoldLeft, MapThenFoldSet
<1>2. \A S \in SUBSET D : S # {} => Max(S) \in S
  BY MaxProps
<1>3. Picks(c, D)
  BY <1>2 DEF Picks
<1>4. \A x \in D : w[x] \in Nat
  OBVIOUS
<1>5. \A S \in SUBSET D : S # {} => c[S] = Max(S) /\ w[c[S]] = s[Max(S)].len
  BY <1>2
<1>6. PICK f : SumRec(w, c, D, f)
  BY <1>3, SumRecExists
<1>7. f[D] = Total(w, D)
  BY <1>3, <1>4, <1>6, TotalIs
<1>8. \A S \in SUBSET D : f[S] \in Nat
  <2> HIDE DEF w, c, D
  <2>1. Adds(f, w, D)
    BY <1>3, <1>4, <1>6, SumRecAdds DEF D
  <2> QED
    BY <2>1 DEF Adds
<1>9. I(f)
  <2>1. ASSUME NEW S \in SUBSET D, S # {}
        PROVE  w[c[S]] + f[S \ {c[S]}] = f[S \ {Max(S)}] + s[Max(S)].len
    <3>1. S \ {Max(S)} \in SUBSET D /\ Max(S) \in D
      BY <1>2, <2>1
    <3>2. f[S \ {Max(S)}] \in Nat /\ s[Max(S)].len \in Nat
      BY <1>8, <3>1
    <3>3. c[S] = Max(S) /\ w[c[S]] = s[Max(S)].len
      BY <1>5, <2>1
    <3>4. PICK x, y : x = f[S \ {Max(S)}] /\ y = s[Max(S)].len
      OBVIOUS
    <3>5. x \in Nat /\ y \in Nat
      BY <3>2, <3>4
    <3> HIDE DEF w, c, D
    <3>6. w[c[S]] = y /\ f[S \ {c[S]}] = x
      BY <3>3, <3>4
    <3> QED
      BY <3>4, <3>5, <3>6
  <2> HIDE DEF w, c, D
  <2> QED
    BY <1>6, <2>1 DEF SumRec
<1>10. I(g)
  <2> HIDE DEF I
  <2> QED
    BY <1>9
<1> HIDE DEF g
<1>11. \A S \in SUBSET D : /\ S = {} => f[S] = 0 /\ g[S] = 0
                           /\ S # {} => /\ f[S] = f[S \ {Max(S)}] + s[Max(S)].len
                                        /\ g[S] = g[S \ {Max(S)}] + s[Max(S)].len
  <2> HIDE DEF D
  <2> QED
    BY <1>9, <1>10
<1> DEFINE P == {n \in Nat : \A S \in SUBSET D : Cardinality(S) = n => f[S] = g[S]}
<1>12. \A S \in SUBSET D : IsFiniteSet(S) /\ Cardinality(S) \in Nat
  BY FS_Subset, FS_CardinalityType
<1>13. 0 \in P
  <2>1. \A S \in SUBSET D : Cardinality(S) = 0 => S = {}
    BY <1>12, FS_EmptySet
  <2> HIDE DEF D
  <2> QED
    BY <1>11, <2>1
<1>14. ASSUME NEW n \in P
       PROVE  n + 1 \in P
  <2>0. n \in Nat /\ \A u \in SUBSET D : Cardinality(u) = n => f[u] = g[u]
    OBVIOUS
  <2>1. ASSUME NEW S \in SUBSET D, Cardinality(S) = n + 1
        PROVE  f[S] = g[S]
    <3>1. S # {}
      <4>1. n + 1 # 0 /\ Cardinality({}) = 0
        BY <2>0, FS_EmptySet
      <4> QED
        BY <2>1, <4>1
    <3>2. Max(S) \in S
      BY <1>2, <3>1
    <3>3. S \ {Max(S)} \in SUBSET D /\ Cardinality(S \ {Max(S)}) = n
      <4>1. Cardinality(S \ {Max(S)}) = Cardinality(S) - 1
        BY <1>12, <3>2, FS_RemoveElement
      <4> QED
        BY <4>1, <2>0, <2>1
    <3>4. f[S \ {Max(S)}] = g[S \ {Max(S)}]
      BY <2>0, <3>3
    <3> HIDE DEF D
    <3> QED
      BY <1>11, <3>1, <3>4
  <2> QED
    BY <2>0, <2>1
<1>15. P = Nat
  <2>1. P \in SUBSET Nat
    OBVIOUS
  <2> HIDE DEF P
  <2> QED
    BY <1>13, <1>14, <2>1, NatSet
<1>16. f[D] = g[D]
  BY <1>12, <1>15
<1> QED
  BY <1>1, <1>7, <1>16

\* The members of a finite family of disjoint finite sets, counted.
LEMMA CountDisjoint ==
    ASSUME NEW I, IsFiniteSet(I), NEW b, NEW w,
           \A i \in I : IsFiniteSet(b[i]) /\ w[i] = Cardinality(b[i]),
           \A i, j \in I : i # j => b[i] \cap b[j] = {}
    PROVE  /\ IsFiniteSet(UNION {b[i] : i \in I})
           /\ Cardinality(UNION {b[i] : i \in I}) = Total(w, I)
<1> DEFINE U(s) == UNION {b[i] : i \in s}
           P == {n \in Nat : \A s \in SUBSET I : Cardinality(s) = n =>
                    IsFiniteSet(U(s)) /\ Cardinality(U(s)) = Total(w, s)}
<1>1. \A s \in SUBSET I : IsFiniteSet(s) /\ Cardinality(s) \in Nat
  BY FS_Subset, FS_CardinalityType
<1>2. \A i \in I : w[i] \in Nat
  BY FS_CardinalityType
<1>3. 0 \in P
  <2> SUFFICES ASSUME NEW s \in SUBSET I, Cardinality(s) = 0
               PROVE  IsFiniteSet(U(s)) /\ Cardinality(U(s)) = Total(w, s)
    OBVIOUS
  <2>1. s = {}
    BY <1>1, FS_EmptySet
  <2>2. U(s) = {}
    BY <2>1
  <2>3. Total(w, {}) = 0
    BY FS_EmptySet, TotalProps
  <2>4. IsFiniteSet({}) /\ Cardinality({}) = 0
    BY FS_EmptySet
  <2> HIDE DEF U
  <2> QED
    BY <2>1, <2>2, <2>3, <2>4
<1>4. ASSUME NEW n \in P
      PROVE  n + 1 \in P
  <2>0. n \in Nat /\ \A s \in SUBSET I : Cardinality(s) = n =>
                    IsFiniteSet(U(s)) /\ Cardinality(U(s)) = Total(w, s)
    OBVIOUS
  <2>s. ASSUME NEW s \in SUBSET I, Cardinality(s) = n + 1
        PROVE  IsFiniteSet(U(s)) /\ Cardinality(U(s)) = Total(w, s)
    <3>1. s # {}
      <4>1. n + 1 # 0 /\ Cardinality({}) = 0
        BY <2>0, FS_EmptySet
      <4> QED
        BY <2>s, <4>1
    <3>2. PICK x \in s : TRUE
      BY <3>1
    <3>3. s \ {x} \in SUBSET I /\ Cardinality(s \ {x}) = n
      <4>1. Cardinality(s \ {x}) = Cardinality(s) - 1
        BY <1>1, FS_RemoveElement
      <4> QED
        BY <4>1, <2>0, <2>s
    <3>4. PICK t : t = U(s \ {x})
      OBVIOUS
    <3>5. IsFiniteSet(t) /\ Cardinality(t) = Total(w, s \ {x})
      <4> HIDE DEF U
      <4> QED
        BY <2>0, <3>3, <3>4
    <3>6. U(s) = t \cup b[x] /\ t \cap b[x] = {} /\ IsFiniteSet(b[x])
      BY <3>2, <3>4
    <3> HIDE DEF U
    <3>7. IsFiniteSet(t \cup b[x])
      BY <3>5, <3>6, FS_Union
    <3>8. Cardinality(t \cup b[x]) = Cardinality(t) + Cardinality(b[x]) - Cardinality(t \cap b[x])
      BY <3>5, <3>6, FS_Union
    <3>9. Cardinality(t \cap b[x]) = 0
      BY <3>6, FS_EmptySet
    <3>10. w[x] = Cardinality(b[x]) /\ w[x] \in Nat /\ Cardinality(t) \in Nat
      BY <1>2, <3>2, <3>5, FS_CardinalityType
    <3>11. Cardinality(t \cup b[x]) = Cardinality(t) + w[x]
      BY <3>8, <3>9, <3>10
    <3>12. Total(w, s) = w[x] + Total(w, s \ {x})
      BY <1>1, <1>2, <3>2, TotalProps
    <3>13. Cardinality(t) + w[x] = w[x] + Cardinality(t)
      BY <3>10
    <3> QED
      BY <3>5, <3>6, <3>7, <3>11, <3>12, <3>13
  <2> HIDE DEF U
  <2> QED
    BY <2>0, <2>s
<1>5. P = Nat
  <2>1. P \in SUBSET Nat
    OBVIOUS
  <2> HIDE DEF P
  <2> QED
    BY <1>3, <1>4, <2>1, NatSet
<1>6. Cardinality(I) \in P
  BY <1>1, <1>5
<1> QED
  BY <1>6

-----------------------------------------------------------------------------
(* Sequences built step by step.                                           *)

\* f computes each value from the one before.
StepRec(first, step, n, f) ==
    f = [i \in 1 .. n |-> IF i = 1 THEN first ELSE step[<<i, f[i - 1]>>]]

LEMMA StepsExist ==
    ASSUME NEW V, NEW n \in Nat, NEW first \in V, NEW step \in [(1 .. n) \X V -> V]
    PROVE  \E f : StepRec(first, step, n, f)
<1> DEFINE E(m, f) == /\ f \in [1 .. m -> V]
                      /\ f = [i \in 1 .. m |-> IF i = 1 THEN first ELSE step[<<i, f[i - 1]>>]]
           P == {m \in Nat : m <= n => \E f : E(m, f)}
<1>1. 0 \in P
  <2> DEFINE f == [i \in 1 .. 0 |-> first]
  <2>1. 1 .. 0 = {}
    OBVIOUS
  <2>2. E(0, f)
    BY <2>1
  <2> QED
    BY <2>2
<1>2. ASSUME NEW m \in P
      PROVE  m + 1 \in P
  <2>0. m \in Nat /\ (m <= n => \E f : E(m, f))
    OBVIOUS
  <2>1. ASSUME m + 1 <= n
        PROVE  \E f : E(m + 1, f)
    <3>1. PICK f : E(m, f)
      BY <2>0, <2>1
    <3> DEFINE new == IF m = 0 THEN first ELSE step[<<m + 1, f[m]>>]
               g == [i \in 1 .. (m + 1) |-> IF i = m + 1 THEN new ELSE f[i]]
    <3>2. new \in V
      <4>1. CASE m = 0
        BY <4>1
      <4>2. CASE m # 0
        <5>1. m \in 1 .. m /\ m + 1 \in 1 .. n
          BY <2>0, <2>1, <4>2
        <5>2. f[m] \in V
          BY <3>1, <5>1
        <5>3. <<m + 1, f[m]>> \in (1 .. n) \X V
          BY <5>1, <5>2
        <5> QED
          BY <4>2, <5>3
      <4> QED
        BY <4>1, <4>2
    <3> HIDE DEF new
    <3>3. g \in [1 .. (m + 1) -> V]
      BY <2>0, <3>1, <3>2
    <3>4. ASSUME NEW i \in 1 .. (m + 1)
          PROVE  g[i] = IF i = 1 THEN first ELSE step[<<i, g[i - 1]>>]
      <4>1. CASE i = m + 1
        <5>1. CASE m = 0
          BY <4>1, <5>1 DEF new
        <5>2. CASE m # 0
          <6>1. i # 1 /\ i - 1 = m /\ m \in 1 .. (m + 1) /\ m # m + 1
            BY <2>0, <4>1, <5>2
          <6>2. g[i - 1] = f[m]
            BY <6>1
          <6> QED
            BY <4>1, <5>2, <6>1, <6>2 DEF new
        <5> QED
          BY <5>1, <5>2
      <4>2. CASE i # m + 1
        <5>1. i \in 1 .. m /\ (i # 1 => i - 1 \in 1 .. (m + 1) /\ i - 1 # m + 1)
          BY <2>0, <4>2
        <5>2. g[i] = f[i] /\ (i # 1 => g[i - 1] = f[i - 1])
          BY <4>2, <5>1
        <5> HIDE DEF g
        <5> QED
          BY <3>1, <5>1, <5>2
      <4> QED
        BY <4>1, <4>2
    <3> HIDE DEF g
    <3>5. E(m + 1, g)
      BY <3>3, <3>4
    <3> QED
      BY <3>5
  <2> HIDE DEF E
  <2> QED
    BY <2>0, <2>1
<1>3. P = Nat
  <2>1. P \in SUBSET Nat
    OBVIOUS
  <2> HIDE DEF P
  <2> QED
    BY <1>1, <1>2, <2>1, NatSet
<1>4. \E f : E(n, f)
  <2>1. n \in P /\ n <= n
    BY <1>3
  <2> HIDE DEF E
  <2> QED
    BY <2>1
<1> QED
  BY <1>4 DEF StepRec

\* f puts the first sequences of ss one after another.
FlatRec(ss, n, f) ==
    f = [i \in 1 .. n |-> IF i = 1 THEN ss[i] ELSE f[i - 1] \o ss[i]]

LEMMA FlattenIs ==
    ASSUME NEW S, NEW ss \in Seq(Seq(S)), Len(ss) # 0
    PROVE  \E f : /\ FlatRec(ss, Len(ss), f) /\ FlattenSeq(ss) = f[Len(ss)]
                  /\ \A i \in 1 .. Len(ss) : f[i] \in Seq(S)
<1> DEFINE n == Len(ss)
           E(f) == f = [i \in 1 .. n |-> IF i = 1 THEN ss[i] ELSE f[i - 1] \o ss[i]]
           g == CHOOSE f : E(f)
           V == Seq(S)
           step == [p \in (1 .. n) \X V |-> p[2] \o ss[p[1]]]
<1>1. FlattenSeq(ss) = g[n]
  BY DEF FlattenSeq
<1>2. n \in Nat /\ 1 \in 1 .. n /\ n \in 1 .. n /\ \A i \in 1 .. n : ss[i] \in V
  OBVIOUS
<1>3. step \in [(1 .. n) \X V -> V]
  <2>1. ASSUME NEW p \in (1 .. n) \X V
        PROVE  p[2] \o ss[p[1]] \in V
    BY <1>2
  <2> HIDE DEF V
  <2> QED
    BY <2>1
<1> DEFINE R(f) == f = [i \in 1 .. n |-> IF i = 1 THEN ss[1] ELSE step[<<i, f[i - 1]>>]]
<1>4. PICK f : R(f)
  <2> HIDE DEF step, V, n
  <2>1. ss[1] \in V /\ n \in Nat
    BY <1>2
  <2>2. \E f : StepRec(ss[1], step, n, f)
    BY <1>3, <2>1, StepsExist
  <2> QED
    BY <2>2 DEF StepRec
<1>5. \A i \in 1 .. n : f[i] \in V
  <2> DEFINE P == {i \in Nat : i + 1 \in 1 .. n => f[i + 1] \in V}
  <2>1. 0 \in P
    BY <1>2, <1>4
  <2>2. ASSUME NEW i \in P
        PROVE  i + 1 \in P
    <3>1. i \in Nat /\ (i + 1 \in 1 .. n => f[i + 1] \in V)
      OBVIOUS
    <3>2. ASSUME (i + 1) + 1 \in 1 .. n
          PROVE  f[(i + 1) + 1] \in V
      <4>1. PICK j : j = (i + 1) + 1
        OBVIOUS
      <4>2. j \in 1 .. n /\ j # 1 /\ j - 1 = i + 1 /\ j - 1 \in 1 .. n
        BY <1>2, <3>1, <3>2, <4>1
      <4>3. f[j - 1] \in V
        BY <3>1, <4>2
      <4>4. <<j, f[j - 1]>> \in (1 .. n) \X V
        BY <4>2, <4>3
      <4>5. step[<<j, f[j - 1]>>] \in V
        <5> HIDE DEF step
        <5> QED
          BY <1>3, <4>4
      <4>6. f[j] = step[<<j, f[j - 1]>>]
        <5> HIDE DEF step, V
        <5> QED
          BY <1>4, <4>2
      <4> HIDE DEF step, V
      <4> QED
        BY <4>1, <4>5, <4>6
    <3> QED
      BY <3>1, <3>2
  <2>3. P = Nat
    <3>1. P \in SUBSET Nat
      OBVIOUS
    <3> HIDE DEF P
    <3> QED
      BY <2>1, <2>2, <3>1, NatSet
  <2> TAKE i \in 1 .. n
  <2>4. i - 1 \in P /\ (i - 1) + 1 = i
    <3> HIDE DEF P
    <3> QED
      BY <1>2, <2>3
  <2> HIDE DEF V
  <2> QED
    BY <2>4
<1>6. E(f)
  <2>1. ASSUME NEW i \in 1 .. n, i # 1
        PROVE  step[<<i, f[i - 1]>>] = f[i - 1] \o ss[i]
    <3>1. i - 1 \in 1 .. n
      BY <1>2, <2>1
    <3>2. <<i, f[i - 1]>> \in (1 .. n) \X V
      BY <1>5, <3>1
    <3> HIDE DEF V
    <3> QED
      BY <3>2
  <2> HIDE DEF step, V, n
  <2> QED
    BY <1>2, <1>4, <2>1
<1>7. E(g)
  <2> HIDE DEF E
  <2> QED
    BY <1>6
<1> HIDE DEF g
<1>8. \A i \in 1 .. n : f[i] = g[i]
  <2> DEFINE P == {i \in Nat : i + 1 \in 1 .. n => f[i + 1] = g[i + 1]}
  <2>1. 0 \in P
    BY <1>2, <1>6, <1>7
  <2>2. ASSUME NEW i \in P
        PROVE  i + 1 \in P
    <3>1. i \in Nat /\ (i + 1 \in 1 .. n => f[i + 1] = g[i + 1])
      OBVIOUS
    <3>2. ASSUME (i + 1) + 1 \in 1 .. n
          PROVE  f[(i + 1) + 1] = g[(i + 1) + 1]
      <4>1. PICK j : j = (i + 1) + 1
        OBVIOUS
      <4>2. j \in 1 .. n /\ j # 1 /\ j - 1 = i + 1 /\ j - 1 \in 1 .. n
        BY <1>2, <3>1, <3>2, <4>1
      <4>3. f[j - 1] = g[j - 1]
        BY <3>1, <4>2
      <4>4. f[j] = f[j - 1] \o ss[j] /\ g[j] = g[j - 1] \o ss[j]
        <5> HIDE DEF n
        <5> QED
          BY <1>6, <1>7, <4>2
      <4> QED
        BY <4>1, <4>3, <4>4
    <3> QED
      BY <3>1, <3>2
  <2>3. P = Nat
    <3>1. P \in SUBSET Nat
      OBVIOUS
    <3> HIDE DEF P
    <3> QED
      BY <2>1, <2>2, <3>1, NatSet
  <2> TAKE i \in 1 .. n
  <2>4. i - 1 \in P /\ (i - 1) + 1 = i
    <3> HIDE DEF P
    <3> QED
      BY <1>2, <2>3
  <2> QED
    BY <2>4
<1>9. FlatRec(ss, n, g)
  BY <1>7 DEF FlatRec
<1> QED
  BY <1>1, <1>2, <1>5, <1>8, <1>9

\* Sequences of S put one after another are a sequence of S.
LEMMA FlattenTyped ==
    ASSUME NEW S, NEW ss \in Seq(Seq(S))
    PROVE  FlattenSeq(ss) \in Seq(S)
<1>1. CASE Len(ss) = 0
  <2>1. ss = << >>
    BY <1>1
  <2>2. FlattenSeq(ss) = ss
    BY <1>1 DEF FlattenSeq
  <2>3. << >> \in Seq(S)
    OBVIOUS
  <2>4. FlattenSeq(ss) = << >>
    BY <2>1, <2>2
  <2> QED
    BY <2>3, <2>4
<1>2. CASE Len(ss) # 0
  <2>1. Len(ss) \in 1 .. Len(ss)
    BY <1>2
  <2> QED
    BY <1>2, <2>1, FlattenIs
<1> QED
  BY <1>1, <1>2

Alike(s, r, m) == \A j \in 1 .. m : s[j] = r[j]

LEMMA FlatsAgree ==
    ASSUME NEW ss, NEW rr, NEW m \in Nat, NEW n \in Nat, m <= n,
           NEW f, FlatRec(ss, m, f), NEW g, FlatRec(rr, n, g), Alike(ss, rr, m)
    PROVE  \A j \in 1 .. m : f[j] = g[j]
<1> DEFINE P == {i \in Nat : i + 1 \in 1 .. m => f[i + 1] = g[i + 1]}
<1>0. \A j \in 1 .. m : j \in 1 .. n
  OBVIOUS
<1>1. \A j \in 1 .. m : /\ f[j] = IF j = 1 THEN ss[j] ELSE f[j - 1] \o ss[j]
                        /\ g[j] = IF j = 1 THEN rr[j] ELSE g[j - 1] \o rr[j]
  BY <1>0 DEF FlatRec
<1>a. \A j \in 1 .. m : ss[j] = rr[j]
  BY DEF Alike
<1>2. 0 \in P
  BY <1>1, <1>a
<1>3. ASSUME NEW i \in P
      PROVE  i + 1 \in P
  <2>1. i \in Nat /\ (i + 1 \in 1 .. m => f[i + 1] = g[i + 1])
    OBVIOUS
  <2>2. ASSUME (i + 1) + 1 \in 1 .. m
        PROVE  f[(i + 1) + 1] = g[(i + 1) + 1]
    <3>1. PICK j : j = (i + 1) + 1
      OBVIOUS
    <3>2. j \in 1 .. m /\ j # 1 /\ j - 1 = i + 1 /\ j - 1 \in 1 .. m
      BY <2>1, <2>2, <3>1
    <3>3. f[j - 1] = g[j - 1]
      BY <2>1, <3>2
    <3>4. f[j] = g[j]
      BY <1>1, <1>a, <3>2, <3>3
    <3> QED
      BY <3>1, <3>4
  <2> QED
    BY <2>1, <2>2
<1>4. P = Nat
  <2>1. P \in SUBSET Nat
    OBVIOUS
  <2> HIDE DEF P
  <2> QED
    BY <1>2, <1>3, <2>1, NatSet
<1> TAKE j \in 1 .. m
<1>5. j - 1 \in P /\ (j - 1) + 1 = j
  <2> HIDE DEF P
  <2> QED
    BY <1>4
<1> QED
  BY <1>5

\* One sequence more goes to the end.
LEMMA FlattenAppend ==
    ASSUME NEW S, NEW ss \in Seq(Seq(S)), NEW s \in Seq(S)
    PROVE  FlattenSeq(Append(ss, s)) = FlattenSeq(ss) \o s
<1>1. PICK rr, n : rr = Append(ss, s) /\ n = Len(ss)
  OBVIOUS
<1>2. /\ rr \in Seq(Seq(S)) /\ Len(rr) = n + 1 /\ n \in Nat /\ rr[n + 1] = s
      /\ \A i \in 1 .. n : rr[i] = ss[i]
  BY <1>1
<1>3. PICK g : /\ FlatRec(rr, n + 1, g) /\ FlattenSeq(rr) = g[n + 1]
               /\ \A i \in 1 .. (n + 1) : g[i] \in Seq(S)
  <2>1. Len(rr) # 0
    BY <1>2
  <2> QED
    BY <1>2, <2>1, FlattenIs
<1>4. CASE n = 0
  <2>0. Len(ss) = 0
    BY <1>1, <1>4
  <2>1. ss = << >>
    BY <2>0, EmptySeq
  <2>2. FlattenSeq(ss) = << >>
    BY <1>1, <1>4, <2>1 DEF FlattenSeq
  <2>3. g[n + 1] = s
    BY <1>2, <1>3, <1>4 DEF FlatRec
  <2>4. << >> \o s = s
    OBVIOUS
  <2> QED
    BY <1>1, <1>3, <2>2, <2>3, <2>4
<1>5. CASE n # 0
  <2>1. PICK f : FlatRec(ss, n, f) /\ FlattenSeq(ss) = f[n]
    BY <1>1, <1>5, FlattenIs
  <2>2. \A j \in 1 .. n : f[j] = g[j]
    <3>1. PICK m : m = n + 1
      OBVIOUS
    <3>2. m \in Nat /\ n \in Nat /\ n <= m
      BY <1>2, <3>1
    <3>3. FlatRec(rr, m, g)
      BY <1>3, <3>1
    <3>4. FlatRec(ss, n, f)
      BY <2>1
    <3>5. Alike(ss, rr, n)
      BY <1>2 DEF Alike
    <3> QED
      BY <3>2, <3>3, <3>4, <3>5, FlatsAgree
  <2>3. n \in 1 .. n /\ n + 1 \in 1 .. (n + 1) /\ n + 1 # 1 /\ (n + 1) - 1 = n
    BY <1>2, <1>5
  <2>4. g[n + 1] = g[n] \o s
    BY <1>2, <1>3, <2>3 DEF FlatRec
  <2> QED
    BY <1>1, <1>3, <2>1, <2>2, <2>3, <2>4
<1> QED
  BY <1>4, <1>5

\* f adds up the lengths of the first extents of w.
RunRec(w, n, f) ==
    f = [j \in 1 .. n |-> IF j = 1 THEN 0 ELSE f[j - 1] + w[j - 1].len]

LEMMA RunExists ==
    ASSUME NEW w, NEW n \in Nat, \A i \in 1 .. (n - 1) : w[i].len \in Nat
    PROVE  \E f : RunRec(w, n, f) /\ \A i \in 1 .. n : f[i] \in Nat
<1> DEFINE step == [p \in (1 .. n) \X Nat |-> IF p[1] = 1 THEN 0 ELSE p[2] + w[p[1] - 1].len]
           R(f) == f = [i \in 1 .. n |-> IF i = 1 THEN 0 ELSE step[<<i, f[i - 1]>>]]
<1>1. step \in [(1 .. n) \X Nat -> Nat]
  <2>1. ASSUME NEW p \in (1 .. n) \X Nat
        PROVE  (IF p[1] = 1 THEN 0 ELSE p[2] + w[p[1] - 1].len) \in Nat
    <3>1. p[1] \in 1 .. n /\ p[2] \in Nat
      OBVIOUS
    <3>2. CASE p[1] # 1
      <4>1. p[1] - 1 \in 1 .. (n - 1)
        BY <3>1, <3>2
      <4> QED
        BY <3>1, <3>2, <4>1
    <3> QED
      BY <3>2
  <2> QED
    BY <2>1
<1>2. PICK f : R(f)
  <2> HIDE DEF step
  <2>1. \E f : StepRec(0, step, n, f)
    BY <1>1, StepsExist
  <2> QED
    BY <2>1 DEF StepRec
<1>3. \A i \in 1 .. n : f[i] \in Nat
  <2> DEFINE P == {i \in Nat : i + 1 \in 1 .. n => f[i + 1] \in Nat}
  <2>1. 0 \in P
    BY <1>2
  <2>2. ASSUME NEW i \in P
        PROVE  i + 1 \in P
    <3>1. i \in Nat /\ (i + 1 \in 1 .. n => f[i + 1] \in Nat)
      OBVIOUS
    <3>2. ASSUME (i + 1) + 1 \in 1 .. n
          PROVE  f[(i + 1) + 1] \in Nat
      <4>1. PICK j : j = (i + 1) + 1
        OBVIOUS
      <4>2. j \in 1 .. n /\ j # 1 /\ j - 1 = i + 1 /\ j - 1 \in 1 .. n
        BY <3>1, <3>2, <4>1
      <4>3. <<j, f[j - 1]>> \in (1 .. n) \X Nat
        BY <3>1, <4>2
      <4> HIDE DEF step
      <4>4. f[j] = step[<<j, f[j - 1]>>]
        BY <1>2, <4>2
      <4> QED
        BY <1>1, <4>1, <4>3, <4>4
    <3> QED
      BY <3>1, <3>2
  <2>3. P = Nat
    <3>1. P \in SUBSET Nat
      OBVIOUS
    <3> HIDE DEF P
    <3> QED
      BY <2>1, <2>2, <3>1, NatSet
  <2> TAKE i \in 1 .. n
  <2>4. i - 1 \in P /\ (i - 1) + 1 = i
    <3> HIDE DEF P
    <3> QED
      BY <2>3
  <2> QED
    BY <2>4
<1>4. RunRec(w, n, f)
  <2>1. ASSUME NEW i \in 1 .. n, i # 1
        PROVE  step[<<i, f[i - 1]>>] = f[i - 1] + w[i - 1].len
    <3>1. i - 1 \in 1 .. n
      BY <2>1
    <3>2. <<i, f[i - 1]>> \in (1 .. n) \X Nat
      BY <1>3, <3>1
    <3> QED
      BY <2>1, <3>2
  <2> HIDE DEF step
  <2> QED
    BY <1>2, <2>1 DEF RunRec
<1> QED
  BY <1>3, <1>4

\* Two such sums agree as far as their extents have the same lengths.
LEMMA RunsAgree ==
    ASSUME NEW w, NEW v, NEW m \in Nat, NEW n \in Nat, m <= n,
           NEW f, RunRec(w, m, f), NEW g, RunRec(v, n, g),
           \A j \in 1 .. (m - 1) : w[j].len = v[j].len
    PROVE  \A j \in 1 .. m : f[j] = g[j]
<1> DEFINE P == {i \in Nat : i + 1 \in 1 .. m => f[i + 1] = g[i + 1]}
<1>0. \A i \in 1 .. m : i \in 1 .. n
  OBVIOUS
<1>f. \A i \in 1 .. m : f[i] = IF i = 1 THEN 0 ELSE f[i - 1] + w[i - 1].len
  BY DEF RunRec
<1>g. \A i \in 1 .. n : g[i] = IF i = 1 THEN 0 ELSE g[i - 1] + v[i - 1].len
  BY DEF RunRec
<1>1. 0 \in P
  BY <1>0, <1>f, <1>g
<1>2. ASSUME NEW i \in P
      PROVE  i + 1 \in P
  <2>1. i \in Nat /\ (i + 1 \in 1 .. m => f[i + 1] = g[i + 1])
    OBVIOUS
  <2>2. ASSUME (i + 1) + 1 \in 1 .. m
        PROVE  f[(i + 1) + 1] = g[(i + 1) + 1]
    <3>1. PICK j : j = (i + 1) + 1
      OBVIOUS
    <3>2. j \in 1 .. m /\ j # 1 /\ j - 1 = i + 1 /\ j - 1 \in 1 .. m /\ j - 1 \in 1 .. (m - 1)
      BY <2>1, <2>2, <3>1
    <3>3. f[j - 1] = g[j - 1] /\ w[j - 1].len = v[j - 1].len
      BY <2>1, <3>2
    <3>4. f[j] = f[j - 1] + w[j - 1].len /\ g[j] = g[j - 1] + v[j - 1].len
      BY <1>0, <1>f, <1>g, <3>2
    <3> QED
      BY <3>1, <3>3, <3>4
  <2> QED
    BY <2>1, <2>2
<1>3. P = Nat
  <2>1. P \in SUBSET Nat
    OBVIOUS
  <2> HIDE DEF P
  <2> QED
    BY <1>1, <1>2, <2>1, NatSet
<1> TAKE i \in 1 .. m
<1>4. i - 1 \in P /\ (i - 1) + 1 = i
  <2> HIDE DEF P
  <2> QED
    BY <1>3
<1> QED
  BY <1>4

\* One of the first n + 1 addresses is not among n.
LEMMA FreshExists ==
    ASSUME NEW S, IsFiniteSet(S)
    PROVE  \E a \in 1 .. (Cardinality(S) + 1) : a \notin S
<1>1. PICK n : n = Cardinality(S)
  OBVIOUS
<1>2. n \in Nat
  BY <1>1, FS_CardinalityType
<1>3. PICK m : m = n + 1
  OBVIOUS
<1>4. Cardinality(1 .. m) = IF 1 > m THEN 0 ELSE m - 1 + 1
  BY <1>2, <1>3, FS_Interval
<1>5. Cardinality(1 .. m) = n + 1
  BY <1>2, <1>3, <1>4
<1> SUFFICES ASSUME \A a \in 1 .. m : a \in S
             PROVE  FALSE
  BY <1>1, <1>3
<1>6. Cardinality(1 .. m) <= Cardinality(S)
  BY FS_Subset
<1> QED
  BY <1>1, <1>2, <1>5, <1>6

-----------------------------------------------------------------------------
(* Folds over a sequence.  FoldLeft is a recursion over the sets of indices, *)
(* the last index first, so what is proved of it is indexed by those sets.   *)

\* The last of a nonempty set of indices.
LEMMA LastIndex ==
    ASSUME NEW n \in Nat, NEW S \in SUBSET (1 .. n), S # {}
    PROVE  /\ Max(S) \in S /\ Max(S) \in 1 .. n /\ \A i \in S : i <= Max(S)
           /\ S \ {Max(S)} \in SUBSET (1 .. n)
<1>1. S \in SUBSET Nat /\ \A y \in S : y <= n
  OBVIOUS
<1> QED
  BY <1>1, MaxProps

\* f folds g over the indices, from b.
FoldRec(b, g, n, f) ==
    f = [S \in SUBSET (1 .. n) |->
            IF S = {} THEN b ELSE g[<<f[S \ {Max(S)}], Max(S)>>]]

\* What each step keeps: from A of a set of indices to A of one more.
FoldKeeps(A, b, g, n) ==
    /\ b \in A[{}]
    /\ \A S \in SUBSET (1 .. n) : S # {} =>
          \A x \in A[S \ {Max(S)}] : g[<<x, Max(S)>>] \in A[S]

LEMMA FoldWithin ==
    ASSUME NEW n \in Nat, NEW V, NEW A \in [SUBSET (1 .. n) -> SUBSET V],
           NEW b, NEW g, FoldKeeps(A, b, g, n)
    PROVE  \E f : FoldRec(b, g, n, f) /\ \A S \in SUBSET (1 .. n) : f[S] \in A[S]
<1> DEFINE E(m, f) == FoldRec(b, g, m, f) /\ \A S \in SUBSET (1 .. m) : f[S] \in A[S]
           P == {m \in Nat : m <= n => \E f : E(m, f)}
<1>1. 0 \in P
  <2> DEFINE f == [S \in SUBSET (1 .. 0) |-> b]
  <2>1. \A S \in SUBSET (1 .. 0) : S = {}
    OBVIOUS
  <2>2. f = [S \in SUBSET (1 .. 0) |->
               IF S = {} THEN b ELSE g[<<f[S \ {Max(S)}], Max(S)>>]]
    BY <2>1
  <2>3. \A S \in SUBSET (1 .. 0) : f[S] \in A[S]
    BY <2>1 DEF FoldKeeps
  <2>4. E(0, f)
    BY <2>2, <2>3 DEF FoldRec
  <2> HIDE DEF f
  <2> QED
    BY <2>4
<1>2. ASSUME NEW m \in P
      PROVE  m + 1 \in P
  <2>0. m \in Nat /\ (m <= n => \E f : E(m, f))
    OBVIOUS
  <2>1. ASSUME m + 1 <= n
        PROVE  \E f : E(m + 1, f)
    <3>1. PICK f : E(m, f)
      BY <2>0, <2>1
    <3>2. PICK h : h = [S \in SUBSET (1 .. (m + 1)) |->
                          IF m + 1 \in S THEN g[<<f[S \ {m + 1}], m + 1>>] ELSE f[S]]
      OBVIOUS
    <3>3. ASSUME NEW S \in SUBSET (1 .. (m + 1)), m + 1 \in S
          PROVE  /\ Max(S) = m + 1 /\ S \ {m + 1} \in SUBSET (1 .. m)
                 /\ S \in SUBSET (1 .. n)
      <4>1. Max(S) \in S /\ \A i \in S : i <= Max(S)
        BY <2>0, <3>3, LastIndex
      <4>2. Max(S) \in 1 .. (m + 1) /\ m + 1 <= Max(S)
        BY <3>3, <4>1
      <4> QED
        BY <2>0, <2>1, <4>2
    <3>4. ASSUME NEW S \in SUBSET (1 .. (m + 1)), m + 1 \notin S
          PROVE  S \in SUBSET (1 .. m)
      BY <2>0, <3>4
    <3>5. ASSUME NEW S \in SUBSET (1 .. (m + 1))
          PROVE  /\ h[S] = IF S = {} THEN b ELSE g[<<h[S \ {Max(S)}], Max(S)>>]
                 /\ h[S] \in A[S]
      <4>1. CASE m + 1 \in S
        <5>1. /\ Max(S) = m + 1 /\ S \ {m + 1} \in SUBSET (1 .. m) /\ S \in SUBSET (1 .. n)
              /\ S # {}
          BY <3>3, <4>1
        <5>2. h[S] = g[<<f[S \ {m + 1}], m + 1>>]
          BY <3>2, <4>1
        <5>3. S \ {m + 1} \in SUBSET (1 .. (m + 1)) /\ m + 1 \notin S \ {m + 1}
          OBVIOUS
        <5>4. h[S \ {m + 1}] = f[S \ {m + 1}]
          BY <3>2, <5>3
        <5>5. f[S \ {m + 1}] \in A[S \ {m + 1}]
          BY <3>1, <5>1
        <5>6. g[<<f[S \ {m + 1}], m + 1>>] \in A[S]
          BY <5>1, <5>5 DEF FoldKeeps
        <5> QED
          BY <5>1, <5>2, <5>4, <5>6
      <4>2. CASE m + 1 \notin S
        <5>1. S \in SUBSET (1 .. m) /\ h[S] = f[S]
          BY <3>2, <3>4, <4>2
        <5>2. f[S] \in A[S] /\ f[S] = IF S = {} THEN b ELSE g[<<f[S \ {Max(S)}], Max(S)>>]
          BY <3>1, <5>1 DEF FoldRec
        <5>3. S \ {Max(S)} \in SUBSET (1 .. (m + 1)) /\ m + 1 \notin S \ {Max(S)}
          BY <4>2
        <5>4. h[S \ {Max(S)}] = f[S \ {Max(S)}]
          BY <3>2, <5>3
        <5> QED
          BY <5>1, <5>2, <5>4
      <4> QED
        BY <4>1, <4>2
    <3>6. DOMAIN h = SUBSET (1 .. (m + 1)) /\ h = [S \in SUBSET (1 .. (m + 1)) |-> h[S]]
      BY <3>2
    <3>7. FoldRec(b, g, m + 1, h)
      BY <3>5, <3>6 DEF FoldRec
    <3> QED
      BY <3>5, <3>7
  <2> HIDE DEF E
  <2> QED
    BY <2>0, <2>1
<1>3. P = Nat
  <2>1. P \in SUBSET Nat
    OBVIOUS
  <2> HIDE DEF P
  <2> QED
    BY <1>1, <1>2, <2>1, NatSet
<1>4. n \in P /\ n <= n
  BY <1>3
<1> HIDE DEF E
<1>5. \E f : E(n, f)
  BY <1>4
<1> QED
  BY <1>5 DEF E

\* A property of sets of indices that one more index keeps.
LEMMA FoldStays ==
    ASSUME NEW n \in Nat, NEW A, NEW h, h[{}] \in A[{}],
           \A S \in SUBSET (1 .. n) : S # {} /\ h[S \ {Max(S)}] \in A[S \ {Max(S)}]
                => h[S] \in A[S]
    PROVE  \A S \in SUBSET (1 .. n) : h[S] \in A[S]
<1> DEFINE P == {m \in Nat : m <= n => \A S \in SUBSET (1 .. m) : h[S] \in A[S]}
<1>1. 0 \in P
  <2>1. \A S \in SUBSET (1 .. 0) : S = {}
    OBVIOUS
  <2> QED
    BY <2>1
<1>2. ASSUME NEW m \in P
      PROVE  m + 1 \in P
  <2>0. m \in Nat /\ (m <= n => \A S \in SUBSET (1 .. m) : h[S] \in A[S])
    OBVIOUS
  <2>1. ASSUME m + 1 <= n, NEW S \in SUBSET (1 .. (m + 1))
        PROVE  h[S] \in A[S]
    <3>1. CASE S = {}
      BY <3>1
    <3>2. CASE S # {}
      <4>1. /\ Max(S) \in S /\ Max(S) \in 1 .. (m + 1) /\ \A i \in S : i <= Max(S)
        BY <2>0, <3>2, LastIndex
      <4>2. S \ {Max(S)} \in SUBSET (1 .. m)
        <5> SUFFICES ASSUME NEW i \in S, i # Max(S)
                     PROVE  i \in 1 .. m
          OBVIOUS
        <5>1. i \in 1 .. (m + 1) /\ i <= Max(S) /\ Max(S) <= m + 1
          BY <4>1
        <5> QED
          BY <2>0, <4>1, <5>1
      <4>3. h[S \ {Max(S)}] \in A[S \ {Max(S)}]
        BY <2>0, <2>1, <4>2
      <4>4. S \in SUBSET (1 .. n)
        BY <2>0, <2>1
      <4> QED
        BY <3>2, <4>3, <4>4
    <3> QED
      BY <3>1, <3>2
  <2> QED
    BY <2>0, <2>1
<1>3. P = Nat
  <2>1. P \in SUBSET Nat
    OBVIOUS
  <2> HIDE DEF P
  <2> QED
    BY <1>1, <1>2, <2>1, NatSet
<1>4. n \in P /\ n <= n
  BY <1>3
<1> QED
  BY <1>4

-----------------------------------------------------------------------------
(* Sets as sequences, and sequences put one after another.                 *)

\* The members of a finite set, each at one index.
LEMMA SetToSeqProps ==
    ASSUME NEW S, IsFiniteSet(S), NEW s, s = SetToSeq(S)
    PROVE  /\ Cardinality(S) \in Nat /\ Len(s) = Cardinality(S)
           /\ s \in Seq(S) /\ DOMAIN s = 1 .. Cardinality(S)
           /\ \A i, j \in DOMAIN s : s[i] = s[j] => i = j
           /\ \A x \in S : \E i \in DOMAIN s : s[i] = x
<1>1. PICK n : n = Cardinality(S)
  OBVIOUS
<1>2. n \in Nat /\ ExistsBijection(1 .. n, S)
  BY <1>1, FS_CardinalityType
<1>3. PICK f \in [1 .. n -> S] : IsInjective(f)
  BY <1>2 DEF ExistsBijection, Bijection, Injection
<1>4. s \in [1 .. n -> S] /\ IsInjective(s)
  BY <1>1, <1>3 DEF SetToSeq
<1>5. s \in Injection(1 .. n, S)
  BY <1>4 DEF Injection
<1>6. Cardinality(1 .. n) = n /\ IsFiniteSet(1 .. n)
  <2>1. Cardinality(1 .. n) = IF 1 > n THEN 0 ELSE n - 1 + 1
    BY <1>2, FS_Interval
  <2>2. IsFiniteSet(1 .. n)
    BY <1>2, FS_Interval
  <2> QED
    BY <1>2, <2>1, <2>2
<1>7. s \in Surjection(1 .. n, S)
  BY <1>1, <1>5, <1>6, FS_Injection
<1>8. \A x \in S : \E i \in 1 .. n : s[i] = x
  BY <1>7 DEF Surjection
<1>9. s \in Seq(S) /\ Len(s) = n /\ DOMAIN s = 1 .. n
  BY <1>2, <1>4
<1>10. \A i, j \in DOMAIN s : s[i] = s[j] => i = j
  BY <1>4 DEF IsInjective
<1> QED
  BY <1>1, <1>2, <1>8, <1>9, <1>10

\* u and v say where each element of t comes from: the sequence, and the place
\* in it.  No place is used twice.
Traced(ss, m, t, u, v) ==
    /\ \A i \in 1 .. Len(t) :
         /\ u[i] \in 1 .. m /\ v[i] \in 1 .. Len(ss[u[i]])
         /\ t[i] = ss[u[i]][v[i]]
    /\ \A i, j \in 1 .. Len(t) : u[i] = u[j] /\ v[i] = v[j] => i = j

LEMMA TracedMore ==
    ASSUME NEW S, NEW ss, NEW m \in Nat, NEW t \in Seq(S), NEW u, NEW v,
           Traced(ss, m, t, u, v), ss[m + 1] \in Seq(S),
           NEW r, r = t \o ss[m + 1]
    PROVE  \E a, b : Traced(ss, m + 1, r, a, b)
<1>1. PICK s, n, l, k : s = ss[m + 1] /\ n = Len(t) /\ l = Len(s) /\ k = n + l
  OBVIOUS
<1>2. n \in Nat /\ l \in Nat /\ k \in Nat
  BY <1>1
<1>3. /\ Len(r) = k
      /\ \A i \in 1 .. k : r[i] = IF i <= n THEN t[i] ELSE s[i - n]
  BY <1>1
<1>4. PICK a : a = [i \in 1 .. k |-> IF i <= n THEN u[i] ELSE m + 1]
  OBVIOUS
<1>5. PICK b : b = [i \in 1 .. k |-> IF i <= n THEN v[i] ELSE i - n]
  OBVIOUS
<1>6. ASSUME NEW i \in 1 .. k
      PROVE  /\ a[i] \in 1 .. (m + 1) /\ b[i] \in 1 .. Len(ss[a[i]])
             /\ r[i] = ss[a[i]][b[i]]
             /\ i <= n <=> a[i] # m + 1
  <2>1. CASE i <= n
    <3>1. i \in 1 .. Len(t) /\ a[i] = u[i] /\ b[i] = v[i] /\ r[i] = t[i]
      BY <1>1, <1>2, <1>3, <1>4, <1>5, <2>1
    <3>2. u[i] \in 1 .. m /\ v[i] \in 1 .. Len(ss[u[i]]) /\ t[i] = ss[u[i]][v[i]]
      BY <3>1 DEF Traced
    <3>3. u[i] \in 1 .. (m + 1) /\ u[i] # m + 1
      BY <3>2
    <3> QED
      BY <2>1, <3>1, <3>2, <3>3
  <2>2. CASE ~(i <= n)
    <3>1. a[i] = m + 1 /\ b[i] = i - n /\ r[i] = s[i - n]
      BY <1>3, <1>4, <1>5, <2>2
    <3>2. i - n \in 1 .. l /\ m + 1 \in 1 .. (m + 1)
      BY <1>1, <1>2, <2>2
    <3> QED
      BY <1>1, <2>2, <3>1, <3>2
  <2> QED
    BY <2>1, <2>2
<1>7. ASSUME NEW i \in 1 .. k, NEW j \in 1 .. k, a[i] = a[j], b[i] = b[j]
      PROVE  i = j
  <2>1. i <= n <=> j <= n
    BY <1>6, <1>7
  <2>2. CASE i <= n
    <3>1. i \in 1 .. Len(t) /\ j \in 1 .. Len(t)
      BY <1>1, <1>2, <2>1, <2>2
    <3>2. u[i] = u[j] /\ v[i] = v[j]
      BY <1>4, <1>5, <1>7, <2>1, <2>2
    <3> QED
      BY <3>1, <3>2 DEF Traced
  <2>3. CASE ~(i <= n)
    <3>1. b[i] = i - n /\ b[j] = j - n
      BY <1>5, <2>1, <2>3
    <3>2. i - n = j - n
      BY <1>7, <3>1, Zenon
    <3>3. i \in Int /\ j \in Int
      BY <1>2
    <3> QED
      BY <1>2, <3>2, <3>3
  <2> QED
    BY <2>2, <2>3
<1>8. Traced(ss, m + 1, r, a, b)
  BY <1>3, <1>6, <1>7 DEF Traced
<1> QED
  BY <1>8

\* Every element of the whole is an element of a part, at a place of its own.
LEMMA FlattenTraced ==
    ASSUME NEW S, NEW ss \in Seq(Seq(S))
    PROVE  \E u, v : Traced(ss, Len(ss), FlattenSeq(ss), u, v)
<1>1. CASE Len(ss) = 0
  <2>1. FlattenSeq(ss) = ss
    BY <1>1 DEF FlattenSeq
  <2>2. PICK u : u = << >>
    OBVIOUS
  <2>3. Traced(ss, Len(ss), FlattenSeq(ss), u, u)
    BY <1>1, <2>1 DEF Traced
  <2> QED
    BY <2>3
<1>2. CASE Len(ss) # 0
  <2>0. PICK n : n = Len(ss)
    OBVIOUS
  <2>1. PICK f : /\ FlatRec(ss, n, f) /\ FlattenSeq(ss) = f[n]
                 /\ \A i \in 1 .. n : f[i] \in Seq(S)
    BY <1>2, <2>0, FlattenIs
  <2>2. n \in Nat /\ n \in 1 .. n /\ \A i \in 1 .. n : ss[i] \in Seq(S)
    BY <1>2, <2>0
  <2>3. \A i \in 1 .. n : f[i] = IF i = 1 THEN ss[i] ELSE f[i - 1] \o ss[i]
    BY <2>1 DEF FlatRec
  <2> DEFINE P == {i \in Nat : i + 1 \in 1 .. n => \E u, v : Traced(ss, i + 1, f[i + 1], u, v)}
  <2>4. 0 \in P
    <3>1. PICK e : e = << >>
      OBVIOUS
    <3>2. Traced(ss, 0, e, e, e) /\ e \in Seq(S)
      BY <3>1 DEF Traced
    <3>3. ASSUME 1 \in 1 .. n
          PROVE  \E u, v : Traced(ss, 1, f[1], u, v)
      <4>1. ss[1] \in Seq(S) /\ f[1] = ss[1]
        BY <2>2, <2>3, <3>3
      <4>2. f[1] = e \o ss[1]
        BY <3>1, <4>1
      <4>3. 0 + 1 = 1 /\ 0 \in Nat
        OBVIOUS
      <4>4. f[1] = e \o ss[0 + 1] /\ ss[0 + 1] \in Seq(S)
        BY <4>1, <4>2, <4>3
      <4>5. \E u, v : Traced(ss, 0 + 1, f[1], u, v)
        BY <3>2, <4>3, <4>4, TracedMore
      <4> QED
        BY <4>3, <4>5
    <3> QED
      BY <3>3
  <2>5. ASSUME NEW i \in P
        PROVE  i + 1 \in P
    <3>1. i \in Nat /\ (i + 1 \in 1 .. n => \E u, v : Traced(ss, i + 1, f[i + 1], u, v))
      OBVIOUS
    <3>2. ASSUME (i + 1) + 1 \in 1 .. n
          PROVE  \E u, v : Traced(ss, (i + 1) + 1, f[(i + 1) + 1], u, v)
      <4>1. PICK j : j = i + 1
        OBVIOUS
      <4>2. j \in Nat /\ j \in 1 .. n /\ j + 1 \in 1 .. n /\ j + 1 # 1 /\ (j + 1) - 1 = j
        BY <2>2, <3>1, <3>2, <4>1
      <4>3. PICK u, v : Traced(ss, j, f[j], u, v)
        BY <3>1, <4>1, <4>2
      <4>4. f[j + 1] = f[j] \o ss[j + 1] /\ f[j] \in Seq(S) /\ ss[j + 1] \in Seq(S)
        BY <2>1, <2>2, <2>3, <4>2
      <4>5. \E a, b : Traced(ss, j + 1, f[j + 1], a, b)
        BY <4>2, <4>3, <4>4, TracedMore
      <4> QED
        BY <4>1, <4>5
    <3> QED
      BY <3>1, <3>2
  <2>6. P = Nat
    <3>1. P \in SUBSET Nat
      OBVIOUS
    <3> HIDE DEF P
    <3> QED
      BY <2>4, <2>5, <3>1, NatSet
  <2>7. n - 1 \in P /\ (n - 1) + 1 = n
    <3> HIDE DEF P
    <3> QED
      BY <2>2, <2>6
  <2> QED
    BY <2>0, <2>1, <2>2, <2>7
<1> QED
  BY <1>1, <1>2

\* The whole is as long as its parts together.
LEMMA FlattenLength ==
    ASSUME NEW S, NEW ss \in Seq(Seq(S)), NEW w, \A i \in 1 .. Len(ss) : w[i] = Len(ss[i])
    PROVE  Len(FlattenSeq(ss)) = Total(w, 1 .. Len(ss))
<1>1. CASE Len(ss) = 0
  <2>1. FlattenSeq(ss) = ss
    BY <1>1 DEF FlattenSeq
  <2>2. 1 .. 0 = {}
    OBVIOUS
  <2>3. Total(w, {}) = 0
    BY FS_EmptySet, TotalProps
  <2> QED
    BY <1>1, <2>1, <2>2, <2>3
<1>2. CASE Len(ss) # 0
  <2>0. PICK n : n = Len(ss)
    OBVIOUS
  <2>1. PICK f : /\ FlatRec(ss, n, f) /\ FlattenSeq(ss) = f[n]
                 /\ \A i \in 1 .. n : f[i] \in Seq(S)
    BY <1>2, <2>0, FlattenIs
  <2>2. n \in Nat /\ n \in 1 .. n /\ 1 \in 1 .. n /\ \A i \in 1 .. n : ss[i] \in Seq(S)
    BY <1>2, <2>0
  <2>3. \A i \in 1 .. n : f[i] = IF i = 1 THEN ss[i] ELSE f[i - 1] \o ss[i]
    BY <2>1 DEF FlatRec
  <2>w. \A i \in 1 .. n : w[i] = Len(ss[i]) /\ w[i] \in Nat
    BY <2>0, <2>2
  <2> DEFINE P == {i \in Nat : i + 1 \in 1 .. n => Len(f[i + 1]) = Total(w, 1 .. (i + 1))}
  <2>a. ASSUME NEW i \in Nat, i + 1 \in 1 .. n
        PROVE  Total(w, 1 .. (i + 1)) = w[i + 1] + Total(w, 1 .. i)
    <3>1. PICK j, T : j = i + 1 /\ T = 1 .. i
      OBVIOUS
    <3>2. IsFiniteSet(T) /\ j \notin T /\ T \cup {j} = 1 .. j
      <4>1. IsFiniteSet(T)
        BY <3>1, FS_Interval
      <4>2. j \notin T /\ T \cup {j} = 1 .. j
        BY <3>1
      <4> QED
        BY <4>1, <4>2
    <3>3. \A y \in T \cup {j} : w[y] \in Nat
      BY <2>a, <2>2, <2>w, <3>1
    <3>4. Total(w, T \cup {j}) = w[j] + Total(w, T)
      BY <3>2, <3>3, TotalAdd
    <3> QED
      BY <3>1, <3>2, <3>4
  <2>b. ASSUME NEW i \in Nat, i + 1 \in 1 .. n
        PROVE  Total(w, 1 .. i) \in Nat
    <3>1. IsFiniteSet(1 .. i)
      BY FS_Interval
    <3>2. \A y \in 1 .. i : w[y] \in Nat
      BY <2>b, <2>2, <2>w
    <3> QED
      BY <3>1, <3>2, TotalProps
  <2>4. 0 \in P
    <3>1. 0 + 1 = 1 /\ 0 \in Nat /\ 1 .. 0 = {}
      OBVIOUS
    <3>2. Total(w, 1 .. 0) = 0
      BY <3>1, FS_EmptySet, TotalProps
    <3>3. Total(w, 1 .. (0 + 1)) = w[0 + 1] + Total(w, 1 .. 0)
      BY <2>2, <2>a, <3>1
    <3>4. f[1] = ss[1] /\ w[1] = Len(ss[1]) /\ w[1] \in Nat
      BY <2>2, <2>3, <2>w
    <3> QED
      BY <3>1, <3>2, <3>3, <3>4
  <2>5. ASSUME NEW i \in P
        PROVE  i + 1 \in P
    <3>1. i \in Nat /\ (i + 1 \in 1 .. n => Len(f[i + 1]) = Total(w, 1 .. (i + 1)))
      OBVIOUS
    <3>2. ASSUME (i + 1) + 1 \in 1 .. n
          PROVE  Len(f[(i + 1) + 1]) = Total(w, 1 .. ((i + 1) + 1))
      <4>1. PICK j : j = i + 1
        OBVIOUS
      <4>2. j \in Nat /\ j \in 1 .. n /\ j + 1 \in 1 .. n /\ j + 1 # 1 /\ (j + 1) - 1 = j
        BY <2>2, <3>1, <3>2, <4>1
      <4>3. f[j + 1] = f[j] \o ss[j + 1] /\ f[j] \in Seq(S) /\ ss[j + 1] \in Seq(S)
        BY <2>1, <2>2, <2>3, <4>2
      <4>4. Len(f[j + 1]) = Len(f[j]) + Len(ss[j + 1])
        BY <4>3
      <4>5. Len(f[j]) = Total(w, 1 .. j)
        BY <3>1, <4>1, <4>2
      <4>6. Total(w, 1 .. (j + 1)) = w[j + 1] + Total(w, 1 .. j)
        BY <2>a, <4>2
      <4>7. w[j + 1] = Len(ss[j + 1]) /\ w[j + 1] \in Nat /\ Total(w, 1 .. j) \in Nat
        BY <2>b, <2>w, <4>2
      <4>8. PICK x, y : x = w[j + 1] /\ y = Total(w, 1 .. j)
        OBVIOUS
      <4>9. x \in Nat /\ y \in Nat /\ Len(f[j + 1]) = y + x /\ Total(w, 1 .. (j + 1)) = x + y
        BY <4>4, <4>5, <4>6, <4>7, <4>8
      <4> QED
        BY <4>1, <4>9
    <3> QED
      BY <3>1, <3>2
  <2>6. P = Nat
    <3>1. P \in SUBSET Nat
      OBVIOUS
    <3> HIDE DEF P
    <3> QED
      BY <2>4, <2>5, <3>1, NatSet
  <2>7. n - 1 \in P /\ (n - 1) + 1 = n
    <3> HIDE DEF P
    <3> QED
      BY <2>2, <2>6
  <2> QED
    BY <2>0, <2>1, <2>2, <2>7
<1> QED
  BY <1>1, <1>2

\* What holds of each sequence, and of two after another, holds of the whole.
LEMMA FlattenClosed ==
    ASSUME NEW S, NEW C \in SUBSET Seq(S), << >> \in C, \A a, b \in C : a \o b \in C,
           NEW ss \in Seq(C)
    PROVE  FlattenSeq(ss) \in C
<1>1. ss \in Seq(Seq(S)) /\ Len(ss) \in Nat /\ \A i \in 1 .. Len(ss) : ss[i] \in C
  OBVIOUS
<1>2. CASE Len(ss) = 0
  <2>1. ss = << >> /\ FlattenSeq(ss) = ss
    BY <1>2 DEF FlattenSeq
  <2> QED
    BY <2>1
<1>3. CASE Len(ss) # 0
  <2>1. PICK n, f : n = Len(ss) /\ FlatRec(ss, n, f) /\ FlattenSeq(ss) = f[n]
    BY <1>1, <1>3, FlattenIs
  <2>2. n \in Nat /\ n \in 1 .. n /\ n - 1 \in Nat /\ n - 1 + 1 = n
    BY <1>1, <1>3, <2>1
  <2>3. \A i \in 1 .. n : f[i] = IF i = 1 THEN ss[i] ELSE f[i - 1] \o ss[i]
    BY <2>1 DEF FlatRec
  <2> DEFINE P == {i \in Nat : i + 1 \in 1 .. n => f[i + 1] \in C}
  <2>4. 0 \in P
    BY <1>1, <2>1, <2>2, <2>3
  <2>5. ASSUME NEW i \in P
        PROVE  i + 1 \in P
    <3> SUFFICES ASSUME i + 1 + 1 \in 1 .. n PROVE f[i + 1 + 1] \in C
      OBVIOUS
    <3>1. PICK j : j = i + 1 + 1
      OBVIOUS
    <3>2. j \in 1 .. n /\ j # 1 /\ j - 1 = i + 1 /\ i + 1 \in 1 .. n
      BY <2>2, <3>1
    <3>3. f[j - 1] \in C /\ ss[j] \in C
      BY <1>1, <2>1, <3>2
    <3>4. f[j] = f[j - 1] \o ss[j]
      BY <2>3, <3>2
    <3> QED
      BY <3>1, <3>3, <3>4
  <2>6. P = Nat
    <3>1. P \in SUBSET Nat
      OBVIOUS
    <3> HIDE DEF P
    <3> QED
      BY <2>4, <2>5, <3>1, NatSet
  <2>7. n - 1 \in P
    <3> HIDE DEF P
    <3> QED
      BY <2>2, <2>6
  <2> QED
    BY <2>1, <2>2, <2>7
<1> QED
  BY <1>2, <1>3

\* FlattenSeq leaves nothing out.
LEMMA FlattenHas ==
    ASSUME NEW S, NEW ss \in Seq(Seq(S)), NEW i \in 1 .. Len(ss), NEW j \in 1 .. Len(ss[i])
    PROVE  \E l \in 1 .. Len(FlattenSeq(ss)) : FlattenSeq(ss)[l] = ss[i][j]
<1>0. PICK x : x = ss[i][j]
  OBVIOUS
<1>1. Len(ss) \in Nat /\ Len(ss) # 0 /\ \A l \in 1 .. Len(ss) : ss[l] \in Seq(S)
  OBVIOUS
<1>2. PICK n, f : /\ n = Len(ss) /\ FlatRec(ss, n, f) /\ FlattenSeq(ss) = f[n]
                  /\ \A l \in 1 .. n : f[l] \in Seq(S)
  BY <1>1, FlattenIs
<1>3. n \in Nat /\ n \in 1 .. n /\ i \in 1 .. n
  BY <1>1, <1>2
<1>4. \A l \in 1 .. n : f[l] = IF l = 1 THEN ss[l] ELSE f[l - 1] \o ss[l]
  BY <1>2 DEF FlatRec
<1> DEFINE E(s) == \E l \in 1 .. Len(s) : s[l] = x
<1>5. \A a, b \in Seq(S) : E(a) \/ E(b) => E(a \o b)
  <2> SUFFICES ASSUME NEW a \in Seq(S), NEW b \in Seq(S), E(a) \/ E(b) PROVE E(a \o b)
    OBVIOUS
  <2>1. PICK s, p, q : s = a \o b /\ p = Len(a) /\ q = Len(b)
    OBVIOUS
  <2>2. p \in Nat /\ q \in Nat /\ Len(s) = p + q
        /\ \A l \in 1 .. (p + q) : s[l] = IF l <= p THEN a[l] ELSE b[l - p]
    BY <2>1
  <2>3. CASE E(a)
    <3>1. PICK l \in 1 .. p : a[l] = x
      BY <2>1, <2>3
    <3>2. l \in 1 .. (p + q) /\ s[l] = x
      BY <2>2, <3>1
    <3> QED
      BY <2>1, <2>2, <3>2
  <2>4. CASE E(b)
    <3>1. PICK l \in 1 .. q : b[l] = x
      BY <2>1, <2>4
    <3>2. PICK m : m = l + p
      OBVIOUS
    <3>n. p \in Nat /\ q \in Nat /\ l \in 1 .. q
      BY <2>2, <3>1
    <3>3. m \in 1 .. (p + q) /\ ~(m <= p) /\ m - p = l
      BY <3>2, <3>n
    <3>4. s[m] = b[m - p]
      BY <2>2, <3>3
    <3>5. s[m] = x
      BY <3>1, <3>3, <3>4
    <3> QED
      BY <2>1, <2>2, <3>3, <3>5
  <2> QED
    BY <2>3, <2>4
<1>6. E(ss[i])
  BY <1>0
<1> HIDE DEF E
<1> DEFINE P == {m \in Nat : i + m <= n => E(f[i + m])}
<1>7. 0 \in P
  <2>1. E(f[i])
    <3>1. CASE i = 1
      BY <1>3, <1>4, <1>6, <3>1
    <3>2. CASE i # 1
      <4>1. i - 1 \in 1 .. n
        BY <1>3, <3>2
      <4>2. f[i - 1] \in Seq(S) /\ ss[i] \in Seq(S) /\ f[i] = f[i - 1] \o ss[i]
        BY <1>1, <1>2, <1>3, <1>4, <3>2, <4>1
      <4> QED
        BY <1>5, <1>6, <4>2
    <3> QED
      BY <3>1, <3>2
  <2>2. i + 0 = i
    BY <1>3
  <2> QED
    BY <2>1, <2>2
<1>8. ASSUME NEW m \in P PROVE m + 1 \in P
  <2> SUFFICES ASSUME i + (m + 1) <= n PROVE E(f[i + (m + 1)])
    OBVIOUS
  <2>1. PICK l : l = i + m
    OBVIOUS
  <2>2. l + 1 = i + (m + 1) /\ l \in 1 .. n /\ l + 1 \in 1 .. n /\ l + 1 # 1 /\ l + 1 - 1 = l
        /\ i + m <= n
    BY <1>3, <2>1
  <2>3. E(f[l])
    BY <2>1, <2>2
  <2>4. PICK k : k = l + 1
    OBVIOUS
  <2>5. f[k] = f[k - 1] \o ss[k]
    BY <1>4, <2>2, <2>4
  <2>6. f[l] \in Seq(S)
    BY <1>2, <2>2
  <2>7. ss[k] \in Seq(S)
    BY <1>1, <1>2, <2>2, <2>4
  <2>8. E(f[k])
    BY <1>5, <2>2, <2>3, <2>4, <2>5, <2>6, <2>7
  <2> QED
    BY <2>2, <2>4, <2>8
<1>9. P = Nat
  <2>1. P \in SUBSET Nat
    OBVIOUS
  <2> HIDE DEF P
  <2> QED
    BY <1>7, <1>8, <2>1, NatSet
<1>10. PICK m : m = n - i
  OBVIOUS
<1>11. m \in Nat /\ i + m = n
  BY <1>3, <1>10
<1>12. m \in P
  <2> HIDE DEF P
  <2> QED
    BY <1>9, <1>11
<1>13. E(f[n])
  <2>1. i + m <= n => E(f[i + m])
    BY <1>12
  <2> HIDE DEF P
  <2>2. n <= n
    BY <1>3
  <2>3. PICK k : k = i + m
    OBVIOUS
  <2>4. E(f[k])
    BY <1>11, <2>1, <2>2, <2>3
  <2> QED
    BY <1>11, <2>3, <2>4
<1> QED
  BY <1>0, <1>2, <1>13 DEF E

\* What is left of a sequence without repetitions.
LEMMA TailRange ==
    ASSUME NEW S, NEW s \in Seq(S), s # << >>, \A i, j \in DOMAIN s : s[i] = s[j] => i = j
    PROVE  Head(s) \in Range(s) /\ Range(Tail(s)) = Range(s) \ {Head(s)}
<1>1. PICK n, z, e : n = Len(s) /\ z = Tail(s) /\ e = Head(s)
  OBVIOUS
<1>2. n \in Nat \ {0} /\ DOMAIN s = 1 .. n /\ e = s[1]
  BY <1>1, EmptySeq
<1>3. z \in Seq(S) /\ DOMAIN z = 1 .. (n - 1) /\ \A i \in 1 .. (n - 1) : z[i] = s[i + 1]
  BY <1>1, <1>2
<1>4. ASSUME NEW d \in Range(z)
      PROVE  d \in Range(s) /\ d # e
  <2>1. PICK i \in 1 .. (n - 1) : d = s[i + 1]
    BY <1>3 DEF Range
  <2>2. i + 1 \in DOMAIN s /\ i + 1 # 1 /\ 1 \in DOMAIN s
    BY <1>2
  <2> QED
    BY <1>2, <2>1, <2>2 DEF Range
<1>5. ASSUME NEW d \in Range(s), d # e
      PROVE  d \in Range(z)
  <2>1. PICK i \in DOMAIN s : d = s[i]
    BY DEF Range
  <2>2. PICK m : m = i - 1
    OBVIOUS
  <2>3. m \in 1 .. (n - 1) /\ m + 1 = i
    BY <1>2, <1>5, <2>1, <2>2
  <2>4. z[m] = d /\ m \in DOMAIN z
    BY <1>3, <2>1, <2>3
  <2> QED
    BY <2>4 DEF Range
<1>6. e \in Range(s)
  BY <1>2 DEF Range
<1> QED
  BY <1>1, <1>4, <1>5, <1>6

-----------------------------------------------------------------------------
(* Sequences.                                                              *)

\* What removing an element does to the others (the memmove of alloc.c that
\* closes the gap in the hole array).
LEMMA RemoveAtProps ==
    ASSUME NEW S, NEW s \in Seq(S), NEW i \in 1 .. Len(s)
    PROVE  /\ RemoveAt(s, i) \in Seq(S)
           /\ Len(RemoveAt(s, i)) = Len(s) - 1
           /\ \A j \in 1 .. (Len(s) - 1) :
                RemoveAt(s, i)[j] = IF j < i THEN s[j] ELSE s[j + 1]
<1> DEFINE a == SubSeq(s, 1, i - 1)
           b == SubSeq(s, i + 1, Len(s))
<1>1. a \in Seq(S) /\ Len(a) = i - 1 /\ \A j \in 1 .. (i - 1) : a[j] = s[j]
  BY SubSeqProperties
<1>2. b \in Seq(S) /\ Len(b) = Len(s) - i
         /\ \A j \in 1 .. (Len(s) - i) : b[j] = s[i + j]
  BY SubSeqProperties
<1> HIDE DEF a, b
<1>3. /\ a \o b \in Seq(S)
      /\ Len(a \o b) = Len(a) + Len(b)
      /\ \A j \in 1 .. (Len(a) + Len(b)) :
           (a \o b)[j] = IF j <= Len(a) THEN a[j] ELSE b[j - Len(a)]
  BY <1>1, <1>2, ConcatProperties
<1>4. Len(a \o b) = Len(s) - 1
  BY <1>1, <1>2, <1>3
<1>5. ASSUME NEW j \in 1 .. (Len(s) - 1)
      PROVE  (a \o b)[j] = IF j < i THEN s[j] ELSE s[j + 1]
  <2>1. CASE j < i
    BY <2>1, <1>1, <1>2, <1>3
  <2>2. CASE ~(j < i)
    <3>1. (a \o b)[j] = b[j - (i - 1)]
      BY <2>2, <1>1, <1>2, <1>3
    <3>2. j - (i - 1) \in 1 .. (Len(s) - i) /\ i + (j - (i - 1)) = j + 1
      BY <2>2
    <3> QED
      BY <2>2, <3>1, <3>2, <1>2
  <2> QED
    BY <2>1, <2>2
<1> QED
  BY <1>3, <1>4, <1>5 DEF RemoveAt, a, b

\* What inserting an element does to the others (the memmove that opens a
\* slot in the hole array).
LEMMA InsertAtProps ==
    ASSUME NEW S, NEW s \in Seq(S), NEW i \in 1 .. (Len(s) + 1), NEW e \in S
    PROVE  /\ InsertAt(s, i, e) \in Seq(S)
           /\ Len(InsertAt(s, i, e)) = Len(s) + 1
           /\ \A j \in 1 .. (Len(s) + 1) :
                InsertAt(s, i, e)[j] = IF j < i THEN s[j]
                                       ELSE IF j = i THEN e ELSE s[j - 1]
<1> DEFINE a == SubSeq(s, 1, i - 1)
           b == SubSeq(s, i, Len(s))
<1>1. a \in Seq(S) /\ Len(a) = i - 1 /\ \A j \in 1 .. (i - 1) : a[j] = s[j]
  BY SubSeqProperties
<1>2. b \in Seq(S) /\ Len(b) = Len(s) - i + 1
         /\ \A j \in 1 .. (Len(s) - i + 1) : b[j] = s[i + j - 1]
  BY SubSeqProperties
<1> HIDE DEF a, b
<1>3. a \o <<e>> \in Seq(S) /\ Len(a \o <<e>>) = i
         /\ (\A j \in 1 .. (i - 1) : (a \o <<e>>)[j] = s[j])
         /\ (a \o <<e>>)[i] = e
  BY <1>1, ConcatProperties
<1> DEFINE c == a \o <<e>>
<1>4. c \in Seq(S) /\ Len(c) = i /\ c[i] = e
         /\ \A j \in 1 .. (i - 1) : c[j] = s[j]
  BY <1>3
<1> HIDE DEF c
<1>5. /\ c \o b \in Seq(S)
      /\ Len(c \o b) = Len(c) + Len(b)
      /\ \A j \in 1 .. (Len(c) + Len(b)) :
           (c \o b)[j] = IF j <= Len(c) THEN c[j] ELSE b[j - Len(c)]
  BY <1>2, <1>4, ConcatProperties
<1>6. Len(c \o b) = Len(s) + 1
  BY <1>2, <1>4, <1>5
<1>7. ASSUME NEW j \in 1 .. (Len(s) + 1)
      PROVE  (c \o b)[j] = IF j < i THEN s[j]
                           ELSE IF j = i THEN e ELSE s[j - 1]
  <2>1. CASE j <= i
    <3>1. (c \o b)[j] = c[j]
      BY <2>1, <1>2, <1>4, <1>5
    <3> QED
      BY <2>1, <3>1, <1>4
  <2>2. CASE j > i
    <3>1. (c \o b)[j] = b[j - i]
      BY <2>2, <1>2, <1>4, <1>5
    <3>2. j - i \in 1 .. (Len(s) - i + 1) /\ i + (j - i) - 1 = j - 1
      BY <2>2
    <3> QED
      BY <2>2, <3>1, <3>2, <1>2
  <2>3. i \in Int /\ j \in Int
    OBVIOUS
  <2>4. j <= i \/ j > i
    BY <2>3
  <2> QED
    BY <2>1, <2>2, <2>4
<1> QED
  BY <1>5, <1>6, <1>7 DEF InsertAt, a, b, c

\* Replacing an element in place keeps the length and the other elements.
LEMMA ReplaceProps ==
    ASSUME NEW S, NEW s \in Seq(S), NEW i \in 1 .. Len(s), NEW e \in S
    PROVE  /\ [s EXCEPT ![i] = e] \in Seq(S)
           /\ Len([s EXCEPT ![i] = e]) = Len(s)
           /\ \A j \in 1 .. Len(s) :
                [s EXCEPT ![i] = e][j] = IF j = i THEN e ELSE s[j]
  BY ExceptSeq

-----------------------------------------------------------------------------
(* Free lists, byte by byte.                                               *)

In(b, e) == e.foff <= b /\ b < e.foff + e.len
InHole(b, f) == \E i \in DOMAIN f : In(b, f[i])

Separated(f) == \A i, j \in DOMAIN f : i < j => End(f[i]) < f[j].foff

\* All holes are separated except that hole k may touch its right neighbour:
\* the free list between fl_insert's two merges.
SeparatedBut(f, k) ==
    \A i, j \in DOMAIN f : i < j =>
        /\ End(f[i]) <= f[j].foff
        /\ i # k => End(f[i]) < f[j].foff

OffList(e, f) == \A b \in Int : ~(In(b, e) /\ InHole(b, f))

\* The fields of a hole are naturals and a hole is not empty.
LEMMA HoleFields ==
    ASSUME NEW f \in Seq(Extent)
    PROVE  /\ Len(f) \in Nat
           /\ DOMAIN f = 1 .. Len(f)
           /\ \A i \in 1 .. Len(f) :
                /\ f[i] \in Extent
                /\ f[i].foff \in Nat
                /\ f[i].len \in Nat
                /\ f[i].len > 0
<1>1. ASSUME NEW e \in Extent
      PROVE  e.foff \in Nat /\ e.len \in Nat /\ e.len > 0
  BY DEF Extent
<1>2. \A i \in 1 .. Len(f) : f[i] \in Extent
  OBVIOUS
<1> QED
  BY <1>1, <1>2

\* fl_insert's scan stops at the first hole that does not start below foff.
LEMMA InsertPosProps ==
    ASSUME NEW f \in Seq(Extent), NEW foff \in Nat
    PROVE  LET p == InsertPos(f, foff)
           IN  /\ p \in 1 .. (Len(f) + 1)
               /\ \A i \in 1 .. (p - 1) : f[i].foff < foff
               /\ p <= Len(f) => f[p].foff >= foff
<1> DEFINE S == {i \in 1 .. (Len(f) + 1) : i = Len(f) + 1 \/ f[i].foff >= foff}
           p == InsertPos(f, foff)
<1>1. S \in SUBSET Nat /\ Len(f) + 1 \in S
  OBVIOUS
<1>2. p \in S /\ \A y \in S : p <= y
  BY <1>1, MinProps DEF InsertPos
<1>3. ASSUME NEW i \in 1 .. (p - 1)
      PROVE  f[i].foff < foff
  <2>1. i \in 1 .. Len(f) /\ i < p
    BY <1>2
  <2>2. i \notin S
    BY <1>2, <2>1
  <2>3. f[i] \in Extent
    BY <2>1
  <2> QED
    BY <2>1, <2>2, <2>3 DEF Extent
<1> QED
  BY <1>2, <1>3

\* An extent that shares no byte with the holes lies between the two the scan
\* stopped at.
LEMMA InsertPosSplits ==
    ASSUME NEW f \in Seq(Extent), NEW e \in Extent, Separated(f), OffList(e, f)
    PROVE  LET p == InsertPos(f, e.foff)
           IN  /\ \A i \in 1 .. (p - 1) : End(f[i]) <= e.foff
               /\ \A i \in p .. Len(f) : End(e) <= f[i].foff
<1> DEFINE p == InsertPos(f, e.foff)
<1>0. e.foff \in Nat /\ e.len \in Nat /\ e.len > 0
  BY DEF Extent
<1>1. /\ p \in 1 .. (Len(f) + 1)
      /\ \A i \in 1 .. (p - 1) : f[i].foff < e.foff
      /\ p <= Len(f) => f[p].foff >= e.foff
  BY <1>0, InsertPosProps
<1> HIDE DEF p
<1>2. /\ Len(f) \in Nat
      /\ DOMAIN f = 1 .. Len(f)
      /\ \A i \in 1 .. Len(f) :
            f[i].foff \in Nat /\ f[i].len \in Nat /\ f[i].len > 0
  BY HoleFields
<1>3. ASSUME NEW i \in 1 .. (p - 1)
      PROVE  End(f[i]) <= e.foff
  <2>1. i \in 1 .. Len(f) /\ f[i].foff < e.foff
    BY <1>1
  <2>2. In(e.foff, e)
    BY <1>0 DEF In
  <2>3. ~In(e.foff, f[i])
    BY <1>0, <2>1, <2>2 DEF OffList, InHole
  <2> QED
    BY <1>0, <1>2, <2>1, <2>3 DEF In, End
<1>4. ASSUME NEW i \in p .. Len(f)
      PROVE  End(e) <= f[i].foff
  <2>1. i \in 1 .. Len(f) /\ p \in 1 .. Len(f)
    BY <1>1
  <2>2. f[i].foff >= e.foff
    <3>1. CASE i = p
      BY <3>1, <1>1, <2>1
    <3>2. CASE i > p
      <4>1. End(f[p]) < f[i].foff
        BY <3>2, <1>2, <2>1 DEF Separated
      <4> QED
        BY <4>1, <1>0, <1>1, <1>2, <2>1 DEF End
    <3> QED
      BY <3>1, <3>2, <2>1
  <2>3. In(f[i].foff, f[i])
    BY <1>2, <2>1 DEF In
  <2>4. ~In(f[i].foff, e)
    BY <1>2, <2>1, <2>3 DEF OffList, InHole
  <2> QED
    BY <1>0, <1>2, <2>1, <2>2, <2>4 DEF In, End
<1> QED
  BY <1>3, <1>4 DEF p

\* Placing the extent, or growing the left neighbour by it, leaves a list in
\* which only the place of the change may touch its right neighbour, and that
\* covers exactly the bytes of the old holes and of the extent.
LEMMA InsertOrMergeLeftProps ==
    ASSUME NEW f \in Seq(Extent), NEW e \in Extent, Separated(f), OffList(e, f),
           NEW p, p = InsertPos(f, e.foff),
           NEW k, k = (IF MergesLeft(f, p, e.foff) THEN p - 1 ELSE p),
           NEW g, g = InsertOrMergeLeft(f, p, e)
    PROVE  /\ g \in Seq(Extent)
           /\ k \in 1 .. Len(g)
           /\ SeparatedBut(g, k)
           /\ \A b \in Int : InHole(b, g) <=> InHole(b, f) \/ In(b, e)
<1>0. e.foff \in Nat /\ e.len \in Nat /\ e.len > 0
  BY DEF Extent
<1>1. /\ Len(f) \in Nat
      /\ DOMAIN f = 1 .. Len(f)
      /\ \A i \in 1 .. Len(f) :
            f[i].foff \in Nat /\ f[i].len \in Nat /\ f[i].len > 0
  BY HoleFields
<1>2. p \in 1 .. (Len(f) + 1)
  BY <1>0, InsertPosProps
<1>3. /\ \A i \in 1 .. (p - 1) : f[i].foff + f[i].len <= e.foff
      /\ \A i \in p .. Len(f) : e.foff + e.len <= f[i].foff
  BY InsertPosSplits DEF End
<1>6. \A i, j \in 1 .. Len(f) : i < j => f[i].foff + f[i].len < f[j].foff
  BY <1>1 DEF Separated, End
<1>7. p \in Int
  BY <1>2
<1>4. CASE MergesLeft(f, p, e.foff)
  <2>1. /\ p - 1 \in 1 .. Len(f)
        /\ f[p - 1].foff + f[p - 1].len = e.foff
        /\ k = p - 1
    BY <1>2, <1>4 DEF MergesLeft, End
  <2> DEFINE m == [foff |-> f[p - 1].foff, len |-> f[p - 1].len + e.len]
  <2>2. m \in Extent
    BY <1>0, <1>1, <2>1 DEF Extent
  <2>3. g = [f EXCEPT ![p - 1] = m]
    BY <1>4 DEF InsertOrMergeLeft
  <2>4. /\ g \in Seq(Extent)
        /\ Len(g) = Len(f)
        /\ \A j \in 1 .. Len(f) : g[j] = IF j = k THEN m ELSE f[j]
    BY <2>1, <2>2, <2>3, ReplaceProps
  <2>5. m.foff = f[k].foff /\ m.len = f[k].len + e.len
    BY <2>1
  <2> HIDE DEF m
  <2>6. DOMAIN g = 1 .. Len(f)
    BY <2>4
  <2>7. SeparatedBut(g, k)
    <3> SUFFICES ASSUME NEW i \in 1 .. Len(f), NEW j \in 1 .. Len(f), i < j
                 PROVE  /\ End(g[i]) <= g[j].foff
                        /\ i # k => End(g[i]) < g[j].foff
      BY <2>6 DEF SeparatedBut
    <3>1. f[i].foff + f[i].len < f[j].foff
      BY <1>6
    <3>2. g[j].foff = f[j].foff
      BY <2>4, <2>5
    <3>3. CASE i = k
      <4>1. j \in p .. Len(f)
        BY <3>3, <2>1, <1>2
      <4>2. e.foff + e.len <= f[j].foff
        BY <4>1, <1>3
      <4>3. g[i].foff + g[i].len = e.foff + e.len
        BY <3>3, <2>1, <2>4, <2>5, <1>0, <1>1
      <4> QED
        BY <3>3, <3>2, <4>2, <4>3 DEF End
    <3>4. CASE i # k
      BY <3>4, <3>1, <3>2, <2>4, <1>1 DEF End
    <3> QED
      BY <3>3, <3>4
  <2>8. ASSUME NEW b \in Int
        PROVE  InHole(b, g) <=> InHole(b, f) \/ In(b, e)
    <3>0. /\ f[k].foff \in Nat /\ f[k].len \in Nat
          /\ f[k].foff + f[k].len = e.foff
          /\ g[k].foff = f[k].foff /\ g[k].len = f[k].len + e.len
      BY <1>1, <2>1, <2>4, <2>5
    <3>3. In(b, g[k]) <=> f[k].foff <= b /\ b < f[k].foff + (f[k].len + e.len)
      BY <3>0 DEF In
    <3>4. In(b, e) <=> f[k].foff + f[k].len <= b /\ b < f[k].foff + f[k].len + e.len
      BY <3>0 DEF In
    <3>5. In(b, f[k]) <=> f[k].foff <= b /\ b < f[k].foff + f[k].len
      BY DEF In
    <3>1. In(b, g[k]) <=> In(b, f[k]) \/ In(b, e)
      BY <1>0, <3>0, <3>3, <3>4, <3>5
    <3>2. \A j \in 1 .. Len(f) : j # k => (In(b, g[j]) <=> In(b, f[j]))
      BY <2>4
    <3> QED
      BY <3>1, <3>2, <2>1, <2>6, <1>1 DEF InHole
  <2> QED
    BY <2>1, <2>4, <2>7, <2>8
<1>5. CASE ~MergesLeft(f, p, e.foff)
  <2>1. k = p /\ g = InsertAt(f, p, e)
    BY <1>5 DEF InsertOrMergeLeft
  <2>2. /\ g \in Seq(Extent)
        /\ Len(g) = Len(f) + 1
        /\ \A j \in 1 .. (Len(f) + 1) :
             g[j] = IF j < p THEN f[j] ELSE IF j = p THEN e ELSE f[j - 1]
    <3>1. /\ InsertAt(f, p, e) \in Seq(Extent)
          /\ Len(InsertAt(f, p, e)) = Len(f) + 1
          /\ \A j \in 1 .. (Len(f) + 1) :
               InsertAt(f, p, e)[j] = IF j < p THEN f[j]
                                      ELSE IF j = p THEN e ELSE f[j - 1]
      BY <1>2, InsertAtProps
    <3> QED
      BY <3>1, <2>1, Zenon
  <2>3. DOMAIN g = 1 .. (Len(f) + 1)
    BY <2>2
  <2>4. \A i \in 1 .. (p - 1) : f[i].foff + f[i].len < e.foff
    <3> SUFFICES ASSUME NEW i \in 1 .. (p - 1)
                 PROVE  f[i].foff + f[i].len < e.foff
      OBVIOUS
    <3>0. i \in 1 .. Len(f) /\ f[i].foff + f[i].len <= e.foff
      BY <1>2, <1>3
    <3>1. CASE i = p - 1
      <4>1. ~(f[i].foff + f[i].len = e.foff)
        BY <3>1, <1>2, <1>5 DEF MergesLeft, End
      <4>2. f[i].foff \in Nat /\ f[i].len \in Nat
        BY <3>0, <1>1
      <4> QED
        BY <3>0, <4>1, <4>2, <1>0
    <3>2. CASE i < p - 1
      <4>0. p - 1 \in 1 .. Len(f) /\ p - 1 \in 1 .. (p - 1)
        BY <3>2, <1>2
      <4>1. f[i].foff + f[i].len < f[p - 1].foff
        BY <3>0, <3>2, <4>0, <1>6
      <4>2. f[p - 1].foff + f[p - 1].len <= e.foff
        BY <4>0, <1>3
      <4>3. /\ f[i].foff \in Nat /\ f[i].len \in Nat
            /\ f[p - 1].foff \in Nat /\ f[p - 1].len \in Nat /\ f[p - 1].len > 0
        BY <3>0, <4>0, <1>1
      <4>4. f[p - 1].foff < e.foff
        BY <4>2, <4>3, <1>0
      <4> QED
        BY <4>1, <4>3, <4>4, <1>0
    <3> QED
      BY <3>1, <3>2, <1>2
  <2>5. SeparatedBut(g, k)
    <3> SUFFICES ASSUME NEW i \in 1 .. (Len(f) + 1), NEW j \in 1 .. (Len(f) + 1),
                        i < j
                 PROVE  /\ End(g[i]) <= g[j].foff
                        /\ i # k => End(g[i]) < g[j].foff
      BY <2>3 DEF SeparatedBut
    <3>0. i \in Int /\ j \in Int
      OBVIOUS
    <3>1. CASE i < p /\ j < p
      <4>1. /\ i \in 1 .. Len(f) /\ j \in 1 .. Len(f)
            /\ g[i] = f[i] /\ g[j] = f[j]
        BY <3>1, <1>2, <2>2
      <4> QED
        BY <4>1, <1>1, <1>6 DEF End
    <3>2. CASE i < p /\ j = p
      <4>1. i \in 1 .. (p - 1) /\ i \in 1 .. Len(f) /\ g[i] = f[i] /\ g[j] = e
        BY <3>2, <1>2, <2>2
      <4> QED
        BY <4>1, <1>0, <1>1, <2>4 DEF End
    <3>3. CASE i < p /\ j > p
      <4>1. /\ i \in 1 .. Len(f) /\ j - 1 \in 1 .. Len(f) /\ i < j - 1
            /\ g[i] = f[i] /\ g[j] = f[j - 1]
        BY <3>3, <1>2, <2>2
      <4> QED
        BY <4>1, <1>1, <1>6 DEF End
    <3>4. CASE i = p
      <4>1. j - 1 \in p .. Len(f) /\ j > p /\ g[i] = e /\ g[j] = f[j - 1]
        BY <3>4, <1>2, <2>2
      <4> QED
        BY <3>4, <4>1, <1>3, <2>1 DEF End
    <3>5. CASE i > p
      <4>1. /\ i - 1 \in 1 .. Len(f) /\ j - 1 \in 1 .. Len(f) /\ i - 1 < j - 1
            /\ g[i] = f[i - 1] /\ g[j] = f[j - 1]
        BY <3>5, <1>2, <2>2
      <4> QED
        BY <4>1, <1>1, <1>6 DEF End
    <3> QED
      BY <3>0, <3>1, <3>2, <3>3, <3>4, <3>5, <1>7
  <2>6. ASSUME NEW b \in Int
        PROVE  InHole(b, g) <=> InHole(b, f) \/ In(b, e)
    <3>1. ASSUME InHole(b, g)
          PROVE  InHole(b, f) \/ In(b, e)
      <4>1. PICK j \in 1 .. (Len(f) + 1) : In(b, g[j])
        BY <3>1, <2>3 DEF InHole
      <4>2. CASE j < p
        <5>1. j \in 1 .. Len(f) /\ g[j] = f[j]
          BY <4>2, <1>2, <2>2
        <5> QED
          BY <4>1, <5>1, <1>1 DEF InHole
      <4>3. CASE j = p
        BY <4>1, <4>3, <2>2
      <4>4. CASE j > p
        <5>1. j - 1 \in 1 .. Len(f) /\ g[j] = f[j - 1]
          BY <4>4, <1>2, <2>2
        <5> QED
          BY <4>1, <5>1, <1>1 DEF InHole
      <4> QED
        BY <4>2, <4>3, <4>4, <1>2
    <3>2. ASSUME InHole(b, f)
          PROVE  InHole(b, g)
      <4>1. PICK j \in 1 .. Len(f) : In(b, f[j])
        BY <3>2, <1>1 DEF InHole
      <4>2. CASE j < p
        BY <4>1, <4>2, <2>2, <2>3 DEF InHole
      <4>3. CASE j >= p
        <5>1. j + 1 \in 1 .. (Len(f) + 1) /\ g[j + 1] = f[j]
          BY <4>3, <1>2, <2>2
        <5> QED
          BY <4>1, <5>1, <2>3 DEF InHole
      <4> QED
        BY <4>2, <4>3, <1>2
    <3>3. ASSUME In(b, e)
          PROVE  InHole(b, g)
      BY <3>3, <1>2, <2>2, <2>3 DEF InHole
    <3> QED
      BY <3>1, <3>2, <3>3
  <2> QED
    BY <1>2, <2>1, <2>2, <2>5, <2>6
<1> QED
  BY <1>4, <1>5

\* Absorbing the right neighbour when hole k touches it separates the list
\* again and covers the same bytes.
LEMMA MergeRightProps ==
    ASSUME NEW g \in Seq(Extent), NEW k \in 1 .. Len(g), SeparatedBut(g, k),
           NEW h, h = MergeRight(g, k)
    PROVE  /\ h \in Seq(Extent)
           /\ Separated(h)
           /\ \A b \in Int : InHole(b, h) <=> InHole(b, g)
<1>1. /\ Len(g) \in Nat
      /\ DOMAIN g = 1 .. Len(g)
      /\ \A i \in 1 .. Len(g) :
            g[i].foff \in Nat /\ g[i].len \in Nat /\ g[i].len > 0
  BY HoleFields
<1>2. \A i, j \in 1 .. Len(g) : i < j =>
         /\ g[i].foff + g[i].len <= g[j].foff
         /\ i # k => g[i].foff + g[i].len < g[j].foff
  BY <1>1 DEF SeparatedBut, End
<1>3. CASE ~(k < Len(g) /\ End(g[k]) = g[k + 1].foff)
  <2>1. h = g
    BY <1>3 DEF MergeRight
  <2>2. ASSUME NEW i \in 1 .. Len(g), NEW j \in 1 .. Len(g), i < j
        PROVE  g[i].foff + g[i].len < g[j].foff
    <3>1. CASE i # k
      BY <3>1, <2>2, <1>2
    <3>2. CASE i = k
      <4>1. k + 1 \in 1 .. Len(g) /\ k < Len(g) /\ (j = k + 1 \/ k + 1 < j)
        BY <3>2, <2>2
      <4>2. g[k].foff + g[k].len <= g[k + 1].foff
        BY <4>1, <1>2
      <4>3. g[k].foff + g[k].len # g[k + 1].foff
        BY <4>1, <1>3 DEF End
      <4>4. g[k].foff \in Nat /\ g[k].len \in Nat /\ g[k + 1].foff \in Nat
              /\ g[k + 1].len \in Nat /\ g[j].foff \in Nat
        BY <4>1, <1>1
      <4>5. g[k].foff + g[k].len < g[k + 1].foff
        BY <4>2, <4>3, <4>4
      <4>6. CASE j = k + 1
        BY <4>5, <4>6, <3>2
      <4>7. CASE k + 1 < j
        <5>1. g[k + 1].foff + g[k + 1].len <= g[j].foff
          BY <4>1, <4>7, <1>2
        <5> QED
          BY <5>1, <4>4, <4>5, <3>2
      <4> QED
        BY <4>1, <4>6, <4>7
    <3> QED
      BY <3>1, <3>2
  <2> QED
    BY <2>1, <2>2, <1>1 DEF Separated, End
<1>4. CASE k < Len(g) /\ End(g[k]) = g[k + 1].foff
  <2>1. k \in 1 .. Len(g) /\ k + 1 \in 1 .. Len(g) /\ k \in Int
          /\ g[k].foff + g[k].len = g[k + 1].foff
    BY <1>4 DEF End
  <2> DEFINE m == [foff |-> g[k].foff, len |-> g[k].len + g[k + 1].len]
             q == [g EXCEPT ![k] = m]
  <2>2. m \in Extent
    BY <2>1, <1>1 DEF Extent
  <2>3. h = RemoveAt(q, k + 1)
    BY <1>4 DEF MergeRight
  <2>4. q \in Seq(Extent) /\ Len(q) = Len(g)
          /\ \A j \in 1 .. Len(g) : q[j] = IF j = k THEN m ELSE g[j]
    BY <2>1, <2>2, ReplaceProps
  <2>5. m.foff = g[k].foff /\ m.len = g[k].len + g[k + 1].len
    OBVIOUS
  <2> HIDE DEF m, q
  <2>6. /\ h \in Seq(Extent)
        /\ Len(h) = Len(g) - 1
        /\ \A j \in 1 .. (Len(g) - 1) :
             h[j] = IF j < k + 1 THEN q[j] ELSE q[j + 1]
    <3>1. k + 1 \in 1 .. Len(q)
      BY <2>1, <2>4
    <3>2. /\ RemoveAt(q, k + 1) \in Seq(Extent)
          /\ Len(RemoveAt(q, k + 1)) = Len(q) - 1
          /\ \A j \in 1 .. (Len(q) - 1) :
               RemoveAt(q, k + 1)[j] = IF j < k + 1 THEN q[j] ELSE q[j + 1]
      BY <3>1, <2>4, RemoveAtProps
    <3> QED
      BY <3>2, <2>3, <2>4, Zenon
  <2>7. /\ \A j \in 1 .. (Len(g) - 1) : j < k => h[j] = g[j]
        /\ h[k] = m
        /\ \A j \in 1 .. (Len(g) - 1) : j > k => h[j] = g[j + 1]
    BY <2>1, <2>4, <2>6, <1>1
  <2>8. DOMAIN h = 1 .. (Len(g) - 1) /\ k \in 1 .. (Len(g) - 1)
    BY <2>1, <2>6, <1>1
  <2>9. ASSUME NEW i \in 1 .. (Len(g) - 1), NEW j \in 1 .. (Len(g) - 1), i < j
        PROVE  h[i].foff + h[i].len < h[j].foff
    <3>0. /\ i \in 1 .. Len(g) /\ j \in 1 .. Len(g) /\ j + 1 \in 1 .. Len(g)
          /\ i + 1 \in 1 .. Len(g) /\ i \in Int /\ j \in Int
      BY <1>1
    <3>1. CASE j < k
      <4>1. h[i] = g[i] /\ h[j] = g[j] /\ i # k
        BY <3>0, <3>1, <2>1, <2>7, <2>9
      <4> QED
        BY <3>0, <4>1, <2>9, <1>2
    <3>2. CASE j = k
      <4>1. h[i] = g[i] /\ h[j].foff = g[k].foff /\ i # k /\ i < k
        BY <3>0, <3>2, <2>1, <2>5, <2>7, <2>9
      <4> QED
        BY <3>0, <4>1, <2>1, <1>2
    <3>3. CASE i < k /\ k < j
      <4>1. h[i] = g[i] /\ h[j] = g[j + 1] /\ i < j + 1 /\ i # k
        BY <3>0, <3>3, <2>1, <2>7
      <4> QED
        BY <3>0, <4>1, <1>2
    <3>4. CASE i = k
      <4>1. h[i] = m /\ h[j] = g[j + 1] /\ k + 1 < j + 1 /\ k + 1 # k
        BY <3>0, <3>4, <2>1, <2>7, <2>9
      <4>2. g[k + 1].foff + g[k + 1].len < g[j + 1].foff
        BY <3>0, <4>1, <2>1, <1>2
      <4>3. /\ g[k].foff \in Nat /\ g[k].len \in Nat
            /\ g[k + 1].foff \in Nat /\ g[k + 1].len \in Nat
            /\ g[j + 1].foff \in Nat
        BY <3>0, <2>1, <1>1
      <4>4. h[i].foff + h[i].len = g[k + 1].foff + g[k + 1].len
        BY <4>1, <4>3, <2>1, <2>5
      <4> QED
        BY <4>1, <4>2, <4>4
    <3>5. CASE k < i
      <4>1. h[i] = g[i + 1] /\ h[j] = g[j + 1] /\ i + 1 < j + 1 /\ i + 1 # k
        BY <3>0, <3>5, <2>1, <2>7, <2>9
      <4> QED
        BY <3>0, <4>1, <1>2
    <3> QED
      BY <3>0, <3>1, <3>2, <3>3, <3>4, <3>5, <2>1
  <2>10. ASSUME NEW b \in Int
         PROVE  InHole(b, h) <=> InHole(b, g)
    <3>1. In(b, m) <=> In(b, g[k]) \/ In(b, g[k + 1])
      <4>1. /\ g[k].foff \in Nat /\ g[k].len \in Nat
            /\ g[k + 1].foff = g[k].foff + g[k].len /\ g[k + 1].len \in Nat
        BY <2>1, <1>1
      <4>2. In(b, m) <=> g[k].foff <= b /\ b < g[k].foff + (g[k].len + g[k + 1].len)
        BY <2>5 DEF In
      <4>3. In(b, g[k + 1]) <=> /\ g[k].foff + g[k].len <= b
                                /\ b < g[k].foff + g[k].len + g[k + 1].len
        BY <4>1 DEF In
      <4>4. In(b, g[k]) <=> g[k].foff <= b /\ b < g[k].foff + g[k].len
        BY DEF In
      <4> QED
        BY <4>1, <4>2, <4>3, <4>4
    <3>2. ASSUME InHole(b, h)
          PROVE  InHole(b, g)
      <4>1. PICK j \in 1 .. (Len(g) - 1) : In(b, h[j])
        BY <3>2, <2>8 DEF InHole
      <4>2. j \in 1 .. Len(g) /\ j + 1 \in 1 .. Len(g) /\ j \in Int
        BY <1>1
      <4>3. h[j] = g[j] \/ h[j] = g[j + 1] \/ h[j] = m
        BY <4>2, <2>1, <2>7
      <4> QED
        BY <4>1, <4>2, <4>3, <3>1, <2>1, <1>1 DEF InHole
    <3>3. ASSUME InHole(b, g)
          PROVE  InHole(b, h)
      <4>1. PICK j \in 1 .. Len(g) : In(b, g[j])
        BY <3>3, <1>1 DEF InHole
      <4>2. CASE j < k
        <5>1. j \in DOMAIN h /\ h[j] = g[j]
          BY <4>2, <2>1, <2>7, <2>8
        <5> QED
          BY <4>1, <5>1 DEF InHole
      <4>3. CASE j = k \/ j = k + 1
        BY <4>1, <4>3, <3>1, <2>7, <2>8 DEF InHole
      <4>4. CASE j > k + 1
        <5>1. j - 1 \in DOMAIN h /\ h[j - 1] = g[j]
          BY <4>4, <2>1, <2>7, <2>8
        <5> QED
          BY <4>1, <5>1 DEF InHole
      <4> QED
        BY <4>2, <4>3, <4>4, <2>1
    <3> QED
      BY <3>2, <3>3
  <2> QED
    BY <2>6, <2>8, <2>9, <2>10 DEF Separated, End
<1> QED
  BY <1>3, <1>4

\* A release that does not reach the end of the file: the extent's bytes are
\* added to the free list, which stays canonical.
LEMMA CoalesceProps ==
    ASSUME NEW f \in Seq(Extent), NEW e \in Extent, Separated(f), OffList(e, f)
    PROVE  /\ Coalesce(f, e) \in Seq(Extent)
           /\ Separated(Coalesce(f, e))
           /\ \A b \in Int : InHole(b, Coalesce(f, e)) <=> InHole(b, f) \/ In(b, e)
<1> DEFINE p == InsertPos(f, e.foff)
           k == IF MergesLeft(f, p, e.foff) THEN p - 1 ELSE p
           g == InsertOrMergeLeft(f, p, e)
<1>1. /\ g \in Seq(Extent)
      /\ k \in 1 .. Len(g)
      /\ SeparatedBut(g, k)
      /\ \A b \in Int : InHole(b, g) <=> InHole(b, f) \/ In(b, e)
  BY InsertOrMergeLeftProps
<1>2. Coalesce(f, e) = MergeRight(g, k)
  BY DEF Coalesce
<1> HIDE DEF p, k, g
<1> QED
  BY <1>1, <1>2, MergeRightProps

\* fl_insert: the bytes of the extent become free, except that a hole reaching
\* the end of the file is cut off together with the end of the file.
LEMMA FlInsertProps ==
    ASSUME NEW f \in Seq(Extent), NEW e \in Extent, NEW fend \in Nat,
           Separated(f), OffList(e, f),
           \A b \in Int : InHole(b, f) \/ In(b, e) => b < fend,
           NEW r, r = fl_insert(f, fend, e)
    PROVE  /\ r.fl \in Seq(Extent)
           /\ Separated(r.fl)
           /\ r.file_end \in Nat
           /\ r.file_end <= fend
           /\ \A i \in DOMAIN r.fl : End(r.fl[i]) < r.file_end
           /\ \A b \in Int : InHole(b, r.fl)
                <=> (InHole(b, f) \/ In(b, e)) /\ b < r.file_end
           /\ \A b \in Int : r.file_end <= b /\ b < fend
                => InHole(b, f) \/ In(b, e)
<1> DEFINE g == Coalesce(f, e)
<1>0. e.foff \in Nat /\ e.len \in Nat /\ e.len > 0
  BY DEF Extent
<1>1. /\ g \in Seq(Extent)
      /\ Separated(g)
      /\ \A b \in Int : InHole(b, g) <=> InHole(b, f) \/ In(b, e)
  BY CoalesceProps
<1>2. r = IF TrailingHole(g, fend)
          THEN [fl |-> SubSeq(g, 1, Len(g) - 1), file_end |-> g[Len(g)].foff]
          ELSE [fl |-> g, file_end |-> fend]
  BY <1>0 DEF fl_insert
<1> HIDE DEF g
<1>3. /\ Len(g) \in Nat
      /\ DOMAIN g = 1 .. Len(g)
      /\ \A i \in 1 .. Len(g) :
            g[i].foff \in Nat /\ g[i].len \in Nat /\ g[i].len > 0
  BY <1>1, HoleFields
<1>4. \A i, j \in 1 .. Len(g) : i < j => g[i].foff + g[i].len < g[j].foff
  BY <1>1, <1>3 DEF Separated, End
<1>5. ASSUME NEW i \in 1 .. Len(g)
      PROVE  g[i].foff + g[i].len <= fend
  <2>1. g[i].foff \in Nat /\ g[i].len \in Nat /\ g[i].len > 0
    BY <1>3
  <2>2. In(g[i].foff + g[i].len - 1, g[i])
    BY <2>1 DEF In
  <2>3. g[i].foff + g[i].len - 1 \in Int /\ InHole(g[i].foff + g[i].len - 1, g)
    BY <2>1, <2>2, <1>3 DEF InHole
  <2>4. g[i].foff + g[i].len - 1 < fend
    BY <2>3, <1>1
  <2> QED
    BY <2>1, <2>4
<1>6. CASE TrailingHole(g, fend)
  <2> DEFINE n == Len(g)
             t == SubSeq(g, 1, n - 1)
  <2>1. n \in 1 .. Len(g) /\ n \in Nat /\ g[n].foff + g[n].len = fend
    BY <1>1, <1>3, <1>6 DEF TrailingHole, End
  <2>2. r.fl = t /\ r.file_end = g[n].foff
    BY <1>2, <1>6
  <2>3. /\ t \in Seq(Extent)
        /\ Len(t) = n - 1
        /\ \A i \in 1 .. (n - 1) : t[i] = g[i]
    BY <1>1, <1>3, <2>1
  <2> HIDE DEF t
  <2>4. DOMAIN t = 1 .. (n - 1) /\ \A i \in 1 .. (n - 1) : i \in 1 .. Len(g) /\ i < n
    BY <2>1, <2>3
  <2>5. Separated(t)
    <3>1. ASSUME NEW i \in 1 .. (n - 1), NEW j \in 1 .. (n - 1), i < j
          PROVE  t[i].foff + t[i].len < t[j].foff
      <4>1. t[i] = g[i] /\ t[j] = g[j] /\ i \in 1 .. Len(g) /\ j \in 1 .. Len(g)
        BY <2>3, <2>4
      <4> QED
        BY <3>1, <4>1, <1>4
    <3> QED
      BY <3>1, <2>4 DEF Separated, End
  <2>6. g[n].foff \in Nat /\ g[n].foff <= fend
    BY <2>1, <1>3
  <2>7. \A i \in DOMAIN t : End(t[i]) < g[n].foff
    BY <2>1, <2>3, <2>4, <1>4 DEF End
  <2>8. ASSUME NEW b \in Int
        PROVE  /\ InHole(b, t) <=> InHole(b, g) /\ b < g[n].foff
               /\ g[n].foff <= b /\ b < fend => InHole(b, g)
    <3>1. ASSUME NEW i \in DOMAIN t, In(b, t[i])
          PROVE  InHole(b, g) /\ b < g[n].foff
      <4>1. t[i] = g[i] /\ i \in DOMAIN g
        BY <2>3, <2>4, <1>3
      <4>2. t[i].foff + t[i].len < g[n].foff
        BY <2>7 DEF End
      <4>3. g[i].foff \in Nat /\ g[i].len \in Nat
        BY <4>1, <1>3
      <4> QED
        BY <3>1, <4>1, <4>2, <4>3, <2>6 DEF InHole, In
    <3>2. ASSUME NEW i \in DOMAIN g, In(b, g[i]), b < g[n].foff
          PROVE  InHole(b, t)
      <4>1. i # n
        BY <3>2, <2>6 DEF In
      <4>2. i \in 1 .. (n - 1)
        BY <4>1, <1>3
      <4> QED
        BY <3>2, <4>2, <2>3, <2>4 DEF InHole
    <3>3. ASSUME g[n].foff <= b, b < fend
          PROVE  InHole(b, g)
      <4>1. In(b, g[n])
        BY <3>3, <2>1 DEF In
      <4> QED
        BY <4>1, <2>1, <1>3 DEF InHole
    <3>4. ASSUME InHole(b, t)
          PROVE  InHole(b, g) /\ b < g[n].foff
      BY <3>1, <3>4 DEF InHole
    <3>5. ASSUME InHole(b, g), b < g[n].foff
          PROVE  InHole(b, t)
      <4>1. PICK i \in DOMAIN g : In(b, g[i])
        BY <3>5 DEF InHole
      <4> QED
        BY <4>1, <3>5, <3>2
    <3> QED
      BY <3>3, <3>4, <3>5
  <2> QED
    BY <2>2, <2>3, <2>5, <2>6, <2>7, <2>8, <1>1
<1>7. CASE ~TrailingHole(g, fend)
  <2>1. r.fl = g /\ r.file_end = fend
    BY <1>2, <1>7
  <2>2. ASSUME NEW i \in 1 .. Len(g)
        PROVE  g[i].foff + g[i].len < fend
    <3>0. /\ Len(g) \in 1 .. Len(g) /\ g # << >>
          /\ g[i].foff \in Nat /\ g[i].len \in Nat
      BY <1>3
    <3>1. CASE i = Len(g)
      <4>1. g[i].foff + g[i].len # fend
        BY <3>0, <3>1, <1>7 DEF TrailingHole, End
      <4>2. g[i].foff + g[i].len <= fend
        BY <1>5
      <4>3. \A x, y, z \in Nat : x + y <= z /\ x + y # z => x + y < z
        OBVIOUS
      <4> QED
        BY <3>0, <4>1, <4>2, <4>3
    <3>2. CASE i # Len(g)
      <4>1. i < Len(g)
        <5>1. i \in Int /\ i <= Len(g) /\ Len(g) \in Int
          BY <1>3
        <5>2. \A x, y \in Int : x <= y /\ x # y => x < y
          OBVIOUS
        <5> QED
          BY <5>1, <5>2, <3>2
      <4>2. g[i].foff + g[i].len < g[Len(g)].foff
        BY <3>0, <4>1, <1>4
      <4>3. g[Len(g)].foff + g[Len(g)].len <= fend /\ g[Len(g)].foff \in Nat
              /\ g[Len(g)].len \in Nat
        BY <3>0, <1>3, <1>5
      <4> QED
        BY <3>0, <4>2, <4>3
    <3> QED
      BY <3>1, <3>2
  <2>3. \A i \in DOMAIN r.fl : End(r.fl[i]) < r.file_end
    BY <2>1, <2>2, <1>3 DEF End
  <2> QED
    BY <2>1, <2>3, <1>1
<1> QED
  BY <1>6, <1>7

-----------------------------------------------------------------------------
(* Taking a hole.                                                          *)

\* Best fit names a hole that is large enough, when there is one.
LEMMA BestFitProps ==
    ASSUME NEW f \in Seq(Extent), NEW need \in Nat, Fitting(f, need) # {}
    PROVE  BestFit(f, need) \in Fitting(f, need)
<1> DEFINE fit == Fitting(f, need)
           lens == {f[i].len : i \in fit}
           m == Min(lens)
           least == {i \in fit : f[i].len = m}
           k == Min(least)
<1>0. /\ DOMAIN f = 1 .. Len(f)
      /\ \A i \in 1 .. Len(f) : f[i].len \in Nat
  BY HoleFields
<1>1. fit \subseteq 1 .. Len(f)
  BY <1>0 DEF Fitting
<1>2. lens \in SUBSET Nat /\ lens # {}
  BY <1>0, <1>1
<1>3. m \in lens /\ \A y \in lens : m <= y
  BY <1>2, MinProps
<1>4. least \in SUBSET Nat /\ least # {}
  <2>1. PICK i \in fit : f[i].len = m
    BY <1>3
  <2>2. fit \subseteq Nat
    BY <1>1
  <2> HIDE DEF m, fit
  <2> QED
    BY <2>1, <2>2
<1>5. k \in least /\ \A y \in least : k <= y
  BY <1>4, MinProps
<1> HIDE DEF m, k, fit
<1>6. ASSUME NEW j \in fit
      PROVE  f[k].len < f[j].len \/ (f[k].len = f[j].len /\ k <= j)
  <2>1. k \in fit /\ f[k].len = m /\ m <= f[j].len
    BY <1>3, <1>5
  <2>2. m \in Nat /\ f[j].len \in Nat
    BY <1>2, <1>3
  <2>3. CASE f[j].len = m
    BY <2>1, <2>3, <1>5
  <2>4. CASE f[j].len # m
    BY <2>1, <2>2, <2>4
  <2> QED
    BY <2>3, <2>4
<1>7. k \in fit
  BY <1>5
<1> QED
  BY <1>6, <1>7 DEF BestFit, fit

\* The search for the largest hole names a hole of a nonempty list.
LEMMA LargestProps ==
    ASSUME NEW f \in Seq(Extent), f # << >>,
           NEW top \in Nat, \A i \in DOMAIN f : f[i].len <= top
    PROVE  Largest(f) \in DOMAIN f
<1> DEFINE rest == {top - f[i].len : i \in DOMAIN f}
           m == Min(rest)
           most == {i \in DOMAIN f : top - f[i].len = m}
           k == Min(most)
<1>0. /\ Len(f) \in Nat
      /\ DOMAIN f = 1 .. Len(f)
      /\ \A i \in 1 .. Len(f) : f[i].len \in Nat
  BY HoleFields
<1>1. 1 \in DOMAIN f
  <2>1. Len(f) # 0
    BY <1>0
  <2> QED
    BY <2>1, <1>0
<1>2. rest \in SUBSET Nat /\ rest # {}
  BY <1>0, <1>1
<1>3. m \in rest /\ \A y \in rest : m <= y
  BY <1>2, MinProps
<1>4. most \in SUBSET Nat /\ most # {}
  <2>1. PICK i \in DOMAIN f : top - f[i].len = m
    BY <1>3
  <2>2. DOMAIN f \subseteq Nat
    BY <1>0
  <2> HIDE DEF m
  <2> QED
    BY <2>1, <2>2
<1>5. k \in most /\ \A y \in most : k <= y
  BY <1>4, MinProps
<1> HIDE DEF m, k
<1>6. ASSUME NEW j \in DOMAIN f
      PROVE  f[k].len > f[j].len \/ (f[k].len = f[j].len /\ k <= j)
  <2>1. k \in DOMAIN f /\ top - f[k].len = m /\ m <= top - f[j].len
    BY <1>3, <1>5
  <2>2. m \in Nat /\ f[j].len \in Nat /\ f[k].len \in Nat
    BY <2>1, <1>0, <1>2, <1>3
  <2>3. CASE top - f[j].len = m
    <3>1. k <= j
      BY <2>3, <1>5
    <3> QED
      BY <3>1, <2>1, <2>2, <2>3
  <2>4. CASE top - f[j].len # m
    BY <2>1, <2>2, <2>4
  <2> QED
    BY <2>3, <2>4
<1>7. k \in DOMAIN f
  BY <1>5
<1> QED
  BY <1>6, <1>7 DEF Largest

\* Taking the front of a hole leaves a separated list that covers all the
\* bytes it covered except the ones taken.
LEMMA TakeFrontProps ==
    ASSUME NEW f \in Seq(Extent), Separated(f), NEW k \in DOMAIN f,
           NEW need \in Nat \ {0}, need <= f[k].len,
           NEW e, e = [foff |-> f[k].foff, len |-> need],
           NEW g, g = TakeFront(f, k, need)
    PROVE  /\ e \in Extent
           /\ g \in Seq(Extent)
           /\ Separated(g)
           /\ \A b \in Int : InHole(b, g) <=> InHole(b, f) /\ ~In(b, e)
           /\ \A b \in Int : In(b, e) => InHole(b, f)
           /\ \A i \in DOMAIN g : \E j \in DOMAIN f : End(g[i]) = End(f[j])
<1>1. /\ Len(f) \in Nat
      /\ DOMAIN f = 1 .. Len(f)
      /\ \A i \in 1 .. Len(f) :
            f[i].foff \in Nat /\ f[i].len \in Nat /\ f[i].len > 0
  BY HoleFields
<1>2. \A i, j \in 1 .. Len(f) : i < j => f[i].foff + f[i].len < f[j].foff
  BY <1>1 DEF Separated, End
<1>3. /\ k \in 1 .. Len(f) /\ k \in Int
      /\ f[k].foff \in Nat /\ f[k].len \in Nat
      /\ e.foff = f[k].foff /\ e.len = need
  BY <1>1
<1>4. e \in Extent
  BY <1>3 DEF Extent
<1>5. ASSUME NEW b \in Int, In(b, e)
      PROVE  In(b, f[k])
  BY <1>3, <1>5 DEF In
<1>6. ASSUME NEW b \in Int, NEW j \in 1 .. Len(f), j # k, In(b, f[j])
      PROVE  ~In(b, f[k])
  <2>1. /\ f[j].foff \in Nat /\ f[j].len \in Nat
        /\ j \in Int /\ (j < k \/ k < j)
    BY <1>1, <1>3, <1>6
  <2>2. \/ f[j].foff + f[j].len < f[k].foff
        \/ f[k].foff + f[k].len < f[j].foff
    BY <2>1, <1>2, <1>3
  <2> QED
    BY <2>1, <2>2, <1>3, <1>6 DEF In
<1>7. CASE f[k].len = need
  <2>1. g = RemoveAt(f, k) /\ e = f[k]
    <3>1. f[k] = [foff |-> f[k].foff, len |-> f[k].len]
      BY <1>1, <1>3, HoleFields DEF Extent
    <3> QED
      BY <3>1, <1>7 DEF TakeFront
  <2>2. /\ RemoveAt(f, k) \in Seq(Extent)
        /\ Len(RemoveAt(f, k)) = Len(f) - 1
        /\ \A j \in 1 .. (Len(f) - 1) :
             RemoveAt(f, k)[j] = IF j < k THEN f[j] ELSE f[j + 1]
    BY <1>3, RemoveAtProps
  <2>3. /\ g \in Seq(Extent)
        /\ Len(g) = Len(f) - 1
        /\ \A j \in 1 .. (Len(f) - 1) : g[j] = IF j < k THEN f[j] ELSE f[j + 1]
    BY <2>1, <2>2, Zenon
  <2>4. DOMAIN g = 1 .. (Len(f) - 1)
    BY <2>3, <1>1
  <2>5. ASSUME NEW i \in 1 .. (Len(f) - 1), NEW j \in 1 .. (Len(f) - 1), i < j
        PROVE  g[i].foff + g[i].len < g[j].foff
    <3>1. /\ i \in 1 .. Len(f) /\ i + 1 \in 1 .. Len(f) /\ i \in Int
          /\ j \in 1 .. Len(f) /\ j + 1 \in 1 .. Len(f) /\ j \in Int
      BY <1>1
    <3>2. CASE i < k /\ j < k
      BY <3>1, <3>2, <2>3, <2>5, <1>2
    <3>3. CASE i < k /\ ~(j < k)
      <4>1. g[i] = f[i] /\ g[j] = f[j + 1] /\ i < j + 1
        BY <3>1, <3>3, <2>3, <2>5
      <4> QED
        BY <3>1, <4>1, <1>2
    <3>4. CASE ~(i < k)
      <4>1. g[i] = f[i + 1] /\ g[j] = f[j + 1] /\ i + 1 < j + 1
        BY <3>1, <3>4, <2>3, <2>5, <1>3
      <4> QED
        BY <3>1, <4>1, <1>2
    <3> QED
      BY <3>2, <3>3, <3>4
  <2>6. Separated(g)
    BY <2>4, <2>5 DEF Separated, End
  <2>7. \A i \in DOMAIN g : \E j \in DOMAIN f : j # k /\ g[i] = f[j]
    <3> SUFFICES ASSUME NEW i \in 1 .. (Len(f) - 1)
                 PROVE  \E j \in DOMAIN f : j # k /\ g[i] = f[j]
      BY <2>4
    <3>1. i \in DOMAIN f /\ i + 1 \in DOMAIN f /\ i \in Int
      BY <1>1
    <3>2. CASE i < k
      BY <3>1, <3>2, <2>3, <1>3
    <3>3. CASE ~(i < k)
      <4>1. g[i] = f[i + 1] /\ i + 1 # k
        BY <3>1, <3>3, <2>3, <1>3
      <4> QED
        BY <3>1, <4>1
    <3> QED
      BY <3>2, <3>3
  <2>8. \A j \in DOMAIN f : j # k => \E i \in DOMAIN g : g[i] = f[j]
    <3> SUFFICES ASSUME NEW j \in 1 .. Len(f), j # k
                 PROVE  \E i \in DOMAIN g : g[i] = f[j]
      BY <1>1
    <3>1. CASE j < k
      <4>1. j \in 1 .. (Len(f) - 1) /\ g[j] = f[j]
        BY <3>1, <2>3, <1>1, <1>3
      <4> QED
        BY <4>1, <2>4
    <3>2. CASE j > k
      <4>1. j - 1 \in 1 .. (Len(f) - 1) /\ ~(j - 1 < k) /\ (j - 1) + 1 = j
        BY <3>2, <1>1, <1>3
      <4>2. g[j - 1] = f[j]
        BY <4>1, <2>3
      <4> QED
        BY <4>1, <4>2, <2>4
    <3> QED
      BY <3>1, <3>2, <1>3
  <2>9. ASSUME NEW b \in Int
        PROVE  InHole(b, g) <=> InHole(b, f) /\ ~In(b, e)
    <3>1. ASSUME InHole(b, g)
          PROVE  InHole(b, f) /\ ~In(b, e)
      <4>1. PICK i \in DOMAIN g : In(b, g[i])
        BY <3>1 DEF InHole
      <4>2. PICK j \in DOMAIN f : j # k /\ g[i] = f[j]
        BY <2>7
      <4> QED
        BY <4>1, <4>2, <2>1, <1>1, <1>6 DEF InHole
    <3>2. ASSUME InHole(b, f), ~In(b, e)
          PROVE  InHole(b, g)
      <4>1. PICK j \in DOMAIN f : In(b, f[j])
        BY <3>2 DEF InHole
      <4>2. j # k
        BY <3>2, <4>1, <2>1
      <4> QED
        BY <4>1, <4>2, <2>8 DEF InHole
    <3> QED
      BY <3>1, <3>2
  <2> QED
    BY <2>3, <2>6, <2>7, <2>9, <1>1, <1>4, <1>5 DEF InHole
<1>8. CASE f[k].len # need
  <2> DEFINE m == [foff |-> f[k].foff + need, len |-> f[k].len - need]
  <2>1. m \in Extent
    BY <1>3, <1>8 DEF Extent
  <2>2. g = [f EXCEPT ![k] = m]
    BY <1>8 DEF TakeFront
  <2>3. /\ g \in Seq(Extent)
        /\ Len(g) = Len(f)
        /\ \A j \in 1 .. Len(f) : g[j] = IF j = k THEN m ELSE f[j]
    BY <2>1, <2>2, <1>3, ReplaceProps
  <2>4. m.foff = f[k].foff + need /\ m.len = f[k].len - need
    OBVIOUS
  <2> HIDE DEF m
  <2>5. DOMAIN g = 1 .. Len(f)
    BY <2>3, <1>1
  <2>6. \A j \in 1 .. Len(f) : /\ g[j].foff >= f[j].foff
                               /\ g[j].foff + g[j].len = f[j].foff + f[j].len
                               /\ g[j].foff \in Nat /\ g[j].len \in Nat
    <3> SUFFICES ASSUME NEW j \in 1 .. Len(f)
                 PROVE  /\ g[j].foff >= f[j].foff
                        /\ g[j].foff + g[j].len = f[j].foff + f[j].len
                        /\ g[j].foff \in Nat /\ g[j].len \in Nat
      OBVIOUS
    <3>1. CASE j = k
      <4>1. g[j].foff = f[k].foff + need /\ g[j].len = f[k].len - need
        BY <3>1, <2>3, <2>4
      <4>2. f[k].foff \in Nat /\ f[k].len \in Nat /\ need \in Nat /\ need <= f[k].len
        BY <1>3
      <4>3. /\ f[k].foff + need >= f[k].foff
            /\ f[k].foff + need + (f[k].len - need) = f[k].foff + f[k].len
            /\ f[k].foff + need \in Nat /\ f[k].len - need \in Nat
        BY <4>2
      <4> QED
        BY <4>1, <4>3, <3>1
    <3>2. CASE j # k
      <4>1. g[j] = f[j] /\ f[j].foff \in Nat /\ f[j].len \in Nat
        BY <3>2, <2>3, <1>1
      <4> QED
        BY <4>1
    <3> QED
      BY <3>1, <3>2
  <2>7. ASSUME NEW i \in 1 .. Len(f), NEW j \in 1 .. Len(f), i < j
        PROVE  g[i].foff + g[i].len < g[j].foff
    <3>1. f[i].foff + f[i].len < f[j].foff
      BY <2>7, <1>2
    <3>2. f[i].foff \in Nat /\ f[i].len \in Nat /\ f[j].foff \in Nat
      BY <1>1
    <3> QED
      BY <3>1, <3>2, <2>6
  <2>8. Separated(g)
    BY <2>5, <2>7 DEF Separated, End
  <2>9. ASSUME NEW b \in Int
        PROVE  InHole(b, g) <=> InHole(b, f) /\ ~In(b, e)
    <3>1. In(b, g[k]) <=> In(b, f[k]) /\ ~In(b, e)
      <4>1. g[k].foff = f[k].foff + need /\ g[k].len = f[k].len - need
        BY <2>3, <2>4, <1>3
      <4> QED
        BY <4>1, <1>3 DEF In
    <3>2. ASSUME NEW j \in DOMAIN f, In(b, f[j]), ~In(b, e)
          PROVE  InHole(b, g)
      <4>1. CASE j = k
        BY <3>1, <3>2, <4>1, <2>5, <1>3 DEF InHole
      <4>2. CASE j # k
        <5>1. j \in DOMAIN g /\ g[j] = f[j]
          BY <4>2, <2>3, <2>5, <1>1
        <5> QED
          BY <3>2, <5>1 DEF InHole
      <4> QED
        BY <4>1, <4>2
    <3>3. ASSUME NEW j \in DOMAIN g, In(b, g[j])
          PROVE  InHole(b, f) /\ ~In(b, e)
      <4>1. CASE j = k
        BY <3>1, <3>3, <4>1 DEF InHole
      <4>2. CASE j # k
        <5>1. j \in DOMAIN f /\ j \in 1 .. Len(f) /\ g[j] = f[j]
          BY <4>2, <2>3, <2>5, <1>1
        <5>2. ~In(b, f[k])
          BY <3>3, <4>2, <5>1, <1>6
        <5> QED
          BY <3>3, <5>1, <5>2, <1>5 DEF InHole
      <4> QED
        BY <4>1, <4>2
    <3> QED
      BY <3>2, <3>3 DEF InHole
  <2>10. \A i \in DOMAIN g : \E j \in DOMAIN f : End(g[i]) = End(f[j])
    BY <2>5, <2>6, <1>1 DEF End
  <2> QED
    BY <2>3, <2>8, <2>9, <2>10, <1>4, <1>5 DEF InHole
<1> QED
  BY <1>7, <1>8

\* round_up never rounds down, so a request is never given less than it asked.
LEMMA RoundUpProps ==
    ASSUME NEW n \in Nat \ {0}
    PROVE  round_up(n) \in Nat \ {0} /\ round_up(n) >= n
<1>1. LS_ALIGN \in Nat /\ LS_ALIGN > 0
  BY AlignAssumption
<1> DEFINE x == n + (LS_ALIGN - 1)
<1>2. x \in Nat
  BY <1>1
<1>3. x % LS_ALIGN \in 0 .. (LS_ALIGN - 1)
  BY <1>1, <1>2
<1> QED
  BY <1>1, <1>2, <1>3 DEF round_up

-----------------------------------------------------------------------------
(* Who owns which byte.                                                    *)

InOwned(b, O) == \E e \in O : In(b, e)

Partitioned(f, O, fend) ==
    \A b \in Int :
        /\ (InHole(b, f) \/ InOwned(b, O)) <=> (LS_SUPER_SIZE <= b /\ b < fend)
        /\ ~(InHole(b, f) /\ InOwned(b, O))

Apart(O) ==
    \A d, e \in O : d # e => \A b \in Int : ~(In(b, d) /\ In(b, e))

\* A byte is in an interval of bytes when it is in the extent.
LEMMA BytesIn ==
    ASSUME NEW e \in Extent
    PROVE  /\ Bytes(e) \subseteq Int
           /\ \A b \in Int : b \in Bytes(e) <=> In(b, e)
  BY DEF Bytes, End, In, Extent

\* SpacePartitioned says of sets of bytes what Partitioned says byte by byte.
LEMMA PartitionByBytes ==
    ASSUME NEW f \in Seq(Extent), NEW O \in SUBSET Extent, NEW fend \in Nat
    PROVE  Partitioned(f, O, fend) <=>
             /\ HoleBytes(f) \cup UNION {Bytes(e) : e \in O}
                  = LS_SUPER_SIZE .. (fend - 1)
             /\ HoleBytes(f) \cap UNION {Bytes(e) : e \in O} = {}
<1> DEFINE H == HoleBytes(f)
           U == UNION {Bytes(e) : e \in O}
           W == LS_SUPER_SIZE .. (fend - 1)
<1>0. LS_SUPER_SIZE \in Nat
  BY SuperAssumption
<1>1. DOMAIN f = 1 .. Len(f) /\ \A i \in 1 .. Len(f) : f[i] \in Extent
  BY HoleFields
<1>2. H \subseteq Int /\ \A b \in Int : b \in H <=> InHole(b, f)
  BY <1>1, BytesIn DEF HoleBytes, InHole
<1>3. U \subseteq Int /\ \A b \in Int : b \in U <=> InOwned(b, O)
  BY BytesIn DEF InOwned
<1>4. W \subseteq Int /\ \A b \in Int : b \in W <=> LS_SUPER_SIZE <= b /\ b < fend
  BY <1>0
<1> HIDE DEF H, U, W
<1>5. Partitioned(f, O, fend) <=> H \cup U = W /\ H \cap U = {}
  <2>1. ASSUME Partitioned(f, O, fend)
        PROVE  H \cup U = W /\ H \cap U = {}
    <3>1. \A b \in Int : /\ (b \in H \/ b \in U) <=> b \in W
                         /\ ~(b \in H /\ b \in U)
      BY <2>1, <1>2, <1>3, <1>4 DEF Partitioned
    <3> QED
      BY <3>1, <1>2, <1>3, <1>4
  <2>2. ASSUME H \cup U = W, H \cap U = {}
        PROVE  Partitioned(f, O, fend)
    <3>1. \A b \in Int : /\ (b \in H \/ b \in U) <=> b \in W
                         /\ ~(b \in H /\ b \in U)
      BY <2>2
    <3> QED
      BY <3>1, <1>2, <1>3, <1>4 DEF Partitioned
  <2> QED
    BY <2>1, <2>2
<1> QED
  BY <1>5 DEF H, U, W

\* The same for the pairwise disjointness of the owners.
LEMMA ApartByBytes ==
    ASSUME NEW O \in SUBSET Extent
    PROVE  Apart(O) <=> \A d, e \in O : d # e => Bytes(d) \cap Bytes(e) = {}
<1>1. \A d, e \in O : (\A b \in Int : ~(In(b, d) /\ In(b, e)))
                        <=> Bytes(d) \cap Bytes(e) = {}
  <2> SUFFICES ASSUME NEW d \in O, NEW e \in O
               PROVE  (\A b \in Int : ~(In(b, d) /\ In(b, e)))
                        <=> Bytes(d) \cap Bytes(e) = {}
    OBVIOUS
  <2>1. d \in Extent /\ e \in Extent
    OBVIOUS
  <2> QED
    BY <2>1, BytesIn
<1> QED
  BY <1>1 DEF Apart

\* Handing out an extent that was free, or past the end, keeps ByteInv.
LEMMA HandOut ==
    ASSUME NEW f \in Seq(Extent), NEW O \in SUBSET Extent, NEW fend \in Nat,
           NEW e \in Extent, NEW g \in Seq(Extent), NEW gend \in Nat,
           Partitioned(f, O, fend), Apart(O),
           \A b \in Int : In(b, e) => ~InOwned(b, O),
           \A b \in Int : (InHole(b, g) \/ In(b, e) \/ InOwned(b, O))
                            <=> (LS_SUPER_SIZE <= b /\ b < gend),
           \A b \in Int : ~(InHole(b, g) /\ (In(b, e) \/ InOwned(b, O)))
    PROVE  /\ e \notin O
           /\ Partitioned(g, O \cup {e}, gend)
           /\ Apart(O \cup {e})
<1>1. e.foff \in Int /\ In(e.foff, e)
  BY DEF Extent, In
<1>2. e \notin O
  BY <1>1 DEF InOwned
<1>3. \A b \in Int : InOwned(b, O \cup {e}) <=> In(b, e) \/ InOwned(b, O)
  BY DEF InOwned
<1>4. Partitioned(g, O \cup {e}, gend)
  BY <1>3 DEF Partitioned
<1>5. Apart(O \cup {e})
  <2> SUFFICES ASSUME NEW d \in O \cup {e}, NEW c \in O \cup {e}, d # c,
                      NEW b \in Int, In(b, d), In(b, c)
               PROVE  FALSE
    BY DEF Apart
  <2>1. CASE d \in O /\ c \in O
    BY <2>1 DEF Apart
  <2>2. CASE d = e /\ c \in O
    BY <2>2 DEF InOwned
  <2>3. CASE c = e /\ d \in O
    BY <2>3 DEF InOwned
  <2> QED
    BY <2>1, <2>2, <2>3
<1> QED
  BY <1>2, <1>4, <1>5

\* The books balance: f is a canonical free list, and it and the extents in O
\* share out the file from the superblock to fend.
Accounted(f, O, fend) ==
    /\ f \in Seq(Extent) /\ O \in SUBSET Extent /\ fend \in Nat
    /\ Separated(f)
    /\ \A i \in DOMAIN f : End(f[i]) < fend
    /\ LS_SUPER_SIZE <= fend
    /\ Partitioned(f, O, fend)
    /\ Apart(O)

\* An empty file: the superblock, and nothing after it.
LEMMA AccountEmpty == Accounted(<< >>, {}, LS_SUPER_SIZE)
<1>1. \A b \in Int : ~InHole(b, << >>) /\ ~InOwned(b, {})
  BY DEF InHole, InOwned
<1>2. Partitioned(<< >>, {}, LS_SUPER_SIZE)
  BY <1>1, SuperAssumption DEF Partitioned
<1> QED
  BY <1>2, SuperAssumption DEF Accounted, Separated, Apart

\* They still do when the front of a hole is handed out,
LEMMA AccountTaken ==
    ASSUME NEW f, NEW O, NEW fend, Accounted(f, O, fend),
           NEW k \in DOMAIN f, NEW need \in Nat \ {0}, need <= f[k].len,
           NEW e \in Extent, e.foff = f[k].foff, e.len = need,
           NEW g, g = TakeFront(f, k, need)
    PROVE  e \notin O /\ Accounted(g, O \cup {e}, fend)
<1>0. /\ f \in Seq(Extent) /\ O \in SUBSET Extent /\ fend \in Nat
      /\ Partitioned(f, O, fend) /\ Apart(O) /\ Separated(f)
      /\ \A i \in DOMAIN f : End(f[i]) < fend
      /\ LS_SUPER_SIZE <= fend
  BY DEF Accounted
<1>1. /\ e \in Extent
      /\ g \in Seq(Extent)
      /\ Separated(g)
      /\ \A b \in Int : InHole(b, g) <=> InHole(b, f) /\ ~In(b, e)
      /\ \A b \in Int : In(b, e) => InHole(b, f)
      /\ \A i \in DOMAIN g : \E j \in DOMAIN f : End(g[i]) = End(f[j])
  <2>1. e = [foff |-> f[k].foff, len |-> need]
    BY DEF Extent
  <2> QED
    BY <1>0, <2>1, TakeFrontProps
<1>3. \A b \in Int : In(b, e) => ~InOwned(b, O)
  BY <1>1, <1>0 DEF Partitioned
<1>4. \A b \in Int : (InHole(b, g) \/ In(b, e) \/ InOwned(b, O))
                       <=> (LS_SUPER_SIZE <= b /\ b < fend)
  BY <1>1, <1>0 DEF Partitioned
<1>5. \A b \in Int : ~(InHole(b, g) /\ (In(b, e) \/ InOwned(b, O)))
  BY <1>1, <1>0 DEF Partitioned
<1>6. /\ e \notin O
      /\ Partitioned(g, O \cup {e}, fend)
      /\ Apart(O \cup {e})
  <2>1. /\ f \in Seq(Extent) /\ O \in SUBSET Extent /\ fend \in Nat
        /\ Partitioned(f, O, fend) /\ Apart(O)
        /\ e \in Extent /\ g \in Seq(Extent)
    BY <1>0, <1>1
  <2> QED
    BY <2>1, <1>3, <1>4, <1>5, HandOut
<1>7. \A i \in DOMAIN g : End(g[i]) < fend
  BY <1>1, <1>0
<1>8. O \cup {e} \in SUBSET Extent
  BY <1>0, <1>1
<1> QED
  BY <1>0, <1>1, <1>6, <1>7, <1>8 DEF Accounted

\* when a hole that fits best is, or a largest one,
LEMMA AccountBest ==
    ASSUME NEW f, NEW O, NEW fend, Accounted(f, O, fend),
           NEW need \in Nat \ {0}, Fitting(f, need) # {},
           NEW e, e = [foff |-> f[BestFit(f, need)].foff, len |-> need],
           NEW g, g = TakeFront(f, BestFit(f, need), need)
    PROVE  e \in Extent /\ e \notin O /\ Accounted(g, O \cup {e}, fend)
<1> DEFINE k == BestFit(f, need)
<1>0. f \in Seq(Extent)
  BY DEF Accounted
<1>1. k \in Fitting(f, need)
  BY <1>0, BestFitProps
<1>2. k \in DOMAIN f /\ f[k].len >= need /\ f[k].len \in Nat
  BY <1>0, <1>1, HoleFields DEF Fitting
<1>3. e = [foff |-> f[k].foff, len |-> need] /\ g = TakeFront(f, k, need)
  OBVIOUS
<1> HIDE DEF k
<1>4. need <= f[k].len /\ f[k].foff \in Nat
  BY <1>0, <1>2, HoleFields
<1>5. e \in Extent /\ e.foff = f[k].foff /\ e.len = need
  BY <1>3, <1>4 DEF Extent
<1> QED
  BY <1>2, <1>3, <1>4, <1>5, AccountTaken

LEMMA AccountLargest ==
    ASSUME NEW f, NEW O, NEW fend, Accounted(f, O, fend), f # << >>,
           NEW e, e = f[Largest(f)],
           NEW g, g = RemoveAt(f, Largest(f))
    PROVE  /\ e \in Extent /\ e \notin O /\ Accounted(g, O \cup {e}, fend)
           /\ Largest(f) \in DOMAIN f
<1> DEFINE k == Largest(f)
<1>0. f \in Seq(Extent) /\ fend \in Nat
  BY DEF Accounted
<1>1. \A i \in DOMAIN f : f[i].len <= fend
  <2> SUFFICES ASSUME NEW i \in DOMAIN f
               PROVE  f[i].len <= fend
    OBVIOUS
  <2>1. f[i].foff \in Nat /\ f[i].len \in Nat
    BY <1>0, HoleFields
  <2>2. f[i].foff + f[i].len < fend
    BY DEF Accounted, End
  <2> QED
    BY <2>1, <2>2, <1>0
<1>2. k \in DOMAIN f
  BY <1>0, <1>1, LargestProps
<1>3. f[k] \in Extent /\ f[k].len \in Nat \ {0} /\ f[k].len <= f[k].len
  BY <1>0, <1>2, HoleFields
<1>5. g = TakeFront(f, k, f[k].len)
  BY DEF TakeFront
<1> HIDE DEF k
<1>6. e \in Extent /\ e \notin O /\ Accounted(g, O \cup {e}, fend)
  <2>1. e \in Extent /\ e.foff = f[k].foff /\ e.len = f[k].len
    BY <1>3 DEF k
  <2> QED
    BY <1>2, <1>3, <1>5, <2>1, AccountTaken
<1> QED
  BY <1>2, <1>6 DEF k

\* when the file grows by an extent,
LEMMA AccountTail ==
    ASSUME NEW f, NEW O, NEW fend, Accounted(f, O, fend),
           NEW need \in Nat \ {0},
           NEW e, e = [foff |-> fend, len |-> need]
    PROVE  e \in Extent /\ e \notin O /\ Accounted(f, O \cup {e}, fend + need)
<1>0. /\ f \in Seq(Extent) /\ O \in SUBSET Extent /\ fend \in Nat
      /\ Partitioned(f, O, fend) /\ Apart(O) /\ Separated(f)
      /\ \A i \in DOMAIN f : End(f[i]) < fend
      /\ LS_SUPER_SIZE <= fend /\ LS_SUPER_SIZE \in Nat
  BY SuperAssumption DEF Accounted
<1>3. e \in Extent /\ e.foff = fend /\ e.len = need /\ fend + need \in Nat
  BY <1>0 DEF Extent
<1>4. \A b \in Int : In(b, e) <=> fend <= b /\ b < fend + need
  BY <1>3 DEF In
<1>5. \A b \in Int : In(b, e) => ~InHole(b, f) /\ ~InOwned(b, O)
  BY <1>4, <1>0 DEF Partitioned
<1>6. \A b \in Int : (InHole(b, f) \/ In(b, e) \/ InOwned(b, O))
                       <=> (LS_SUPER_SIZE <= b /\ b < fend + need)
  <2> SUFFICES ASSUME NEW b \in Int
               PROVE  (InHole(b, f) \/ In(b, e) \/ InOwned(b, O))
                         <=> (LS_SUPER_SIZE <= b /\ b < fend + need)
    OBVIOUS
  <2>1. (InHole(b, f) \/ InOwned(b, O))
           <=> (LS_SUPER_SIZE <= b /\ b < fend)
    BY <1>0 DEF Partitioned
  <2>2. In(b, e) <=> fend <= b /\ b < fend + need
    BY <1>4
  <2> QED
    BY <2>1, <2>2, <1>0
<1>7. \A b \in Int : ~(InHole(b, f) /\ (In(b, e) \/ InOwned(b, O)))
  BY <1>5, <1>0 DEF Partitioned
<1>8. /\ e \notin O
      /\ Partitioned(f, O \cup {e}, fend + need)
      /\ Apart(O \cup {e})
  BY <1>3, <1>5, <1>6, <1>7, <1>0, HandOut
<1>9. \A i \in DOMAIN f : End(f[i]) < fend + need
  <2> SUFFICES ASSUME NEW i \in DOMAIN f
               PROVE  End(f[i]) < fend + need
    OBVIOUS
  <2>1. f[i].foff \in Nat /\ f[i].len \in Nat
    BY <1>0, HoleFields
  <2>2. f[i].foff + f[i].len < fend
    BY <1>0 DEF End
  <2> QED
    BY <2>1, <2>2, <1>0 DEF End
<1>10. LS_SUPER_SIZE <= fend + need /\ O \cup {e} \in SUBSET Extent
  BY <1>0, <1>3
<1> QED
  BY <1>0, <1>3, <1>8, <1>9, <1>10 DEF Accounted

\* and when an extent is given back; what the file loses, nobody else owns.
LEMMA AccountGivenBack ==
    ASSUME NEW f, NEW O, NEW fend, Accounted(f, O, fend), NEW e \in O,
           NEW r, r = fl_insert(f, fend, e)
    PROVE  /\ Accounted(r.fl, O \ {e}, r.file_end)
           /\ r.file_end <= fend
           /\ \A d \in O \ {e} : End(d) <= r.file_end
<1> DEFINE P == O \ {e}
<1>0. /\ f \in Seq(Extent) /\ O \in SUBSET Extent /\ fend \in Nat
      /\ Partitioned(f, O, fend) /\ Apart(O) /\ Separated(f)
      /\ \A i \in DOMAIN f : End(f[i]) < fend
      /\ LS_SUPER_SIZE <= fend /\ LS_SUPER_SIZE \in Nat /\ e \in Extent
  BY SuperAssumption DEF Accounted
<1>4. \A b \in Int : In(b, e) => InOwned(b, O)
  BY DEF InOwned
<1>5. OffList(e, f)
  BY <1>4, <1>0 DEF OffList, Partitioned
<1>6. \A b \in Int : InHole(b, f) \/ In(b, e) => b < fend
  BY <1>4, <1>0 DEF Partitioned
<1>7. /\ r.fl \in Seq(Extent)
      /\ Separated(r.fl)
      /\ r.file_end \in Nat
      /\ r.file_end <= fend
      /\ \A i \in DOMAIN r.fl : End(r.fl[i]) < r.file_end
      /\ \A b \in Int : InHole(b, r.fl)
           <=> (InHole(b, f) \/ In(b, e)) /\ b < r.file_end
      /\ \A b \in Int : r.file_end <= b /\ b < fend
           => InHole(b, f) \/ In(b, e)
  BY <1>5, <1>6, <1>0, FlInsertProps
<1>9. \A b \in Int : InOwned(b, O) <=> InOwned(b, P) \/ In(b, e)
  BY DEF InOwned
<1>10. \A b \in Int : ~(InOwned(b, P) /\ In(b, e))
  BY <1>0 DEF InOwned, Apart
<1>11. LS_SUPER_SIZE <= r.file_end
  <2>1. CASE r.file_end = fend
    BY <2>1, <1>0
  <2>2. CASE r.file_end # fend
    <3>1. r.file_end \in Int /\ r.file_end < fend
      BY <2>2, <1>7, <1>0
    <3>2. InHole(r.file_end, f) \/ In(r.file_end, e)
      BY <3>1, <1>7, <1>0
    <3>3. InHole(r.file_end, f) \/ InOwned(r.file_end, O)
      BY <3>1, <3>2, <1>4
    <3> QED
      BY <3>1, <3>3, <1>0 DEF Partitioned
  <2> QED
    BY <2>1, <2>2
<1>12. Partitioned(r.fl, P, r.file_end)
  <2> SUFFICES ASSUME NEW b \in Int
               PROVE  /\ (InHole(b, r.fl) \/ InOwned(b, P))
                            <=> (LS_SUPER_SIZE <= b /\ b < r.file_end)
                      /\ ~(InHole(b, r.fl) /\ InOwned(b, P))
    BY DEF Partitioned
  <2>1. /\ (InHole(b, f) \/ InOwned(b, P) \/ In(b, e))
              <=> (LS_SUPER_SIZE <= b /\ b < fend)
        /\ ~(InHole(b, f) /\ (InOwned(b, P) \/ In(b, e)))
        /\ ~(InOwned(b, P) /\ In(b, e))
    BY <1>9, <1>10, <1>0 DEF Partitioned
  <2>2. /\ InHole(b, r.fl) <=> (InHole(b, f) \/ In(b, e)) /\ b < r.file_end
        /\ r.file_end <= b /\ b < fend => InHole(b, f) \/ In(b, e)
    BY <1>7
  <2>3. r.file_end \in Int /\ r.file_end <= fend
    BY <1>7
  <2> QED
    BY <2>1, <2>2, <2>3, <1>0
<1>13. Apart(P) /\ P \in SUBSET Extent
  BY <1>0 DEF Apart
<1>14. Accounted(r.fl, P, r.file_end)
  BY <1>7, <1>11, <1>12, <1>13 DEF Accounted
<1>15. ASSUME NEW d \in P
       PROVE  End(d) <= r.file_end
  <2>1. d.foff \in Nat /\ d.len \in Nat /\ d.len > 0
    BY <1>13 DEF Extent
  <2>2. In(d.foff + d.len - 1, d) /\ d.foff + d.len - 1 \in Int
    BY <2>1 DEF In
  <2>3. d.foff + d.len - 1 < r.file_end
    BY <2>2, <1>12 DEF InOwned, Partitioned
  <2> QED
    BY <2>1, <2>3, <1>7 DEF End
<1> QED
  BY <1>7, <1>14, <1>15

\* Every extent of a balanced file lies inside it, past the superblock.
LEMMA AccountInside ==
    ASSUME NEW f, NEW O, NEW fend, Accounted(f, O, fend), NEW e \in O
    PROVE  LS_SUPER_SIZE <= e.foff /\ End(e) <= fend
<1>1. /\ O \in SUBSET Extent /\ Partitioned(f, O, fend) /\ fend \in Nat
      /\ LS_SUPER_SIZE \in Nat
  BY SuperAssumption DEF Accounted
<1>2. e.foff \in Nat /\ e.len \in Nat /\ e.len > 0
  BY <1>1 DEF Extent
<1>3. /\ In(e.foff + e.len - 1, e) /\ e.foff + e.len - 1 \in Int
      /\ In(e.foff, e) /\ e.foff \in Int
  BY <1>2 DEF In
<1>4. e.foff + e.len - 1 < fend /\ LS_SUPER_SIZE <= e.foff
  BY <1>1, <1>3 DEF InOwned, Partitioned
<1> QED
  BY <1>1, <1>2, <1>4 DEF End

-----------------------------------------------------------------------------
(* Alignment.                                                              *)

\* A remainder of zero means a multiple.
LEMMA MultipleOf ==
    ASSUME NEW x \in Int
    PROVE  x % LS_ALIGN = 0 <=> \E q \in Int : x = q * LS_ALIGN
<1>1. LS_ALIGN \in Nat /\ LS_ALIGN > 0
  BY AlignAssumption
<1>2. /\ x = LS_ALIGN * (x \div LS_ALIGN) + (x % LS_ALIGN)
      /\ x \div LS_ALIGN \in Int /\ x % LS_ALIGN \in 0 .. (LS_ALIGN - 1)
  BY <1>1
<1>3. ASSUME NEW q \in Int, x = q * LS_ALIGN
      PROVE  x % LS_ALIGN = 0
  <2> DEFINE d == x \div LS_ALIGN
             m == x % LS_ALIGN
  <2>1. m = (q - d) * LS_ALIGN /\ d \in Int /\ m \in Int /\ 0 <= m /\ m < LS_ALIGN
    BY <1>1, <1>2, <1>3
  <2> HIDE DEF d, m
  <2>2. CASE q - d >= 1
    <3>1. (q - d) * LS_ALIGN >= LS_ALIGN
      BY <1>1, <2>1, <2>2
    <3> QED
      BY <1>1, <2>1, <3>1
  <2>3. CASE q - d <= -1
    <3>1. (q - d) * LS_ALIGN <= -LS_ALIGN
      BY <1>1, <2>1, <2>3
    <3> QED
      BY <1>1, <2>1, <3>1
  <2>4. CASE q - d = 0
    BY <1>1, <2>1, <2>4 DEF m
  <2> QED
    BY <2>1, <2>2, <2>3, <2>4
<1>4. x % LS_ALIGN = 0 => x = (x \div LS_ALIGN) * LS_ALIGN
  BY <1>1, <1>2
<1> QED
  BY <1>1, <1>2, <1>3, <1>4

\* Multiples add up.
LEMMA MultiplesAdd ==
    ASSUME NEW x \in Int, NEW y \in Int, x % LS_ALIGN = 0, y % LS_ALIGN = 0
    PROVE  (x + y) % LS_ALIGN = 0 /\ (x - y) % LS_ALIGN = 0
<1>1. PICK a \in Int : x = a * LS_ALIGN
  BY MultipleOf
<1>2. PICK b \in Int : y = b * LS_ALIGN
  BY MultipleOf
<1>3. x + y = (a + b) * LS_ALIGN /\ x - y = (a - b) * LS_ALIGN
  BY <1>1, <1>2, AlignAssumption
<1>4. a + b \in Int /\ a - b \in Int /\ x + y \in Int /\ x - y \in Int
  OBVIOUS
<1> QED
  BY <1>3, <1>4, MultipleOf

LEMMA RoundUpAligned ==
    ASSUME NEW n \in Nat
    PROVE  round_up(n) % LS_ALIGN = 0
<1> DEFINE x == n + (LS_ALIGN - 1)
<1>1. LS_ALIGN \in Nat /\ LS_ALIGN > 0
  BY AlignAssumption
<1>2. x \in Int
  BY <1>1
<1>3. /\ x = LS_ALIGN * (x \div LS_ALIGN) + (x % LS_ALIGN)
      /\ x \div LS_ALIGN \in Int /\ x % LS_ALIGN \in Int
  BY <1>1, <1>2
<1> HIDE DEF x
<1>4. x - (x % LS_ALIGN) = (x \div LS_ALIGN) * LS_ALIGN
  BY <1>1, <1>2, <1>3
<1>5. x - (x % LS_ALIGN) \in Int
  BY <1>2, <1>3
<1> QED
  BY <1>3, <1>4, <1>5, MultipleOf DEF round_up, x

OnGrid(e) == (e.foff - LS_SUPER_SIZE) % LS_ALIGN = 0 /\ e.len % LS_ALIGN = 0
AllOnGrid(f) == \A i \in DOMAIN f : OnGrid(f[i])

\* An extent that begins where an aligned one does, or ends there, and is
\* longer or shorter by an aligned length.
LEMMA GridMoves ==
    ASSUME NEW e \in Extent, OnGrid(e), NEW n \in Int, n % LS_ALIGN = 0
    PROVE  /\ OnGrid([foff |-> e.foff, len |-> n])
           /\ OnGrid([foff |-> e.foff, len |-> e.len + n])
           /\ OnGrid([foff |-> e.foff + n, len |-> e.len - n])
<1>1. e.foff \in Int /\ e.len \in Int /\ LS_SUPER_SIZE \in Int
  BY SuperAssumption DEF Extent
<1>2. /\ (e.foff - LS_SUPER_SIZE) % LS_ALIGN = 0 /\ e.len % LS_ALIGN = 0
      /\ e.foff - LS_SUPER_SIZE \in Int
  BY <1>1 DEF OnGrid
<1>3. /\ (e.len + n) % LS_ALIGN = 0 /\ (e.len - n) % LS_ALIGN = 0
      /\ ((e.foff - LS_SUPER_SIZE) + n) % LS_ALIGN = 0
  BY <1>1, <1>2, MultiplesAdd
<1>4. (e.foff - LS_SUPER_SIZE) + n = (e.foff + n) - LS_SUPER_SIZE
  BY <1>1
<1> QED
  BY <1>2, <1>3, <1>4 DEF OnGrid

LEMMA GridRemoveAt ==
    ASSUME NEW f \in Seq(Extent), NEW i \in 1 .. Len(f), AllOnGrid(f)
    PROVE  AllOnGrid(RemoveAt(f, i))
<1> DEFINE g == RemoveAt(f, i)
<1>1. /\ g \in Seq(Extent) /\ Len(g) = Len(f) - 1
      /\ \A j \in 1 .. (Len(f) - 1) : g[j] = IF j < i THEN f[j] ELSE f[j + 1]
  BY RemoveAtProps
<1> HIDE DEF g
<1>2. /\ DOMAIN g = 1 .. (Len(f) - 1) /\ DOMAIN f = 1 .. Len(f) /\ Len(f) \in Nat
  BY <1>1
<1>3. \A j \in DOMAIN g : j \in DOMAIN f /\ j + 1 \in DOMAIN f
  BY <1>2
<1> QED
  BY <1>1, <1>2, <1>3 DEF AllOnGrid, g

LEMMA GridReplace ==
    ASSUME NEW f \in Seq(Extent), NEW i \in 1 .. Len(f), AllOnGrid(f),
           NEW e \in Extent, OnGrid(e)
    PROVE  AllOnGrid([f EXCEPT ![i] = e]) /\ [f EXCEPT ![i] = e] \in Seq(Extent)
           /\ Len([f EXCEPT ![i] = e]) = Len(f)
<1> DEFINE g == [f EXCEPT ![i] = e]
<1>1. /\ g \in Seq(Extent) /\ Len(g) = Len(f)
      /\ \A j \in 1 .. Len(f) : g[j] = IF j = i THEN e ELSE f[j]
  BY ReplaceProps
<1> HIDE DEF g
<1>2. DOMAIN g = 1 .. Len(f) /\ DOMAIN f = 1 .. Len(f)
  BY <1>1
<1> QED
  BY <1>1, <1>2 DEF AllOnGrid, g

\* fl_insert: merged holes are as long as their parts together.
LEMMA GridInsert ==
    ASSUME NEW f \in Seq(Extent), NEW e \in Extent, AllOnGrid(f), OnGrid(e),
           NEW p \in 1 .. (Len(f) + 1)
    PROVE  /\ AllOnGrid(InsertOrMergeLeft(f, p, e))
           /\ InsertOrMergeLeft(f, p, e) \in Seq(Extent)
<1>0. Len(f) \in Nat /\ DOMAIN f = 1 .. Len(f) /\ \A i \in 1 .. Len(f) : f[i] \in Extent
  BY HoleFields
<1>1. CASE MergesLeft(f, p, e.foff)
  <2>1. p - 1 \in 1 .. Len(f) /\ f[p - 1] \in Extent /\ OnGrid(f[p - 1])
    BY <1>0, <1>1 DEF MergesLeft, AllOnGrid
  <2> DEFINE n == [foff |-> f[p - 1].foff, len |-> f[p - 1].len + e.len]
  <2>2. n \in Extent /\ OnGrid(n)
    <3>1. /\ e.len \in Nat /\ e.len > 0 /\ e.len % LS_ALIGN = 0
          /\ f[p - 1].foff \in Nat /\ f[p - 1].len \in Nat /\ f[p - 1].len > 0
      BY <2>1 DEF Extent, OnGrid
    <3>2. f[p - 1].len + e.len \in Nat \ {0}
      BY <3>1
    <3>3. n \in Extent
      BY <3>1, <3>2 DEF Extent
    <3>4. (f[p - 1].foff - LS_SUPER_SIZE) % LS_ALIGN = 0 /\ f[p - 1].len % LS_ALIGN = 0
      BY <2>1 DEF OnGrid
    <3>5. (f[p - 1].len + e.len) % LS_ALIGN = 0
      <4>1. PICK x, y : x = f[p - 1].len /\ y = e.len
        OBVIOUS
      <4>2. x \in Int /\ y \in Int /\ x % LS_ALIGN = 0 /\ y % LS_ALIGN = 0
        BY <3>1, <3>4, <4>1
      <4>3. (x + y) % LS_ALIGN = 0
        BY <4>2, MultiplesAdd
      <4> QED
        BY <4>1, <4>3
    <3> QED
      BY <3>3, <3>4, <3>5 DEF OnGrid
  <2>3. InsertOrMergeLeft(f, p, e) = [f EXCEPT ![p - 1] = n]
    BY <1>1 DEF InsertOrMergeLeft
  <2> HIDE DEF n
  <2> QED
    BY <2>1, <2>2, <2>3, GridReplace
<1>2. CASE ~MergesLeft(f, p, e.foff)
  <2> DEFINE g == InsertAt(f, p, e)
  <2>1. /\ g \in Seq(Extent) /\ Len(g) = Len(f) + 1
        /\ \A j \in 1 .. (Len(f) + 1) :
             g[j] = IF j < p THEN f[j] ELSE IF j = p THEN e ELSE f[j - 1]
    <3>1. /\ InsertAt(f, p, e) \in Seq(Extent)
          /\ Len(InsertAt(f, p, e)) = Len(f) + 1
          /\ \A j \in 1 .. (Len(f) + 1) :
               InsertAt(f, p, e)[j] = IF j < p THEN f[j]
                                      ELSE IF j = p THEN e ELSE f[j - 1]
      BY InsertAtProps
    <3> QED
      BY <3>1
  <2>2. InsertOrMergeLeft(f, p, e) = g
    BY <1>2 DEF InsertOrMergeLeft
  <2> HIDE DEF g
  <2>3. DOMAIN g = 1 .. (Len(f) + 1)
    BY <2>1
  <2>4. \A j \in 1 .. (Len(f) + 1) :
           /\ j < p => j \in DOMAIN f
           /\ ~(j < p) /\ j # p => j - 1 \in DOMAIN f
    BY <1>0
  <2> QED
    BY <2>1, <2>2, <2>3, <2>4 DEF AllOnGrid
<1> QED
  BY <1>1, <1>2

LEMMA GridMergeRight ==
    ASSUME NEW f \in Seq(Extent), AllOnGrid(f), NEW k \in Nat \ {0}
    PROVE  AllOnGrid(MergeRight(f, k))
<1>0. Len(f) \in Nat /\ DOMAIN f = 1 .. Len(f) /\ \A i \in 1 .. Len(f) : f[i] \in Extent
  BY HoleFields
<1>1. CASE k < Len(f) /\ End(f[k]) = f[k + 1].foff
  <2>1. /\ k \in 1 .. Len(f) /\ f[k] \in Extent /\ OnGrid(f[k])
        /\ k + 1 \in 1 .. Len(f) /\ f[k + 1] \in Extent /\ OnGrid(f[k + 1])
    BY <1>0, <1>1 DEF AllOnGrid
  <2> DEFINE n == [foff |-> f[k].foff, len |-> f[k].len + f[k + 1].len]
             g == [f EXCEPT ![k] = n]
  <2>2. n \in Extent /\ OnGrid(n)
    <3>1. /\ f[k + 1].len \in Nat /\ f[k + 1].len > 0 /\ f[k + 1].len % LS_ALIGN = 0
          /\ f[k].foff \in Nat /\ f[k].len \in Nat /\ f[k].len > 0
      BY <2>1 DEF Extent, OnGrid
    <3>2. f[k].len + f[k + 1].len \in Nat \ {0}
      BY <3>1
    <3>3. n \in Extent
      BY <3>1, <3>2 DEF Extent
    <3>4. (f[k].foff - LS_SUPER_SIZE) % LS_ALIGN = 0 /\ f[k].len % LS_ALIGN = 0
      BY <2>1 DEF OnGrid
    <3>5. (f[k].len + f[k + 1].len) % LS_ALIGN = 0
      <4>1. PICK x, y : x = f[k].len /\ y = f[k + 1].len
        OBVIOUS
      <4>2. x \in Int /\ y \in Int /\ x % LS_ALIGN = 0 /\ y % LS_ALIGN = 0
        BY <3>1, <3>4, <4>1
      <4>3. (x + y) % LS_ALIGN = 0
        BY <4>2, MultiplesAdd
      <4> QED
        BY <4>1, <4>3
    <3> QED
      BY <3>3, <3>4, <3>5 DEF OnGrid
  <2> HIDE DEF n
  <2>3. AllOnGrid(g) /\ g \in Seq(Extent) /\ Len(g) = Len(f)
    BY <2>1, <2>2, GridReplace
  <2>4. MergeRight(f, k) = RemoveAt(g, k + 1)
    BY <1>1 DEF MergeRight, n
  <2> HIDE DEF g
  <2> QED
    BY <2>1, <2>3, <2>4, GridRemoveAt
<1>2. CASE ~(k < Len(f) /\ End(f[k]) = f[k + 1].foff)
  BY <1>2 DEF MergeRight
<1> QED
  BY <1>1, <1>2

LEMMA GridFlInsert ==
    ASSUME NEW f \in Seq(Extent), NEW e \in Extent, AllOnGrid(f), OnGrid(e),
           NEW fend \in Nat, (fend - LS_SUPER_SIZE) % LS_ALIGN = 0,
           Coalesce(f, e) \in Seq(Extent)
    PROVE  /\ AllOnGrid(fl_insert(f, fend, e).fl)
           /\ (fl_insert(f, fend, e).file_end - LS_SUPER_SIZE) % LS_ALIGN = 0
<1> DEFINE p == InsertPos(f, e.foff)
           k == IF MergesLeft(f, p, e.foff) THEN p - 1 ELSE p
           g == Coalesce(f, e)
           r == fl_insert(f, fend, e)
<1>1. e.foff \in Nat /\ e.len # 0
  BY DEF Extent
<1>2. p \in 1 .. (Len(f) + 1)
  BY <1>1, InsertPosProps
<1>3. k \in Nat \ {0}
  <2>1. p \in Nat /\ p >= 1
    BY <1>2
  <2> QED
    BY <2>1 DEF MergesLeft
<1>4. AllOnGrid(g)
  <2>1. g = MergeRight(InsertOrMergeLeft(f, p, e), k)
    BY DEF Coalesce
  <2> HIDE DEF p, k, g
  <2> QED
    BY <1>2, <1>3, <2>1, GridInsert, GridMergeRight
<1>5. r = IF TrailingHole(g, fend)
          THEN [fl |-> SubSeq(g, 1, Len(g) - 1), file_end |-> g[Len(g)].foff]
          ELSE [fl |-> g, file_end |-> fend]
  BY <1>1 DEF fl_insert
<1> HIDE DEF g, r
<1>6. g \in Seq(Extent) /\ Len(g) \in Nat /\ DOMAIN g = 1 .. Len(g)
  BY DEF g
<1>7. CASE TrailingHole(g, fend)
  <2>1. Len(g) \in DOMAIN g /\ Len(g) - 1 <= Len(g) /\ Len(g) - 1 \in Nat
    BY <1>6, <1>7 DEF TrailingHole
  <2> DEFINE h == SubSeq(g, 1, Len(g) - 1)
  <2>2. /\ h \in Seq(Extent) /\ Len(h) = Len(g) - 1
        /\ \A i \in 1 .. (Len(g) - 1) : h[i] = g[i]
    BY <1>6, <2>1
  <2> HIDE DEF h
  <2>3. DOMAIN h = 1 .. (Len(g) - 1)
    BY <2>1, <2>2
  <2>4. AllOnGrid(h)
    BY <1>4, <1>6, <2>2, <2>3 DEF AllOnGrid
  <2>5. r.fl = h /\ r.file_end = g[Len(g)].foff
    BY <1>5, <1>7 DEF h
  <2> QED
    BY <1>4, <2>1, <2>4, <2>5 DEF AllOnGrid, OnGrid, r
<1>8. CASE ~TrailingHole(g, fend)
  <2>1. r.fl = g /\ r.file_end = fend
    BY <1>5, <1>8
  <2> QED
    BY <1>4, <2>1 DEF r
<1> QED
  BY <1>7, <1>8

LEMMA GridTakeFront ==
    ASSUME NEW f \in Seq(Extent), AllOnGrid(f), NEW i \in DOMAIN f,
           NEW need \in Nat \ {0}, need <= f[i].len, need % LS_ALIGN = 0
    PROVE  AllOnGrid(TakeFront(f, i, need))
<1>1. /\ i \in 1 .. Len(f) /\ f[i] \in Extent /\ OnGrid(f[i])
      /\ f[i].foff \in Nat /\ f[i].len \in Nat
  BY HoleFields DEF AllOnGrid
<1>2. CASE f[i].len = need
  BY <1>1, <1>2, GridRemoveAt DEF TakeFront
<1>3. CASE f[i].len # need
  <2> DEFINE n == [foff |-> f[i].foff + need, len |-> f[i].len - need]
  <2>1. n \in Extent /\ OnGrid(n)
    <3>1. f[i].foff + need \in Nat /\ f[i].len - need \in Nat \ {0}
      BY <1>1, <1>3
    <3>2. n \in Extent
      BY <3>1 DEF Extent
    <3>3. /\ (f[i].foff - LS_SUPER_SIZE) % LS_ALIGN = 0 /\ f[i].len % LS_ALIGN = 0
          /\ f[i].foff - LS_SUPER_SIZE \in Int
      BY <1>1, SuperAssumption DEF OnGrid
    <3>4. /\ (f[i].len - need) % LS_ALIGN = 0
          /\ ((f[i].foff - LS_SUPER_SIZE) + need) % LS_ALIGN = 0
      <4>1. PICK x, y : x = f[i].len /\ y = f[i].foff - LS_SUPER_SIZE
        OBVIOUS
      <4>2. x \in Int /\ y \in Int /\ x % LS_ALIGN = 0 /\ y % LS_ALIGN = 0
        BY <1>1, <3>3, <4>1
      <4>3. (x - need) % LS_ALIGN = 0 /\ (y + need) % LS_ALIGN = 0
        BY <4>2, MultiplesAdd
      <4> QED
        BY <4>1, <4>3
    <3>5. (f[i].foff - LS_SUPER_SIZE) + need = (f[i].foff + need) - LS_SUPER_SIZE
      BY <1>1, SuperAssumption
    <3> QED
      BY <3>2, <3>4, <3>5 DEF OnGrid
  <2>2. TakeFront(f, i, need) = [f EXCEPT ![i] = n]
    BY <1>3 DEF TakeFront
  <2> HIDE DEF n
  <2>3. AllOnGrid([f EXCEPT ![i] = n])
    BY <1>1, <2>1, GridReplace
  <2> QED
    BY <2>2, <2>3
<1> QED
  BY <1>2, <1>3


-----------------------------------------------------------------------------
(* How much is owned.                                                      *)

\* There are as many owners as fit into the file.
LEMMA AccountFinite ==
    ASSUME NEW f, NEW O, NEW fend, Accounted(f, O, fend)
    PROVE  IsFiniteSet(O)
<1>1. LS_SUPER_SIZE \in Nat /\ fend \in Nat /\ O \in SUBSET Extent
  BY SuperAssumption DEF Accounted
<1> DEFINE W == LS_SUPER_SIZE .. fend
           foff == [e \in O |-> e.foff]
<1>2. \A e \in O : e.foff \in Nat /\ e.len \in Nat /\ e.len > 0 /\ In(e.foff, e)
  BY <1>1 DEF Extent, In
<1>3. \A e \in O : LS_SUPER_SIZE <= e.foff /\ e.foff < fend
  BY <1>2 DEF Accounted, Partitioned, InOwned
<1>4. foff \in [O -> W]
  BY <1>1, <1>2, <1>3
<1>5. \A d, e \in O : d # e => foff[d] # foff[e]
  BY <1>2 DEF Accounted, Apart
<1>6. IsFiniteSet(W)
  BY <1>1, FS_Interval
<1> HIDE DEF foff, W
<1> QED
  BY <1>4, <1>5, <1>6, FS_Injection DEF ExistsInjection, Injection, IsInjective

\* The bytes of an extent are as many as its length says.
LEMMA BytesCount ==
    ASSUME NEW e \in Extent
    PROVE  IsFiniteSet(Bytes(e)) /\ Cardinality(Bytes(e)) = e.len
<1>1. PICK a, b : a = e.foff /\ b = e.foff + e.len - 1
  OBVIOUS
<1>2. a \in Int /\ b \in Int /\ a <= b /\ b - a + 1 = e.len
  BY <1>1 DEF Extent
<1>3. IsFiniteSet(a .. b) /\ Cardinality(a .. b) = IF a > b THEN 0 ELSE b - a + 1
  BY <1>2, FS_Interval
<1>4. Bytes(e) = a .. b
  BY <1>1 DEF Bytes, End, Extent
<1> QED
  BY <1>2, <1>3, <1>4

\* What ls_alloc_live computes is the length of the extents handed out.
LEMMA AccountLive ==
    ASSUME NEW f, NEW O, NEW fend, Accounted(f, O, fend)
    PROVE  fend - LS_SUPER_SIZE - FoldLengths(f) = SumLengths(O)
<1>1. /\ f \in Seq(Extent) /\ O \in SUBSET Extent /\ fend \in Nat
      /\ LS_SUPER_SIZE \in Nat /\ LS_SUPER_SIZE <= fend
      /\ Partitioned(f, O, fend) /\ Apart(O) /\ Separated(f)
  BY SuperAssumption DEF Accounted
<1> DEFINE D == DOMAIN f
           v == [i \in D |-> f[i].len]
           b == [i \in D |-> Bytes(f[i])]
           w == [e \in O |-> e.len]
           c == [e \in O |-> Bytes(e)]
           H == UNION {b[i] : i \in D}
           U == UNION {c[e] : e \in O}
<1>2. /\ D = 1 .. Len(f) /\ Len(f) \in Nat
      /\ \A i \in D : f[i] \in Extent /\ f[i].len \in Nat
  BY <1>1, HoleFields
<1>3. IsFiniteSet(D) /\ IsFiniteSet(O)
  BY <1>2, FS_Interval, AccountFinite
<1>4. IsFiniteSet(H) /\ Cardinality(H) = Total(v, D)
  <2>1. \A i \in D : IsFiniteSet(b[i]) /\ v[i] = Cardinality(b[i])
    BY <1>2, BytesCount
  <2>2. \A i, j \in D : i # j => b[i] \cap b[j] = {}
    <3>1. ASSUME NEW i \in D, NEW j \in D, i < j
          PROVE  Bytes(f[i]) \cap Bytes(f[j]) = {}
      <4>1. f[i].foff + f[i].len < f[j].foff
        BY <1>1, <3>1 DEF Separated, End
      <4>2. /\ f[i].foff \in Nat /\ f[i].len \in Nat /\ f[j].foff \in Nat /\ f[j].len \in Nat
        BY <1>1, <1>2, HoleFields
      <4> QED
        BY <4>1, <4>2 DEF Bytes, End
    <3>2. \A i, j \in D : i # j => i < j \/ j < i
      BY <1>2
    <3> QED
      BY <3>1, <3>2
  <2> HIDE DEF v, b, D
  <2> QED
    BY <1>3, <2>1, <2>2, CountDisjoint
<1>5. IsFiniteSet(U) /\ Cardinality(U) = Total(w, O)
  <2>1. \A e \in O : IsFiniteSet(c[e]) /\ w[e] = Cardinality(c[e])
    BY <1>1, BytesCount
  <2>2. \A d, e \in O : d # e => c[d] \cap c[e] = {}
    BY <1>1, ApartByBytes
  <2> HIDE DEF w, c
  <2> QED
    BY <1>3, <2>1, <2>2, CountDisjoint
<1>6. H \cup U = LS_SUPER_SIZE .. (fend - 1) /\ H \cap U = {}
  <2>1. H = HoleBytes(f)
    BY DEF HoleBytes
  <2>2. U = UNION {Bytes(e) : e \in O}
    OBVIOUS
  <2> HIDE DEF H, U
  <2> QED
    BY <1>1, <2>1, <2>2, PartitionByBytes
<1>7. Cardinality(H \cup U) = fend - LS_SUPER_SIZE
  <2>1. PICK z : z = fend - 1
    OBVIOUS
  <2>2. Cardinality(LS_SUPER_SIZE .. z) = IF LS_SUPER_SIZE > z THEN 0 ELSE z - LS_SUPER_SIZE + 1
    BY <1>1, <2>1, FS_Interval
  <2>3. H \cup U = LS_SUPER_SIZE .. z
    <3> HIDE DEF H, U
    <3> QED
      BY <1>6, <2>1
  <2>4. (IF LS_SUPER_SIZE > z THEN 0 ELSE z - LS_SUPER_SIZE + 1) = fend - LS_SUPER_SIZE
    BY <1>1, <2>1
  <2> HIDE DEF H, U
  <2> QED
    BY <2>2, <2>3, <2>4
<1> HIDE DEF H, U
<1>8. Cardinality(H \cup U) = Cardinality(H) + Cardinality(U) - Cardinality(H \cap U)
  BY <1>4, <1>5, FS_Union
<1>9. Cardinality(H \cap U) = 0
  BY <1>6, FS_EmptySet
<1>10. FoldLengths(f) = Total(v, D)
  <2>1. /\ IsFiniteSet(DOMAIN f) /\ DOMAIN f \in SUBSET Nat /\ Len(f) \in Nat
        /\ \A i \in DOMAIN f : i <= Len(f)
        /\ \A i \in DOMAIN f : f[i].len \in Nat
    BY <1>2, <1>3
  <2>2. FoldLengths(f) = Total([i \in DOMAIN f |-> f[i].len], DOMAIN f)
    BY <2>1, FoldOfLengths
  <2> QED
    BY <2>2, Zenon
<1>11. SumLengths(O) = Total(w, O)
  BY <1>1, <1>3, SumOfLengths DEF Extent
<1>12. Cardinality(H) \in Nat /\ Cardinality(U) \in Nat
  BY <1>4, <1>5, FS_CardinalityType
<1> HIDE DEF v, w, D
<1> QED
  BY <1>1, <1>4, <1>5, <1>7, <1>8, <1>9, <1>10, <1>11, <1>12

-----------------------------------------------------------------------------
(* The free list is determined by its bytes.                               *)

\* A hole of a separated list is bounded by bytes that are in no hole.
LEMMA HoleEdges ==
    ASSUME NEW f \in Seq(Extent), Separated(f), NEW i \in 1 .. Len(f)
    PROVE  ~InHole(f[i].foff - 1, f) /\ ~InHole(End(f[i]), f)
<1>1. /\ DOMAIN f = 1 .. Len(f) /\ Len(f) \in Nat
      /\ \A j \in 1 .. Len(f) : f[j].foff \in Nat /\ f[j].len \in Nat /\ f[j].len > 0
  BY HoleFields
<1>2. \A j, k \in 1 .. Len(f) : j < k => f[j].foff + f[j].len < f[k].foff
  BY <1>1 DEF Separated, End
<1>3. PICK a, z : a = f[i].foff /\ z = f[i].foff + f[i].len
  OBVIOUS
<1>4. a \in Nat /\ z \in Nat /\ a < z
  BY <1>1, <1>3
<1>5. ASSUME NEW j \in 1 .. Len(f)
      PROVE  ~In(a - 1, f[j]) /\ ~In(z, f[j])
  <2>0. PICK c, d : c = f[j].foff /\ d = f[j].foff + f[j].len
    OBVIOUS
  <2>1. c \in Nat /\ d \in Nat /\ c < d
    BY <1>1, <2>0
  <2>2. j = i \/ j < i \/ i < j
    OBVIOUS
  <2>3. CASE j = i
    BY <1>3, <1>4, <2>0, <2>1, <2>3 DEF In
  <2>4. CASE j < i
    <3>1. d < a
      BY <1>2, <1>3, <2>0, <2>4
    <3> QED
      BY <1>4, <2>0, <2>1, <3>1 DEF In
  <2>5. CASE i < j
    <3>1. z < c
      BY <1>2, <1>3, <2>0, <2>5
    <3> QED
      BY <1>4, <2>0, <2>1, <3>1 DEF In
  <2> QED
    BY <2>2, <2>3, <2>4, <2>5
<1> QED
  BY <1>1, <1>3, <1>5 DEF InHole, End

\* So a hole of one list is a hole of any other with the same bytes,
LEMMA SameHole ==
    ASSUME NEW f \in Seq(Extent), Separated(f), NEW g \in Seq(Extent), Separated(g),
           \A b \in Int : InHole(b, f) <=> InHole(b, g), NEW i \in 1 .. Len(f)
    PROVE  \E j \in 1 .. Len(g) : g[j] = f[i]
<1>1. /\ f[i] \in Extent /\ f[i].foff \in Nat /\ f[i].len \in Nat /\ f[i].len > 0
      /\ DOMAIN f = 1 .. Len(f) /\ DOMAIN g = 1 .. Len(g)
  BY HoleFields
<1>2. PICK a, z : a = f[i].foff /\ z = f[i].foff + f[i].len
  OBVIOUS
<1>3. a \in Nat /\ z \in Nat /\ a < z
  BY <1>1, <1>2
<1>4. \A b \in Int : a <= b /\ b < z => InHole(b, f)
  BY <1>1, <1>2 DEF InHole, In
<1>5. InHole(a, g)
  BY <1>3, <1>4
<1>6. PICK j \in 1 .. Len(g) : In(a, g[j])
  BY <1>1, <1>5 DEF InHole
<1>7. g[j] \in Extent /\ g[j].foff \in Nat /\ g[j].len \in Nat /\ g[j].len > 0
  BY HoleFields
<1>8. PICK c, y : c = g[j].foff /\ y = g[j].foff + g[j].len
  OBVIOUS
<1>9. c \in Nat /\ y \in Nat /\ c <= a /\ a < y
  BY <1>6, <1>7, <1>8 DEF In
<1>10. \A b \in Int : c <= b /\ b < y => InHole(b, g)
  BY <1>1, <1>7, <1>8 DEF InHole, In
<1>11. ~InHole(a - 1, f) /\ ~InHole(z, f)
  BY <1>2, HoleEdges DEF End
<1>12. ~InHole(y, g)
  BY <1>8, HoleEdges DEF End
<1>13. c = a
  <2>1. ~InHole(a - 1, g) /\ a - 1 \in Int
    BY <1>3, <1>11
  <2>2. ~(c <= a - 1 /\ a - 1 < y)
    BY <1>10, <2>1
  <2> QED
    BY <1>3, <1>9, <2>2
<1>14. y = z
  <2>1. ~InHole(z, g) /\ ~InHole(y, f)
    BY <1>3, <1>9, <1>11, <1>12
  <2>2. ~(c <= z /\ z < y) /\ ~(a <= y /\ y < z)
    BY <1>3, <1>4, <1>9, <1>10, <2>1
  <2> QED
    BY <1>3, <1>9, <1>13, <2>2
<1>15. g[j].foff = f[i].foff /\ g[j].len = f[i].len
  <2>1. g[j].foff = f[i].foff /\ g[j].foff + g[j].len = f[i].foff + f[i].len
    BY <1>2, <1>8, <1>13, <1>14
  <2> QED
    BY <1>1, <1>7, <2>1
<1>16. g[j] = f[i]
  <2>1. f[i] = [foff |-> f[i].foff, len |-> f[i].len]
    BY <1>1 DEF Extent
  <2>2. g[j] = [foff |-> g[j].foff, len |-> g[j].len]
    BY <1>7 DEF Extent
  <2> QED
    BY <1>15, <2>1, <2>2, Zenon
<1> QED
  BY <1>16

\* and at the same index.
LEMMA RisesAbove ==
    ASSUME NEW m \in Nat, NEW h, \A i \in 1 .. m : h[i] \in Nat \ {0},
           \A i, j \in 1 .. m : i < j => h[i] < h[j]
    PROVE  \A i \in 1 .. m : i <= h[i]
<1> DEFINE P == {i \in Nat : i + 1 \in 1 .. m => i + 1 <= h[i + 1]}
<1>1. 0 \in P
  OBVIOUS
<1>2. ASSUME NEW i \in P
      PROVE  i + 1 \in P
  <2>1. i \in Nat /\ (i + 1 \in 1 .. m => i + 1 <= h[i + 1])
    OBVIOUS
  <2>2. ASSUME (i + 1) + 1 \in 1 .. m
        PROVE  (i + 1) + 1 <= h[(i + 1) + 1]
    <3>1. PICK j : j = (i + 1) + 1
      OBVIOUS
    <3>2. j \in 1 .. m /\ i + 1 \in 1 .. m /\ i + 1 < j
      BY <2>1, <2>2, <3>1
    <3>3. h[i + 1] < h[j] /\ h[i + 1] \in Nat /\ h[j] \in Nat /\ i + 1 <= h[i + 1]
      BY <2>1, <3>2
    <3> QED
      BY <2>1, <3>1, <3>3
  <2> QED
    BY <2>1, <2>2
<1>3. P = Nat
  <2>1. P \in SUBSET Nat
    OBVIOUS
  <2> HIDE DEF P
  <2> QED
    BY <1>1, <1>2, <2>1, NatSet
<1> TAKE i \in 1 .. m
<1>4. i - 1 \in P /\ (i - 1) + 1 = i
  <2> HIDE DEF P
  <2> QED
    BY <1>3
<1> QED
  BY <1>4

LEMMA Canonical ==
    ASSUME NEW f \in Seq(Extent), Separated(f), NEW g \in Seq(Extent), Separated(g),
           \A b \in Int : InHole(b, f) <=> InHole(b, g)
    PROVE  f = g
<1>1. PICK m, n : m = Len(f) /\ n = Len(g)
  OBVIOUS
<1>2. /\ m \in Nat /\ DOMAIN f = 1 .. m /\ n \in Nat /\ DOMAIN g = 1 .. n
      /\ \A i \in 1 .. m : f[i].foff \in Nat /\ f[i].len \in Nat /\ f[i].len > 0
      /\ \A i \in 1 .. n : g[i].foff \in Nat /\ g[i].len \in Nat /\ g[i].len > 0
  BY <1>1, HoleFields
<1>3. /\ \A i, j \in 1 .. m : i < j => f[i].foff < f[j].foff
      /\ \A i, j \in 1 .. n : i < j => g[i].foff < g[j].foff
  <2>1. ASSUME NEW i \in 1 .. m, NEW j \in 1 .. m, i < j
        PROVE  f[i].foff < f[j].foff
    <3>1. f[i].foff + f[i].len < f[j].foff
      BY <1>2, <2>1 DEF Separated, End
    <3> QED
      BY <1>2, <3>1
  <2>2. ASSUME NEW i \in 1 .. n, NEW j \in 1 .. n, i < j
        PROVE  g[i].foff < g[j].foff
    <3>1. g[i].foff + g[i].len < g[j].foff
      BY <1>2, <2>2 DEF Separated, End
    <3> QED
      BY <1>2, <3>1
  <2> QED
    BY <2>1, <2>2
<1>4. \A i \in 1 .. m : \E j \in 1 .. n : g[j] = f[i]
  BY <1>1, SameHole
<1>5. \A j \in 1 .. n : \E i \in 1 .. m : f[i] = g[j]
  BY <1>1, SameHole
<1>6. PICK s : s = [i \in 1 .. m |-> CHOOSE j \in 1 .. n : g[j] = f[i]]
  OBVIOUS
<1>7. PICK t : t = [j \in 1 .. n |-> CHOOSE i \in 1 .. m : f[i] = g[j]]
  OBVIOUS
<1>8. \A i \in 1 .. m : s[i] \in 1 .. n /\ g[s[i]] = f[i]
  BY <1>4, <1>6
<1>9. \A j \in 1 .. n : t[j] \in 1 .. m /\ f[t[j]] = g[j]
  BY <1>5, <1>7
<1>10. ASSUME NEW i \in 1 .. m, NEW j \in 1 .. m, i < j
       PROVE  s[i] < s[j]
  <2>1. /\ s[i] \in 1 .. n /\ s[j] \in 1 .. n /\ g[s[i]] = f[i] /\ g[s[j]] = f[j]
        /\ f[i].foff < f[j].foff /\ f[i].foff \in Nat /\ f[j].foff \in Nat
    BY <1>2, <1>3, <1>8, <1>10
  <2>2. s[i] # s[j] /\ ~(s[j] < s[i])
    <3>1. PICK u, v : u = s[i] /\ v = s[j]
      OBVIOUS
    <3>2. u \in 1 .. n /\ v \in 1 .. n /\ g[u].foff < g[v].foff
      BY <2>1, <3>1
    <3>3. ~(v < u)
      BY <1>2, <1>3, <3>2
    <3>4. g[u].foff # g[v].foff
      BY <1>2, <3>2
    <3> QED
      BY <3>1, <3>3, <3>4
  <2> QED
    BY <2>1, <2>2
<1>11. ASSUME NEW i \in 1 .. n, NEW j \in 1 .. n, i < j
       PROVE  t[i] < t[j]
  <2>1. /\ t[i] \in 1 .. m /\ t[j] \in 1 .. m /\ f[t[i]] = g[i] /\ f[t[j]] = g[j]
        /\ g[i].foff < g[j].foff /\ g[i].foff \in Nat /\ g[j].foff \in Nat
    BY <1>2, <1>3, <1>9, <1>11
  <2>2. t[i] # t[j] /\ ~(t[j] < t[i])
    <3>1. PICK u, v : u = t[i] /\ v = t[j]
      OBVIOUS
    <3>2. u \in 1 .. m /\ v \in 1 .. m /\ f[u].foff < f[v].foff
      BY <2>1, <3>1
    <3>3. ~(v < u)
      BY <1>2, <1>3, <3>2
    <3>4. f[u].foff # f[v].foff
      BY <1>2, <3>2
    <3> QED
      BY <3>1, <3>3, <3>4
  <2> QED
    BY <2>1, <2>2
<1>12. \A i \in 1 .. m : i <= s[i]
  <2>1. \A i \in 1 .. m : s[i] \in Nat \ {0}
    BY <1>8
  <2> QED
    BY <1>2, <1>10, <2>1, RisesAbove
<1>13. \A j \in 1 .. n : j <= t[j]
  <2>1. \A j \in 1 .. n : t[j] \in Nat \ {0}
    BY <1>9
  <2> QED
    BY <1>2, <1>11, <2>1, RisesAbove
<1>14. \A i, j \in 1 .. m : f[i] = f[j] => i = j
  <2> SUFFICES ASSUME NEW i \in 1 .. m, NEW j \in 1 .. m, f[i] = f[j], i # j
               PROVE  FALSE
    OBVIOUS
  <2>1. f[i].foff \in Nat /\ (i < j \/ j < i) /\ f[i].foff = f[j].foff
    BY <1>2
  <2> QED
    BY <1>3, <2>1
<1>15. ASSUME NEW i \in 1 .. m
       PROVE  i \in 1 .. n /\ f[i] = g[i]
  <2>1. s[i] \in 1 .. n /\ g[s[i]] = f[i] /\ i <= s[i]
    BY <1>8, <1>12
  <2>2. t[s[i]] \in 1 .. m /\ f[t[s[i]]] = f[i] /\ s[i] <= t[s[i]]
    BY <1>9, <1>13, <2>1
  <2>3. t[s[i]] = i
    BY <1>14, <2>2
  <2>4. s[i] = i
    BY <2>1, <2>2, <2>3
  <2> QED
    BY <2>1, <2>4
<1>16. m = n
  <2>1. CASE n = 0
    <3>1. m = 0
      <4> SUFFICES ASSUME m # 0
                   PROVE  FALSE
        OBVIOUS
      <4>1. 1 \in 1 .. m
        BY <1>2
      <4> QED
        BY <1>15, <2>1, <4>1
    <3> QED
      BY <2>1, <3>1
  <2>2. CASE n # 0
    <3>1. n \in 1 .. n /\ t[n] \in 1 .. m /\ n <= t[n]
      BY <1>2, <1>9, <1>13, <2>2
    <3>2. n <= m /\ m \in 1 .. m
      BY <1>2, <2>2, <3>1
    <3>3. m \in 1 .. n
      BY <1>15, <3>2
    <3> QED
      BY <1>2, <3>2, <3>3
  <2> QED
    BY <2>1, <2>2
<1> QED
  BY <1>1, <1>2, <1>15, <1>16

LEMMA RoundUpBelow ==
    ASSUME NEW n \in Nat
    PROVE  round_up(n) <= n + LS_ALIGN
<1>1. LS_ALIGN \in Nat /\ LS_ALIGN > 0
  BY AlignAssumption
<1>2. PICK x : x = n + (LS_ALIGN - 1)
  OBVIOUS
<1>3. x \in Nat
  BY <1>1, <1>2
<1>4. x % LS_ALIGN \in Nat
  BY <1>1, <1>3
<1>5. round_up(n) = x - (x % LS_ALIGN)
  BY <1>2 DEF round_up
<1> QED
  BY <1>1, <1>2, <1>3, <1>4, <1>5

\* The file ends where an extent does.
LEMMA EndOwned ==
    ASSUME NEW f, NEW O, NEW fend, Accounted(f, O, fend), fend # LS_SUPER_SIZE
    PROVE  \E e \in O : End(e) = fend
<1>1. fend \in Nat /\ LS_SUPER_SIZE <= fend /\ LS_SUPER_SIZE \in Nat /\ O \in SUBSET Extent /\ f \in Seq(Extent)
  BY SuperAssumption DEF Accounted
<1>2. PICK b : b = fend - 1
  OBVIOUS
<1>3. b \in Int /\ LS_SUPER_SIZE <= b /\ b < fend
  BY <1>1, <1>2
<1>4. InHole(b, f) \/ InOwned(b, O)
  BY <1>3 DEF Accounted, Partitioned
<1>5. ~InHole(b, f)
  <2> SUFFICES ASSUME NEW i \in DOMAIN f, In(b, f[i])
               PROVE  FALSE
    BY DEF InHole
  <2>1. f[i] \in Extent /\ End(f[i]) < fend
    BY <1>1 DEF Accounted
  <2>2. End(f[i]) \in Nat
    BY <2>1 DEF Extent, End
  <2> QED
    BY <1>1, <1>2, <2>1, <2>2 DEF In, End
<1>6. PICK e \in O : In(b, e)
  BY <1>4, <1>5 DEF InOwned
<1>7. End(e) <= fend /\ e \in Extent
  BY <1>1, AccountInside
<1>8. End(e) \in Nat
  BY <1>7 DEF Extent, End
<1> QED
  BY <1>1, <1>2, <1>6, <1>7, <1>8 DEF In, End
=============================================================================
