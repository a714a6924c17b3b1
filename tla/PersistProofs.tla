--------------------------- MODULE PersistProofs ---------------------------
(***************************************************************************)
(* The life of a store's file, for every number of keys, processes and     *)
(* opens and every setting: whoever opens the file, closes it, fails or    *)
(* dies, a table of contents that is accepted is one that was written      *)
(* whole, it describes disjoint extents, and it gives back what a close    *)
(* promised.                                                               *)
(***************************************************************************)
EXTENDS Persist, CommonProofs

(* The order of the extents, and the holes between them.                   *)

InOrder(s) == \A i, j \in DOMAIN s : i < j => s[i].foff <= s[j].foff

\* A finite set of extents can be sorted.
LEMMA SortedExists ==
    ASSUME NEW O \in SUBSET Extent, IsFiniteSet(O), NEW top \in Nat,
           \A e \in O : e.foff <= top
    PROVE  \E s \in SetToSeqs(O) : InOrder(s)
<1> DEFINE E(T) == \E s \in SetToSeqs(T) : InOrder(s)
           P == {n \in Nat : \A T \in SUBSET O : Cardinality(T) = n => E(T)}
<1>1. \A T \in SUBSET O : IsFiniteSet(T) /\ Cardinality(T) \in Nat
  BY FS_Subset, FS_CardinalityType
<1>2. 0 \in P
  <2> SUFFICES ASSUME NEW T \in SUBSET O, Cardinality(T) = 0
               PROVE  E(T)
    OBVIOUS
  <2>1. PICK s : s = [i \in 1 .. 0 |-> 0]
    OBVIOUS
  <2>2. 1 .. 0 = {}
    OBVIOUS
  <2>3. s \in [1 .. 0 -> T] /\ DOMAIN s = {}
    BY <2>1, <2>2
  <2>4. s \in SetToSeqs(T)
    BY <2>2, <2>3 DEF SetToSeqs
  <2>5. InOrder(s)
    BY <2>3 DEF InOrder
  <2> QED
    BY <2>4, <2>5
<1>3. ASSUME NEW n \in P
      PROVE  n + 1 \in P
  <2>0. n \in Nat /\ \A T \in SUBSET O : Cardinality(T) = n => E(T)
    OBVIOUS
  <2> SUFFICES ASSUME NEW T \in SUBSET O, Cardinality(T) = n + 1
               PROVE  E(T)
    BY <2>0
  <2>1. T # {}
    <3>1. Cardinality({}) = 0
      BY FS_EmptySet
    <3>2. n + 1 # 0
      BY <2>0
    <3> QED
      BY <3>1, <3>2
  <2>2. \A e \in T : e.foff \in Nat /\ e.foff <= top
    BY DEF Extent
  <2>3. PICK offs : offs = {e.foff : e \in T}
    OBVIOUS
  <2>4. offs \in SUBSET Nat /\ offs # {} /\ \A y \in offs : y <= top
    BY <2>1, <2>2, <2>3
  <2>5. Max(offs) \in offs /\ \A y \in offs : y <= Max(offs)
    BY <2>4, MaxProps
  <2>6. PICK e \in T : \A d \in T : d.foff <= e.foff
    BY <2>3, <2>5
  <2>7. T \ {e} \in SUBSET O /\ Cardinality(T \ {e}) = n
    <3>1. Cardinality(T \ {e}) = Cardinality(T) - 1
      BY <1>1, FS_RemoveElement
    <3> QED
      BY <2>0, <3>1
  <2>8. PICK s \in SetToSeqs(T \ {e}) : InOrder(s)
    BY <2>0, <2>7
  <2>9. s \in [1 .. n -> T \ {e}] /\ \A i, j \in 1 .. n : i # j => s[i] # s[j]
    BY <2>7 DEF SetToSeqs
  <2>10. PICK r : r = [i \in 1 .. (n + 1) |-> IF i = n + 1 THEN e ELSE s[i]]
    OBVIOUS
  <2>11. \A i \in 1 .. (n + 1) : /\ i # n + 1 => i \in 1 .. n /\ r[i] = s[i] /\ s[i] \in T \ {e}
                                 /\ i = n + 1 => r[i] = e
    BY <2>0, <2>9, <2>10
  <2>12. r \in [1 .. (n + 1) -> T]
    BY <2>10, <2>11
  <2>13. \A i, j \in 1 .. (n + 1) : i # j => r[i] # r[j]
    BY <2>9, <2>11
  <2>14. r \in SetToSeqs(T)
    BY <2>12, <2>13 DEF SetToSeqs
  <2>15. InOrder(r)
    <3> SUFFICES ASSUME NEW i \in 1 .. (n + 1), NEW j \in 1 .. (n + 1), i < j
                 PROVE  r[i].foff <= r[j].foff
      BY <2>12 DEF InOrder
    <3>1. i # n + 1
      BY <2>0
    <3>2. CASE j = n + 1
      BY <2>6, <2>11, <3>1, <3>2
    <3>3. CASE j # n + 1
      BY <2>8, <2>9, <2>11, <3>1, <3>3 DEF InOrder
    <3> QED
      BY <3>2, <3>3
  <2> QED
    BY <2>14, <2>15
<1>4. P = Nat
  <2>1. P \in SUBSET Nat
    OBVIOUS
  <2> HIDE DEF P
  <2> QED
    BY <1>2, <1>3, <2>1, NatSet
<1>5. Cardinality(O) \in P
  BY <1>1, <1>4
<1> HIDE DEF E
<1>6. E(O)
  BY <1>5
<1> QED
  BY <1>6 DEF E

\* The sorted extents of a balanced file: all of them, none before the end of
\* the one in front of it.
LEMMA SortedProps ==
    ASSUME NEW f, NEW O, NEW fend, Accounted(f, O, fend), NEW s, s = Sorted(O)
    PROVE  /\ s \in Seq(O) /\ s \in Seq(Extent)
           /\ \A i, j \in 1 .. Len(s) : i < j => End(s[i]) <= s[j].foff
           /\ \A e \in O : \E i \in 1 .. Len(s) : s[i] = e
<1>1. O \in SUBSET Extent /\ IsFiniteSet(O) /\ fend \in Nat /\ Apart(O)
  BY AccountFinite DEF Accounted
<1>2. \A e \in O : e.foff \in Nat /\ e.len \in Nat /\ e.len > 0 /\ e.foff <= fend
  <2> SUFFICES ASSUME NEW e \in O
               PROVE  e.foff \in Nat /\ e.len \in Nat /\ e.len > 0 /\ e.foff <= fend
    OBVIOUS
  <2>1. e.foff \in Nat /\ e.len \in Nat /\ e.len > 0
    BY <1>1 DEF Extent
  <2>2. e.foff + e.len <= fend
    BY AccountInside DEF End
  <2> QED
    BY <1>1, <2>1, <2>2
<1>3. \E t \in SetToSeqs(O) : InOrder(t)
  BY <1>1, <1>2, SortedExists
<1>4. s \in SetToSeqs(O) /\ InOrder(s)
  BY <1>3 DEF Sorted, InOrder
<1>5. PICK n : n = Cardinality(O)
  OBVIOUS
<1>6. n \in Nat /\ s \in [1 .. n -> O] /\ \A i, j \in 1 .. n : i # j => s[i] # s[j]
  BY <1>1, <1>4, <1>5, FS_CardinalityType DEF SetToSeqs
<1>7. s \in Seq(O) /\ s \in Seq(Extent) /\ Len(s) = n /\ DOMAIN s = 1 .. n
  BY <1>1, <1>6
<1>8. \A e \in O : \E i \in 1 .. n : s[i] = e
  <2>1. s \in Injection(1 .. n, O)
    BY <1>6 DEF Injection, IsInjective
  <2>2. Cardinality(1 .. n) = n
    <3>1. Cardinality(1 .. n) = IF 1 > n THEN 0 ELSE n - 1 + 1
      BY <1>6, FS_Interval
    <3> QED
      BY <1>6, <3>1
  <2>3. s \in Surjection(1 .. n, O)
    BY <1>1, <1>5, <2>1, <2>2, FS_Injection
  <2> QED
    BY <2>3 DEF Surjection
<1>9. ASSUME NEW i \in 1 .. n, NEW j \in 1 .. n, i < j
      PROVE  End(s[i]) <= s[j].foff
  <2>1. PICK d, e : d = s[i] /\ e = s[j]
    OBVIOUS
  <2>2. d \in O /\ e \in O /\ d # e /\ d.foff <= e.foff
    BY <1>4, <1>6, <1>9, <2>1 DEF InOrder
  <2>3. d.foff \in Nat /\ d.len \in Nat /\ e.foff \in Nat /\ e.len \in Nat /\ e.len > 0
    BY <1>2, <2>2
  <2>4. ~(In(e.foff, d) /\ In(e.foff, e))
    BY <1>1, <2>2, <2>3 DEF Apart
  <2>5. d.foff + d.len <= e.foff
    BY <2>2, <2>3, <2>4 DEF In
  <2> QED
    BY <2>1, <2>5 DEF End
<1> QED
  BY <1>7, <1>8, <1>9

\* One turn of rebuild_free_list's loop, under a name of its own.
Rebuilt(x, e, fend) ==
    [fl  |-> IF Gap(x.cur, e)
             THEN fl_insert(x.fl, fend, [foff |-> x.cur, len |-> e.foff - x.cur]).fl
             ELSE x.fl,
     cur |-> Past(e),
     ok  |-> x.ok /\ e.foff >= x.cur]

\* What has been rebuilt when the extents of s with an index in S are behind:
\* every gap between them is a hole.
GapsSoFar(x, s, S, fend) ==
    /\ x.fl \in Seq(Extent) /\ Separated(x.fl) /\ x.cur \in Nat /\ x.ok = TRUE
    /\ LS_SUPER_SIZE <= x.cur /\ x.cur <= fend
    /\ \A i \in S : End(s[i]) <= x.cur
    /\ x.cur = LS_SUPER_SIZE \/ \E i \in S : x.cur = End(s[i])
    /\ \A b \in Int : InHole(b, x.fl) <=>
          LS_SUPER_SIZE <= b /\ b < x.cur /\ \A i \in S : ~In(b, s[i])

LEMMA RebuildStep ==
    ASSUME NEW s \in Seq(Extent), NEW fend \in Nat,
           \A i, j \in 1 .. Len(s) : i < j => End(s[i]) <= s[j].foff,
           \A i \in 1 .. Len(s) : LS_SUPER_SIZE <= s[i].foff /\ End(s[i]) <= fend,
           NEW S \in SUBSET (1 .. Len(s)), NEW m \in S, \A i \in S : i <= m,
           NEW x, GapsSoFar(x, s, S \ {m}, fend), NEW y, y = Rebuilt(x, s[m], fend)
    PROVE  GapsSoFar(y, s, S, fend)
<1>0. LS_SUPER_SIZE \in Nat
  BY SuperAssumption
<1>1. PICK e, a, z : e = s[m] /\ a = e.foff /\ z = e.foff + e.len
  OBVIOUS
<1>2. /\ e \in Extent /\ a \in Nat /\ z \in Nat /\ a < z /\ LS_SUPER_SIZE <= a /\ z <= fend
  BY <1>1, HoleFields DEF End
<1>3. \A i \in S \ {m} : End(s[i]) <= a
  <2> SUFFICES ASSUME NEW i \in S \ {m}
               PROVE  End(s[i]) <= a
    OBVIOUS
  <2>1. i \in 1 .. Len(s) /\ m \in 1 .. Len(s) /\ i < m
    OBVIOUS
  <2> QED
    BY <1>1, <2>1
<1>4. /\ x.fl \in Seq(Extent) /\ Separated(x.fl) /\ x.cur \in Nat /\ x.ok = TRUE
      /\ LS_SUPER_SIZE <= x.cur /\ x.cur <= fend
      /\ \A i \in S \ {m} : End(s[i]) <= x.cur
      /\ x.cur = LS_SUPER_SIZE \/ \E i \in S \ {m} : x.cur = End(s[i])
      /\ \A b \in Int : InHole(b, x.fl) <=>
           LS_SUPER_SIZE <= b /\ b < x.cur /\ \A i \in S \ {m} : ~In(b, s[i])
  BY DEF GapsSoFar
<1>5. x.cur <= a
  BY <1>2, <1>3, <1>4
<1>6. PICK c, l : c = x.cur /\ l = y.fl
  OBVIOUS
<1>7. y.cur = z /\ y.ok = TRUE
  <2>1. y.cur = z
    BY <1>1 DEF Rebuilt, Past, End
  <2>2. y.ok = (x.ok /\ e.foff >= x.cur)
    BY <1>1 DEF Rebuilt
  <2>3. e.foff >= x.cur
    BY <1>1, <1>2, <1>4, <1>5
  <2> QED
    BY <1>4, <2>1, <2>2, <2>3
<1>8. /\ l \in Seq(Extent) /\ Separated(l)
      /\ \A b \in Int : InHole(b, l) <=> InHole(b, x.fl) \/ (c <= b /\ b < a)
  <2>1. CASE a > c
    <3>1. PICK h, r : h = [foff |-> c, len |-> a - c] /\ r = fl_insert(x.fl, fend, h)
      OBVIOUS
    <3>2. h \in Extent /\ h.foff = c /\ h.len = a - c
      <4>1. c \in Nat
        BY <1>4, <1>6
      <4>2. a - c \in Nat \ {0}
        BY <1>2, <2>1, <4>1
      <4> QED
        BY <3>1, <4>1, <4>2 DEF Extent
    <3>3. l = r.fl
      <4>1. y.fl = IF e.foff > x.cur
                   THEN fl_insert(x.fl, fend, [foff |-> x.cur, len |-> e.foff - x.cur]).fl
                   ELSE x.fl
        BY <1>1 DEF Rebuilt, Gap
      <4>2. e.foff > x.cur /\ [foff |-> x.cur, len |-> e.foff - x.cur] = h
        BY <1>1, <1>6, <2>1, <3>1
      <4> QED
        BY <1>6, <3>1, <4>1, <4>2
    <3>4. \A b \in Int : In(b, h) <=> c <= b /\ b < a
      BY <1>2, <1>4, <1>6, <2>1, <3>2 DEF In
    <3>5. OffList(h, x.fl)
      BY <1>4, <1>6, <3>4 DEF OffList
    <3>6. \A b \in Int : InHole(b, x.fl) \/ In(b, h) => b < a
      <4> TAKE b \in Int
      <4>1. InHole(b, x.fl) => b < x.cur
        BY <1>4
      <4> QED
        BY <1>2, <1>4, <1>5, <3>4, <4>1
    <3>7. \A b \in Int : InHole(b, x.fl) \/ In(b, h) => b < fend
      BY <1>2, <3>6
    <3>p. PICK w : w = x.fl
      OBVIOUS
    <3>q. w \in Seq(Extent) /\ Separated(w) /\ OffList(h, w) /\ r = fl_insert(w, fend, h)
      BY <1>4, <3>1, <3>5, <3>p
    <3>r. \A b \in Int : InHole(b, w) \/ In(b, h) => b < fend
      BY <3>7, <3>p
    <3>8. /\ r.fl \in Seq(Extent) /\ Separated(r.fl)
          /\ r.file_end \in Nat /\ r.file_end <= fend
          /\ \A b \in Int : InHole(b, r.fl)
                <=> (InHole(b, x.fl) \/ In(b, h)) /\ b < r.file_end
          /\ \A b \in Int : r.file_end <= b /\ b < fend
                => InHole(b, x.fl) \/ In(b, h)
      BY <3>2, <3>p, <3>q, <3>r, FlInsertProps
    <3>9. r.file_end = fend
      <4> SUFFICES ASSUME r.file_end < fend
                   PROVE  FALSE
        BY <3>8
      <4>1. fend - 1 \in Int /\ r.file_end <= fend - 1 /\ fend - 1 < fend /\ ~(fend - 1 < a)
        BY <1>2, <3>8
      <4> QED
        BY <3>6, <3>8, <4>1
    <3>10. \A b \in Int : InHole(b, r.fl) <=> InHole(b, x.fl) \/ In(b, h)
      BY <3>7, <3>8, <3>9
    <3> QED
      BY <3>3, <3>4, <3>8, <3>10
  <2>2. CASE ~(a > c)
    <3>1. l = x.fl
      BY <1>1, <1>6, <2>2 DEF Rebuilt, Gap
    <3>2. \A b \in Int : ~(c <= b /\ b < a)
      BY <1>2, <1>4, <1>6, <2>2
    <3> QED
      BY <1>4, <3>1, <3>2
  <2> QED
    BY <2>1, <2>2
<1>9. \A i \in S : End(s[i]) <= z
  <2> SUFFICES ASSUME NEW i \in S
               PROVE  End(s[i]) <= z
    OBVIOUS
  <2>1. CASE i = m
    BY <1>1, <1>2, <2>1 DEF End
  <2>2. CASE i # m
    <3>1. s[i].foff \in Nat /\ s[i].len \in Nat /\ s[i].foff + s[i].len <= a
      BY <1>3, <2>2, HoleFields DEF End
    <3> QED
      BY <1>2, <3>1 DEF End
  <2> QED
    BY <2>1, <2>2
<1>10. ASSUME NEW b \in Int
       PROVE  InHole(b, l) <=> LS_SUPER_SIZE <= b /\ b < z /\ \A i \in S : ~In(b, s[i])
  <2>1. In(b, s[m]) <=> a <= b /\ b < z
    BY <1>1 DEF In
  <2>2. (\A i \in S : ~In(b, s[i])) <=> (\A i \in S \ {m} : ~In(b, s[i])) /\ ~In(b, s[m])
    OBVIOUS
  <2>3. \A i \in S \ {m} : In(b, s[i]) => b < c
    <3> SUFFICES ASSUME NEW i \in S \ {m}, In(b, s[i])
                 PROVE  b < c
      OBVIOUS
    <3>1. s[i].foff \in Nat /\ s[i].len \in Nat /\ s[i].foff + s[i].len <= c
      BY <1>4, <1>6, HoleFields DEF End
    <3>2. b < s[i].foff + s[i].len
      BY DEF In
    <3> QED
      BY <1>4, <1>6, <3>1, <3>2
  <2>4. InHole(b, x.fl) <=> LS_SUPER_SIZE <= b /\ b < c /\ \A i \in S \ {m} : ~In(b, s[i])
    BY <1>4, <1>6
  <2>5. InHole(b, l) <=> InHole(b, x.fl) \/ (c <= b /\ b < a)
    BY <1>8
  <2>6. c \in Nat /\ c <= a /\ LS_SUPER_SIZE <= c
    BY <1>4, <1>5, <1>6
  <2> QED
    BY <1>0, <1>2, <2>1, <2>2, <2>3, <2>4, <2>5, <2>6
<1>11. \E i \in S : z = End(s[i])
  BY <1>1 DEF End
<1>12. LS_SUPER_SIZE <= z
  BY <1>0, <1>2
<1> QED
  BY <1>2, <1>6, <1>7, <1>8, <1>9, <1>10, <1>11, <1>12 DEF GapsSoFar

\* The outcome of rebuild_free_list: l, and no overlap.
Finds(r, l) == r.fl = l /\ r.ok = TRUE

\* rebuild_free_list finds the free list again, whatever insertions it came
\* from: the file is balanced, so what the table does not own is a hole.
LEMMA RebuildIs ==
    ASSUME NEW toc, NEW l, NEW fend, Accounted(l, AllExtents(toc), fend),
           NEW r, r = rebuild_free_list(toc, fend)
    PROVE  Finds(r, l)
<1>1. PICK O, s, n : O = AllExtents(toc) /\ s = Sorted(O) /\ n = Len(s)
  OBVIOUS
<1>2. /\ s \in Seq(O) /\ s \in Seq(Extent) /\ n \in Nat /\ DOMAIN s = 1 .. n
      /\ \A i, j \in 1 .. n : i < j => End(s[i]) <= s[j].foff
      /\ \A e \in O : \E i \in 1 .. n : s[i] = e
      /\ \A i \in 1 .. n : s[i] \in O
  BY <1>1, SortedProps
<1>3. /\ l \in Seq(Extent) /\ fend \in Nat /\ LS_SUPER_SIZE \in Nat /\ LS_SUPER_SIZE <= fend
      /\ Separated(l) /\ Partitioned(l, O, fend) /\ \A i \in DOMAIN l : End(l[i]) < fend
      /\ Accounted(l, O, fend)
  BY <1>1, SuperAssumption DEF Accounted
<1>4. \A i \in 1 .. n : LS_SUPER_SIZE <= s[i].foff /\ End(s[i]) <= fend
  BY <1>2, <1>3, AccountInside
<1> DEFINE V == [fl : Seq(Extent), cur : Nat, ok : BOOLEAN]
           base == [fl |-> << >>, cur |-> LS_SUPER_SIZE, ok |-> TRUE]
           A == [S \in SUBSET (1 .. n) |-> {x \in V : GapsSoFar(x, s, S, fend)}]
           g == [p \in V \X (1 .. n) |-> Rebuilt(p[1], s[p[2]], fend)]
           I(f) == f = [S \in SUBSET (1 .. n) |-> IF S = {} THEN base
                          ELSE Rebuilt(f[S \ {Max(S)}], s[Max(S)], fend)]
           h == CHOOSE f : I(f)
<1>5. r = h[1 .. n]
  BY <1>1, <1>2 DEF rebuild_free_list, FoldLeft, MapThenFoldSet, Rebuilt
<1>6. base \in A[{}]
  <2>1. base \in V
    BY <1>3
  <2>2. << >> \in Seq(Extent) /\ Separated(<< >>) /\ \A b \in Int : ~InHole(b, << >>)
    BY DEF Separated, InHole
  <2>3. base.fl = << >> /\ base.cur = LS_SUPER_SIZE /\ base.ok = TRUE
    OBVIOUS
  <2>4. GapsSoFar(base, s, {}, fend)
    <3> HIDE DEF base
    <3> QED
      BY <1>3, <2>2, <2>3 DEF GapsSoFar
  <2>5. {} \in SUBSET (1 .. n)
    OBVIOUS
  <2> HIDE DEF base, V
  <2> QED
    BY <2>1, <2>4, <2>5
<1>7. ASSUME NEW S \in SUBSET (1 .. n), S # {}, NEW x \in A[S \ {Max(S)}]
      PROVE  /\ x \in V /\ Max(S) \in 1 .. n
             /\ Rebuilt(x, s[Max(S)], fend) \in A[S]
  <2>1. /\ Max(S) \in S /\ Max(S) \in 1 .. n /\ \A i \in S : i <= Max(S)
        /\ S \ {Max(S)} \in SUBSET (1 .. n)
    BY <1>2, <1>7, LastIndex
  <2>2. x \in V /\ GapsSoFar(x, s, S \ {Max(S)}, fend)
    <3> HIDE DEF V
    <3> QED
      BY <2>1
  <2>3. PICK y : y = Rebuilt(x, s[Max(S)], fend)
    OBVIOUS
  <2>4. GapsSoFar(y, s, S, fend)
    <3> HIDE DEF A, V
    <3> QED
      BY <1>1, <1>2, <1>3, <1>4, <2>1, <2>2, <2>3, RebuildStep
  <2>5. y \in V
    <3>1. y.fl \in Seq(Extent) /\ y.cur \in Nat /\ y.ok \in BOOLEAN
      BY <2>4 DEF GapsSoFar
    <3>2. y = [fl |-> y.fl, cur |-> y.cur, ok |-> y.ok]
      BY <2>3 DEF Rebuilt
    <3> QED
      BY <3>1, <3>2
  <2> HIDE DEF V
  <2> QED
    BY <2>1, <2>2, <2>3, <2>4, <2>5
<1>8. PICK f : FoldRec(base, g, n, f) /\ \A S \in SUBSET (1 .. n) : f[S] \in A[S]
  <2>1. A \in [SUBSET (1 .. n) -> SUBSET V]
    <3> HIDE DEF V
    <3> QED
      OBVIOUS
  <2>2. FoldKeeps(A, base, g, n)
    <3>1. ASSUME NEW S \in SUBSET (1 .. n), S # {}, NEW x \in A[S \ {Max(S)}]
          PROVE  g[<<x, Max(S)>>] \in A[S]
      <4>1. x \in V /\ Max(S) \in 1 .. n /\ Rebuilt(x, s[Max(S)], fend) \in A[S]
        <5> HIDE DEF A, V
        <5> QED
          BY <1>7, <3>1
      <4>2. g[<<x, Max(S)>>] = Rebuilt(x, s[Max(S)], fend)
        <5> HIDE DEF A, V
        <5> QED
          BY <4>1
      <4> HIDE DEF A, V, g
      <4> QED
        BY <4>1, <4>2
    <3> HIDE DEF A, V, g, base
    <3> QED
      BY <1>6, <3>1 DEF FoldKeeps
  <2> HIDE DEF A, V, g, base
  <2> QED
    BY <1>2, <2>1, <2>2, FoldWithin
<1>9. I(f)
  <2>1. ASSUME NEW S \in SUBSET (1 .. n), S # {}
        PROVE  f[S] = Rebuilt(f[S \ {Max(S)}], s[Max(S)], fend)
    <3>1. S \ {Max(S)} \in SUBSET (1 .. n)
      OBVIOUS
    <3>2. f[S \ {Max(S)}] \in A[S \ {Max(S)}]
      BY <1>8, <3>1
    <3>3. f[S \ {Max(S)}] \in V /\ Max(S) \in 1 .. n
      <4> HIDE DEF A, V
      <4> QED
        BY <1>7, <2>1, <3>2
    <3>4. f[S] = g[<<f[S \ {Max(S)}], Max(S)>>]
      <4> HIDE DEF A, V, g, base
      <4> QED
        BY <1>8, <2>1 DEF FoldRec
    <3> HIDE DEF A, V
    <3> QED
      BY <3>3, <3>4
  <2> HIDE DEF A, V, g, base
  <2> QED
    BY <1>8, <2>1 DEF FoldRec
<1>10. I(h)
  <2> HIDE DEF I
  <2> QED
    BY <1>9
<1> HIDE DEF h
<1>11. h[1 .. n] \in A[1 .. n]
  <2>1. h[{}] \in A[{}]
    <3>1. h[{}] = base
      <4> HIDE DEF base
      <4> QED
        BY <1>10
    <3> HIDE DEF A, base
    <3> QED
      BY <1>6, <3>1
  <2>2. ASSUME NEW S \in SUBSET (1 .. n), S # {}, h[S \ {Max(S)}] \in A[S \ {Max(S)}]
        PROVE  h[S] \in A[S]
    <3>1. h[S] = Rebuilt(h[S \ {Max(S)}], s[Max(S)], fend)
      <4> HIDE DEF base, A
      <4> QED
        BY <1>10, <2>2
    <3> HIDE DEF A, V
    <3> QED
      BY <1>7, <2>2, <3>1
  <2>3. \A S \in SUBSET (1 .. n) : h[S] \in A[S]
    <3> HIDE DEF A
    <3> QED
      BY <1>2, <2>1, <2>2, FoldStays
  <2> HIDE DEF A
  <2> QED
    BY <2>3
<1>12. GapsSoFar(r, s, 1 .. n, fend)
  <2> HIDE DEF V
  <2> QED
    BY <1>5, <1>11
<1>13. /\ r.fl \in Seq(Extent) /\ Separated(r.fl) /\ r.cur \in Nat /\ r.ok = TRUE
       /\ LS_SUPER_SIZE <= r.cur /\ r.cur <= fend
       /\ \A i \in 1 .. n : End(s[i]) <= r.cur
       /\ \A b \in Int : InHole(b, r.fl) <=>
             LS_SUPER_SIZE <= b /\ b < r.cur /\ \A i \in 1 .. n : ~In(b, s[i])
  BY <1>12 DEF GapsSoFar
<1>14. \A b \in Int : InOwned(b, O) <=> \E i \in 1 .. n : In(b, s[i])
  BY <1>2 DEF InOwned
<1>15. r.cur = fend
  <2> SUFFICES ASSUME r.cur < fend
               PROVE  FALSE
    BY <1>3, <1>13
  <2>1. PICK b : b = fend - 1
    OBVIOUS
  <2>2. b \in Int /\ LS_SUPER_SIZE <= b /\ b < fend /\ r.cur <= b
    BY <1>3, <1>13, <2>1
  <2>3. ~InHole(b, l)
    <3> SUFFICES ASSUME NEW i \in DOMAIN l, In(b, l[i])
                 PROVE  FALSE
      BY DEF InHole
    <3>1. l[i].foff \in Nat /\ l[i].len \in Nat /\ l[i].foff + l[i].len < fend
      BY <1>3, HoleFields DEF End
    <3> QED
      BY <1>3, <2>1, <3>1 DEF In
  <2>4. PICK i \in 1 .. n : In(b, s[i])
    BY <1>3, <1>14, <2>2, <2>3 DEF Partitioned
  <2>5. s[i].foff \in Nat /\ s[i].len \in Nat /\ s[i].foff + s[i].len <= r.cur
    BY <1>1, <1>2, <1>13, HoleFields DEF End
  <2> QED
    BY <1>13, <2>2, <2>4, <2>5 DEF In
<1>16. \A b \in Int : InHole(b, r.fl) <=> InHole(b, l)
  <2> TAKE b \in Int
  <2>1. InHole(b, r.fl) <=> LS_SUPER_SIZE <= b /\ b < fend /\ ~InOwned(b, O)
    BY <1>13, <1>14, <1>15
  <2> QED
    BY <1>3, <2>1 DEF Partitioned
<1> QED
  BY <1>3, <1>13, <1>16, Canonical DEF Finds

-----------------------------------------------------------------------------
(* Tables of contents, in memory and in the file.                          *)

ByteCells == {Byte(v) : v \in Nat}

AnyAttr == UNION {Settings[s].Attrs : s \in DOMAIN Settings}

EntryCells == {Entry(e) : e \in [key : Keys, size : Nat, attr : AnyAttr, ext : Seq(Extent)]}

SuperCells == {Super(b) : b \in [toc_off : Nat, toc_n : Nat, fend : Nat,
                                 crc : Seq(EntryCells), tlen : Nat]}

Cells == ByteCells \cup EntryCells \cup SuperCells

Records(A) == [size : Nat, attr : A, ext : Seq(Extent), resident : BOOLEAN,
               mem : Seq(ByteCells)]

\* No two records, nor two places of one, have the same extent.
Distinct(r) ==
    \A k, j \in DOMAIN r : \A a \in DOMAIN r[k].ext, b \in DOMAIN r[j].ext :
        r[k].ext[a] = r[j].ext[b] => k = j /\ a = b

TableTyped(A, r) ==
    /\ IsFiniteSet(DOMAIN r) /\ DOMAIN r \in SUBSET Keys /\ r \in [DOMAIN r -> Records(A)]
    /\ \A k \in DOMAIN r : r[k].resident <=> r[k].mem # NULL

\* The table r, the free list l and the end e share out a file.
TableOK(A, r, l, e) == TableTyped(A, r) /\ Distinct(r) /\ Accounted(l, AllExtents(r), e)

\* The table as it is read back.
Plain(r) == [k \in DOMAIN r |-> LoadedRec(r[k])]

EntryOf(r, k) == Entry([key |-> k, size |-> r[k].size, attr |-> r[k].attr, ext |-> r[k].ext])

LEMMA LoadedFields ==
    ASSUME NEW q, NEW p, p = LoadedRec(q)
    PROVE  /\ p.size = q.size /\ p.attr = q.attr /\ p.ext = q.ext
           /\ ~p.resident /\ p.mem = NULL
  BY DEF LoadedRec

LEMMA LoadedTyped ==
    ASSUME NEW A, NEW q \in Records(A)
    PROVE  LoadedRec(q) \in Records(A)
<1>1. q.size \in Nat /\ q.attr \in A /\ q.ext \in Seq(Extent)
  BY DEF Records
<1>2. NULL \in Seq(ByteCells)
  BY DEF NULL
<1> QED
  BY <1>1, <1>2 DEF Records, LoadedRec

LEMMA EntryOfProps ==
    ASSUME NEW r, NEW k, NEW c, c = EntryOf(r, k)
    PROVE  /\ c[1] = "entry" /\ c[2].key = k /\ c[2].size = r[k].size
           /\ c[2].attr = r[k].attr /\ c[2].ext = r[k].ext
<1>1. PICK b : b = [key |-> k, size |-> r[k].size, attr |-> r[k].attr, ext |-> r[k].ext]
  OBVIOUS
<1>2. c = <<"entry", b>>
  BY <1>1 DEF EntryOf, Entry
<1>3. b.key = k /\ b.size = r[k].size /\ b.attr = r[k].attr /\ b.ext = r[k].ext
  BY <1>1
<1>4. c[1] = "entry" /\ c[2] = b
  BY <1>2
<1> QED
  BY <1>3, <1>4

LEMMA RecordFields ==
    ASSUME NEW A, NEW r, TableTyped(A, r), NEW k \in DOMAIN r
    PROVE  /\ r[k] \in Records(A) /\ r[k].size \in Nat /\ r[k].attr \in A
           /\ r[k].ext \in Seq(Extent) /\ r[k].resident \in BOOLEAN /\ r[k].mem \in Seq(ByteCells)
<1>1. r[k] \in Records(A)
  BY DEF TableTyped
<1> QED
  BY <1>1 DEF Records

SamePlaces(q, r) ==
    /\ DOMAIN q = DOMAIN r
    /\ \A k \in DOMAIN r : /\ q[k].size = r[k].size /\ q[k].attr = r[k].attr
                           /\ q[k].ext = r[k].ext /\ ~q[k].resident /\ q[k].mem = NULL

LEMMA PlainProps ==
    ASSUME NEW A, NEW r, TableTyped(A, r), NEW q, q = Plain(r)
    PROVE  /\ SamePlaces(q, r)
           /\ TableTyped(A, q) /\ AllExtents(q) = AllExtents(r)
           /\ Distinct(r) => Distinct(q)
<1>2. DOMAIN q = DOMAIN r /\ q = [k \in DOMAIN r |-> q[k]]
  BY DEF Plain
<1>3. \A k \in DOMAIN r : q[k] = LoadedRec(r[k])
  BY DEF Plain
<1>4. \A k \in DOMAIN r : /\ q[k].size = r[k].size /\ q[k].attr = r[k].attr
                          /\ q[k].ext = r[k].ext /\ ~q[k].resident /\ q[k].mem = NULL
  BY <1>3, LoadedFields
<1>5. \A k \in DOMAIN r : q[k] \in Records(A)
  BY <1>3, RecordFields, LoadedTyped
<1>6. q \in [DOMAIN q -> Records(A)]
  BY <1>2, <1>5
<1>7. TableTyped(A, q)
  <2>1. IsFiniteSet(DOMAIN q) /\ DOMAIN q \in SUBSET Keys
    BY <1>2 DEF TableTyped
  <2> QED
    BY <1>2, <1>4, <1>6, <2>1 DEF TableTyped
<1>8. AllExtents(q) = AllExtents(r)
  BY <1>2, <1>4 DEF AllExtents
<1>9. Distinct(r) => Distinct(q)
  BY <1>2, <1>4 DEF Distinct
<1> QED
  BY <1>2, <1>4, <1>7, <1>8, <1>9 DEF SamePlaces

\* One entry per record, and the table read back from them.
Serialised(tb, ks, n, r) ==
    /\ n = Cardinality(DOMAIN r) /\ n \in Nat /\ Len(tb) = n
    /\ DOMAIN tb = 1 .. n /\ DOMAIN ks = 1 .. n
    /\ \A i \in 1 .. n : ks[i] \in DOMAIN r /\ tb[i] = EntryOf(r, ks[i])
    /\ \A i, j \in 1 .. n : ks[i] = ks[j] => i = j
    /\ \A k \in DOMAIN r : \E i \in 1 .. n : ks[i] = k

LEMMA SerialiseProps ==
    ASSUME NEW A, NEW r, TableTyped(A, r)
    PROVE  Serialised(toc_serialise(r), SetToSeq(DOMAIN r), Cardinality(DOMAIN r), r)
<1>0. PICK tb, ks : tb = toc_serialise(r) /\ ks = SetToSeq(DOMAIN r)
  OBVIOUS
<1>1. PICK n : n = Cardinality(DOMAIN r)
  OBVIOUS
<1>2. /\ n \in Nat /\ ks \in Seq(DOMAIN r) /\ DOMAIN ks = 1 .. n
      /\ \A i, j \in DOMAIN ks : ks[i] = ks[j] => i = j
      /\ \A k \in DOMAIN r : \E i \in DOMAIN ks : ks[i] = k
  BY <1>0, <1>1, SetToSeqProps DEF TableTyped
<1>3. tb = [i \in 1 .. n |-> EntryOf(r, ks[i])]
  BY <1>0, <1>2 DEF toc_serialise, EntryOf
<1>4. DOMAIN tb = 1 .. n /\ Len(tb) = n
  BY <1>2, <1>3
<1>5. \A i \in 1 .. n : ks[i] \in DOMAIN r
  BY <1>2
<1>6. \A i \in 1 .. n : tb[i] = EntryOf(r, ks[i])
  BY <1>3
<1> QED
  BY <1>0, <1>1, <1>2, <1>4, <1>5, <1>6 DEF Serialised

LEMMA LoadsBack ==
    ASSUME NEW A, NEW r, TableTyped(A, r), NEW tb, tb = toc_serialise(r)
    PROVE  /\ toc_load(tb, Len(tb)) = Plain(r)
           /\ \A i \in 1 .. Len(tb) : tb[i][1] = "entry"
<1>1. PICK ks, n : ks = SetToSeq(DOMAIN r) /\ n = Cardinality(DOMAIN r)
  OBVIOUS
<1>2. Serialised(tb, ks, n, r)
  BY <1>1, SerialiseProps
<1>3. /\ n \in Nat /\ n = Len(tb)
      /\ \A i \in 1 .. n : ks[i] \in DOMAIN r /\ tb[i] = EntryOf(r, ks[i])
      /\ \A i, j \in 1 .. n : ks[i] = ks[j] => i = j
      /\ \A k \in DOMAIN r : \E i \in 1 .. n : ks[i] = k
  BY <1>2 DEF Serialised
<1>4. \A i \in 1 .. n : /\ tb[i][2].key = ks[i] /\ tb[i][2].size = r[ks[i]].size
                        /\ tb[i][2].attr = r[ks[i]].attr /\ tb[i][2].ext = r[ks[i]].ext
                        /\ tb[i][1] = "entry"
  BY <1>3, EntryOfProps
<1>5. {tb[i][2].key : i \in 1 .. n} = DOMAIN r
  <2>1. PICK K : K = {tb[i][2].key : i \in 1 .. n}
    OBVIOUS
  <2>2. \A i \in 1 .. n : tb[i][2].key = ks[i]
    BY <1>4
  <2>3. \A k : k \in K <=> \E i \in 1 .. n : k = ks[i]
    BY <2>1, <2>2
  <2>4. \A i \in 1 .. n : ks[i] \in DOMAIN r
    BY <1>3
  <2>5. \A k \in DOMAIN r : \E i \in 1 .. n : ks[i] = k
    BY <1>3
  <2>6. \A k : k \in K <=> k \in DOMAIN r
    BY <2>3, <2>4, <2>5
  <2> QED
    BY <2>1, <2>6
<1> DEFINE at_(k) == CHOOSE i \in 1 .. n : tb[i][2].key = k
<1>6. ASSUME NEW k \in DOMAIN r
      PROVE  at_(k) \in 1 .. n /\ ks[at_(k)] = k
  <2>1. \E i \in 1 .. n : tb[i][2].key = k
    BY <1>3, <1>4
  <2>2. at_(k) \in 1 .. n /\ tb[at_(k)][2].key = k
    BY <2>1
  <2> HIDE DEF at_
  <2> QED
    BY <1>4, <2>2
<1> HIDE DEF at_
<1>7. ASSUME NEW k \in DOMAIN r
      PROVE  LoadedRec(tb[at_(k)][2]) = LoadedRec(r[k])
  <2>1. PICK b : b = tb[at_(k)][2]
    OBVIOUS
  <2>2. r[k].size = b.size /\ r[k].attr = b.attr /\ r[k].ext = b.ext
    BY <1>4, <1>6, <2>1
  <2> QED
    BY <2>1, <2>2 DEF LoadedRec
<1>8. toc_load(tb, n) = [k \in {tb[i][2].key : i \in 1 .. n} |-> LoadedRec(tb[at_(k)][2])]
  BY DEF toc_load, at_
<1>9. toc_load(tb, n) = Plain(r)
  BY <1>5, <1>7, <1>8 DEF Plain
<1> QED
  BY <1>3, <1>4, <1>9

LEMMA PlainSerialised ==
    ASSUME NEW A, NEW r, TableTyped(A, r)
    PROVE  toc_serialise(Plain(r)) = toc_serialise(r)
<1>1. PICK q, ks, n : q = Plain(r) /\ ks = SetToSeq(DOMAIN r) /\ n = Cardinality(DOMAIN r)
  OBVIOUS
<1>a. SamePlaces(q, r)
  BY <1>1, PlainProps
<1>2. DOMAIN q = DOMAIN r /\ \A k \in DOMAIN r : /\ q[k].size = r[k].size /\ q[k].attr = r[k].attr
                                                 /\ q[k].ext = r[k].ext
  BY <1>a DEF SamePlaces
<1>b. Serialised(toc_serialise(r), ks, n, r)
  BY <1>1, SerialiseProps
<1>3. \A i \in DOMAIN ks : ks[i] \in DOMAIN r
  BY <1>b DEF Serialised
<1>4. toc_serialise(r) = [i \in DOMAIN ks |-> EntryOf(r, ks[i])]
  BY <1>1 DEF toc_serialise, EntryOf
<1>5. toc_serialise(q) = [i \in DOMAIN ks |-> EntryOf(q, ks[i])]
  BY <1>1, <1>2 DEF toc_serialise, EntryOf
<1>6. \A i \in DOMAIN ks : /\ q[ks[i]].size = r[ks[i]].size /\ q[ks[i]].attr = r[ks[i]].attr
                           /\ q[ks[i]].ext = r[ks[i]].ext
  BY <1>2, <1>3
<1> QED
  BY <1>1, <1>4, <1>5, <1>6 DEF EntryOf

\* The table and the superblock are cells.
LEMMA SerialiseTyped ==
    ASSUME NEW A \in SUBSET AnyAttr, NEW r, TableTyped(A, r), NEW e \in Nat
    PROVE  toc_serialise(r) \in Seq(EntryCells) /\ Super(Superblock(r, e)) \in SuperCells
<1>1. PICK tb, ks, n : /\ tb = toc_serialise(r) /\ ks = SetToSeq(DOMAIN r)
                       /\ n = Cardinality(DOMAIN r)
  OBVIOUS
<1>a. Serialised(tb, ks, n, r)
  BY <1>1, SerialiseProps
<1>2. /\ n \in Nat /\ DOMAIN tb = 1 .. n /\ DOMAIN ks = 1 .. n /\ Len(tb) = n
      /\ \A i \in 1 .. n : ks[i] \in DOMAIN r /\ tb[i] = EntryOf(r, ks[i])
  BY <1>a DEF Serialised
<1>3. ASSUME NEW i \in 1 .. n
      PROVE  tb[i] \in EntryCells
  <2>1. PICK k, b : k = ks[i] /\ b = [key |-> k, size |-> r[k].size, attr |-> r[k].attr,
                                      ext |-> r[k].ext]
    OBVIOUS
  <2>2. k \in DOMAIN r /\ k \in Keys
    BY <1>2, <2>1 DEF TableTyped
  <2>3. r[k].size \in Nat /\ r[k].attr \in AnyAttr /\ r[k].ext \in Seq(Extent)
    BY <2>2, RecordFields
  <2>4. b \in [key : Keys, size : Nat, attr : AnyAttr, ext : Seq(Extent)]
    BY <2>1, <2>2, <2>3
  <2> QED
    BY <1>2, <2>1, <2>4 DEF EntryCells, EntryOf
<1>4. tb = [i \in 1 .. n |-> tb[i]]
  <2>1. tb = [i \in DOMAIN ks |-> EntryOf(r, ks[i])]
    BY <1>1 DEF toc_serialise, EntryOf
  <2> QED
    BY <1>2, <2>1
<1>5. tb \in Seq(EntryCells)
  BY <1>2, <1>3, <1>4
<1>6. Superblock(r, e) = [toc_off |-> e, toc_n |-> n, fend |-> e, crc |-> tb, tlen |-> n]
  BY <1>1, <1>2 DEF Superblock
<1>7. Superblock(r, e) \in [toc_off : Nat, toc_n : Nat, fend : Nat,
                            crc : Seq(EntryCells), tlen : Nat]
  BY <1>2, <1>5, <1>6
<1> QED
  BY <1>1, <1>5, <1>7 DEF SuperCells

\* The tests of ls_open, on the parts of the file they are made on.
Passes(f, sb, tb, toc, free) ==
    /\ Len(f) >= LS_SUPER_SIZE
    /\ f[1][1] = "super"
    /\ sb.toc_off >= LS_SUPER_SIZE /\ sb.toc_off <= Len(f)
    /\ Tlen(sb, Len(f)) <= Len(f) - sb.toc_off
    /\ tb = sb.crc
    /\ \A i \in 1 .. sb.toc_n : tb[i][1] = "entry"
    /\ \A e \in AllExtents(toc) : e.foff >= LS_SUPER_SIZE /\ End(e) <= sb.fend
    /\ free.ok

\* The cells of the table that the superblock points to.
TableIn(f, sb) == SubSeq(f, sb.toc_off + 1, sb.toc_off + Tlen(sb, Len(f)))

LEMMA LoadIs ==
    ASSUME NEW f, NEW sb, sb = f[1][2], NEW tb, tb = TableIn(f, sb),
           NEW toc, toc = toc_load(tb, sb.toc_n),
           NEW free, free = rebuild_free_list(toc, sb.fend)
    PROVE  Load(f) = IF Passes(f, sb, tb, toc, free)
                     THEN [ok |-> TRUE, rec |-> toc, fl |-> free.fl, end |-> sb.fend]
                     ELSE Refused
  BY DEF Load, Passes, TableIn, CrcMatches

LEMMA LoadOkIff ==
    ASSUME NEW f, NEW sb, sb = f[1][2], NEW tb, tb = TableIn(f, sb),
           NEW toc, toc = toc_load(tb, sb.toc_n),
           NEW free, free = rebuild_free_list(toc, sb.fend)
    PROVE  /\ Load(f).ok <=> Passes(f, sb, tb, toc, free)
           /\ Load(f).ok => /\ Load(f).rec = toc /\ Load(f).fl = free.fl
                            /\ Load(f).end = sb.fend
<1>1. PICK l : l = Load(f)
  OBVIOUS
<1>2. l = IF Passes(f, sb, tb, toc, free)
          THEN [ok |-> TRUE, rec |-> toc, fl |-> free.fl, end |-> sb.fend]
          ELSE Refused
  BY <1>1, LoadIs
<1>3. ~Refused.ok
  BY DEF Refused
<1>4. CASE Passes(f, sb, tb, toc, free)
  BY <1>1, <1>2, <1>4
<1>5. CASE ~Passes(f, sb, tb, toc, free)
  BY <1>1, <1>2, <1>3, <1>5
<1> QED
  BY <1>4, <1>5

\* The superblock of a table, and what it says.
LEMMA SuperFields ==
    ASSUME NEW A, NEW r, TableTyped(A, r), NEW e, NEW c, c = Super(Superblock(r, e)),
           NEW sb, sb = c[2]
    PROVE  /\ c[1] = "super" /\ sb.toc_off = e /\ sb.fend = e
           /\ sb.crc = toc_serialise(r) /\ sb.toc_n = Len(toc_serialise(r))
           /\ sb.tlen = Len(toc_serialise(r))
<1>1. PICK tb, b : /\ tb = toc_serialise(r)
                   /\ b = [toc_off |-> e, toc_n |-> Len(tb), fend |-> e, crc |-> tb,
                           tlen |-> Len(tb)]
  OBVIOUS
<1>2. c = <<"super", b>>
  BY <1>1 DEF Super, Superblock
<1>3. c[1] = "super" /\ sb = b
  BY <1>2
<1> QED
  BY <1>1, <1>3

\* The file begins with the superblock of the table r with the end e.
Begins(f, r, e) == f[1] = Super(Superblock(r, e))

\* If a file that begins with the superblock of a sound table opens at all, it
\* gives that table, the free list that goes with it, and its end.
LEMMA LoadGives ==
    ASSUME NEW A, NEW r, NEW l, NEW e, TableOK(A, r, l, e), NEW f, Begins(f, r, e),
           Load(f).ok
    PROVE  /\ Load(f).rec = Plain(r) /\ Load(f).fl = l /\ Load(f).end = e
           /\ Len(f) >= LS_SUPER_SIZE /\ e <= Len(f)
<1>1. PICK sb, tb : sb = f[1][2] /\ tb = TableIn(f, sb)
  OBVIOUS
<1>2. PICK toc, free : toc = toc_load(tb, sb.toc_n) /\ free = rebuild_free_list(toc, sb.fend)
  OBVIOUS
<1>3. Passes(f, sb, tb, toc, free)
  BY <1>1, <1>2, LoadOkIff
<1>4. Load(f).rec = toc /\ Load(f).fl = free.fl /\ Load(f).end = sb.fend
  BY <1>1, <1>2, LoadOkIff
<1>5. TableTyped(A, r) /\ Accounted(l, AllExtents(r), e)
  BY DEF TableOK
<1>6. /\ sb.toc_off = e /\ sb.fend = e /\ sb.crc = toc_serialise(r)
      /\ sb.toc_n = Len(toc_serialise(r))
  BY <1>1, <1>5, SuperFields DEF Begins
<1>7. tb = toc_serialise(r) /\ Len(f) >= LS_SUPER_SIZE /\ sb.toc_off <= Len(f)
  BY <1>3, <1>6 DEF Passes
<1>8. toc = Plain(r)
  BY <1>2, <1>5, <1>6, <1>7, LoadsBack
<1>9. AllExtents(toc) = AllExtents(r)
  BY <1>5, <1>8, PlainProps
<1>10. free.fl = l
  <2>1. Accounted(l, AllExtents(toc), e)
    BY <1>5, <1>9
  <2>2. free = rebuild_free_list(toc, e)
    BY <1>2, <1>6
  <2>3. Finds(free, l)
    BY <2>1, <2>2, RebuildIs
  <2> QED
    BY <2>3 DEF Finds
<1> QED
  BY <1>4, <1>6, <1>7, <1>8, <1>10

\* The table is in the file where the superblock will say.
TableAt(f, r, e) ==
    /\ e + Len(toc_serialise(r)) <= Len(f)
    /\ \A i \in 1 .. Len(toc_serialise(r)) : f[e + i] = toc_serialise(r)[i]

Whole(f, r, e) == TableAt(f, r, e) /\ Begins(f, r, e)

\* A whole table that is not empty opens.
LEMMA LoadOK ==
    ASSUME NEW A, NEW r, NEW l, NEW e, TableOK(A, r, l, e), NEW f \in Seq(Cells),
           Whole(f, r, e), DOMAIN r # {}
    PROVE  Load(f).ok
<1>1. PICK sb, tb : sb = f[1][2] /\ tb = TableIn(f, sb)
  OBVIOUS
<1>2. PICK toc, free : toc = toc_load(tb, sb.toc_n) /\ free = rebuild_free_list(toc, sb.fend)
  OBVIOUS
<1>3. TableTyped(A, r) /\ Accounted(l, AllExtents(r), e)
  BY DEF TableOK
<1>4. PICK s, n : s = toc_serialise(r) /\ n = Len(s)
  OBVIOUS
<1>5. /\ f[1][1] = "super" /\ sb.toc_off = e /\ sb.fend = e /\ sb.crc = s
      /\ sb.toc_n = n /\ sb.tlen = n
  BY <1>1, <1>3, <1>4, SuperFields DEF Whole, Begins
<1>6. n \in Nat /\ n # 0 /\ DOMAIN s = 1 .. n
  <2>1. Serialised(s, SetToSeq(DOMAIN r), Cardinality(DOMAIN r), r)
    BY <1>3, <1>4, SerialiseProps
  <2>2. n \in Nat /\ DOMAIN s = 1 .. n /\ \A k \in DOMAIN r : \E i \in 1 .. n : SetToSeq(DOMAIN r)[i] = k
    BY <1>4, <2>1 DEF Serialised
  <2> QED
    BY <2>2
<1>7. e \in Nat /\ LS_SUPER_SIZE <= e /\ LS_SUPER_SIZE \in Nat /\ Len(f) \in Nat
  BY <1>3, SuperAssumption DEF Accounted
<1>8. e + n <= Len(f) /\ \A i \in 1 .. n : f[e + i] = s[i]
  BY <1>4 DEF Whole, TableAt
<1>9. Tlen(sb, Len(f)) = n
  BY <1>5, <1>6 DEF Tlen
<1>10. tb = SubSeq(f, e + 1, e + n)
  BY <1>1, <1>5, <1>9 DEF TableIn
<1>11. tb = s
  <2>1. tb = [i \in 1 .. n |-> f[e + i]]
    BY <1>6, <1>7, <1>8, <1>10
  <2>2. s = [i \in 1 .. n |-> s[i]]
    <3>1. s \in Seq(EntryCells) \/ s = [i \in DOMAIN SetToSeq(DOMAIN r) |-> s[i]]
      BY <1>4 DEF toc_serialise
    <3> QED
      BY <1>6, <3>1
  <2> QED
    BY <1>8, <2>1, <2>2
<1>12. toc = Plain(r) /\ \A i \in 1 .. n : tb[i][1] = "entry"
  BY <1>2, <1>3, <1>4, <1>5, <1>11, LoadsBack
<1>13. AllExtents(toc) = AllExtents(r)
  BY <1>3, <1>12, PlainProps
<1>14. free.ok
  <2>1. Accounted(l, AllExtents(toc), e)
    BY <1>3, <1>13
  <2>2. free = rebuild_free_list(toc, e)
    BY <1>2, <1>5
  <2>3. Finds(free, l)
    BY <2>1, <2>2, RebuildIs
  <2> QED
    BY <2>3 DEF Finds
<1>15. \A d \in AllExtents(toc) : d.foff >= LS_SUPER_SIZE /\ End(d) <= sb.fend
  <2> SUFFICES ASSUME NEW d \in AllExtents(r)
               PROVE  d.foff >= LS_SUPER_SIZE /\ End(d) <= e
    BY <1>5, <1>13
  <2>1. LS_SUPER_SIZE <= d.foff /\ End(d) <= e
    BY <1>3, AccountInside
  <2>2. d.foff \in Nat
    BY <1>3 DEF Accounted, Extent
  <2> QED
    BY <1>7, <2>1, <2>2
<1>16. Passes(f, sb, tb, toc, free)
  BY <1>5, <1>6, <1>7, <1>8, <1>9, <1>11, <1>12, <1>14, <1>15 DEF Passes
<1> QED
  BY <1>1, <1>2, <1>16, LoadOkIff

\* A change behind the superblock and in front of the table is not noticed.
LEMMA LoadSame ==
    ASSUME NEW A, NEW r, NEW l, NEW e, TableOK(A, r, l, e), NEW f \in Seq(Cells),
           Begins(f, r, e), Load(f).ok,
           NEW g \in Seq(Cells), Len(g) = Len(f), g[1] = f[1],
           \A i \in 1 .. Len(f) : i > e => g[i] = f[i]
    PROVE  Load(g).ok
<1>1. PICK sb, tb : sb = f[1][2] /\ tb = TableIn(f, sb)
  OBVIOUS
<1>2. PICK toc, free : toc = toc_load(tb, sb.toc_n) /\ free = rebuild_free_list(toc, sb.fend)
  OBVIOUS
<1>3. Passes(f, sb, tb, toc, free)
  BY <1>1, <1>2, LoadOkIff
<1>4. TableTyped(A, r) /\ e \in Nat /\ Len(f) \in Nat
  BY DEF TableOK, Accounted
<1>5. sb.toc_off = e /\ sb.tlen = Len(toc_serialise(r))
  BY <1>1, <1>4, SuperFields DEF Begins
<1>6. PICK t : t = Tlen(sb, Len(f))
  OBVIOUS
<1>7. t \in Nat /\ e + t <= Len(f)
  <2>1. Len(toc_serialise(r)) \in Nat
    <3>1. Serialised(toc_serialise(r), SetToSeq(DOMAIN r), Cardinality(DOMAIN r), r)
      BY <1>4, SerialiseProps
    <3> QED
      BY <3>1 DEF Serialised
  <2>2. e <= Len(f) /\ t <= Len(f) - e
    BY <1>3, <1>5, <1>6 DEF Passes
  <2>3. t = IF sb.tlen = 0 THEN Len(f) - e ELSE sb.tlen
    BY <1>5, <1>6 DEF Tlen
  <2> QED
    BY <1>4, <1>5, <2>1, <2>2, <2>3
<1>8. TableIn(g, sb) = tb
  <2>1. tb = SubSeq(f, e + 1, e + t) /\ TableIn(g, sb) = SubSeq(g, e + 1, e + t)
    BY <1>1, <1>5, <1>6 DEF TableIn
  <2>2. tb = [i \in 1 .. t |-> f[e + i]] /\ TableIn(g, sb) = [i \in 1 .. t |-> g[e + i]]
    BY <1>4, <1>7, <2>1
  <2>3. \A i \in 1 .. t : g[e + i] = f[e + i]
    <3> TAKE i \in 1 .. t
    <3>1. e + i \in 1 .. Len(f) /\ e + i > e
      BY <1>4, <1>7
    <3> QED
      BY <3>1
  <2> QED
    BY <2>2, <2>3
<1>9. Passes(g, sb, tb, toc, free)
  BY <1>3 DEF Passes
<1> QED
  BY <1>1, <1>2, <1>8, <1>9, LoadOkIff

-----------------------------------------------------------------------------
(* Writing to the file.                                                    *)

LEMMA ByteIsCell ==
    /\ \A v \in Nat : Byte(v) \in ByteCells /\ Byte(v) \in Cells
    /\ ByteCells \in SUBSET Cells
    /\ \A c \in ByteCells : c[1] = "byte"
<1>1. \A v \in Nat : Byte(v) \in ByteCells
  BY DEF ByteCells
<1>2. ByteCells \in SUBSET Cells
  BY DEF Cells
<1>3. ASSUME NEW c \in ByteCells
      PROVE  c[1] = "byte"
  <2>1. PICK v \in Nat : c = Byte(v)
    BY DEF ByteCells
  <2> QED
    BY <2>1 DEF Byte
<1> QED
  BY <1>1, <1>2, <1>3

LEMMA ZerosProps ==
    ASSUME NEW n \in Int, NEW z, z = Zeros(n)
    PROVE  /\ z \in Seq(ByteCells) /\ Len(z) = IF n >= 0 THEN n ELSE 0
           /\ \A i \in 1 .. n : z[i] = Byte(0)
<1>1. Byte(0) \in ByteCells
  BY ByteIsCell
<1>2. z = [i \in 1 .. n |-> Byte(0)]
  BY DEF Zeros
<1>3. CASE n >= 0
  <2>1. n \in Nat
    BY <1>3
  <2> HIDE DEF Byte
  <2> QED
    BY <1>1, <1>2, <1>3, <2>1
<1>4. CASE ~(n >= 0)
  <2>1. 1 .. n = {} /\ 1 .. 0 = {}
    BY <1>4
  <2>2. z = [i \in 1 .. 0 |-> Byte(0)]
    BY <1>2, <2>1
  <2> QED
    BY <1>1, <1>4, <2>1, <2>2
<1> QED
  BY <1>3, <1>4

LEMMA BufferTyped ==
    ASSUME NEW q, q.mem \in Seq(ByteCells), q.size \in Nat
    PROVE  Buffer(q) \in Seq(ByteCells)
<1>1. PICK n, t : n = q.size - Len(q.mem) /\ t = [i \in 1 .. n |-> Byte(9)]
  OBVIOUS
<1>2. n \in Int
  BY <1>1
<1>3. Byte(9) \in ByteCells
  BY ByteIsCell
<1>4. t \in Seq(ByteCells)
  <2>1. CASE n >= 0
    <3>1. n \in Nat
      BY <1>2, <2>1
    <3> QED
      BY <1>1, <1>3, <3>1
  <2>2. CASE ~(n >= 0)
    <3>1. 1 .. n = {} /\ 1 .. 0 = {}
      BY <1>2, <2>2
    <3>2. t = [i \in 1 .. 0 |-> Byte(9)]
      BY <1>1, <3>1
    <3> QED
      BY <1>3, <3>2
  <2> QED
    BY <2>1, <2>2
<1>5. Buffer(q) = q.mem \o t
  BY <1>1 DEF Buffer
<1> QED
  BY <1>4, <1>5

\* g is f with the cells c written at off.
Written(f, off, c, g) ==
    /\ g \in Seq(Cells) /\ Len(f) <= Len(g) /\ off + Len(c) <= Len(g)
    /\ \A i \in 1 .. Len(f) : i <= off \/ i > off + Len(c) => g[i] = f[i]
    /\ \A i \in 1 .. Len(c) : g[off + i] = c[i]

LEMMA PwriteProps ==
    ASSUME NEW f \in Seq(Cells), NEW off \in Nat, off <= Len(f), NEW c \in Seq(Cells),
           NEW g, g = pwrite(f, off, c)
    PROVE  Written(f, off, c, g)
<1>1. CASE c = << >>
  <2>1. g = f
    BY <1>1 DEF pwrite
  <2> QED
    BY <1>1, <2>1 DEF Written
<1>2. CASE c # << >>
  <2>1. Len(c) \in Nat \ {0} /\ Len(f) \in Nat
    BY <1>2
  <2>2. PICK m : m = IF Direct THEN round_up(off + Len(c)) ELSE off + Len(c)
    OBVIOUS
  <2>3. m \in Nat /\ off + Len(c) <= m
    <3>1. round_up(off + Len(c)) \in Nat \ {0} /\ round_up(off + Len(c)) >= off + Len(c)
      BY <2>1, RoundUpProps
    <3> QED
      BY <2>1, <2>2, <3>1
  <2>4. PICK n : n = Max({Len(f), m})
    OBVIOUS
  <2>5. n \in Nat /\ Len(f) <= n /\ off + Len(c) <= n
    BY <2>1, <2>3, <2>4, MaxOfTwo
  <2>6. g = [i \in 1 .. n |-> IF i > off /\ i <= off + Len(c) THEN c[i - off]
                              ELSE IF i <= Len(f) THEN f[i] ELSE Byte(0)]
    BY <1>2, <2>2, <2>4 DEF pwrite
  <2>7. Byte(0) \in Cells
    BY ByteIsCell
  <2>8. ASSUME NEW i \in 1 .. n
        PROVE  g[i] \in Cells
    <3>1. CASE i > off /\ i <= off + Len(c)
      <4>1. i - off \in 1 .. Len(c)
        BY <2>1, <3>1
      <4> QED
        BY <2>6, <3>1, <4>1
    <3>2. CASE ~(i > off /\ i <= off + Len(c)) /\ i <= Len(f)
      <4>1. i \in 1 .. Len(f)
        BY <2>1, <3>2
      <4> QED
        BY <2>6, <3>2, <4>1
    <3>3. CASE ~(i > off /\ i <= off + Len(c)) /\ ~(i <= Len(f))
      BY <2>6, <2>7, <3>3
    <3> QED
      BY <3>1, <3>2, <3>3
  <2>9. g \in Seq(Cells) /\ Len(g) = n
    <3>1. g = [i \in 1 .. n |-> g[i]]
      BY <2>6
    <3> QED
      BY <2>5, <2>8, <3>1
  <2>10. ASSUME NEW i \in 1 .. Len(f), i <= off \/ i > off + Len(c)
         PROVE  g[i] = f[i]
    <3>1. i \in 1 .. n /\ ~(i > off /\ i <= off + Len(c)) /\ i <= Len(f)
      BY <2>1, <2>5, <2>10
    <3> QED
      BY <2>6, <3>1
  <2>11. ASSUME NEW i \in 1 .. Len(c)
         PROVE  g[off + i] = c[i]
    <3>1. /\ off + i \in 1 .. n /\ off + i > off /\ off + i <= off + Len(c)
          /\ (off + i) - off = i
      BY <2>1, <2>5
    <3> QED
      BY <2>6, <3>1
  <2> QED
    BY <2>5, <2>9, <2>10, <2>11 DEF Written
<1> QED
  BY <1>1, <1>2

\* What the owner's calls do to the file: they leave the superblock alone, or
\* destroy it.
Touched(f, g) ==
    /\ g \in Seq(Cells)
    /\ Len(f) # 0 => Len(g) # 0 /\ (g[1] = f[1] \/ g[1] \in ByteCells)

LEMMA TouchedTwice ==
    ASSUME NEW f, NEW g, NEW h, Touched(f, g), Touched(g, h)
    PROVE  Touched(f, h)
  BY DEF Touched

LEMMA TouchedWritten ==
    ASSUME NEW f \in Seq(Cells), NEW off \in Nat, off <= Len(f), 0 < off, NEW c \in Seq(Cells),
           NEW g, g = pwrite(f, off, c)
    PROVE  Touched(f, g)
<1>1. Written(f, off, c, g)
  BY PwriteProps
<1>2. Len(f) \in Nat /\ Len(f) # 0 /\ 1 \in 1 .. Len(f)
  OBVIOUS
<1> QED
  BY <1>1, <1>2 DEF Written, Touched

LEMMA FtruncateProps ==
    ASSUME NEW f \in Seq(Cells), NEW n \in Nat, n <= Len(f), NEW g, g = ftruncate(f, n)
    PROVE  g \in Seq(Cells) /\ Len(g) = n /\ (n # 0 => Touched(f, g))
<1>1. PICK h, z : h = SubSeq(f, 1, n) /\ z = Zeros(n - Len(f))
  OBVIOUS
<1>2. h \in Seq(Cells) /\ Len(h) = n /\ \A i \in 1 .. n : h[i] = f[i]
  BY <1>1
<1>3. z \in Seq(ByteCells) /\ Len(z) = 0
  <2>1. n - Len(f) \in Int
    OBVIOUS
  <2> QED
    BY <1>1, <2>1, ZerosProps
<1>4. z \in Seq(Cells)
  BY <1>3, ByteIsCell
<1>5. g = h \o z
  BY <1>1 DEF ftruncate
<1>6. g \in Seq(Cells) /\ Len(g) = n
  BY <1>2, <1>3, <1>4, <1>5
<1>7. n # 0 => g[1] = f[1]
  BY <1>2, <1>3, <1>4, <1>5
<1> QED
  BY <1>6, <1>7 DEF Touched

\* One byte of Scatter, under a name of its own.
Stored(g, b, v) == [g EXCEPT ![b + 1] = v]

LEMMA StoredProps ==
    ASSUME NEW g \in Seq(Cells), NEW b, NEW v \in ByteCells, NEW h, h = Stored(g, b, v)
    PROVE  Len(h) = Len(g) /\ Touched(g, h)
<1>1. DOMAIN g = 1 .. Len(g) /\ Len(g) \in Nat
  OBVIOUS
<1>2. PICK j : j = b + 1
  OBVIOUS
<1>3. h = [i \in 1 .. Len(g) |-> IF i = j THEN v ELSE g[i]]
  BY <1>1, <1>2 DEF Stored
<1>4. v \in Cells
  BY ByteIsCell
<1>5. \A i \in 1 .. Len(g) : h[i] \in Cells /\ (h[i] = v \/ h[i] = g[i])
  BY <1>3, <1>4
<1>6. h \in Seq(Cells) /\ Len(h) = Len(g)
  <2>1. h = [i \in 1 .. Len(g) |-> h[i]]
    BY <1>3
  <2> QED
    BY <1>1, <1>5, <2>1
<1> QED
  BY <1>1, <1>5, <1>6 DEF Touched

\* Scatter touches the file, and leaves its length.
LEMMA ScatterProps ==
    ASSUME NEW f0 \in Seq(Cells), NEW ext, NEW bytes \in Seq(ByteCells),
           NEW r, r = Scatter(f0, ext, bytes)
    PROVE  Touched(f0, r) /\ Len(r) = Len(f0)
<1> DEFINE p == Places(ext)
           q == [i \in DOMAIN bytes |-> i]
           n == Len(bytes)
<1>2. n \in Nat /\ DOMAIN q = 1 .. n /\ Len(q) = n /\ \A i \in 1 .. n : q[i] = i /\ bytes[i] \in ByteCells
  OBVIOUS
<1>3. r = (CHOOSE f : f = [S \in SUBSET (DOMAIN q) |-> IF S = {} THEN f0
                ELSE Stored(f[S \ {Max(S)}], p[q[Max(S)]], bytes[q[Max(S)]])])[DOMAIN q]
  BY DEF Scatter, FoldLeft, MapThenFoldSet, Stored
<1> HIDE DEF p, q, n
<1> DEFINE V == {x \in Seq(Cells) : Touched(f0, x) /\ Len(x) = Len(f0)}
           base == f0
           A == [S \in SUBSET (1 .. n) |-> V]
           g == [z \in V \X (1 .. n) |-> Stored(z[1], p[q[z[2]]], bytes[q[z[2]]])]
           I(f) == f = [S \in SUBSET (1 .. n) |-> IF S = {} THEN base
                          ELSE Stored(f[S \ {Max(S)}], p[q[Max(S)]], bytes[q[Max(S)]])]
           h == CHOOSE f : I(f)
<1>5. r = h[1 .. n]
  BY <1>2, <1>3
<1>6. base \in A[{}]
  BY DEF Touched
<1>7. ASSUME NEW S \in SUBSET (1 .. n), S # {}, NEW x \in A[S \ {Max(S)}]
      PROVE  /\ x \in V /\ Max(S) \in 1 .. n
             /\ Stored(x, p[q[Max(S)]], bytes[q[Max(S)]]) \in A[S]
  <2>1. Max(S) \in 1 .. n /\ S \ {Max(S)} \in SUBSET (1 .. n)
    BY <1>2, <1>7, LastIndex
  <2>2. x \in V
    BY <2>1
  <2>3. PICK b, v, y : b = p[q[Max(S)]] /\ v = bytes[q[Max(S)]] /\ y = Stored(x, b, v)
    OBVIOUS
  <2>4. v \in ByteCells
    BY <1>2, <2>1, <2>3
  <2>5. x \in Seq(Cells) /\ Touched(f0, x) /\ Len(x) = Len(f0)
    BY <2>2
  <2>6. Len(y) = Len(x) /\ Touched(x, y)
    BY <2>3, <2>4, <2>5, StoredProps
  <2>7. Touched(f0, y) /\ y \in Seq(Cells)
    BY <2>5, <2>6, TouchedTwice DEF Touched
  <2>8. y \in V
    BY <2>5, <2>6, <2>7
  <2> QED
    BY <2>1, <2>2, <2>3, <2>8
<1>8. PICK f : FoldRec(base, g, n, f) /\ \A S \in SUBSET (1 .. n) : f[S] \in A[S]
  <2>1. A \in [SUBSET (1 .. n) -> SUBSET V]
    <3> HIDE DEF V
    <3> QED
      OBVIOUS
  <2>2. FoldKeeps(A, base, g, n)
    <3>1. ASSUME NEW S \in SUBSET (1 .. n), S # {}, NEW x \in A[S \ {Max(S)}]
          PROVE  g[<<x, Max(S)>>] \in A[S]
      <4>1. x \in V /\ Max(S) \in 1 .. n /\ Stored(x, p[q[Max(S)]], bytes[q[Max(S)]]) \in A[S]
        <5> HIDE DEF A, V
        <5> QED
          BY <1>7, <3>1
      <4>2. g[<<x, Max(S)>>] = Stored(x, p[q[Max(S)]], bytes[q[Max(S)]])
        <5> HIDE DEF A, V
        <5> QED
          BY <4>1
      <4> HIDE DEF A, V, g
      <4> QED
        BY <4>1, <4>2
    <3> HIDE DEF A, V, g, base
    <3> QED
      BY <1>6, <3>1 DEF FoldKeeps
  <2> HIDE DEF A, V, g, base
  <2> QED
    BY <1>2, <2>1, <2>2, FoldWithin
<1>9. I(f)
  <2>1. ASSUME NEW S \in SUBSET (1 .. n), S # {}
        PROVE  f[S] = Stored(f[S \ {Max(S)}], p[q[Max(S)]], bytes[q[Max(S)]])
    <3>1. S \ {Max(S)} \in SUBSET (1 .. n)
      OBVIOUS
    <3>2. f[S \ {Max(S)}] \in A[S \ {Max(S)}]
      BY <1>8, <3>1
    <3>3. f[S \ {Max(S)}] \in V /\ Max(S) \in 1 .. n
      <4> HIDE DEF A, V
      <4> QED
        BY <1>7, <2>1, <3>2
    <3>4. f[S] = g[<<f[S \ {Max(S)}], Max(S)>>]
      <4> HIDE DEF A, V, g, base
      <4> QED
        BY <1>8, <2>1 DEF FoldRec
    <3> HIDE DEF A, V
    <3> QED
      BY <3>3, <3>4
  <2> HIDE DEF A, V, g, base
  <2> QED
    BY <1>8, <2>1 DEF FoldRec
<1>10. I(h)
  <2> HIDE DEF I
  <2> QED
    BY <1>9
<1> HIDE DEF h
<1>11. h[1 .. n] \in A[1 .. n]
  <2>1. h[{}] \in A[{}]
    <3>1. h[{}] = base
      <4> HIDE DEF base
      <4> QED
        BY <1>10
    <3> HIDE DEF A, base
    <3> QED
      BY <1>6, <3>1
  <2>2. ASSUME NEW S \in SUBSET (1 .. n), S # {}, h[S \ {Max(S)}] \in A[S \ {Max(S)}]
        PROVE  h[S] \in A[S]
    <3>1. h[S] = Stored(h[S \ {Max(S)}], p[q[Max(S)]], bytes[q[Max(S)]])
      <4> HIDE DEF base, A
      <4> QED
        BY <1>10, <2>2
    <3> HIDE DEF A, V
    <3> QED
      BY <1>7, <2>2, <3>1
  <2>3. \A S \in SUBSET (1 .. n) : h[S] \in A[S]
    <3> HIDE DEF A
    <3> QED
      BY <1>2, <2>1, <2>2, FoldStays
  <2> HIDE DEF A
  <2> QED
    BY <2>3
<1> QED
  BY <1>5, <1>11

-----------------------------------------------------------------------------
(* Room for a record.                                                      *)

LEMMA ExtTotalIs ==
    ASSUME NEW ext \in Seq(Extent)
    PROVE  /\ ext_total(ext) \in Nat
           /\ ext_total(ext) = Total([i \in 1 .. Len(ext) |-> ext[i].len], 1 .. Len(ext))
<1>1. ext_total(ext) = FoldLengths(ext)
  BY DEF ext_total, FoldLengths, FoldLeft, MapThenFoldSet
<1>2. /\ Len(ext) \in Nat /\ DOMAIN ext = 1 .. Len(ext)
      /\ \A i \in 1 .. Len(ext) : ext[i].len \in Nat
  BY HoleFields
<1>3. PICK n, w : n = Len(ext) /\ w = [i \in 1 .. n |-> ext[i].len]
  OBVIOUS
<1>4. IsFiniteSet(1 .. n) /\ 1 .. n \in SUBSET Nat /\ \A i \in 1 .. n : i <= n
  BY <1>2, <1>3, FS_Interval
<1>5. FoldLengths(ext) = Total([i \in DOMAIN ext |-> ext[i].len], DOMAIN ext)
  BY <1>2, <1>3, <1>4, FoldOfLengths
<1>6. FoldLengths(ext) = Total(w, 1 .. n)
  BY <1>2, <1>3, <1>5
<1>7. \A i \in 1 .. n : w[i] \in Nat
  BY <1>2, <1>3
<1>8. Total(w, 1 .. n) \in Nat
  BY <1>4, <1>7, TotalProps
<1> QED
  BY <1>1, <1>3, <1>6, <1>8

Rooms == [ext : Seq(Extent), fl : Seq(Extent), end : Nat, file : Seq(Cells)]

\* The extents of x belong to one record and O to the others; what is left is
\* the free list of x, and all of it is in the file.
Roomy(x, O, f0) ==
    /\ x \in Rooms
    /\ Accounted(x.fl, O \cup Range(x.ext), x.end)
    /\ \A i, j \in 1 .. Len(x.ext) : x.ext[i] = x.ext[j] => i = j
    /\ \A i \in 1 .. Len(x.ext) : x.ext[i] \notin O
    /\ x.end <= Len(x.file) /\ Touched(f0, x.file)

LEMMA RoomFields ==
    ASSUME NEW x \in Rooms
    PROVE  /\ x.ext \in Seq(Extent) /\ x.fl \in Seq(Extent) /\ x.end \in Nat
           /\ x.file \in Seq(Cells)
  BY DEF Rooms

\* The last step of Turn, under a name of its own.
Pushed(x, e, l, m) ==
    [ext |-> Append(x.ext, e), fl |-> l, end |-> m,
     file |-> pwrite(x.file, e.foff, Zeros(e.len))]

LEMMA PushKeeps ==
    ASSUME NEW x, NEW O, NEW f0, Roomy(x, O, f0), NEW e \in Extent,
           e \notin O \cup Range(x.ext), e.foff <= x.end,
           NEW l, NEW m, Accounted(l, (O \cup Range(x.ext)) \cup {e}, m),
           m = x.end \/ m = End(e), NEW y, y = Pushed(x, e, l, m)
    PROVE  Roomy(y, O, f0)
<1>1. /\ x.ext \in Seq(Extent) /\ x.end \in Nat /\ x.file \in Seq(Cells)
      /\ x.end <= Len(x.file) /\ Touched(f0, x.file)
      /\ \A i, j \in 1 .. Len(x.ext) : x.ext[i] = x.ext[j] => i = j
      /\ \A i \in 1 .. Len(x.ext) : x.ext[i] \notin O
  BY RoomFields DEF Roomy
<1>2. PICK z, g, n, w : /\ z = Zeros(e.len) /\ g = pwrite(x.file, e.foff, z)
                        /\ n = Len(x.ext) /\ w = Append(x.ext, e)
  OBVIOUS
<1>3. y = [ext |-> w, fl |-> l, end |-> m, file |-> g]
  BY <1>2 DEF Pushed
<1>4. y.ext = w /\ y.fl = l /\ y.end = m /\ y.file = g
  BY <1>3
<1>5. e.foff \in Nat /\ e.len \in Nat
  BY DEF Extent
<1>6. z \in Seq(Cells) /\ Len(z) = e.len
  BY <1>2, <1>5, ZerosProps, ByteIsCell
<1>7. e.foff <= Len(x.file)
  BY <1>1, <1>5
<1>8. Written(x.file, e.foff, z, g)
  BY <1>1, <1>2, <1>5, <1>6, <1>7, PwriteProps
<1>9. g \in Seq(Cells) /\ Len(x.file) <= Len(g) /\ e.foff + e.len <= Len(g)
  BY <1>6, <1>8 DEF Written
<1>10. m \in Nat /\ m <= Len(g) /\ l \in Seq(Extent)
  <2>1. m \in Nat /\ l \in Seq(Extent)
    BY DEF Accounted
  <2> QED
    BY <1>1, <1>5, <1>9, <2>1 DEF End
<1>11. 0 < e.foff
  <2>1. e \in (O \cup Range(x.ext)) \cup {e}
    OBVIOUS
  <2>2. LS_SUPER_SIZE <= e.foff
    BY <2>1, AccountInside
  <2> QED
    BY <1>5, <2>2, SuperAssumption
<1>12. Touched(x.file, g)
  BY <1>1, <1>2, <1>5, <1>6, <1>7, <1>11, TouchedWritten
<1>13. Touched(f0, g)
  BY <1>1, <1>12, TouchedTwice
<1>14. /\ w \in Seq(Extent) /\ Len(w) = n + 1 /\ n \in Nat
       /\ \A i \in 1 .. (n + 1) : w[i] = IF i = n + 1 THEN e ELSE x.ext[i]
  BY <1>1, <1>2
<1>15. Range(x.ext) = {x.ext[i] : i \in 1 .. n}
  BY <1>1, <1>2 DEF Range
<1>16. Range(w) = Range(x.ext) \cup {e}
  <2>1. Range(w) = {w[i] : i \in 1 .. (n + 1)}
    BY <1>14 DEF Range
  <2>2. \A d : d \in Range(w) <=> \E i \in 1 .. (n + 1) : d = w[i]
    BY <2>1
  <2>3. \A d : d \in Range(x.ext) <=> \E i \in 1 .. n : d = x.ext[i]
    BY <1>15
  <2>4. \A i \in 1 .. n : i \in 1 .. (n + 1) /\ w[i] = x.ext[i]
    BY <1>14
  <2>5. n + 1 \in 1 .. (n + 1) /\ w[n + 1] = e
    BY <1>14
  <2>6. \A i \in 1 .. (n + 1) : i = n + 1 \/ i \in 1 .. n
    BY <1>14
  <2>7. \A d : d \in Range(w) <=> d \in Range(x.ext) \cup {e}
    BY <2>2, <2>3, <2>4, <2>5, <2>6
  <2> QED
    BY <2>7
<1>17. Accounted(l, O \cup Range(w), m)
  <2>1. (O \cup Range(x.ext)) \cup {e} = O \cup Range(w)
    BY <1>16
  <2> QED
    BY <2>1
<1>18. \A i \in 1 .. n : x.ext[i] # e /\ x.ext[i] \notin O
  BY <1>1, <1>2, <1>15
<1>19. \A i, j \in 1 .. Len(w) : w[i] = w[j] => i = j
  <2> SUFFICES ASSUME NEW i \in 1 .. (n + 1), NEW j \in 1 .. (n + 1), w[i] = w[j]
               PROVE  i = j
    BY <1>14
  <2>1. i # n + 1 => i \in 1 .. n /\ w[i] = x.ext[i]
    BY <1>14
  <2>2. j # n + 1 => j \in 1 .. n /\ w[j] = x.ext[j]
    BY <1>14
  <2>3. w[n + 1] = e
    BY <1>14
  <2> QED
    BY <1>1, <1>2, <1>18, <2>1, <2>2, <2>3
<1>20. \A i \in 1 .. Len(w) : w[i] \notin O
  BY <1>14, <1>18
<1>21. y \in Rooms
  BY <1>3, <1>9, <1>10, <1>14 DEF Rooms
<1> QED
  BY <1>4, <1>10, <1>13, <1>17, <1>19, <1>20, <1>21 DEF Roomy

LEMMA TurnKeeps ==
    ASSUME NEW x, NEW O, NEW f0, Roomy(x, O, f0), NEW need \in Nat,
           NEW y, y = Turn(x, need)
    PROVE  Roomy(y, O, f0)
<1>1. /\ x.ext \in Seq(Extent) /\ x.fl \in Seq(Extent) /\ x.end \in Nat
      /\ Accounted(x.fl, O \cup Range(x.ext), x.end)
  BY RoomFields DEF Roomy
<1>2. PICK lack, want : lack = need - ext_total(x.ext) /\ want = round_up(lack)
  OBVIOUS
<1>3. lack \in Int
  BY <1>1, <1>2, ExtTotalIs
<1>4. PICK i, j : i = BestFit(x.fl, want) /\ j = Largest(x.fl)
  OBVIOUS
<1>5. CASE lack <= 0
  <2>1. y = x
    BY <1>2, <1>5 DEF Turn
  <2> QED
    BY <2>1
<1>6. CASE ~(lack <= 0)
  <2>1. lack \in Nat \ {0}
    BY <1>3, <1>6
  <2>2. want \in Nat \ {0}
    BY <1>2, <2>1, RoundUpProps
  <2>3. PICK P, l, m : P = O \cup Range(x.ext) /\ l = x.fl /\ m = x.end
    OBVIOUS
  <2>4. Accounted(l, P, m)
    BY <1>1, <2>3
  <2>5. CASE Fitting(x.fl, want) # {}
    <3>1. PICK e, u : e = [foff |-> x.fl[i].foff, len |-> want] /\ u = TakeFront(x.fl, i, want)
      OBVIOUS
    <3>2. y = Pushed(x, e, u, x.end)
      BY <1>2, <1>4, <1>6, <2>5, <3>1 DEF Turn, Pushed
    <3>3. e \in Extent /\ e \notin P /\ Accounted(u, P \cup {e}, m)
      <4>1. e = [foff |-> l[BestFit(l, want)].foff, len |-> want] /\ u = TakeFront(l, BestFit(l, want), want)
        BY <1>4, <2>3, <3>1
      <4>2. Fitting(l, want) # {}
        BY <2>3, <2>5
      <4> QED
        BY <2>2, <2>4, <4>1, <4>2, AccountBest
    <3>4. End(e) <= m
      BY <3>3, AccountInside
    <3>5. e.foff <= x.end
      <4>1. e.foff \in Nat /\ e.len \in Nat /\ e.foff + e.len <= x.end
        BY <2>3, <3>3, <3>4 DEF Extent, End
      <4> QED
        BY <1>1, <4>1
    <3> QED
      BY <2>3, <3>2, <3>3, <3>5, PushKeeps
  <2>6. CASE /\ ~(Fitting(x.fl, want) # {})
             /\ Len(x.ext) + 1 < LS_MAX_EXTENTS
             /\ x.fl # << >>
             /\ x.fl[j].len >= round_up(Min({LS_MIN_EXTENT, lack}))
    <3>1. PICK e, u : e = x.fl[j] /\ u = RemoveAt(x.fl, j)
      OBVIOUS
    <3>2. y = Pushed(x, e, u, x.end)
      BY <1>2, <1>4, <1>6, <2>6, <3>1 DEF Turn, Pushed
    <3>3. e \in Extent /\ e \notin P /\ Accounted(u, P \cup {e}, m)
      <4>1. e = l[Largest(l)] /\ u = RemoveAt(l, Largest(l)) /\ l # << >>
        BY <1>4, <2>3, <2>6, <3>1
      <4> QED
        BY <2>4, <4>1, AccountLargest
    <3>4. End(e) <= m
      BY <3>3, AccountInside
    <3>5. e.foff <= x.end
      <4>1. e.foff \in Nat /\ e.len \in Nat /\ e.foff + e.len <= x.end
        BY <2>3, <3>3, <3>4 DEF Extent, End
      <4> QED
        BY <1>1, <4>1
    <3> QED
      BY <2>3, <3>2, <3>3, <3>5, PushKeeps
  <2>7. CASE /\ ~(Fitting(x.fl, want) # {})
             /\ ~(/\ Len(x.ext) + 1 < LS_MAX_EXTENTS
                  /\ x.fl # << >>
                  /\ x.fl[j].len >= round_up(Min({LS_MIN_EXTENT, lack})))
    <3>1. PICK e : e = [foff |-> x.end, len |-> want]
      OBVIOUS
    <3>2. y = Pushed(x, e, x.fl, x.end + want)
      BY <1>2, <1>4, <1>6, <2>7, <3>1 DEF Turn, Pushed
    <3>3. e \in Extent /\ e \notin P /\ Accounted(l, P \cup {e}, m + want)
      BY <2>2, <2>3, <2>4, <3>1, AccountTail
    <3>4. e.foff = x.end /\ x.end + want = End(e)
      BY <3>1 DEF End
    <3>5. e.foff <= x.end
      BY <1>1, <3>4
    <3> QED
      BY <2>3, <3>2, <3>3, <3>4, <3>5, PushKeeps
  <2> QED
    BY <2>5, <2>6, <2>7
<1> QED
  BY <1>5, <1>6

LEMMA EnsureKeeps ==
    ASSUME NEW x0, NEW O, NEW f0, Roomy(x0, O, f0), NEW need \in Nat,
           NEW r, r = ensure_extents(x0, need)
    PROVE  Roomy(r, O, f0)
<1> DEFINE q == [i \in 1 .. need |-> i]
           n == need
<1>2. n \in Nat /\ DOMAIN q = 1 .. n
  OBVIOUS
<1>3. r = (CHOOSE f : f = [S \in SUBSET (DOMAIN q) |-> IF S = {} THEN x0
                ELSE Turn(f[S \ {Max(S)}], need)])[DOMAIN q]
  BY DEF ensure_extents, FoldLeft, MapThenFoldSet
<1> HIDE DEF q, n
<1> DEFINE V == {x \in Rooms : Roomy(x, O, f0)}
           base == x0
           A == [S \in SUBSET (1 .. n) |-> V]
           g == [z \in V \X (1 .. n) |-> Turn(z[1], need)]
           I(f) == f = [S \in SUBSET (1 .. n) |-> IF S = {} THEN base
                          ELSE Turn(f[S \ {Max(S)}], need)]
           h == CHOOSE f : I(f)
<1>5. r = h[1 .. n]
  BY <1>2, <1>3
<1>6. base \in A[{}]
  BY DEF Roomy
<1>7. ASSUME NEW S \in SUBSET (1 .. n), S # {}, NEW x \in A[S \ {Max(S)}]
      PROVE  /\ x \in V /\ Max(S) \in 1 .. n
             /\ Turn(x, need) \in A[S]
  <2>1. Max(S) \in 1 .. n /\ S \ {Max(S)} \in SUBSET (1 .. n)
    BY <1>2, <1>7, LastIndex
  <2>2. x \in V
    BY <2>1
  <2>3. Roomy(x, O, f0)
    BY <2>2
  <2>4. Roomy(Turn(x, need), O, f0)
    BY <2>3, TurnKeeps
  <2>5. Turn(x, need) \in V
    BY <2>4 DEF Roomy
  <2> QED
    BY <2>1, <2>2, <2>5
<1>8. PICK f : FoldRec(base, g, n, f) /\ \A S \in SUBSET (1 .. n) : f[S] \in A[S]
  <2>1. A \in [SUBSET (1 .. n) -> SUBSET V]
    <3> HIDE DEF V
    <3> QED
      OBVIOUS
  <2>2. FoldKeeps(A, base, g, n)
    <3>1. ASSUME NEW S \in SUBSET (1 .. n), S # {}, NEW x \in A[S \ {Max(S)}]
          PROVE  g[<<x, Max(S)>>] \in A[S]
      <4>1. x \in V /\ Max(S) \in 1 .. n /\ Turn(x, need) \in A[S]
        <5> HIDE DEF A, V
        <5> QED
          BY <1>7, <3>1
      <4>2. g[<<x, Max(S)>>] = Turn(x, need)
        <5> HIDE DEF A, V
        <5> QED
          BY <4>1
      <4> HIDE DEF A, V, g
      <4> QED
        BY <4>1, <4>2
    <3> HIDE DEF A, V, g, base
    <3> QED
      BY <1>6, <3>1 DEF FoldKeeps
  <2> HIDE DEF A, V, g, base
  <2> QED
    BY <1>2, <2>1, <2>2, FoldWithin
<1>9. I(f)
  <2>1. ASSUME NEW S \in SUBSET (1 .. n), S # {}
        PROVE  f[S] = Turn(f[S \ {Max(S)}], need)
    <3>1. S \ {Max(S)} \in SUBSET (1 .. n)
      OBVIOUS
    <3>2. f[S \ {Max(S)}] \in A[S \ {Max(S)}]
      BY <1>8, <3>1
    <3>3. f[S \ {Max(S)}] \in V /\ Max(S) \in 1 .. n
      <4> HIDE DEF A, V
      <4> QED
        BY <1>7, <2>1, <3>2
    <3>4. f[S] = g[<<f[S \ {Max(S)}], Max(S)>>]
      <4> HIDE DEF A, V, g, base
      <4> QED
        BY <1>8, <2>1 DEF FoldRec
    <3> HIDE DEF A, V
    <3> QED
      BY <3>3, <3>4
  <2> HIDE DEF A, V, g, base
  <2> QED
    BY <1>8, <2>1 DEF FoldRec
<1>10. I(h)
  <2> HIDE DEF I
  <2> QED
    BY <1>9
<1> HIDE DEF h
<1>11. h[1 .. n] \in A[1 .. n]
  <2>1. h[{}] \in A[{}]
    <3>1. h[{}] = base
      <4> HIDE DEF base
      <4> QED
        BY <1>10
    <3> HIDE DEF A, base
    <3> QED
      BY <1>6, <3>1
  <2>2. ASSUME NEW S \in SUBSET (1 .. n), S # {}, h[S \ {Max(S)}] \in A[S \ {Max(S)}]
        PROVE  h[S] \in A[S]
    <3>1. h[S] = Turn(h[S \ {Max(S)}], need)
      <4> HIDE DEF base, A
      <4> QED
        BY <1>10, <2>2
    <3> HIDE DEF A, V
    <3> QED
      BY <1>7, <2>2, <3>1
  <2>3. \A S \in SUBSET (1 .. n) : h[S] \in A[S]
    <3> HIDE DEF A
    <3> QED
      BY <1>2, <2>1, <2>2, FoldStays
  <2> HIDE DEF A
  <2> QED
    BY <2>3
<1> QED
  BY <1>5, <1>11

\* Extents given back one after the other.
LEMMA GiveBackAll ==
    ASSUME NEW l, NEW P, NEW e, Accounted(l, P, e), NEW ext \in Seq(Extent),
           \A i \in 1 .. Len(ext) : ext[i] \in P,
           \A i, j \in 1 .. Len(ext) : ext[i] = ext[j] => i = j,
           NEW r, r = GiveBack(l, e, ext)
    PROVE  Accounted(r.fl, P \ Range(ext), r.file_end) /\ r.file_end <= e
<1> DEFINE n == Len(ext)
           base == [fl |-> l, file_end |-> e]
<1>2. n \in Nat /\ DOMAIN ext = 1 .. n
  OBVIOUS
<1>3. r = (CHOOSE f : f = [S \in SUBSET (DOMAIN ext) |-> IF S = {} THEN base
                ELSE fl_insert(f[S \ {Max(S)}].fl, f[S \ {Max(S)}].file_end, ext[Max(S)])])[DOMAIN ext]
  BY DEF GiveBack, FoldLeft, MapThenFoldSet
<1> HIDE DEF n
<1> DEFINE Given(S) == {ext[i] : i \in S}
           V == [fl : Seq(Extent), file_end : Nat]
           A == [S \in SUBSET (1 .. n) |->
                   {x \in V : Accounted(x.fl, P \ Given(S), x.file_end) /\ x.file_end <= e}]
           g == [z \in V \X (1 .. n) |-> fl_insert(z[1].fl, z[1].file_end, ext[z[2]])]
           I(f) == f = [S \in SUBSET (1 .. n) |-> IF S = {} THEN base
                          ELSE fl_insert(f[S \ {Max(S)}].fl, f[S \ {Max(S)}].file_end, ext[Max(S)])]
           h == CHOOSE f : I(f)
<1>5. r = h[1 .. n]
  BY <1>2, <1>3
<1>6. base \in A[{}]
  <2>1. P \ Given({}) = P
    OBVIOUS
  <2>2. l \in Seq(Extent) /\ e \in Nat
    BY DEF Accounted
  <2>3. base \in V /\ base.fl = l /\ base.file_end = e /\ e <= e
    BY <2>2
  <2>4. {} \in SUBSET (1 .. n)
    OBVIOUS
  <2> HIDE DEF base, V, Given
  <2> QED
    BY <2>1, <2>3, <2>4
<1>7. ASSUME NEW S \in SUBSET (1 .. n), S # {}, NEW x \in A[S \ {Max(S)}]
      PROVE  /\ x \in V /\ Max(S) \in 1 .. n
             /\ fl_insert(x.fl, x.file_end, ext[Max(S)]) \in A[S]
  <2>1. Max(S) \in S /\ Max(S) \in 1 .. n /\ S \ {Max(S)} \in SUBSET (1 .. n)
    BY <1>2, <1>7, LastIndex
  <2>2. PICK m, T : m = Max(S) /\ T = S \ {Max(S)}
    OBVIOUS
  <2>3. x \in V /\ Accounted(x.fl, P \ Given(T), x.file_end) /\ x.file_end <= e
    <3> HIDE DEF V, Given
    <3> QED
      BY <2>1, <2>2
  <2>4. PICK d, y : d = ext[m] /\ y = fl_insert(x.fl, x.file_end, d)
    OBVIOUS
  <2>5. d \in P \ Given(T)
    <3>1. d \in P
      BY <1>2, <2>1, <2>2, <2>4 DEF n
    <3>2. \A i \in T : ext[i] # d
      BY <1>2, <2>1, <2>2, <2>4 DEF n
    <3> QED
      BY <3>1, <3>2
  <2>6. Given(S) = Given(T) \cup {d}
    BY <2>1, <2>2, <2>4
  <2>7. (P \ Given(T)) \ {d} = P \ Given(S)
    BY <2>6
  <2>8. Accounted(y.fl, (P \ Given(T)) \ {d}, y.file_end) /\ y.file_end <= x.file_end
    <3> HIDE DEF Given
    <3>1. PICK w, v, Q : w = x.fl /\ v = x.file_end /\ Q = P \ Given(T)
      OBVIOUS
    <3>2. Accounted(w, Q, v) /\ d \in Q /\ y = fl_insert(w, v, d)
      BY <2>3, <2>4, <2>5, <3>1
    <3>3. Accounted(y.fl, Q \ {d}, y.file_end) /\ y.file_end <= v
      BY <3>2, AccountGivenBack
    <3> QED
      BY <3>1, <3>3
  <2>9. y \in V /\ y.file_end <= e
    <3>1. y.fl \in Seq(Extent) /\ y.file_end \in Nat
      BY <2>8 DEF Accounted
    <3>2. y = [fl |-> y.fl, file_end |-> y.file_end]
      BY <2>4 DEF fl_insert
    <3>3. x.file_end \in Nat /\ e \in Nat
      BY <2>3 DEF Accounted
    <3> QED
      BY <2>3, <2>8, <3>1, <3>2, <3>3
  <2>10. y \in A[S]
    <3> HIDE DEF Given, V
    <3> QED
      BY <2>7, <2>8, <2>9
  <2> HIDE DEF V, A
  <2> QED
    BY <2>1, <2>2, <2>3, <2>4, <2>10
<1>8. PICK f : FoldRec(base, g, n, f) /\ \A S \in SUBSET (1 .. n) : f[S] \in A[S]
  <2>1. A \in [SUBSET (1 .. n) -> SUBSET V]
    <3> HIDE DEF V
    <3> QED
      OBVIOUS
  <2>2. FoldKeeps(A, base, g, n)
    <3>1. ASSUME NEW S \in SUBSET (1 .. n), S # {}, NEW x \in A[S \ {Max(S)}]
          PROVE  g[<<x, Max(S)>>] \in A[S]
      <4>1. x \in V /\ Max(S) \in 1 .. n /\ fl_insert(x.fl, x.file_end, ext[Max(S)]) \in A[S]
        <5> HIDE DEF A, V
        <5> QED
          BY <1>7, <3>1
      <4>2. g[<<x, Max(S)>>] = fl_insert(x.fl, x.file_end, ext[Max(S)])
        <5> HIDE DEF A, V
        <5> QED
          BY <4>1
      <4> HIDE DEF A, V, g
      <4> QED
        BY <4>1, <4>2
    <3> HIDE DEF A, V, g, base
    <3> QED
      BY <1>6, <3>1 DEF FoldKeeps
  <2> HIDE DEF A, V, g, base
  <2> QED
    BY <1>2, <2>1, <2>2, FoldWithin
<1>9. I(f)
  <2>1. ASSUME NEW S \in SUBSET (1 .. n), S # {}
        PROVE  f[S] = fl_insert(f[S \ {Max(S)}].fl, f[S \ {Max(S)}].file_end, ext[Max(S)])
    <3>1. S \ {Max(S)} \in SUBSET (1 .. n)
      OBVIOUS
    <3>2. f[S \ {Max(S)}] \in A[S \ {Max(S)}]
      BY <1>8, <3>1
    <3>3. f[S \ {Max(S)}] \in V /\ Max(S) \in 1 .. n
      <4> HIDE DEF A, V
      <4> QED
        BY <1>7, <2>1, <3>2
    <3>4. f[S] = g[<<f[S \ {Max(S)}], Max(S)>>]
      <4> HIDE DEF A, V, g, base
      <4> QED
        BY <1>8, <2>1 DEF FoldRec
    <3> HIDE DEF A, V
    <3> QED
      BY <3>3, <3>4
  <2> HIDE DEF A, V, g, base
  <2> QED
    BY <1>8, <2>1 DEF FoldRec
<1>10. I(h)
  <2> HIDE DEF I
  <2> QED
    BY <1>9
<1> HIDE DEF h
<1>11. h[1 .. n] \in A[1 .. n]
  <2>1. h[{}] \in A[{}]
    <3>1. h[{}] = base
      <4> HIDE DEF base
      <4> QED
        BY <1>10
    <3> HIDE DEF A, base
    <3> QED
      BY <1>6, <3>1
  <2>2. ASSUME NEW S \in SUBSET (1 .. n), S # {}, h[S \ {Max(S)}] \in A[S \ {Max(S)}]
        PROVE  h[S] \in A[S]
    <3>1. h[S] = fl_insert(h[S \ {Max(S)}].fl, h[S \ {Max(S)}].file_end, ext[Max(S)])
      <4> HIDE DEF base, A
      <4> QED
        BY <1>10, <2>2
    <3> HIDE DEF A, V
    <3> QED
      BY <1>7, <2>2, <3>1
  <2>3. \A S \in SUBSET (1 .. n) : h[S] \in A[S]
    <3> HIDE DEF A
    <3> QED
      BY <1>2, <2>1, <2>2, FoldStays
  <2> HIDE DEF A
  <2> QED
    BY <2>3
<1>12. Given(1 .. n) = Range(ext)
  BY <1>2 DEF Range
<1> HIDE DEF V, Given
<1> QED
  BY <1>5, <1>11, <1>12

-----------------------------------------------------------------------------
(* Records that change.                                                    *)

LEMMA InExtents ==
    ASSUME NEW r, NEW d
    PROVE  d \in AllExtents(r) <=> \E k \in DOMAIN r : \E i \in DOMAIN r[k].ext : d = r[k].ext[i]
  BY DEF AllExtents, Range

LEMMA NewRecTyped ==
    ASSUME NEW A, 0 \in A
    PROVE  /\ NewRec \in Records(A) /\ NewRec.ext = << >> /\ NewRec.mem = NULL
           /\ ~NewRec.resident /\ NewRec.size = 0
<1>1. << >> \in Seq(Extent) /\ << >> \in Seq(ByteCells) /\ FALSE \in BOOLEAN
  OBVIOUS
<1> QED
  BY <1>1 DEF NewRec, Records, NULL

\* The extents of record k, and those of the others.
LEMMA Others ==
    ASSUME NEW A, NEW r, NEW l, NEW e, TableOK(A, r, l, e), NEW k \in DOMAIN r,
           NEW O, O = AllExtents(Without(r, k))
    PROVE  /\ AllExtents(r) = O \cup Range(r[k].ext)
           /\ \A i, j \in 1 .. Len(r[k].ext) : r[k].ext[i] = r[k].ext[j] => i = j
           /\ \A i \in 1 .. Len(r[k].ext) : r[k].ext[i] \notin O
           /\ r[k].ext \in Seq(Extent)
<1>1. TableTyped(A, r) /\ Distinct(r)
  BY DEF TableOK
<1>2. r[k].ext \in Seq(Extent) /\ DOMAIN r[k].ext = 1 .. Len(r[k].ext)
  <2>1. r[k].ext \in Seq(Extent)
    BY <1>1, RecordFields
  <2> QED
    BY <2>1
<1>3. PICK w : w = Without(r, k)
  OBVIOUS
<1>4. DOMAIN w = DOMAIN r \ {k} /\ \A j \in DOMAIN r \ {k} : w[j] = r[j]
  BY <1>3 DEF Without
<1>5. \A d : d \in O <=> \E j \in DOMAIN r \ {k} : \E i \in DOMAIN r[j].ext : d = r[j].ext[i]
  <2> TAKE d
  <2>1. d \in O <=> \E j \in DOMAIN w : \E i \in DOMAIN w[j].ext : d = w[j].ext[i]
    BY <1>3, InExtents
  <2> QED
    BY <1>4, <2>1
<1>6. \A d : d \in Range(r[k].ext) <=> \E i \in DOMAIN r[k].ext : d = r[k].ext[i]
  BY DEF Range
<1>7. \A d : d \in AllExtents(r) <=> d \in O \cup Range(r[k].ext)
  BY <1>5, <1>6, InExtents
<1>8. \A i, j \in 1 .. Len(r[k].ext) : r[k].ext[i] = r[k].ext[j] => i = j
  BY <1>1, <1>2 DEF Distinct
<1>9. \A i \in 1 .. Len(r[k].ext) : r[k].ext[i] \notin O
  BY <1>1, <1>2, <1>5 DEF Distinct
<1> QED
  BY <1>2, <1>7, <1>8, <1>9

\* The record that a call works on, as ensure_extents sees it.
LEMMA FoundRoomy ==
    ASSUME NEW A, 0 \in A, NEW r, NEW l, NEW e, TableOK(A, r, l, e), NEW k,
           NEW f \in Seq(Cells), e <= Len(f),
           NEW q, q = IF k \in DOMAIN r THEN r[k] ELSE NewRec,
           NEW x, x = [ext |-> q.ext, fl |-> l, end |-> e, file |-> f]
    PROVE  /\ q \in Records(A) /\ (q.resident <=> q.mem # NULL)
           /\ Roomy(x, AllExtents(Without(r, k)), f)
<1>1. TableTyped(A, r) /\ Accounted(l, AllExtents(r), e) /\ l \in Seq(Extent) /\ e \in Nat
  BY DEF TableOK, Accounted
<1>2. q \in Records(A) /\ (q.resident <=> q.mem # NULL)
  <2>1. CASE k \in DOMAIN r
    BY <1>1, <2>1 DEF TableTyped
  <2>2. CASE k \notin DOMAIN r
    BY <2>2, NewRecTyped
  <2> QED
    BY <2>1, <2>2
<1>3. q.ext \in Seq(Extent)
  BY <1>2 DEF Records
<1>4. x.ext = q.ext /\ x.fl = l /\ x.end = e /\ x.file = f /\ x \in Rooms
  BY <1>1, <1>3 DEF Rooms
<1>5. PICK O : O = AllExtents(Without(r, k))
  OBVIOUS
<1>6. /\ AllExtents(r) = O \cup Range(q.ext)
      /\ \A i, j \in 1 .. Len(q.ext) : q.ext[i] = q.ext[j] => i = j
      /\ \A i \in 1 .. Len(q.ext) : q.ext[i] \notin O
  <2>1. CASE k \in DOMAIN r
    <3>1. q = r[k]
      BY <2>1
    <3> QED
      BY <1>5, <2>1, <3>1, Others
  <2>2. CASE k \notin DOMAIN r
    <3>1. q.ext = << >>
      BY <2>2, NewRecTyped
    <3>2. Len(q.ext) = 0 /\ Range(q.ext) = {}
      BY <3>1 DEF Range
    <3>3. PICK w : w = Without(r, k)
      OBVIOUS
    <3>4. DOMAIN w = DOMAIN r /\ \A j \in DOMAIN r : w[j] = r[j]
      BY <2>2, <3>3 DEF Without
    <3>5. \A d : d \in AllExtents(r) <=> d \in O
      BY <1>5, <3>3, <3>4, InExtents
    <3> QED
      BY <3>2, <3>5
  <2> QED
    BY <2>1, <2>2
<1>7. Touched(f, f)
  BY DEF Touched
<1>8. Accounted(x.fl, O \cup Range(x.ext), x.end)
  BY <1>1, <1>4, <1>6
<1> QED
  BY <1>2, <1>4, <1>5, <1>6, <1>7, <1>8 DEF Roomy

\* Record k has the extents of x now.
LEMMA BindOK ==
    ASSUME NEW A, NEW r, NEW l, NEW e, TableOK(A, r, l, e), NEW k \in Keys,
           NEW f0, NEW x, Roomy(x, AllExtents(Without(r, k)), f0),
           NEW q \in Records(A), q.resident <=> q.mem # NULL, q.ext = x.ext
    PROVE  TableOK(A, Bind(r, k, q), x.fl, x.end)
<1>1. TableTyped(A, r) /\ Distinct(r)
  BY DEF TableOK
<1>2. PICK b, O, w : b = Bind(r, k, q) /\ w = Without(r, k) /\ O = AllExtents(w)
  OBVIOUS
<1>3. /\ DOMAIN b = DOMAIN r \cup {k} /\ b[k] = q
      /\ \A j \in DOMAIN r : j # k => b[j] = r[j]
      /\ b = [j \in DOMAIN r \cup {k} |-> b[j]]
  BY <1>2 DEF Bind
<1>4. DOMAIN w = DOMAIN r \ {k} /\ \A j \in DOMAIN r \ {k} : w[j] = r[j]
  BY <1>2 DEF Without
<1>5. /\ Accounted(x.fl, O \cup Range(x.ext), x.end)
      /\ \A i, j \in 1 .. Len(x.ext) : x.ext[i] = x.ext[j] => i = j
      /\ \A i \in 1 .. Len(x.ext) : x.ext[i] \notin O
      /\ x.ext \in Seq(Extent)
  BY <1>2, RoomFields DEF Roomy
<1>6. TableTyped(A, b)
  <2>1. IsFiniteSet(DOMAIN b)
    BY <1>1, <1>3, FS_AddElement DEF TableTyped
  <2>2. DOMAIN b \in SUBSET Keys
    BY <1>1, <1>3 DEF TableTyped
  <2>3. \A j \in DOMAIN r \cup {k} : b[j] \in Records(A)
    BY <1>1, <1>3, RecordFields
  <2>4. b \in [DOMAIN b -> Records(A)]
    BY <1>3, <2>3
  <2>5. \A j \in DOMAIN b : b[j].resident <=> b[j].mem # NULL
    BY <1>1, <1>3 DEF TableTyped
  <2> QED
    BY <2>1, <2>2, <2>4, <2>5 DEF TableTyped
<1>7. DOMAIN x.ext = 1 .. Len(x.ext)
  BY <1>5
<1>8. \A j \in DOMAIN r \ {k} : \A i \in DOMAIN r[j].ext : r[j].ext[i] \in O
  <2> SUFFICES ASSUME NEW j \in DOMAIN r \ {k}, NEW i \in DOMAIN r[j].ext
               PROVE  r[j].ext[i] \in O
    OBVIOUS
  <2>1. j \in DOMAIN w /\ w[j] = r[j]
    BY <1>4
  <2> QED
    BY <1>2, <2>1, InExtents
<1>9. Distinct(b)
  <2> SUFFICES ASSUME NEW i \in DOMAIN b, NEW j \in DOMAIN b,
                      NEW u \in DOMAIN b[i].ext, NEW v \in DOMAIN b[j].ext,
                      b[i].ext[u] = b[j].ext[v]
               PROVE  i = j /\ u = v
    BY DEF Distinct
  <2>1. CASE i = k /\ j = k
    BY <1>3, <1>5, <1>7, <2>1
  <2>2. CASE i = k /\ j # k
    <3>1. j \in DOMAIN r \ {k} /\ b[j] = r[j]
      BY <1>3, <2>2
    <3> QED
      BY <1>3, <1>5, <1>7, <1>8, <2>2, <3>1
  <2>3. CASE i # k /\ j = k
    <3>1. i \in DOMAIN r \ {k} /\ b[i] = r[i]
      BY <1>3, <2>3
    <3> QED
      BY <1>3, <1>5, <1>7, <1>8, <2>3, <3>1
  <2>4. CASE i # k /\ j # k
    <3>1. i \in DOMAIN r /\ b[i] = r[i] /\ j \in DOMAIN r /\ b[j] = r[j]
      BY <1>3, <2>4
    <3> QED
      BY <1>1, <3>1 DEF Distinct
  <2> QED
    BY <2>1, <2>2, <2>3, <2>4
<1>10. AllExtents(b) = O \cup Range(x.ext)
  <2>1. \A d : d \in O <=> \E j \in DOMAIN r \ {k} : \E i \in DOMAIN r[j].ext : d = r[j].ext[i]
    <3> TAKE d
    <3>1. d \in O <=> \E j \in DOMAIN w : \E i \in DOMAIN w[j].ext : d = w[j].ext[i]
      BY <1>2, InExtents
    <3> QED
      BY <1>4, <3>1
  <2>2. \A d : d \in Range(x.ext) <=> \E i \in DOMAIN x.ext : d = x.ext[i]
    BY DEF Range
  <2>3. ASSUME NEW d
        PROVE  d \in AllExtents(b) <=> d \in O \cup Range(x.ext)
    <3>1. d \in AllExtents(b) <=> \E j \in DOMAIN b : \E i \in DOMAIN b[j].ext : d = b[j].ext[i]
      BY InExtents
    <3>2. (\E j \in DOMAIN b : \E i \in DOMAIN b[j].ext : d = b[j].ext[i])
          <=> \/ \E j \in DOMAIN r \ {k} : \E i \in DOMAIN b[j].ext : d = b[j].ext[i]
              \/ \E i \in DOMAIN b[k].ext : d = b[k].ext[i]
      BY <1>3
    <3>3. \A j \in DOMAIN r \ {k} : b[j] = r[j]
      BY <1>3
    <3>4. (\E j \in DOMAIN r \ {k} : \E i \in DOMAIN b[j].ext : d = b[j].ext[i]) <=> d \in O
      BY <2>1, <3>3
    <3>5. (\E i \in DOMAIN b[k].ext : d = b[k].ext[i]) <=> d \in Range(x.ext)
      BY <1>3, <2>2
    <3> QED
      BY <3>1, <3>2, <3>4, <3>5
  <2> QED
    BY <2>3
<1> QED
  BY <1>2, <1>5, <1>6, <1>9, <1>10 DEF TableOK

\* Record k is gone.
LEMMA WithoutOK ==
    ASSUME NEW A, NEW r, NEW l, NEW e, TableOK(A, r, l, e), NEW k \in DOMAIN r,
           NEW s, s = GiveBack(l, e, r[k].ext)
    PROVE  TableOK(A, Without(r, k), s.fl, s.file_end) /\ s.file_end <= e
<1>1. TableTyped(A, r) /\ Distinct(r) /\ Accounted(l, AllExtents(r), e)
  BY DEF TableOK
<1>2. PICK w, O, ext : w = Without(r, k) /\ O = AllExtents(w) /\ ext = r[k].ext
  OBVIOUS
<1>3. /\ AllExtents(r) = O \cup Range(ext)
      /\ \A i, j \in 1 .. Len(ext) : ext[i] = ext[j] => i = j
      /\ \A i \in 1 .. Len(ext) : ext[i] \notin O
      /\ ext \in Seq(Extent)
  BY <1>2, Others
<1>4. Range(ext) = {ext[i] : i \in 1 .. Len(ext)}
  BY <1>3 DEF Range
<1>5. \A i \in 1 .. Len(ext) : ext[i] \in AllExtents(r)
  BY <1>3, <1>4
<1>6. Accounted(s.fl, AllExtents(r) \ Range(ext), s.file_end) /\ s.file_end <= e
  BY <1>1, <1>2, <1>3, <1>5, GiveBackAll
<1>7. AllExtents(r) \ Range(ext) = O
  BY <1>3, <1>4
<1>8. /\ DOMAIN w = DOMAIN r \ {k} /\ \A j \in DOMAIN r \ {k} : w[j] = r[j]
      /\ w = [j \in DOMAIN r \ {k} |-> w[j]]
  BY <1>2 DEF Without
<1>9. TableTyped(A, w)
  <2>1. IsFiniteSet(DOMAIN w)
    BY <1>1, <1>8, FS_Subset DEF TableTyped
  <2>2. DOMAIN w \in SUBSET Keys
    BY <1>1, <1>8 DEF TableTyped
  <2>3. \A j \in DOMAIN r \ {k} : w[j] \in Records(A)
    BY <1>1, <1>8, RecordFields
  <2>4. w \in [DOMAIN w -> Records(A)]
    BY <1>8, <2>3
  <2>5. \A j \in DOMAIN w : w[j].resident <=> w[j].mem # NULL
    BY <1>1, <1>8 DEF TableTyped
  <2> QED
    BY <2>1, <2>2, <2>4, <2>5 DEF TableTyped
<1>10. Distinct(w)
  BY <1>1, <1>8 DEF Distinct
<1> QED
  BY <1>2, <1>6, <1>7, <1>9, <1>10 DEF TableOK

-----------------------------------------------------------------------------
(* Where the bytes of the records are.                                     *)

\* Place i of p is byte v[i] of extent u[i].
Located(ext, p, u, v) ==
    /\ \A i \in 1 .. Len(p) : /\ u[i] \in 1 .. Len(ext) /\ v[i] \in Nat
                              /\ p[i] = ext[u[i]].foff + v[i] - 1
                              /\ In(p[i], ext[u[i]])
    /\ \A i, j \in 1 .. Len(p) : u[i] = u[j] /\ v[i] = v[j] => i = j

LEMMA PlacesProps ==
    ASSUME NEW ext \in Seq(Extent), NEW p, p = Places(ext)
    PROVE  /\ p \in Seq(Nat) /\ Len(p) = ext_total(ext)
           /\ \E u, v : Located(ext, p, u, v)
<1>1. /\ Len(ext) \in Nat /\ DOMAIN ext = 1 .. Len(ext)
      /\ \A a \in 1 .. Len(ext) : ext[a].foff \in Nat /\ ext[a].len \in Nat
  BY HoleFields
<1>2. PICK n, ss, w : /\ n = Len(ext)
                      /\ ss = [a \in 1 .. n |-> [b \in 1 .. ext[a].len |-> ext[a].foff + b - 1]]
                      /\ w = [a \in 1 .. n |-> ext[a].len]
  OBVIOUS
<1>3. p = FlattenSeq(ss)
  BY <1>1, <1>2 DEF Places
<1>4. ASSUME NEW a \in 1 .. n
      PROVE  /\ ss[a] \in Seq(Nat) /\ Len(ss[a]) = ext[a].len
             /\ \A b \in 1 .. ext[a].len : ss[a][b] = ext[a].foff + b - 1
  <2>1. PICK m, o : m = ext[a].len /\ o = ext[a].foff
    OBVIOUS
  <2>2. m \in Nat /\ o \in Nat
    BY <1>1, <1>2, <2>1
  <2>3. ss[a] = [b \in 1 .. m |-> o + b - 1]
    BY <1>2, <2>1
  <2>4. \A b \in 1 .. m : o + b - 1 \in Nat
    BY <2>2
  <2>5. ss[a] \in Seq(Nat) /\ Len(ss[a]) = m
    BY <2>2, <2>3, <2>4
  <2> QED
    BY <2>1, <2>3, <2>5
<1>5. ss \in Seq(Seq(Nat)) /\ Len(ss) = n /\ n \in Nat
  <2>1. n \in Nat /\ DOMAIN ss = 1 .. n /\ ss = [a \in 1 .. n |-> ss[a]]
    BY <1>1, <1>2
  <2>2. \A a \in 1 .. n : ss[a] \in Seq(Nat)
    BY <1>4
  <2> QED
    BY <2>1, <2>2
<1>6. p \in Seq(Nat)
  BY <1>3, <1>5, FlattenTyped
<1>7. Len(p) = ext_total(ext)
  <2>1. \A a \in 1 .. Len(ss) : w[a] = Len(ss[a])
    BY <1>2, <1>4, <1>5
  <2>2. Len(p) = Total(w, 1 .. n)
    BY <1>3, <1>5, <2>1, FlattenLength
  <2>3. ext_total(ext) = Total([i \in 1 .. Len(ext) |-> ext[i].len], 1 .. Len(ext))
    BY ExtTotalIs
  <2>4. ext_total(ext) = Total(w, 1 .. n)
    BY <1>2, <2>3
  <2> QED
    BY <2>2, <2>4
<1>8. PICK u, v : Traced(ss, n, p, u, v)
  BY <1>3, <1>5, FlattenTraced
<1>9. /\ \A i \in 1 .. Len(p) : /\ u[i] \in 1 .. n /\ v[i] \in 1 .. Len(ss[u[i]])
                                /\ p[i] = ss[u[i]][v[i]]
      /\ \A i, j \in 1 .. Len(p) : u[i] = u[j] /\ v[i] = v[j] => i = j
  BY <1>8 DEF Traced
<1>10. ASSUME NEW i \in 1 .. Len(p)
       PROVE  /\ u[i] \in 1 .. Len(ext) /\ v[i] \in Nat
              /\ p[i] = ext[u[i]].foff + v[i] - 1
              /\ In(p[i], ext[u[i]])
  <2>1. PICK a, b : a = u[i] /\ b = v[i]
    OBVIOUS
  <2>2. a \in 1 .. n /\ b \in 1 .. Len(ss[a]) /\ p[i] = ss[a][b]
    BY <1>9, <2>1
  <2>3. b \in 1 .. ext[a].len /\ p[i] = ext[a].foff + b - 1
    BY <1>4, <2>2
  <2>4. ext[a].foff \in Nat /\ ext[a].len \in Nat
    BY <1>1, <1>2, <2>2
  <2>5. b \in Nat /\ In(p[i], ext[a])
    BY <2>3, <2>4 DEF In
  <2> QED
    BY <1>2, <2>1, <2>2, <2>3, <2>5
<1>11. Located(ext, p, u, v)
  BY <1>9, <1>10 DEF Located
<1> QED
  BY <1>6, <1>7, <1>11

\* Every byte of a sound table is between the superblock and the end, and no
\* two bytes are in the same place.
LEMMA PlaceInside ==
    ASSUME NEW A, NEW r, NEW l, NEW e, TableOK(A, r, l, e), NEW k \in DOMAIN r,
           NEW i \in 1 .. Len(Places(r[k].ext)), NEW b, b = Places(r[k].ext)[i]
    PROVE  b \in Nat /\ LS_SUPER_SIZE <= b /\ b < e
<1>1. TableTyped(A, r) /\ Accounted(l, AllExtents(r), e) /\ e \in Nat
  BY DEF TableOK, Accounted
<1>2. PICK ext, p : ext = r[k].ext /\ p = Places(ext)
  OBVIOUS
<1>3. ext \in Seq(Extent)
  BY <1>1, <1>2, RecordFields
<1>4. p \in Seq(Nat) /\ \A j \in 1 .. Len(p) : \E a \in 1 .. Len(ext) : In(p[j], ext[a])
  <2>1. PICK u, v : Located(ext, p, u, v)
    BY <1>2, <1>3, PlacesProps
  <2>2. \A j \in 1 .. Len(p) : u[j] \in 1 .. Len(ext) /\ In(p[j], ext[u[j]])
    BY <2>1 DEF Located
  <2>3. p \in Seq(Nat)
    BY <1>2, <1>3, PlacesProps
  <2> QED
    BY <2>2, <2>3
<1>5. b \in Nat
  BY <1>2, <1>4
<1>6. PICK a \in 1 .. Len(ext) : In(b, ext[a])
  BY <1>2, <1>4
<1>7. ext[a] \in AllExtents(r)
  <2>1. a \in DOMAIN r[k].ext
    BY <1>2, <1>3
  <2> QED
    BY <1>2, <2>1, InExtents
<1>8. LS_SUPER_SIZE <= ext[a].foff /\ End(ext[a]) <= e
  BY <1>1, <1>7, AccountInside
<1>9. ext[a].foff \in Nat /\ ext[a].len \in Nat
  BY <1>3, HoleFields
<1> QED
  BY <1>1, <1>5, <1>6, <1>8, <1>9, SuperAssumption DEF In, End

LEMMA SameExtent ==
    ASSUME NEW r, Distinct(r), NEW k \in DOMAIN r, NEW j \in DOMAIN r,
           NEW a \in DOMAIN r[k].ext, NEW b \in DOMAIN r[j].ext, r[k].ext[a] = r[j].ext[b]
    PROVE  k = j /\ a = b
  BY DEF Distinct

LEMMA PlacesDistinct ==
    ASSUME NEW A, NEW r, NEW l, NEW e, TableOK(A, r, l, e),
           NEW k \in DOMAIN r, NEW i \in 1 .. Len(Places(r[k].ext)),
           NEW j \in DOMAIN r, NEW m \in 1 .. Len(Places(r[j].ext)),
           Places(r[k].ext)[i] = Places(r[j].ext)[m]
    PROVE  k = j /\ i = m
<1>1. TableTyped(A, r) /\ Distinct(r) /\ Apart(AllExtents(r))
  BY DEF TableOK, Accounted
<1>2. PICK d, p, c, q, b : /\ d = r[k].ext /\ p = Places(d) /\ c = r[j].ext /\ q = Places(c)
                           /\ b = p[i]
  OBVIOUS
<1>3. d \in Seq(Extent) /\ c \in Seq(Extent)
  BY <1>1, <1>2, RecordFields
<1>4. PICK u, v : Located(d, p, u, v)
  BY <1>2, <1>3, PlacesProps
<1>5. PICK s, t : Located(c, q, s, t)
  BY <1>2, <1>3, PlacesProps
<1>a. /\ \A x \in 1 .. Len(p) : /\ u[x] \in 1 .. Len(d) /\ v[x] \in Nat
                               /\ p[x] = d[u[x]].foff + v[x] - 1
                               /\ In(p[x], d[u[x]])
      /\ \A x, y \in 1 .. Len(p) : u[x] = u[y] /\ v[x] = v[y] => x = y
  BY <1>4 DEF Located
<1>b. /\ \A x \in 1 .. Len(q) : /\ s[x] \in 1 .. Len(c) /\ t[x] \in Nat
                               /\ q[x] = c[s[x]].foff + t[x] - 1
                               /\ In(q[x], c[s[x]])
      /\ \A x, y \in 1 .. Len(q) : s[x] = s[y] /\ t[x] = t[y] => x = y
  BY <1>5 DEF Located
<1>6. i \in 1 .. Len(p) /\ m \in 1 .. Len(q) /\ b = p[i] /\ b = q[m] /\ b \in Int
  <2>1. p \in Seq(Nat)
    BY <1>2, <1>3, PlacesProps
  <2> QED
    BY <1>2, <2>1
<1>7. PICK x, y : x = d[u[i]] /\ y = c[s[m]]
  OBVIOUS
<1>8. x \in AllExtents(r) /\ y \in AllExtents(r)
  <2>1. u[i] \in DOMAIN r[k].ext /\ s[m] \in DOMAIN r[j].ext
    BY <1>2, <1>3, <1>a, <1>b, <1>6
  <2> QED
    BY <1>2, <1>7, <2>1, InExtents
<1>9. In(b, x) /\ In(b, y)
  BY <1>a, <1>b, <1>6, <1>7
<1>10. x = y
  BY <1>1, <1>6, <1>8, <1>9 DEF Apart
<1>11. k = j /\ u[i] = s[m]
  <2>1. u[i] \in DOMAIN r[k].ext /\ s[m] \in DOMAIN r[j].ext
    BY <1>2, <1>3, <1>a, <1>b, <1>6
  <2>2. r[k].ext[u[i]] = r[j].ext[s[m]]
    BY <1>2, <1>7, <1>10
  <2> QED
    BY <1>1, <2>1, <2>2, SameExtent
<1>12. d = c /\ p = q
  BY <1>2, <1>11
<1>13. s[i] \in 1 .. Len(c) /\ t[i] \in Nat /\ b = c[s[i]].foff + t[i] - 1 /\ In(b, c[s[i]])
  BY <1>b, <1>6, <1>12
<1>14. c[s[i]] = c[s[m]]
  <2>1. c[s[i]] \in AllExtents(r)
    <3>1. s[i] \in DOMAIN r[j].ext
      BY <1>2, <1>3, <1>13
    <3> QED
      BY <1>2, <3>1, InExtents
  <2> QED
    BY <1>1, <1>6, <1>7, <1>8, <1>9, <1>13, <2>1 DEF Apart
<1>15. s[i] = s[m]
  <2>1. s[i] \in DOMAIN r[j].ext /\ s[m] \in DOMAIN r[j].ext
    BY <1>2, <1>3, <1>b, <1>6, <1>13
  <2>2. r[j].ext[s[i]] = r[j].ext[s[m]]
    BY <1>2, <1>14
  <2> QED
    BY <1>1, <2>1, <2>2, SameExtent
<1>16. t[i] = t[m]
  <2>1. t[m] \in Nat /\ b = c[s[m]].foff + t[m] - 1 /\ c[s[m]].foff \in Nat
    BY <1>3, <1>b, <1>6, HoleFields
  <2>2. PICK o, x0, y0 : o = c[s[m]].foff /\ x0 = t[i] /\ y0 = t[m]
    OBVIOUS
  <2>3. x0 \in Nat /\ y0 \in Nat /\ o \in Nat /\ o + x0 - 1 = o + y0 - 1
    BY <1>13, <1>15, <2>1, <2>2
  <2>4. x0 = y0
    BY <2>3
  <2> QED
    BY <2>2, <2>4
<1>17. i = m
  BY <1>b, <1>6, <1>12, <1>15, <1>16
<1> QED
  BY <1>11, <1>17

-----------------------------------------------------------------------------
(* What a reader sees.                                                     *)

OnDisk(r) == \A k \in DOMAIN r : ~r[k].resident

\* A record whose bytes are in the file.
Shown(q, f) == [size |-> q.size, attr |-> q.attr, bytes |-> Fetch(f, q.ext, q.size)]

LEMMA ContentOnDisk ==
    ASSUME NEW r, OnDisk(r), NEW f
    PROVE  Content(r, f) = [k \in DOMAIN r |-> Shown(r[k], f)]
<1>1. \A k \in DOMAIN r : ~r[k].resident
  BY DEF OnDisk
<1>2. ASSUME NEW k \in DOMAIN r
      PROVE  [size |-> r[k].size, attr |-> r[k].attr,
              bytes |-> IF r[k].resident THEN Buffer(r[k])
                        ELSE Fetch(f, r[k].ext, r[k].size)] = Shown(r[k], f)
  BY <1>1 DEF Shown
<1> QED
  BY <1>2 DEF Content

\* The table read back shows what the table shows.
LEMMA PlainContent ==
    ASSUME NEW A, NEW r, TableTyped(A, r), OnDisk(r), NEW f
    PROVE  Content(Plain(r), f) = Content(r, f)
<1>1. PICK q : q = Plain(r)
  OBVIOUS
<1>2. SamePlaces(q, r)
  BY <1>1, PlainProps
<1>3. OnDisk(q)
  BY <1>2 DEF SamePlaces, OnDisk
<1>4. DOMAIN q = DOMAIN r
  BY <1>2 DEF SamePlaces
<1>5. ASSUME NEW k \in DOMAIN r
      PROVE  Shown(q[k], f) = Shown(r[k], f)
  <2>1. q[k].size = r[k].size /\ q[k].attr = r[k].attr /\ q[k].ext = r[k].ext
    BY <1>2 DEF SamePlaces
  <2> QED
    BY <2>1 DEF Shown
<1>6. Content(q, f) = [k \in DOMAIN q |-> Shown(q[k], f)]
  BY <1>3, ContentOnDisk
<1>7. Content(r, f) = [k \in DOMAIN r |-> Shown(r[k], f)]
  BY ContentOnDisk
<1> QED
  BY <1>1, <1>4, <1>5, <1>6, <1>7

LEMMA FetchIs ==
    ASSUME NEW f, NEW ext \in Seq(Extent), NEW n \in Nat, NEW p, p = Places(ext)
    PROVE  /\ Min({n, Len(p)}) \in Nat /\ Min({n, Len(p)}) <= Len(p)
           /\ Fetch(f, ext, n) = [i \in 1 .. Min({n, Len(p)}) |-> f[p[i] + 1]]
<1>1. Len(p) \in Nat
  BY PlacesProps, ExtTotalIs
<1>2. Min({n, Len(p)}) = IF n <= Len(p) THEN n ELSE Len(p)
  BY <1>1, MinOfTwo
<1>3. Fetch(f, ext, n) = [i \in 1 .. Min({n, Len(p)}) |-> f[p[i] + 1]]
  BY DEF Fetch
<1> QED
  BY <1>1, <1>2, <1>3

\* g is f with byte i of record k written.
ByteWritten(r, k, i, v, f, g) ==
    /\ i \in 1 .. Min({r[k].size, Len(Places(r[k].ext))})
    /\ g = [f EXCEPT ![Places(r[k].ext)[i] + 1] = v]

FetchedAfter(r, k, i, v, f, g, j) ==
    Fetch(g, r[j].ext, r[j].size)
      = IF j = k THEN [Fetch(f, r[k].ext, r[k].size) EXCEPT ![i] = v]
        ELSE Fetch(f, r[j].ext, r[j].size)

\* A byte that is written is in its own record and in no other.
LEMMA FetchAfter ==
    ASSUME NEW A, NEW r, NEW l, NEW e, TableOK(A, r, l, e), NEW f \in Seq(Cells), e <= Len(f),
           NEW k \in DOMAIN r, NEW i, NEW v, NEW g, ByteWritten(r, k, i, v, f, g),
           NEW j \in DOMAIN r
    PROVE  FetchedAfter(r, k, i, v, f, g, j)
<1>1. TableTyped(A, r) /\ e \in Nat /\ Len(f) \in Nat
  BY DEF TableOK, Accounted
<1>2. /\ r[k].ext \in Seq(Extent) /\ r[k].size \in Nat
      /\ r[j].ext \in Seq(Extent) /\ r[j].size \in Nat
  BY <1>1, RecordFields
<1>3. PICK p, q, m, n, b : /\ p = Places(r[k].ext) /\ m = Min({r[k].size, Len(p)})
                           /\ q = Places(r[j].ext) /\ n = Min({r[j].size, Len(q)})
                           /\ b = p[i]
  OBVIOUS
<1>4. m \in Nat /\ m <= Len(p) /\ Len(p) \in Nat /\ n \in Nat /\ n <= Len(q) /\ Len(q) \in Nat
  BY <1>2, <1>3, FetchIs, PlacesProps, ExtTotalIs
<1>5. i \in 1 .. m /\ i \in 1 .. Len(p)
  <2>1. i \in 1 .. m
    BY <1>3 DEF ByteWritten
  <2> QED
    BY <1>4, <2>1
<1>6. b \in Nat /\ b < e
  BY <1>3, <1>5, PlaceInside
<1>7. b + 1 \in 1 .. Len(f)
  BY <1>1, <1>6
<1>8. g = [c \in 1 .. Len(f) |-> IF c = b + 1 THEN v ELSE f[c]]
  <2>1. g = [f EXCEPT ![b + 1] = v]
    BY <1>3 DEF ByteWritten
  <2>2. DOMAIN f = 1 .. Len(f)
    OBVIOUS
  <2> QED
    BY <2>1, <2>2
<1>9. Fetch(f, r[j].ext, r[j].size) = [c \in 1 .. n |-> f[q[c] + 1]]
  BY <1>3 DEF Fetch
<1>10. Fetch(g, r[j].ext, r[j].size) = [c \in 1 .. n |-> g[q[c] + 1]]
  BY <1>3 DEF Fetch
<1>11. ASSUME NEW c \in 1 .. n
       PROVE  g[q[c] + 1] = IF j = k /\ c = i THEN v ELSE f[q[c] + 1]
  <2>1. c \in 1 .. Len(q)
    BY <1>4
  <2>2. PICK d : d = q[c]
    OBVIOUS
  <2>3. d \in Nat /\ d < e
    BY <1>3, <2>1, <2>2, PlaceInside
  <2>4. d + 1 \in 1 .. Len(f)
    BY <1>1, <2>3
  <2>5. g[d + 1] = IF d = b THEN v ELSE f[d + 1]
    BY <1>6, <1>8, <2>3, <2>4
  <2>6. d = b <=> j = k /\ c = i
    <3>1. d = b => j = k /\ c = i
      BY <1>3, <1>5, <2>1, <2>2, PlacesDistinct
    <3>2. j = k /\ c = i => d = b
      BY <1>3, <2>2
    <3> QED
      BY <3>1, <3>2
  <2> QED
    BY <2>2, <2>5, <2>6
<1>12. CASE j = k
  <2>1. q = p /\ n = m
    BY <1>3, <1>12
  <2>2. [Fetch(f, r[k].ext, r[k].size) EXCEPT ![i] = v]
          = [c \in 1 .. n |-> IF c = i THEN v ELSE f[q[c] + 1]]
    BY <1>9, <1>12
  <2>3. [c \in 1 .. n |-> g[q[c] + 1]] = [c \in 1 .. n |-> IF c = i THEN v ELSE f[q[c] + 1]]
    BY <1>11, <1>12
  <2> QED
    BY <1>10, <1>12, <2>2, <2>3 DEF FetchedAfter
<1>13. CASE j # k
  <2>1. [c \in 1 .. n |-> g[q[c] + 1]] = [c \in 1 .. n |-> f[q[c] + 1]]
    BY <1>11, <1>13
  <2> QED
    BY <1>9, <1>10, <1>13, <2>1 DEF FetchedAfter
<1> QED
  BY <1>12, <1>13

\* So is what the promise says of it.
LEMMA ContentAfter ==
    ASSUME NEW A, NEW r, NEW l, NEW e, TableOK(A, r, l, e), OnDisk(r),
           NEW f \in Seq(Cells), e <= Len(f),
           NEW k \in DOMAIN r, NEW i, NEW v, NEW g, ByteWritten(r, k, i, v, f, g)
    PROVE  [Content(r, f) EXCEPT ![k].bytes[i] = v] = Content(r, g)
<1>1. PICK c : c = Content(r, f)
  OBVIOUS
<1>2. c = [j \in DOMAIN r |-> Shown(r[j], f)]
  BY <1>1, ContentOnDisk
<1>3. Content(r, g) = [j \in DOMAIN r |-> Shown(r[j], g)]
  BY ContentOnDisk
<1>4. [c EXCEPT ![k].bytes[i] = v]
        = [j \in DOMAIN r |-> IF j = k THEN [c[k] EXCEPT !.bytes[i] = v] ELSE c[j]]
  BY <1>2
<1>5. [c[k] EXCEPT !.bytes[i] = v] = Shown(r[k], g)
  <2>1. PICK b : b = Fetch(f, r[k].ext, r[k].size)
    OBVIOUS
  <2>2. c[k] = [size |-> r[k].size, attr |-> r[k].attr, bytes |-> b]
    BY <1>2, <2>1 DEF Shown
  <2>3. Fetch(g, r[k].ext, r[k].size) = [b EXCEPT ![i] = v]
    <3>1. FetchedAfter(r, k, i, v, f, g, k)
      BY FetchAfter
    <3> QED
      BY <2>1, <3>1 DEF FetchedAfter
  <2>4. PICK d : d = [b EXCEPT ![i] = v]
    OBVIOUS
  <2>5. [c[k] EXCEPT !.bytes = d] = [size |-> r[k].size, attr |-> r[k].attr, bytes |-> d]
    BY <2>2
  <2>6. c[k].bytes = b
    BY <2>2
  <2>7. [c[k] EXCEPT !.bytes[i] = v] = [c[k] EXCEPT !.bytes = d]
    BY <2>4, <2>6
  <2> QED
    BY <2>3, <2>4, <2>5, <2>7 DEF Shown
<1>6. ASSUME NEW j \in DOMAIN r, j # k
      PROVE  c[j] = Shown(r[j], g)
  <2>1. Fetch(g, r[j].ext, r[j].size) = Fetch(f, r[j].ext, r[j].size)
    <3>1. FetchedAfter(r, k, i, v, f, g, j)
      BY FetchAfter
    <3> QED
      BY <1>6, <3>1 DEF FetchedAfter
  <2> QED
    BY <1>2, <2>1 DEF Shown
<1>7. [c EXCEPT ![k].bytes[i] = v] = [j \in DOMAIN r |-> Shown(r[j], g)]
  BY <1>4, <1>5, <1>6
<1> QED
  BY <1>1, <1>3, <1>7

-----------------------------------------------------------------------------
(* One record, changed.                                                    *)

Sane(A, q) == q \in Records(A) /\ (q.resident <=> q.mem # NULL)

LEMMA SaneFields ==
    ASSUME NEW A, NEW q, Sane(A, q)
    PROVE  /\ q.size \in Nat /\ q.attr \in A /\ q.ext \in Seq(Extent)
           /\ q.resident \in BOOLEAN /\ q.mem \in Seq(ByteCells)
           /\ (q.resident <=> q.mem # NULL)
  BY DEF Sane, Records

LEMMA SaneExt ==
    ASSUME NEW A, NEW q, Sane(A, q), NEW ext \in Seq(Extent), NEW p, p = [q EXCEPT !.ext = ext]
    PROVE  Sane(A, p) /\ p.ext = ext /\ p.resident = q.resident
<1>1. q \in Records(A)
  BY DEF Sane
<1>2. p \in Records(A) /\ p.ext = ext /\ p.resident = q.resident /\ p.mem = q.mem
  BY <1>1 DEF Records
<1> QED
  BY <1>2 DEF Sane

LEMMA SaneSize ==
    ASSUME NEW A, NEW q, Sane(A, q), NEW n \in Nat, NEW p, p = [q EXCEPT !.size = n]
    PROVE  Sane(A, p) /\ p.ext = q.ext
<1>1. q \in Records(A)
  BY DEF Sane
<1>2. p \in Records(A) /\ p.ext = q.ext /\ p.resident = q.resident /\ p.mem = q.mem
  BY <1>1 DEF Records
<1> QED
  BY <1>2 DEF Sane

LEMMA SaneAttr ==
    ASSUME NEW A, NEW q, Sane(A, q), NEW a \in A, NEW p, p = [q EXCEPT !.attr = a]
    PROVE  Sane(A, p) /\ p.ext = q.ext
<1>1. q \in Records(A)
  BY DEF Sane
<1>2. p \in Records(A) /\ p.ext = q.ext /\ p.resident = q.resident /\ p.mem = q.mem
  BY <1>1 DEF Records
<1> QED
  BY <1>2 DEF Sane

Remembers(q, b, m) == [q EXCEPT !.resident = b, !.mem = m]

LEMMA SaneMem ==
    ASSUME NEW A, NEW q, Sane(A, q), NEW b \in BOOLEAN, NEW m \in Seq(ByteCells),
           b <=> m # NULL, NEW p, p = Remembers(q, b, m)
    PROVE  Sane(A, p) /\ p.ext = q.ext /\ p.resident = b
<1>1. q \in Records(A)
  BY DEF Sane
<1>2. PICK o : o = [q EXCEPT !.resident = b]
  OBVIOUS
<1>3. p = [o EXCEPT !.mem = m]
  BY <1>2 DEF Remembers
<1>4. o \in Records(A) /\ o.ext = q.ext /\ o.resident = b
  BY <1>1, <1>2 DEF Records
<1>5. p \in Records(A) /\ p.ext = o.ext /\ p.resident = o.resident /\ p.mem = m
  BY <1>3, <1>4 DEF Records
<1> QED
  BY <1>4, <1>5 DEF Sane

LEMMA SaneByte ==
    ASSUME NEW A, NEW q, Sane(A, q), NEW i \in 1 .. Len(q.mem), NEW c \in ByteCells,
           NEW p, p = [q EXCEPT !.mem[i] = c]
    PROVE  Sane(A, p) /\ p.ext = q.ext
<1>1. q \in Records(A) /\ q.mem \in Seq(ByteCells)
  BY DEF Sane, Records
<1>2. PICK m : m = [q.mem EXCEPT ![i] = c]
  OBVIOUS
<1>3. m \in Seq(ByteCells) /\ Len(m) = Len(q.mem)
  BY <1>1, <1>2, ReplaceProps
<1>4. p = [q EXCEPT !.mem = m]
  BY <1>2
<1>5. p \in Records(A) /\ p.ext = q.ext /\ p.resident = q.resident /\ p.mem = m
  BY <1>1, <1>3, <1>4 DEF Records
<1>6. m # NULL /\ q.mem # NULL
  BY <1>1, <1>3 DEF NULL
<1> QED
  BY <1>5, <1>6 DEF Sane

\* Room for the whole record, and its bytes put there.
LEMMA SpillRoomy ==
    ASSUME NEW A, NEW q, Sane(A, q), NEW x, NEW O, NEW f0, Roomy(x, O, f0),
           NEW s, s = ensure_extents(x, q.size),
           NEW y, y = [s EXCEPT !.file = Scatter(@, s.ext, Buffer(q))]
    PROVE  Roomy(y, O, f0)
<1>1. q.size \in Nat /\ q.mem \in Seq(ByteCells)
  BY SaneFields
<1>2. Roomy(s, O, f0)
  BY <1>1, EnsureKeeps
<1>3. PICK b, g : b = Buffer(q) /\ g = Scatter(s.file, s.ext, b)
  OBVIOUS
<1>4. b \in Seq(ByteCells)
  BY <1>1, <1>3, BufferTyped
<1>5. s \in Rooms /\ Touched(f0, s.file)
  BY <1>2 DEF Roomy
<1>6. s.file \in Seq(Cells)
  BY <1>5, RoomFields
<1>7. Touched(s.file, g) /\ Len(g) = Len(s.file)
  BY <1>3, <1>4, <1>6, ScatterProps
<1>8. Touched(f0, g) /\ g \in Seq(Cells)
  BY <1>5, <1>7, TouchedTwice DEF Touched
<1>9. y = [s EXCEPT !.file = g]
  BY <1>3
<1>10. y \in Rooms /\ y.ext = s.ext /\ y.fl = s.fl /\ y.end = s.end /\ y.file = g
  BY <1>5, <1>8, <1>9 DEF Rooms
<1> QED
  BY <1>2, <1>7, <1>8, <1>10 DEF Roomy

-----------------------------------------------------------------------------
(* Files whose superblock, if there is one, is that of a sound table.      *)

Stamped(A, W, f) ==
    Len(f) # 0 /\ f[1][1] = "super" =>
        \E r, l, e : TableOK(A, r, l, e) /\ Begins(f, r, e) /\ toc_serialise(r) \in W

FileOK(A, W, f) == f \in Seq(Cells) /\ Stamped(A, W, f)

LEMMA FileTouched ==
    ASSUME NEW A, NEW W, NEW f, FileOK(A, W, f), Len(f) # 0, NEW g, Touched(f, g)
    PROVE  FileOK(A, W, g)
<1>1. g \in Seq(Cells) /\ Len(g) # 0 /\ (g[1] = f[1] \/ g[1] \in ByteCells)
  BY DEF Touched
<1>2. Stamped(A, W, g)
  <2>1. CASE g[1] = f[1]
    BY <2>1 DEF FileOK, Stamped, Begins
  <2>2. CASE g[1] \in ByteCells
    <3>1. g[1][1] # "super"
      BY <2>2, ByteIsCell
    <3> QED
      BY <3>1 DEF Stamped
  <2> QED
    BY <1>1, <2>1, <2>2
<1> QED
  BY <1>1, <1>2 DEF FileOK

LEMMA FileMore ==
    ASSUME NEW A, NEW W, NEW f, FileOK(A, W, f), NEW X, W \subseteq X
    PROVE  FileOK(A, X, f)
<1>1. Stamped(A, W, f) /\ f \in Seq(Cells)
  BY DEF FileOK
<1>2. Stamped(A, X, f)
  <2> SUFFICES ASSUME Len(f) # 0, f[1][1] = "super"
               PROVE  \E r, l, e : TableOK(A, r, l, e) /\ Begins(f, r, e) /\ toc_serialise(r) \in X
    BY DEF Stamped
  <2>1. PICK r, l, e : TableOK(A, r, l, e) /\ Begins(f, r, e) /\ toc_serialise(r) \in W
    BY <1>1 DEF Stamped
  <2> QED
    BY <2>1
<1> QED
  BY <1>1, <1>2 DEF FileOK

LEMMA FileEmpty ==
    ASSUME NEW A, NEW W
    PROVE  FileOK(A, W, << >>)
<1>1. << >> \in Seq(Cells) /\ Len(<< >>) = 0
  OBVIOUS
<1> QED
  BY <1>1 DEF FileOK, Stamped

LEMMA FileFresh ==
    ASSUME NEW A, NEW W, NEW n \in Nat \ {0}, NEW f, f = Zeros(n)
    PROVE  FileOK(A, W, f) /\ Len(f) = n
<1>1. f \in Seq(ByteCells) /\ Len(f) = n
  BY ZerosProps
<1>2. f \in Seq(Cells) /\ f[1] \in ByteCells
  BY <1>1, ByteIsCell
<1>3. f[1][1] # "super"
  BY <1>2, ByteIsCell
<1> QED
  BY <1>1, <1>2, <1>3 DEF FileOK, Stamped

\* Whatever of an unsynced file reached the medium, the first cell is that of
\* one of the two, or a zero.
LEMMA FileMixed ==
    ASSUME NEW A, NEW W, NEW f, FileOK(A, W, f), NEW g, FileOK(A, W, g), NEW h \in Mixes(f, g)
    PROVE  FileOK(A, W, h)
<1>1. f \in Seq(Cells) /\ g \in Seq(Cells) /\ Byte(0) \in Cells /\ Byte(0) \in ByteCells
  BY ByteIsCell DEF FileOK
<1> DEFINE cell(x, i) == IF i <= Len(x) THEN x[i] ELSE Byte(0)
<1>2. PICK n, old :
          /\ n \in {Len(f), Len(g)}
          /\ h = [i \in 1 .. n |-> IF i \in old THEN cell(g, i) ELSE cell(f, i)]
  <2> DEFINE differ(m) == {i \in 1 .. m : cell(f, i) # cell(g, i)}
             mixed(m, old) == [i \in 1 .. m |-> IF i \in old THEN cell(g, i) ELSE cell(f, i)]
             mix(m) == {mixed(m, old) : old \in SUBSET differ(m)}
  <2>1. Mixes(f, g) = UNION {mix(m) : m \in {Len(f), Len(g)}}
    BY DEF Mixes
  <2> HIDE DEF mix
  <2>2. PICK m \in {Len(f), Len(g)} : h \in mix(m)
    BY <2>1
  <2> HIDE DEF mixed, differ
  <2>3. PICK old \in SUBSET differ(m) : h = mixed(m, old)
    BY <2>2 DEF mix
  <2>4. h = [i \in 1 .. m |-> IF i \in old THEN cell(g, i) ELSE cell(f, i)]
    BY <2>3 DEF mixed
  <2> HIDE DEF cell
  <2> QED
    BY <2>2, <2>4
<1>3. n \in Nat
  BY <1>1, <1>2
<1>4. \A i \in Nat \ {0} : cell(f, i) \in Cells /\ cell(g, i) \in Cells
  BY <1>1
<1> HIDE DEF cell
<1>5. h \in Seq(Cells) /\ Len(h) = n
  BY <1>2, <1>3, <1>4
<1>6. n # 0 => h[1] = cell(g, 1) \/ h[1] = cell(f, 1)
  BY <1>2, <1>3
<1>7. Stamped(A, W, h)
  <2> SUFFICES ASSUME n # 0, h[1][1] = "super"
               PROVE  \E r, l, e : TableOK(A, r, l, e) /\ Begins(h, r, e) /\ toc_serialise(r) \in W
    BY <1>5 DEF Stamped
  <2>1. Byte(0)[1] # "super"
    BY <1>1, ByteIsCell
  <2>2. CASE h[1] = cell(g, 1)
    <3>1. Len(g) # 0 /\ h[1] = g[1]
      BY <1>1, <2>1, <2>2 DEF cell
    <3>2. PICK r, l, e : TableOK(A, r, l, e) /\ Begins(g, r, e) /\ toc_serialise(r) \in W
      BY <3>1 DEF FileOK, Stamped
    <3> QED
      BY <3>1, <3>2 DEF Begins
  <2>3. CASE h[1] = cell(f, 1)
    <3>1. Len(f) # 0 /\ h[1] = f[1]
      BY <1>1, <2>1, <2>3 DEF cell
    <3>2. PICK r, l, e : TableOK(A, r, l, e) /\ Begins(f, r, e) /\ toc_serialise(r) \in W
      BY <3>1 DEF FileOK, Stamped
    <3> QED
      BY <3>1, <3>2 DEF Begins
  <2> QED
    BY <1>6, <2>2, <2>3
<1> QED
  BY <1>5, <1>7 DEF FileOK

\* A file that opens has the table, free list and end of a sound table that a
\* close has written.
LEMMA FileLoads ==
    ASSUME NEW A, NEW W, NEW f, FileOK(A, W, f), Load(f).ok
    PROVE  \E r, l, e : /\ TableOK(A, r, l, e) /\ Begins(f, r, e) /\ toc_serialise(r) \in W
                        /\ Load(f).rec = Plain(r) /\ Load(f).fl = l /\ Load(f).end = e
                        /\ Len(f) # 0 /\ e <= Len(f)
<1>1. f[1][1] = "super" /\ Len(f) >= LS_SUPER_SIZE
  <2>1. PICK sb, tb : sb = f[1][2] /\ tb = TableIn(f, sb)
    OBVIOUS
  <2>2. PICK toc, free : toc = toc_load(tb, sb.toc_n) /\ free = rebuild_free_list(toc, sb.fend)
    OBVIOUS
  <2>3. Passes(f, sb, tb, toc, free)
    BY <2>1, <2>2, LoadOkIff
  <2> QED
    BY <2>3 DEF Passes
<1>2. Len(f) # 0
  BY <1>1, SuperAssumption DEF FileOK
<1>3. PICK r, l, e : TableOK(A, r, l, e) /\ Begins(f, r, e) /\ toc_serialise(r) \in W
  BY <1>1, <1>2 DEF FileOK, Stamped
<1>4. Load(f).rec = Plain(r) /\ Load(f).fl = l /\ Load(f).end = e /\ e <= Len(f)
  BY <1>3, LoadGives
<1> QED
  BY <1>2, <1>3, <1>4

-----------------------------------------------------------------------------
(* The inductive invariant.                                                *)

Basic ==
    /\ setting \in DOMAIN Settings
    /\ path \in {"none", "ours", "theirs"}
    /\ at \in {"none", "open", "spill", "toc", "super", "sync", "end"}
    /\ named \in BOOLEAN
    /\ first \in {"LS_OK", "error"}
    /\ sharer = [p \in Procs |-> sharer[p]]
    /\ opens \in 0 .. MaxOpens

\* Who may have the file, and under which name.
Control ==
    /\ at = "none" => rec = << >> /\ fl = << >> /\ ~named
    /\ named => path = "ours"
    /\ path = "none" /\ at = "none" => file = << >>
    /\ \A p \in Procs : sharer[p] # << >> => at = "none" /\ path = "ours"
    /\ kept # << >> => at = "none"

\* The owner's records, holes and end share out its file.
SpaceSound == at # "none" => TableOK(Attrs, rec, fl, file_end) /\ file_end <= Len(file)

FilesSound == FileOK(Attrs, written, file) /\ FileOK(Attrs, written, platter)

\* How far ls_close has come.
StageSound ==
    /\ at \in {"toc", "super", "sync", "end"} /\ first = "LS_OK" => OnDisk(rec)
    /\ at = "super" => TableAt(file, rec, file_end)
    /\ at = "sync" \/ (at = "end" /\ first = "LS_OK") => Whole(file, rec, file_end)
    /\ at = "end" /\ first = "LS_OK" /\ Durable => platter = file

SafeSound == safe # << >> => platter = file /\ safe = kept

\* The promise is of the table in the file.
Promised(A, f, promise, r, l, e) ==
    /\ TableOK(A, r, l, e) /\ Whole(f, r, e) /\ OnDisk(r)
    /\ promise = <<[content |-> Content(r, f), fl |-> l, end |-> e]>>

KeptSound == kept # << >> => \E r, l, e : Promised(Attrs, file, kept, r, l, e)

SharersSound ==
    \A p \in Procs : sharer[p] # << >> => Load(file).ok /\ sharer[p] = <<Load(file).rec>>

Inv ==
    /\ Basic /\ Control /\ SpaceSound /\ FilesSound /\ StageSound /\ SafeSound
    /\ KeptSound /\ SharersSound

LEMMA AttrsProps ==
    ASSUME setting \in DOMAIN Settings
    PROVE  0 \in Attrs /\ Attrs \in SUBSET AnyAttr
<1>1. 0 \in Settings[setting].Attrs
  BY PersistAssumption
<1> QED
  BY <1>1 DEF Attrs, AnyAttr

\* While the owner has the store nobody else does, and nothing is promised.
LEMMA Busy ==
    ASSUME Inv, at # "none"
    PROVE  /\ \A p \in Procs : sharer[p] = << >>
           /\ kept = << >> /\ safe = << >>
           /\ TableOK(Attrs, rec, fl, file_end) /\ file_end \in Nat /\ file_end <= Len(file)
           /\ LS_SUPER_SIZE <= file_end /\ 0 < file_end
           /\ FileOK(Attrs, written, file) /\ file \in Seq(Cells) /\ Len(file) \in Nat /\ Len(file) # 0
           /\ 0 \in Attrs /\ Attrs \in SUBSET AnyAttr
<1>1. (\A p \in Procs : sharer[p] = << >>) /\ kept = << >>
  BY DEF Inv, Control
<1>2. safe = << >>
  BY <1>1 DEF Inv, SafeSound
<1>3. TableOK(Attrs, rec, fl, file_end) /\ file_end <= Len(file)
  BY DEF Inv, SpaceSound
<1>4. FileOK(Attrs, written, file) /\ file \in Seq(Cells) /\ Len(file) \in Nat
  BY DEF Inv, FilesSound, FileOK
<1>5. file_end \in Nat /\ LS_SUPER_SIZE <= file_end
  BY <1>3 DEF TableOK, Accounted
<1>6. 0 < file_end /\ Len(file) # 0
  BY <1>3, <1>4, <1>5, SuperAssumption
<1>7. 0 \in Attrs /\ Attrs \in SUBSET AnyAttr
  BY AttrsProps DEF Inv, Basic
<1> QED
  BY <1>1, <1>2, <1>3, <1>4, <1>5, <1>6, <1>7

\* A step of the owner that leaves it the owner.
LEMMA OwnerStep ==
    ASSUME Inv, at # "none", UNCHANGED <<setting, sharer, opens, kept, safe>>,
           path' \in {"none", "ours", "theirs"},
           at' \in {"open", "spill", "toc", "super", "sync", "end"},
           named' \in BOOLEAN, first' \in {"LS_OK", "error"},
           named' => path' = "ours",
           TableOK(Attrs, rec', fl', file_end'), file_end' <= Len(file'),
           FileOK(Attrs, written', file'), FileOK(Attrs, written', platter'),
           StageSound'
    PROVE  Inv'
<1>1. at' # "none"
  OBVIOUS
<1>2. Attrs' = Attrs
  BY DEF Attrs
<1>3. (\A p \in Procs : sharer[p] = << >>) /\ kept = << >> /\ safe = << >>
  BY Busy
<1>4. Basic'
  BY DEF Inv, Basic
<1>5. Control'
  BY <1>1, <1>3 DEF Control
<1>6. SpaceSound'
  BY <1>2 DEF SpaceSound
<1>7. FilesSound'
  BY <1>2 DEF FilesSound
<1>8. SafeSound' /\ KeptSound'
  BY <1>3 DEF SafeSound, KeptSound
<1>9. SharersSound'
  BY <1>3 DEF SharersSound
<1> QED
  BY <1>4, <1>5, <1>6, <1>7, <1>8, <1>9 DEF Inv

\* Calls that leave the owner in the middle of its use.
LEMMA CallStep ==
    ASSUME Inv, at # "none", UNCHANGED <<setting, sharer, opens, kept, safe, written>>,
           UNCHANGED <<platter, path, at, named, first>>, at \in {"open", "spill"},
           TableOK(Attrs, rec', fl', file_end'), file_end' <= Len(file'), Touched(file, file')
    PROVE  Inv'
<1>1. FileOK(Attrs, written', file')
  BY Busy, FileTouched
<1>2. FileOK(Attrs, written', platter')
  BY DEF Inv, FilesSound
<1>3. StageSound'
  BY DEF StageSound
<1>4. /\ path' \in {"none", "ours", "theirs"} /\ named' \in BOOLEAN /\ first' \in {"LS_OK", "error"}
      /\ (named' => path' = "ours") /\ at' \in {"open", "spill", "toc", "super", "sync", "end"}
  BY DEF Inv, Basic, Control
<1> QED
  BY <1>1, <1>2, <1>3, <1>4, OwnerStep

\* Record k has become q, with the space of s.
LEMMA UpdateStep ==
    ASSUME Inv, at # "none", UNCHANGED <<setting, sharer, opens, kept, safe, written>>,
           UNCHANGED <<platter, path, at, named, first>>, at \in {"open", "spill"},
           NEW k \in Keys, NEW q, Sane(Attrs, q), NEW s,
           Roomy(s, AllExtents(Without(rec, k)), file), q.ext = s.ext,
           rec' = Bind(rec, k, q), fl' = s.fl, file_end' = s.end, file' = s.file
    PROVE  Inv'
<1>1. TableOK(Attrs, rec, fl, file_end)
  BY Busy
<1>2. TableOK(Attrs, Bind(rec, k, q), s.fl, s.end)
  BY <1>1, BindOK DEF Sane
<1>3. s.end <= Len(s.file) /\ Touched(file, s.file)
  BY DEF Roomy
<1> QED
  BY <1>2, <1>3, CallStep

LEMMA FoundProps ==
    ASSUME Inv, at # "none", NEW k, NEW q, q = Found(k)
    PROVE  Sane(Attrs, q) /\ Roomy(Space(q), AllExtents(Without(rec, k)), file)
<1>1. PICK x : x = [ext |-> q.ext, fl |-> fl, end |-> file_end, file |-> file]
  OBVIOUS
<1>2. x = Space(q)
  BY <1>1 DEF Space
<1>3. q = IF k \in DOMAIN rec THEN rec[k] ELSE NewRec
  BY DEF Found
<1>4. /\ TableOK(Attrs, rec, fl, file_end) /\ 0 \in Attrs /\ file \in Seq(Cells)
      /\ file_end <= Len(file)
  BY Busy
<1>5. /\ q \in Records(Attrs) /\ (q.resident <=> q.mem # NULL)
      /\ Roomy(x, AllExtents(Without(rec, k)), file)
  BY <1>1, <1>3, <1>4, FoundRoomy
<1> QED
  BY <1>2, <1>5 DEF Sane

-----------------------------------------------------------------------------
(* Each action keeps the invariant.                                        *)

LEMMA UpdateKeeps ==
    ASSUME Inv, at = "open", UNCHANGED setting, NEW k \in Keys, NEW r, Sane(Attrs, r), NEW s,
           Roomy(s, AllExtents(Without(rec, k)), file), Update(k, r, s)
    PROVE  Inv'
<1>1. PICK q : q = [r EXCEPT !.ext = s.ext]
  OBVIOUS
<1>2. s.ext \in Seq(Extent)
  BY RoomFields DEF Roomy
<1>3. Sane(Attrs, q) /\ q.ext = s.ext
  BY <1>1, <1>2, SaneExt
<1>4. /\ rec' = Bind(rec, k, q) /\ fl' = s.fl /\ file_end' = s.end /\ file' = s.file
      /\ UNCHANGED <<platter, path, at, named, first>>
      /\ UNCHANGED <<setting, sharer, opens, kept, safe, written>>
  BY <1>1 DEF Update, history
<1> QED
  BY <1>3, <1>4, UpdateStep

LEMMA GrowKeeps ==
    ASSUME Inv, UNCHANGED setting, NEW k \in Keys, NEW n \in Sizes, Grow(k, n)
    PROVE  Inv'
<1>1. at = "open"
  BY DEF Grow
<1>2. PICK r, sized, O : /\ r = Found(k) /\ sized = [r EXCEPT !.size = Max({@, n})]
                         /\ O = AllExtents(Without(rec, k))
  OBVIOUS
<1>3. Sane(Attrs, r) /\ Roomy(Space(r), O, file)
  BY <1>1, <1>2, FoundProps
<1>4. n \in Nat
  BY PersistAssumption DEF Inv, Basic, Sizes
<1>5. /\ r.size \in Nat /\ r.mem \in Seq(ByteCells) /\ (r.resident <=> r.mem # NULL)
      /\ r.ext \in Seq(Extent)
  BY <1>3, SaneFields
<1>6. Sane(Attrs, sized)
  <2>1. Max({r.size, n}) \in Nat
    BY <1>4, <1>5, MaxOfTwo
  <2>2. sized = [r EXCEPT !.size = Max({r.size, n})]
    BY <1>2
  <2> QED
    BY <1>3, <2>1, <2>2, SaneSize
<1> DEFINE fits == IF r.resident THEN n <= Len(r.mem) ELSE n <= ext_total(r.ext)
<1>7. CASE fits /\ Update(k, sized, Space(r))
  BY <1>1, <1>2, <1>3, <1>6, <1>7, UpdateKeeps
<1>8. CASE /\ ~fits /\ Budgeted /\ r.ext = << >>
           /\ Update(k, [sized EXCEPT !.resident = TRUE,
                                      !.mem = r.mem \o Zeros(n - Len(r.mem))], Space(r))
  <2>1. PICK o, d, z, m : o = r.mem /\ d = n - Len(o) /\ z = Zeros(d) /\ m = o \o z
    OBVIOUS
  <2>2. PICK q : q = Remembers(sized, TRUE, m)
    OBVIOUS
  <2>3. Len(r.mem) \in Nat /\ n > Len(r.mem)
    <3>1. CASE r.resident
      BY <1>4, <1>5, <1>8, <3>1
    <3>2. CASE ~r.resident
      <4>1. r.mem = << >>
        BY <1>5, <3>2 DEF NULL
      <4>2. ext_total(r.ext) \in Nat /\ ~(n <= ext_total(r.ext))
        BY <1>5, <1>8, <3>2, ExtTotalIs
      <4> QED
        BY <1>4, <4>1, <4>2
    <3> QED
      BY <3>1, <3>2
  <2>4. d \in Nat /\ d + Len(o) = n /\ o \in Seq(ByteCells) /\ Len(o) \in Nat
    BY <1>4, <1>5, <2>1, <2>3
  <2>5. z \in Seq(ByteCells) /\ Len(z) = d
    BY <2>1, <2>4, ZerosProps
  <2>6. m \in Seq(ByteCells) /\ Len(m) = n
    <3>1. m \in Seq(ByteCells) /\ Len(m) = Len(o) + Len(z)
      BY <2>1, <2>5, <2>4
    <3> QED
      BY <2>5, <2>4, <3>1
  <2>7. m # NULL
    BY <1>4, <2>3, <2>6 DEF NULL
  <2>8. Sane(Attrs, q)
    BY <1>6, <2>6, <2>7, <2>2, SaneMem
  <2>9. Update(k, q, Space(r))
    BY <1>8, <2>1, <2>2 DEF Remembers
  <2> QED
    BY <1>1, <1>2, <1>3, <2>8, <2>9, UpdateKeeps
<1>9. CASE /\ ~fits
           /\ Update(k, [sized EXCEPT !.resident = FALSE, !.mem = NULL],
                     ensure_extents(IF r.resident THEN spill(r) ELSE Space(r), n))
  <2>1. PICK x, s, q : /\ x = (IF r.resident THEN spill(r) ELSE Space(r))
                       /\ s = ensure_extents(x, n)
                       /\ q = Remembers(sized, FALSE, NULL)
    OBVIOUS
  <2>2. Roomy(spill(r), O, file)
    BY <1>3, SpillRoomy DEF spill
  <2>3. Roomy(x, O, file)
    BY <1>3, <2>1, <2>2
  <2>4. Roomy(s, O, file)
    BY <1>4, <2>1, <2>3, EnsureKeeps
  <2>5. NULL \in Seq(ByteCells)
    BY DEF NULL
  <2>6. Sane(Attrs, q)
    BY <1>6, <2>1, <2>5, SaneMem
  <2>7. Update(k, q, s)
    BY <1>9, <2>1 DEF Remembers
  <2> QED
    BY <1>1, <1>2, <2>4, <2>6, <2>7, UpdateKeeps
<1> QED
  BY <1>2, <1>7, <1>8, <1>9 DEF Grow

LEMMA WriteKeeps ==
    ASSUME Inv, UNCHANGED setting, NEW k \in Keys, NEW i \in Spots, Write(k, i)
    PROVE  Inv'
<1>1. /\ at = "open" /\ k \in DOMAIN rec /\ i \in 1 .. rec[k].size
      /\ UNCHANGED <<platter, path, at, named, first>> /\ UNCHANGED <<fl, file_end>>
      /\ UNCHANGED <<setting, sharer, opens, kept, safe, written>>
  BY DEF Write, history
<1>2. /\ TableOK(Attrs, rec, fl, file_end) /\ file \in Seq(Cells) /\ file_end <= Len(file)
  BY <1>1, Busy
<1>3. PICK r : r = Found(k)
  OBVIOUS
<1>4. r = rec[k]
  BY <1>1, <1>3 DEF Found
<1>5. Sane(Attrs, r) /\ Roomy(Space(r), AllExtents(Without(rec, k)), file)
  BY <1>1, <1>3, FoundProps
<1>6. CASE rec[k].resident
  <2>1. /\ i <= Len(r.mem) /\ rec' = Bind(rec, k, [r EXCEPT !.mem[i] = Byte(1)])
        /\ UNCHANGED file
    BY <1>4, <1>6 DEF Write
  <2>2. PICK q : q = [r EXCEPT !.mem[i] = Byte(1)]
    OBVIOUS
  <2>3. Byte(1) \in ByteCells
    BY ByteIsCell
  <2>4. r.size \in Nat /\ r.mem \in Seq(ByteCells)
    BY <1>5, SaneFields
  <2>5. i \in 1 .. Len(r.mem)
    BY <1>1, <1>4, <2>1, <2>4
  <2>6. Sane(Attrs, q) /\ q.ext = r.ext
    BY <1>5, <2>2, <2>3, <2>5, SaneByte
  <2>7. PICK s : s = Space(r)
    OBVIOUS
  <2>8. s.ext = r.ext /\ s.fl = fl /\ s.end = file_end /\ s.file = file
    BY <2>7 DEF Space
  <2>9. rec' = Bind(rec, k, q) /\ fl' = s.fl /\ file_end' = s.end /\ file' = s.file
    BY <1>1, <2>1, <2>2, <2>8
  <2> QED
    BY <1>1, <1>5, <2>6, <2>7, <2>8, <2>9, UpdateStep
<1>7. CASE ~rec[k].resident
  <2>1. /\ i <= ext_total(rec[k].ext) /\ UNCHANGED rec
        /\ file' = [file EXCEPT ![Places(rec[k].ext)[i] + 1] = Byte(1)]
    BY <1>7 DEF Write
  <2>2. PICK b : b = Places(rec[k].ext)[i]
    OBVIOUS
  <2>3. Byte(1) \in ByteCells /\ file' = Stored(file, b, Byte(1))
    BY <2>1, <2>2, ByteIsCell DEF Stored
  <2>4. Touched(file, file') /\ Len(file') = Len(file)
    BY <1>2, <2>3, StoredProps
  <2> QED
    BY <1>1, <1>2, <2>1, <2>4, CallStep
<1> QED
  BY <1>6, <1>7

LEMMA SetAttrKeeps ==
    ASSUME Inv, UNCHANGED setting, NEW k \in Keys, NEW a \in Attrs, ls_set_attr(k, a)
    PROVE  Inv'
<1>1. PICK r, q, s : r = Found(k) /\ q = [r EXCEPT !.attr = a] /\ s = Space(r)
  OBVIOUS
<1>2. /\ at = "open" /\ rec' = Bind(rec, k, q)
      /\ UNCHANGED <<platter, path, at, named, first>> /\ UNCHANGED <<file, fl, file_end>>
      /\ UNCHANGED <<setting, sharer, opens, kept, safe, written>>
  BY <1>1 DEF ls_set_attr, history, disk
<1>3. Sane(Attrs, r) /\ Roomy(s, AllExtents(Without(rec, k)), file)
  BY <1>1, <1>2, FoundProps
<1>4. Sane(Attrs, q) /\ q.ext = r.ext
  BY <1>1, <1>3, SaneAttr
<1>5. s.ext = r.ext /\ s.fl = fl /\ s.end = file_end /\ s.file = file
  BY <1>1 DEF Space
<1>6. rec' = Bind(rec, k, q) /\ fl' = s.fl /\ file_end' = s.end /\ file' = s.file
  BY <1>2, <1>5
<1> QED
  BY <1>2, <1>3, <1>4, <1>5, <1>6, UpdateStep

LEMMA EraseKeeps ==
    ASSUME Inv, UNCHANGED setting, NEW k \in Keys, ls_erase(k)
    PROVE  Inv'
<1>1. PICK s : s = GiveBack(fl, file_end, rec[k].ext)
  OBVIOUS
<1>2. /\ at = "open" /\ k \in DOMAIN rec /\ rec' = Without(rec, k)
      /\ fl' = s.fl /\ file_end' = s.file_end
      /\ \/ file' = IF s.file_end < file_end THEN ftruncate(file, s.file_end) ELSE file
         \/ UNCHANGED file
      /\ UNCHANGED <<platter, path, at, named, first>>
      /\ UNCHANGED <<setting, sharer, opens, kept, safe, written>>
  BY <1>1 DEF ls_erase, history
<1>3. /\ TableOK(Attrs, rec, fl, file_end) /\ file \in Seq(Cells) /\ file_end <= Len(file)
      /\ file_end \in Nat /\ Len(file) \in Nat
  BY <1>2, Busy
<1>4. TableOK(Attrs, rec', fl', file_end') /\ s.file_end <= file_end
  BY <1>1, <1>2, <1>3, WithoutOK
<1>5. s.file_end \in Nat /\ 0 < s.file_end
  <2>1. file_end' \in Nat /\ LS_SUPER_SIZE <= file_end'
    BY <1>4 DEF TableOK, Accounted
  <2> QED
    BY <1>2, <2>1, SuperAssumption
<1>6. CASE file' = ftruncate(file, s.file_end)
  <2>1. s.file_end <= Len(file)
    BY <1>3, <1>4, <1>5
  <2>2. Len(file') = s.file_end /\ Touched(file, file')
    BY <1>3, <1>5, <1>6, <2>1, FtruncateProps
  <2>3. file_end' <= Len(file')
    BY <1>2, <1>5, <2>2
  <2> QED
    BY <1>2, <1>4, <2>2, <2>3, CallStep
<1>7. CASE file' = file
  <2>1. Touched(file, file')
    BY <1>3, <1>7 DEF Touched
  <2>2. file_end' <= Len(file')
    BY <1>2, <1>3, <1>4, <1>5, <1>7
  <2> QED
    BY <1>2, <1>4, <2>1, <2>2, CallStep
<1> QED
  BY <1>2, <1>6, <1>7

LEMMA UnlinkKeeps ==
    ASSUME Inv, UNCHANGED setting, ls_unlink_now \/ OtherFile
    PROVE  Inv'
<1>1. /\ at # "none" /\ UNCHANGED <<file, platter, at, rec, fl, file_end, first>>
      /\ UNCHANGED <<setting, sharer, opens, kept, safe, written>>
      /\ \/ path' = "none" /\ named' = FALSE
         \/ path = "none" /\ path' = "theirs" /\ named' = named
  BY DEF ls_unlink_now, OtherFile, history, owner
<1>2. ~named'
  BY <1>1 DEF Inv, Control
<1>3. /\ TableOK(Attrs, rec', fl', file_end') /\ file_end' <= Len(file')
      /\ FileOK(Attrs, written', file')
  BY <1>1, Busy
<1>4. FileOK(Attrs, written', platter')
  BY <1>1 DEF Inv, FilesSound
<1>5. StageSound'
  <2>1. Durable' = Durable
    BY <1>1 DEF Durable
  <2> QED
    BY <1>1, <2>1 DEF Inv, StageSound
<1>6. /\ path' \in {"none", "ours", "theirs"} /\ named' \in BOOLEAN /\ first' \in {"LS_OK", "error"}
      /\ at' \in {"open", "spill", "toc", "super", "sync", "end"}
  BY <1>1 DEF Inv, Basic
<1> QED
  BY <1>1, <1>2, <1>3, <1>4, <1>5, <1>6, OwnerStep

\* A step of ls_close: an error, once noted, stays.
LEMMA CloseStep ==
    ASSUME Inv, at # "none", UNCHANGED <<setting, sharer, opens, kept, safe>>,
           UNCHANGED <<path, named>>, first' = first \/ first' = "error",
           at' \in {"open", "spill", "toc", "super", "sync", "end"},
           TableOK(Attrs, rec', fl', file_end'), file_end' <= Len(file'),
           FileOK(Attrs, written', file'), FileOK(Attrs, written', platter'),
           StageSound'
    PROVE  Inv'
<1>1. /\ path' \in {"none", "ours", "theirs"} /\ named' \in BOOLEAN /\ first' \in {"LS_OK", "error"}
      /\ (named' => path' = "ours")
  BY DEF Inv, Basic, Control
<1> QED
  BY <1>1, OwnerStep

LEMMA NoteIs ==
    ASSUME Inv, Note("error")
    PROVE  first' = "error"
  BY DEF Note, Inv, Basic

\* A step that leaves the file and the table as they are.
LEMMA QuietStep ==
    ASSUME Inv, at # "none", UNCHANGED <<setting, sharer, opens, kept, safe, written>>,
           UNCHANGED <<path, named>>, first' = first \/ first' = "error",
           at' \in {"open", "spill", "toc", "super", "sync", "end"},
           UNCHANGED <<rec, fl, file_end, file>>, platter' = platter \/ platter' = file,
           StageSound'
    PROVE  Inv'
<1>1. /\ TableOK(Attrs, rec', fl', file_end') /\ file_end' <= Len(file')
      /\ FileOK(Attrs, written', file')
  BY Busy
<1>2. FileOK(Attrs, written', platter')
  BY DEF Inv, FilesSound
<1> QED
  BY <1>1, <1>2, CloseStep

LEMMA CloseBeginsKeeps ==
    ASSUME Inv, UNCHANGED setting, ls_close_keep
    PROVE  Inv'
<1>1. /\ at = "open" /\ at' = "spill" /\ UNCHANGED <<path, named, first>>
      /\ UNCHANGED <<rec, fl, file_end, file>> /\ platter' = platter
      /\ UNCHANGED <<setting, sharer, opens, kept, safe, written>>
  BY DEF ls_close_keep, Step, disk, history
<1>2. StageSound'
  BY <1>1 DEF StageSound
<1> QED
  BY <1>1, <1>2, QuietStep

Parked(r, ext) == [r EXCEPT !.ext = ext, !.resident = FALSE, !.mem = NULL]

LEMMA SaneParked ==
    ASSUME NEW A, NEW r, Sane(A, r), NEW ext \in Seq(Extent), NEW p, p = Parked(r, ext)
    PROVE  Sane(A, p) /\ p.ext = ext
<1>1. PICK o : o = [r EXCEPT !.ext = ext]
  OBVIOUS
<1>2. PICK t : t = [o EXCEPT !.resident = FALSE]
  OBVIOUS
<1>3. p = [t EXCEPT !.mem = NULL]
  BY <1>1, <1>2 DEF Parked
<1>4. o \in Records(A) /\ o.ext = ext
  BY <1>1, SaneExt DEF Sane
<1>5. t \in Records(A) /\ t.ext = o.ext /\ t.resident = FALSE
  BY <1>2, <1>4 DEF Records
<1>6. NULL \in Seq(ByteCells)
  BY DEF NULL
<1>7. p \in Records(A) /\ p.ext = t.ext /\ p.resident = t.resident /\ p.mem = NULL
  BY <1>3, <1>5, <1>6 DEF Records
<1> QED
  BY <1>4, <1>5, <1>7 DEF Sane

LEMMA SpillOneKeeps ==
    ASSUME Inv, UNCHANGED setting, NEW k \in Keys, SpillOne(k)
    PROVE  Inv'
<1>1. PICK r, s, q : r = Found(k) /\ s = spill(r) /\ q = Parked(r, s.ext)
  OBVIOUS
<1>2. at = "spill" /\ at' = "spill" /\ k \in DOMAIN rec
  BY DEF SpillOne, Step, Residents
<1>3. r = rec[k]
  BY <1>1, <1>2 DEF Found
<1>4. /\ rec' = Bind(rec, k, q) /\ fl' = s.fl /\ file_end' = s.end /\ file' = s.file
      /\ UNCHANGED <<platter, path, named, first>>
      /\ UNCHANGED <<setting, sharer, opens, kept, safe, written>>
  BY <1>1, <1>3 DEF SpillOne, Parked, history
<1>5. Sane(Attrs, r) /\ Roomy(Space(r), AllExtents(Without(rec, k)), file)
  BY <1>1, <1>2, FoundProps
<1>6. Roomy(s, AllExtents(Without(rec, k)), file)
  BY <1>1, <1>5, SpillRoomy DEF spill
<1>7. s.ext \in Seq(Extent)
  BY <1>6, RoomFields DEF Roomy
<1>8. Sane(Attrs, q) /\ q.ext = s.ext
  BY <1>1, <1>5, <1>7, SaneParked
<1> QED
  BY <1>2, <1>4, <1>6, <1>8, UpdateStep

LEMMA SpillFailsKeeps ==
    ASSUME Inv, UNCHANGED setting, NEW k \in Keys, SpillFails(k)
    PROVE  Inv'
<1>1. PICK r, s, q : /\ r = Found(k) /\ s = ensure_extents(Space(r), r.size)
                     /\ q = [r EXCEPT !.ext = s.ext]
  OBVIOUS
<1>2. at = "spill" /\ at' = "toc" /\ k \in DOMAIN rec
  BY DEF SpillFails, Step, Residents
<1>3. r = rec[k]
  BY <1>1, <1>2 DEF Found
<1>4. /\ \/ UNCHANGED <<rec, fl, file_end, file>>
         \/ rec' = Bind(rec, k, q) /\ fl' = s.fl /\ file_end' = s.end /\ file' = s.file
      /\ UNCHANGED <<platter, path, named>>
      /\ UNCHANGED <<setting, sharer, opens, kept, safe, written>>
  BY <1>1, <1>3 DEF SpillFails, history
<1>5. first' = "error"
  BY NoteIs DEF SpillFails
<1>6. StageSound'
  BY <1>2, <1>5 DEF StageSound
<1>7. CASE UNCHANGED <<rec, fl, file_end, file>>
  BY <1>2, <1>4, <1>5, <1>6, <1>7, QuietStep
<1>8. CASE rec' = Bind(rec, k, q) /\ fl' = s.fl /\ file_end' = s.end /\ file' = s.file
  <2>1. Sane(Attrs, r) /\ Roomy(Space(r), AllExtents(Without(rec, k)), file)
    BY <1>1, <1>2, FoundProps
  <2>2. Roomy(s, AllExtents(Without(rec, k)), file)
    BY <1>1, <2>1, SaneFields, EnsureKeeps
  <2>3. s.ext \in Seq(Extent) /\ s.end <= Len(s.file) /\ Touched(file, s.file)
    BY <2>2, RoomFields DEF Roomy
  <2>4. q \in Records(Attrs) /\ (q.resident <=> q.mem # NULL) /\ q.ext = s.ext
    BY <1>1, <2>1, <2>3, SaneExt DEF Sane
  <2>5. TableOK(Attrs, rec', fl', file_end')
    BY <1>2, <1>8, <2>2, <2>4, Busy, BindOK
  <2>6. FileOK(Attrs, written', file')
    BY <1>2, <1>4, <1>8, <2>3, Busy, FileTouched
  <2>7. FileOK(Attrs, written', platter')
    BY <1>4 DEF Inv, FilesSound
  <2> QED
    BY <1>2, <1>4, <1>5, <1>6, <1>8, <2>3, <2>5, <2>6, <2>7, CloseStep
<1> QED
  BY <1>4, <1>7, <1>8

LEMMA SpilledAllKeeps ==
    ASSUME Inv, UNCHANGED setting, SpilledAll
    PROVE  Inv'
<1>1. /\ at = "spill" /\ at' = "toc" /\ Residents = {} /\ UNCHANGED <<path, named, first>>
      /\ UNCHANGED <<rec, fl, file_end, file>> /\ platter' = platter
      /\ UNCHANGED <<setting, sharer, opens, kept, safe, written>>
  BY DEF SpilledAll, Step, disk, history
<1>2. OnDisk(rec)
  BY <1>1 DEF Residents, OnDisk
<1>3. StageSound'
  BY <1>1, <1>2 DEF StageSound
<1> QED
  BY <1>1, <1>3, QuietStep

LEMMA TableCells ==
    ASSUME NEW A \in SUBSET AnyAttr, NEW r, NEW l, NEW e, TableOK(A, r, l, e)
    PROVE  /\ toc_serialise(r) \in Seq(Cells) /\ Len(toc_serialise(r)) \in Nat
           /\ Super(Superblock(r, e)) \in Cells
<1>1. TableTyped(A, r) /\ e \in Nat
  BY DEF TableOK, Accounted
<1>2. PICK tb, c : tb = toc_serialise(r) /\ c = Super(Superblock(r, e))
  OBVIOUS
<1>3. tb \in Seq(EntryCells) /\ c \in SuperCells
  BY <1>1, <1>2, SerialiseTyped
<1>4. EntryCells \subseteq Cells /\ SuperCells \subseteq Cells
  BY DEF Cells
<1> HIDE DEF Cells
<1>5. tb \in Seq(Cells) /\ Len(tb) \in Nat /\ c \in Cells
  BY <1>3, <1>4
<1> QED
  BY <1>2, <1>5

LEMMA WriteTocKeeps ==
    ASSUME Inv, UNCHANGED setting, WriteToc
    PROVE  Inv'
<1>1. PICK tb : tb = toc_serialise(rec)
  OBVIOUS
<1>2. /\ at = "toc" /\ at' = "super" /\ file' = pwrite(file, file_end, tb)
      /\ UNCHANGED <<platter, path, named, first, rec, fl, file_end>>
      /\ UNCHANGED <<setting, sharer, opens, kept, safe, written>>
  BY <1>1 DEF WriteToc, Step, history
<1>3. /\ TableOK(Attrs, rec, fl, file_end) /\ file_end \in Nat /\ file_end <= Len(file)
      /\ 0 < file_end /\ FileOK(Attrs, written, file) /\ file \in Seq(Cells) /\ Len(file) # 0
      /\ Len(file) \in Nat /\ Attrs \in SUBSET AnyAttr
  BY <1>2, Busy
<1>4. tb \in Seq(Cells)
  BY <1>1, <1>3, TableCells
<1>5. Written(file, file_end, tb, file') /\ Touched(file, file')
  BY <1>2, <1>3, <1>4, PwriteProps, TouchedWritten
<1>6. FileOK(Attrs, written', file')
  BY <1>2, <1>3, <1>5, FileTouched
<1>7. FileOK(Attrs, written', platter')
  BY <1>2 DEF Inv, FilesSound
<1>8. TableAt(file', rec', file_end')
  BY <1>1, <1>2, <1>5 DEF TableAt, Written
<1>9. first' = "LS_OK" => OnDisk(rec')
  BY <1>2 DEF Inv, StageSound
<1>10. StageSound'
  BY <1>2, <1>8, <1>9 DEF StageSound
<1>11. file_end' <= Len(file')
  <2>1. Len(file) <= Len(file') /\ Len(file') \in Nat
    BY <1>5 DEF Written
  <2> QED
    BY <1>2, <1>3, <2>1
<1> QED
  BY <1>2, <1>3, <1>6, <1>7, <1>10, <1>11, CloseStep

LEMMA TocFailsKeeps ==
    ASSUME Inv, UNCHANGED setting, TocFails
    PROVE  Inv'
<1>1. PICK n, tb, part :
          /\ n \in 0 .. Cardinality(DOMAIN rec)
          /\ tb = toc_serialise(rec) /\ part = SubSeq(tb, 1, n)
          /\ file' = pwrite(file, file_end, part)
  BY DEF TocFails
<1>2. /\ at = "toc" /\ at' = "end"
      /\ UNCHANGED <<platter, path, named, rec, fl, file_end>>
      /\ UNCHANGED <<setting, sharer, opens, kept, safe, written>>
  BY DEF TocFails, Step, history
<1>3. first' = "error"
  BY NoteIs DEF TocFails
<1>4. /\ TableOK(Attrs, rec, fl, file_end) /\ file_end \in Nat /\ file_end <= Len(file)
      /\ 0 < file_end /\ FileOK(Attrs, written, file) /\ file \in Seq(Cells) /\ Len(file) # 0
      /\ Len(file) \in Nat /\ Attrs \in SUBSET AnyAttr
  BY <1>2, Busy
<1>5. tb \in Seq(Cells) /\ Len(tb) = Cardinality(DOMAIN rec) /\ Len(tb) \in Nat
  <2>1. TableTyped(Attrs, rec)
    BY <1>4 DEF TableOK
  <2>2. Serialised(tb, SetToSeq(DOMAIN rec), Cardinality(DOMAIN rec), rec)
    BY <1>1, <2>1, SerialiseProps
  <2> QED
    BY <1>1, <1>4, <2>2, TableCells DEF Serialised
<1>6. part \in Seq(Cells)
  <2>1. n \in 0 .. Len(tb)
    BY <1>1, <1>5
  <2> QED
    BY <1>1, <1>5, <2>1, SubSeqProperties
<1>7. Written(file, file_end, part, file') /\ Touched(file, file')
  BY <1>1, <1>4, <1>6, PwriteProps, TouchedWritten
<1>8. FileOK(Attrs, written', file')
  BY <1>2, <1>4, <1>7, FileTouched
<1>9. FileOK(Attrs, written', platter')
  BY <1>2 DEF Inv, FilesSound
<1>10. StageSound'
  BY <1>2, <1>3 DEF StageSound
<1>11. file_end' <= Len(file')
  <2>1. Len(file) <= Len(file') /\ Len(file') \in Nat
    BY <1>7 DEF Written
  <2> QED
    BY <1>2, <1>4, <2>1
<1> QED
  BY <1>2, <1>3, <1>4, <1>8, <1>9, <1>10, <1>11, CloseStep

\* The superblock, with zeros up to the size it has in the file.
LEMMA SuperblockWritten ==
    ASSUME NEW A \in SUBSET AnyAttr, NEW r, NEW l, NEW e, TableOK(A, r, l, e),
           NEW f \in Seq(Cells), e <= Len(f),
           NEW g, g = pwrite(f, 0, <<Super(Superblock(r, e))>> \o Zeros(LS_SUPER_SIZE - 1))
    PROVE  /\ g \in Seq(Cells) /\ Len(f) <= Len(g) /\ Begins(g, r, e)
           /\ TableAt(f, r, e) => TableAt(g, r, e)
<1>1. PICK c, z, b : /\ c = Super(Superblock(r, e)) /\ z = Zeros(LS_SUPER_SIZE - 1)
                     /\ b = <<c>> \o z
  OBVIOUS
<1>2. /\ LS_SUPER_SIZE \in Nat /\ 0 < LS_SUPER_SIZE /\ e \in Nat /\ LS_SUPER_SIZE <= e
      /\ Len(f) \in Nat
  BY SuperAssumption DEF TableOK, Accounted
<1>3. z \in Seq(ByteCells) /\ Len(z) = LS_SUPER_SIZE - 1
  <2>1. LS_SUPER_SIZE - 1 \in Int /\ LS_SUPER_SIZE - 1 >= 0
    BY <1>2
  <2> QED
    BY <1>1, <2>1, ZerosProps
<1>4. z \in Seq(Cells) /\ c \in Cells
  BY <1>1, <1>3, ByteIsCell, TableCells
<1>5. b \in Seq(Cells) /\ Len(b) = LS_SUPER_SIZE /\ b[1] = c
  BY <1>1, <1>2, <1>3, <1>4
<1>6. g = pwrite(f, 0, b)
  BY <1>1
<1>7. Written(f, 0, b, g)
  BY <1>2, <1>5, <1>6, PwriteProps
<1>8. g \in Seq(Cells) /\ Len(f) <= Len(g) /\ Len(g) \in Nat
  BY <1>7 DEF Written
<1>9. g[1] = c
  <2>1. g[0 + 1] = b[1]
    BY <1>2, <1>5, <1>7 DEF Written
  <2> QED
    BY <1>5, <2>1
<1>10. ASSUME TableAt(f, r, e)
       PROVE  TableAt(g, r, e)
  <2>1. PICK tb : tb = toc_serialise(r)
    OBVIOUS
  <2>2. Len(tb) \in Nat /\ e + Len(tb) <= Len(f) /\ \A i \in 1 .. Len(tb) : f[e + i] = tb[i]
    BY <1>10, <2>1, TableCells DEF TableAt
  <2>3. \A i \in 1 .. Len(f) : i > LS_SUPER_SIZE => g[i] = f[i]
    BY <1>2, <1>5, <1>7 DEF Written
  <2>4. \A i \in 1 .. Len(tb) : e + i \in 1 .. Len(f) /\ e + i > LS_SUPER_SIZE
    BY <1>2, <2>2
  <2>5. \A i \in 1 .. Len(tb) : g[e + i] = tb[i]
    BY <2>2, <2>3, <2>4
  <2>6. e + Len(tb) <= Len(g)
    BY <1>2, <1>8, <2>2
  <2> QED
    BY <2>1, <2>5, <2>6 DEF TableAt
<1> QED
  BY <1>1, <1>8, <1>9, <1>10 DEF Begins

LEMMA WriteSuperKeeps ==
    ASSUME Inv, UNCHANGED setting, WriteSuper
    PROVE  Inv'
<1>1. /\ at = "super" /\ at' = "sync" /\ written' = written \cup {toc_serialise(rec)}
      /\ file' = pwrite(file, 0, <<Super(Superblock(rec, file_end))>> \o Zeros(LS_SUPER_SIZE - 1))
      /\ UNCHANGED <<platter, path, named, first, rec, fl, file_end>>
      /\ UNCHANGED <<setting, sharer, opens, kept, safe>>
  BY DEF WriteSuper, Step
<1>2. /\ TableOK(Attrs, rec, fl, file_end) /\ file_end \in Nat /\ file_end <= Len(file)
      /\ file \in Seq(Cells) /\ Len(file) \in Nat /\ Attrs \in SUBSET AnyAttr
  BY <1>1, Busy
<1>3. /\ file' \in Seq(Cells) /\ Len(file) <= Len(file') /\ Begins(file', rec, file_end)
      /\ TableAt(file, rec, file_end) => TableAt(file', rec, file_end)
  BY <1>1, <1>2, SuperblockWritten
<1>4. Whole(file', rec', file_end')
  BY <1>1, <1>3 DEF Inv, StageSound, Whole
<1>5. FileOK(Attrs, written', file')
  BY <1>1, <1>2, <1>3 DEF FileOK, Stamped
<1>6. FileOK(Attrs, written', platter')
  BY <1>1, FileMore DEF Inv, FilesSound
<1>7. first' = "LS_OK" => OnDisk(rec')
  BY <1>1 DEF Inv, StageSound
<1>8. StageSound'
  BY <1>1, <1>4, <1>7 DEF StageSound
<1>9. file_end' <= Len(file')
  <2>1. Len(file') \in Nat
    BY <1>3
  <2> QED
    BY <1>1, <1>2, <1>3, <2>1
<1> QED
  BY <1>1, <1>2, <1>5, <1>6, <1>8, <1>9, CloseStep

LEMMA SyncKeeps ==
    ASSUME Inv, UNCHANGED setting, SuperFails \/ Sync \/ SyncFails
    PROVE  Inv'
<1>1. /\ UNCHANGED <<path, named, rec, fl, file_end, file>>
      /\ UNCHANGED <<setting, sharer, opens, kept, safe, written>>
      /\ platter' = platter \/ platter' = file
      /\ at # "none" /\ at' = "end"
  BY DEF SuperFails, Sync, SyncFails, Step, disk, history
<1>2. \/ first' = "error"
      \/ at = "sync" /\ first' = first /\ (Durable => platter' = file)
  BY NoteIs DEF SuperFails, Sync, SyncFails, Step
<1>3. CASE first' = "error"
  <2>1. StageSound'
    BY <1>1, <1>3 DEF StageSound
  <2> QED
    BY <1>1, <1>3, <2>1, QuietStep
<1>4. CASE at = "sync" /\ first' = first /\ (Durable => platter' = file)
  <2>1. Durable' = Durable
    BY <1>1 DEF Durable
  <2>2. StageSound'
    BY <1>1, <1>4, <2>1 DEF Inv, StageSound
  <2> QED
    BY <1>1, <1>4, <2>2, QuietStep
<1> QED
  BY <1>2, <1>3, <1>4

\* The owner has left, and nobody has the file open.
LEMMA GoneStep ==
    ASSUME Inv, UNCHANGED <<setting, opens, written>>, Gone,
           path' \in {"none", "ours", "theirs"}, path' = "none" => file' = << >>,
           sharer' = [p \in Procs |-> sharer'[p]], \A p \in Procs : sharer'[p] = << >>,
           FileOK(Attrs, written, file'), FileOK(Attrs, written, platter'),
           SafeSound', KeptSound'
    PROVE  Inv'
<1>1. /\ at' = "none" /\ named' = FALSE /\ rec' = << >> /\ fl' = << >> /\ first' = "LS_OK"
  BY DEF Gone
<1>2. Attrs' = Attrs
  BY DEF Attrs
<1>3. Basic'
  BY <1>1 DEF Inv, Basic
<1>4. Control'
  BY <1>1 DEF Control
<1>5. SpaceSound' /\ StageSound'
  BY <1>1 DEF SpaceSound, StageSound
<1>6. FilesSound'
  BY <1>2 DEF FilesSound
<1>7. SharersSound'
  BY DEF SharersSound
<1> QED
  BY <1>3, <1>4, <1>5, <1>6, <1>7 DEF Inv

LEMMA SharersGone ==
    ASSUME Inv, at # "none", UNCHANGED sharer
    PROVE  sharer' = [p \in Procs |-> sharer'[p]] /\ \A p \in Procs : sharer'[p] = << >>
  BY Busy DEF Inv, Basic

LEMMA FinishKeeps ==
    ASSUME Inv, UNCHANGED setting, Finish
    PROVE  Inv'
<1>1. /\ at = "end" /\ Gone /\ UNCHANGED <<setting, opens, written>> /\ UNCHANGED <<path, sharer>>
      /\ kept' = IF first = "LS_OK" /\ named THEN <<Promise>> ELSE << >>
      /\ safe' = IF Durable THEN kept' ELSE << >>
      /\ named => file' = file /\ platter' = platter
      /\ ~named => file' = << >> /\ platter' = << >>
  BY DEF Finish
<1>2. Attrs' = Attrs
  BY <1>1 DEF Attrs
<1>3. TableOK(Attrs, rec, fl, file_end)
  BY <1>1, Busy
<1>4. FileOK(Attrs, written, file') /\ FileOK(Attrs, written, platter')
  BY <1>1, FileEmpty DEF Inv, FilesSound, Basic
<1>5. path' \in {"none", "ours", "theirs"} /\ (path' = "none" => file' = << >>)
  BY <1>1 DEF Inv, Basic, Control
<1>6. ASSUME kept' # << >>
      PROVE  Promised(Attrs', file', kept', rec, fl, file_end) /\ (Durable => platter' = file')
  <2>1. first = "LS_OK" /\ named /\ kept' = <<Promise>> /\ file' = file /\ platter' = platter
    BY <1>1, <1>6
  <2>2. OnDisk(rec) /\ Whole(file, rec, file_end) /\ (Durable => platter = file)
    BY <1>1, <2>1 DEF Inv, StageSound
  <2>3. kept' = <<[content |-> Content(rec, file), fl |-> fl, end |-> file_end]>>
    BY <2>1 DEF Promise
  <2> QED
    BY <1>2, <1>3, <2>1, <2>2, <2>3 DEF Promised
<1>7. KeptSound'
  BY <1>6 DEF KeptSound
<1>8. SafeSound'
  BY <1>1, <1>6 DEF SafeSound
<1>9. sharer' = [p \in Procs |-> sharer'[p]] /\ \A p \in Procs : sharer'[p] = << >>
  BY <1>1, SharersGone
<1> QED
  BY <1>1, <1>4, <1>5, <1>7, <1>8, <1>9, GoneStep

LEMMA LeaveKeeps ==
    ASSUME Inv, UNCHANGED setting, ls_close_drop \/ Crash
    PROVE  Inv'
<1>1. /\ at # "none" /\ Gone /\ UNCHANGED <<setting, opens, written>>
      /\ UNCHANGED <<sharer, kept, safe>>
      /\ path' = path \/ path' = "none"
      /\ \/ file' = << >> /\ platter' = << >>
         \/ named /\ UNCHANGED <<file, platter, path>>
  BY DEF ls_close_drop, Crash, disk, history, Inv, Basic
<1>2. kept' = << >> /\ safe' = << >>
  BY <1>1, Busy
<1>3. FileOK(Attrs, written, file') /\ FileOK(Attrs, written, platter')
  BY <1>1, FileEmpty DEF Inv, FilesSound
<1>4. path' \in {"none", "ours", "theirs"} /\ (path' = "none" => file' = << >>)
  BY <1>1 DEF Inv, Basic, Control
<1>5. KeptSound' /\ SafeSound'
  BY <1>2 DEF KeptSound, SafeSound
<1>6. sharer' = [p \in Procs |-> sharer'[p]] /\ \A p \in Procs : sharer'[p] = << >>
  BY <1>1, SharersGone
<1> QED
  BY <1>1, <1>3, <1>4, <1>5, <1>6, GoneStep

LEMMA PowerLossKeeps ==
    ASSUME Inv, UNCHANGED setting, PowerLoss
    PROVE  Inv'
<1>1. /\ path = "ours" /\ file # platter /\ file' \in Mixes(file, platter) /\ platter' = file'
      /\ Gone /\ sharer' = [p \in Procs |-> << >>] /\ kept' = safe
      /\ UNCHANGED <<path, safe>> /\ UNCHANGED <<setting, opens, written>>
  BY DEF PowerLoss
<1>2. safe = << >>
  BY <1>1 DEF Inv, SafeSound
<1>3. FileOK(Attrs, written, file') /\ FileOK(Attrs, written, platter')
  BY <1>1, FileMixed DEF Inv, FilesSound
<1>4. KeptSound' /\ SafeSound'
  BY <1>1, <1>2 DEF KeptSound, SafeSound
<1>5. sharer' = [p \in Procs |-> sharer'[p]] /\ \A p \in Procs : sharer'[p] = << >>
  BY <1>1
<1> QED
  BY <1>1, <1>3, <1>4, <1>5, GoneStep

-----------------------------------------------------------------------------
(* ls_open, alone and shared.                                              *)

LEMMA OpenStep ==
    ASSUME Inv, at = "none", UNCHANGED <<setting, sharer, written, platter>>,
           \A p \in Procs : sharer[p] = << >>, opens' \in 0 .. MaxOpens,
           kept' = << >>, safe' = << >>, path' = "ours",
           at' = "open", named' = TRUE, first' = "LS_OK",
           TableOK(Attrs, rec', fl', file_end'), file_end' <= Len(file'),
           FileOK(Attrs, written, file')
    PROVE  Inv'
<1>1. Attrs' = Attrs
  BY DEF Attrs
<1>2. Basic'
  BY DEF Inv, Basic
<1>3. Control'
  BY DEF Control
<1>4. SpaceSound'
  BY <1>1 DEF SpaceSound
<1>5. StageSound'
  BY DEF StageSound
<1>6. FilesSound'
  BY <1>1 DEF Inv, FilesSound
<1>7. SafeSound' /\ KeptSound' /\ SharersSound'
  BY DEF SafeSound, KeptSound, SharersSound
<1> QED
  BY <1>2, <1>3, <1>4, <1>5, <1>6, <1>7 DEF Inv

LEMMA MayOpenProps ==
    ASSUME Inv, MayOpen
    PROVE  /\ at = "none" /\ path # "theirs" /\ \A p \in Procs : sharer[p] = << >>
           /\ opens' \in 0 .. MaxOpens /\ kept' = << >> /\ safe' = << >>
<1>1. MaxOpens \in Nat
  BY PersistAssumption
<1> QED
  BY <1>1 DEF MayOpen, Inv, Basic

LEMMA EmptyTable ==
    ASSUME NEW A
    PROVE  TableOK(A, << >>, << >>, LS_SUPER_SIZE)
<1>1. AllExtents(<< >>) = {}
  BY DEF AllExtents
<1>2. DOMAIN << >> = {} /\ IsFiniteSet({})
  BY FS_EmptySet
<1>3. TableTyped(A, << >>) /\ Distinct(<< >>)
  BY <1>2 DEF TableTyped, Distinct
<1>4. Accounted(<< >>, {}, LS_SUPER_SIZE)
  BY AccountEmpty
<1> QED
  BY <1>1, <1>3, <1>4 DEF TableOK

LEMMA OpenNewKeeps ==
    ASSUME Inv, UNCHANGED setting, ls_open_new
    PROVE  Inv'
<1>1. MayOpen /\ file = << >> /\ path' = "ours" /\ UNCHANGED <<setting, sharer, written, platter>>
  BY DEF ls_open_new
<1>2. CASE file' = Zeros(LS_SUPER_SIZE) /\ Begin(<< >>, << >>, LS_SUPER_SIZE)
  <2>1. /\ at' = "open" /\ named' = TRUE /\ first' = "LS_OK"
        /\ rec' = << >> /\ fl' = << >> /\ file_end' = LS_SUPER_SIZE
    BY <1>2 DEF Begin
  <2>2. LS_SUPER_SIZE \in Nat \ {0}
    BY SuperAssumption
  <2>3. FileOK(Attrs, written, file') /\ Len(file') = LS_SUPER_SIZE
    BY <1>2, <2>2, FileFresh
  <2>4. file_end' <= Len(file')
    BY <2>1, <2>2, <2>3
  <2>5. TableOK(Attrs, rec', fl', file_end')
    BY <2>1, EmptyTable
  <2> QED
    BY <1>1, <2>1, <2>3, <2>4, <2>5, MayOpenProps, OpenStep
<1>3. CASE UNCHANGED <<file, owner>>
  <2>1. UNCHANGED <<file, at, named, rec, fl, file_end, first>>
    BY <1>3 DEF owner
  <2>2. /\ at = "none" /\ \A p \in Procs : sharer[p] = << >>
        /\ opens' \in 0 .. MaxOpens /\ kept' = << >> /\ safe' = << >>
    BY <1>1, MayOpenProps
  <2>3. Attrs' = Attrs
    BY <1>1 DEF Attrs
  <2>4. Basic'
    BY <1>1, <2>1, <2>2 DEF Inv, Basic
  <2>5. Control'
    BY <1>1, <2>1, <2>2 DEF Inv, Control
  <2>6. SpaceSound' /\ StageSound'
    BY <2>1, <2>2 DEF SpaceSound, StageSound
  <2>7. FilesSound'
    BY <1>1, <2>1, <2>3 DEF Inv, FilesSound
  <2>8. SafeSound' /\ KeptSound' /\ SharersSound'
    BY <1>1, <2>2 DEF SafeSound, KeptSound, SharersSound
  <2> QED
    BY <2>4, <2>5, <2>6, <2>7, <2>8 DEF Inv
<1> QED
  BY <1>2, <1>3 DEF ls_open_new

\* A file that opens is not empty, so it has its name.
LEMMA OpensOurs ==
    ASSUME Inv, at = "none", path # "theirs", Load(file).ok
    PROVE  path = "ours"
<1>1. Len(file) # 0
  <2>1. FileOK(Attrs, written, file)
    BY DEF Inv, FilesSound
  <2> QED
    BY <2>1, FileLoads
<1>2. file # << >>
  BY <1>1
<1> QED
  BY <1>2 DEF Inv, Control, Basic

LEMMA OpenKeptKeeps ==
    ASSUME Inv, UNCHANGED setting, ls_open_kept
    PROVE  Inv'
<1>1. PICK now : now = Load(file)
  OBVIOUS
<1>2. /\ MayOpen /\ now.ok /\ Begin(now.rec, now.fl, now.end)
      /\ UNCHANGED <<file, platter, path>> /\ UNCHANGED <<setting, sharer, written, platter>>
  BY <1>1 DEF ls_open_kept, disk
<1>3. FileOK(Attrs, written, file)
  BY DEF Inv, FilesSound
<1>4. PICK r, l, e : /\ TableOK(Attrs, r, l, e) /\ now.rec = Plain(r) /\ now.fl = l /\ now.end = e
                     /\ e <= Len(file)
  BY <1>1, <1>2, <1>3, FileLoads
<1>5. /\ at' = "open" /\ named' = TRUE /\ first' = "LS_OK"
      /\ rec' = Plain(r) /\ fl' = l /\ file_end' = e
  BY <1>2, <1>4 DEF Begin
<1>6. TableOK(Attrs, rec', fl', file_end')
  <2>1. TableTyped(Attrs, r) /\ Distinct(r) /\ Accounted(l, AllExtents(r), e)
    BY <1>4 DEF TableOK
  <2>2. TableTyped(Attrs, rec') /\ AllExtents(rec') = AllExtents(r) /\ Distinct(rec')
    BY <1>5, <2>1, PlainProps
  <2> QED
    BY <1>5, <2>1, <2>2 DEF TableOK
<1>7. path' = "ours"
  BY <1>1, <1>2, MayOpenProps, OpensOurs
<1>8. file_end' <= Len(file')
  BY <1>2, <1>4, <1>5
<1> QED
  BY <1>2, <1>3, <1>5, <1>6, <1>7, <1>8, MayOpenProps, OpenStep

\* While processes share the store, nobody owns it.
LEMMA SharedStep ==
    ASSUME Inv, at = "none", UNCHANGED <<setting, platter, opens, written>>, UNCHANGED owner,
           path' \in {"none", "ours", "theirs"}, path' = "none" => file' = << >>,
           sharer' = [p \in Procs |-> sharer'[p]],
           \A p \in Procs : sharer'[p] # << >> => path' = "ours",
           FileOK(Attrs, written, file'), SafeSound', KeptSound', SharersSound'
    PROVE  Inv'
<1>1. /\ UNCHANGED <<at, named, rec, fl, file_end, first>> /\ at' = "none"
      /\ rec' = << >> /\ fl' = << >> /\ ~named'
  BY DEF owner, Inv, Control
<1>2. Attrs' = Attrs
  BY DEF Attrs
<1>3. Basic'
  BY <1>1 DEF Inv, Basic
<1>4. Control'
  BY <1>1 DEF Control
<1>5. SpaceSound' /\ StageSound'
  BY <1>1 DEF SpaceSound, StageSound
<1>6. FilesSound'
  BY <1>2 DEF Inv, FilesSound
<1> QED
  BY <1>3, <1>4, <1>5, <1>6 DEF Inv

LEMMA PromisesStay ==
    ASSUME Inv, UNCHANGED <<setting, file, platter, kept, safe>>
    PROVE  SafeSound' /\ KeptSound'
<1>1. Attrs' = Attrs
  BY DEF Attrs
<1> QED
  BY <1>1 DEF Inv, SafeSound, KeptSound

LEMMA SharedOpenKeeps ==
    ASSUME Inv, UNCHANGED setting, NEW p \in Procs, SharedOpen(p)
    PROVE  Inv'
<1>1. /\ at = "none" /\ path # "theirs" /\ UNCHANGED owner /\ UNCHANGED file
      /\ UNCHANGED <<setting, platter, opens, written>> /\ UNCHANGED <<kept, safe>>
      /\ \/ file = << >> /\ path' = "ours" /\ UNCHANGED sharer
         \/ Load(file).ok /\ sharer' = [sharer EXCEPT ![p] = <<Load(file).rec>>] /\ UNCHANGED path
  BY DEF SharedOpen, Opens, history
<1>2. FileOK(Attrs, written, file')
  BY <1>1 DEF Inv, FilesSound
<1>3. SafeSound' /\ KeptSound'
  BY <1>1, PromisesStay
<1>4. sharer = [q \in Procs |-> sharer[q]]
  BY DEF Inv, Basic
<1>5. CASE file = << >> /\ path' = "ours" /\ UNCHANGED sharer
  <2>1. SharersSound'
    BY <1>1, <1>5 DEF Inv, SharersSound
  <2>2. sharer' = [q \in Procs |-> sharer'[q]]
    BY <1>4, <1>5
  <2> QED
    BY <1>1, <1>2, <1>3, <1>5, <2>1, <2>2, SharedStep
<1>6. CASE Load(file).ok /\ sharer' = [sharer EXCEPT ![p] = <<Load(file).rec>>] /\ UNCHANGED path
  <2>1. path = "ours"
    BY <1>1, <1>6, OpensOurs
  <2>2. /\ sharer' = [q \in Procs |-> sharer'[q]]
        /\ \A q \in Procs : sharer'[q] = IF q = p THEN <<Load(file).rec>> ELSE sharer[q]
    BY <1>4, <1>6
  <2>3. SharersSound'
    BY <1>1, <1>6, <2>2 DEF Inv, SharersSound
  <2> QED
    BY <1>1, <1>2, <1>3, <1>6, <2>1, <2>2, <2>3, SharedStep
<1> QED
  BY <1>1, <1>5, <1>6

LEMMA SharedCloseKeeps ==
    ASSUME Inv, UNCHANGED setting, NEW p \in Procs, SharedClose(p)
    PROVE  Inv'
<1>1. /\ sharer[p] # << >> /\ sharer' = [sharer EXCEPT ![p] = << >>]
      /\ UNCHANGED owner /\ UNCHANGED <<file, path>>
      /\ UNCHANGED <<setting, platter, opens, written>> /\ UNCHANGED <<kept, safe>>
  BY DEF SharedClose, history, disk
<1>2. at = "none" /\ path = "ours"
  BY <1>1 DEF Inv, Control
<1>3. sharer = [q \in Procs |-> sharer[q]]
  BY DEF Inv, Basic
<1>4. /\ sharer' = [q \in Procs |-> sharer'[q]]
      /\ \A q \in Procs : sharer'[q] = IF q = p THEN << >> ELSE sharer[q]
  BY <1>1, <1>3
<1>5. SharersSound'
  BY <1>1, <1>4 DEF Inv, SharersSound
<1>6. FileOK(Attrs, written, file')
  BY <1>1 DEF Inv, FilesSound
<1>7. SafeSound' /\ KeptSound'
  BY <1>1, PromisesStay
<1> QED
  BY <1>1, <1>2, <1>4, <1>5, <1>6, <1>7, SharedStep

\* What a sharing process may write leaves the superblock and the table.
LEMMA SharedByte ==
    ASSUME NEW A, NEW r, NEW l, NEW e, TableOK(A, r, l, e), NEW f \in Seq(Cells),
           Begins(f, r, e), Load(f).ok,
           NEW q, q = Plain(r), NEW k \in DOMAIN q,
           NEW i \in 1 .. Min({q[k].size, ext_total(q[k].ext)}),
           NEW g, g = Stored(f, Places(q[k].ext)[i], Byte(1))
    PROVE  /\ k \in DOMAIN r /\ ByteWritten(r, k, i, Byte(1), f, g)
           /\ g \in Seq(Cells) /\ Len(g) = Len(f) /\ Begins(g, r, e)
           /\ TableAt(f, r, e) => TableAt(g, r, e)
           /\ Load(g).ok /\ Load(g).rec = q
<1>1. TableTyped(A, r) /\ e \in Nat /\ LS_SUPER_SIZE <= e /\ LS_SUPER_SIZE \in Nat /\ 0 < LS_SUPER_SIZE
  BY SuperAssumption DEF TableOK, Accounted
<1>2. k \in DOMAIN r /\ q[k].size = r[k].size /\ q[k].ext = r[k].ext
  BY LoadedFields DEF Plain
<1>3. r[k].ext \in Seq(Extent) /\ r[k].size \in Nat
  BY <1>1, <1>2, RecordFields
<1>4. PICK p, n, b : p = Places(r[k].ext) /\ n = Min({r[k].size, Len(p)}) /\ b = p[i]
  OBVIOUS
<1>5. p \in Seq(Nat) /\ Len(p) = ext_total(r[k].ext) /\ Len(p) \in Nat
  BY <1>3, <1>4, PlacesProps
<1>6. i \in 1 .. n
  BY <1>2, <1>4, <1>5
<1>7. n \in Nat /\ n <= Len(p)
  BY <1>3, <1>4, FetchIs
<1>8. i \in 1 .. Len(p)
  BY <1>5, <1>6, <1>7
<1>9. b \in Nat /\ LS_SUPER_SIZE <= b /\ b < e
  BY <1>2, <1>4, <1>8, PlaceInside
<1>10. g = [f EXCEPT ![b + 1] = Byte(1)]
  BY <1>2, <1>4 DEF Stored
<1>11. ByteWritten(r, k, i, Byte(1), f, g)
  BY <1>4, <1>6, <1>10 DEF ByteWritten
<1>12. g \in Seq(Cells) /\ Len(g) = Len(f) /\ Len(f) \in Nat
  <2>1. Byte(1) \in ByteCells
    BY ByteIsCell
  <2> QED
    BY <2>1, StoredProps DEF Touched
<1>13. \A j \in 1 .. Len(f) : j # b + 1 => g[j] = f[j]
  BY <1>10
<1>14. Len(f) >= LS_SUPER_SIZE /\ e <= Len(f)
  BY LoadGives
<1>15. g[1] = f[1]
  BY <1>1, <1>9, <1>12, <1>13, <1>14
<1>16. \A j \in 1 .. Len(f) : j > e => g[j] = f[j]
  BY <1>1, <1>9, <1>12, <1>13
<1>17. Begins(g, r, e)
  BY <1>15 DEF Begins
<1>18. Load(g).ok
  BY <1>12, <1>15, <1>16, LoadSame
<1>19. Load(g).rec = q
  BY <1>17, <1>18, LoadGives
<1>20. ASSUME TableAt(f, r, e)
       PROVE  TableAt(g, r, e)
  <2>1. PICK tb, m : tb = toc_serialise(r) /\ m = Len(tb)
    OBVIOUS
  <2>2. m \in Nat
    BY <1>1, <2>1, SerialiseProps DEF Serialised
  <2>3. e + m <= Len(f) /\ \A j \in 1 .. m : f[e + j] = tb[j]
    BY <1>20, <2>1 DEF TableAt
  <2>4. \A j \in 1 .. m : e + j \in 1 .. Len(f) /\ e + j > e
    BY <1>1, <1>12, <2>2, <2>3
  <2>5. \A j \in 1 .. m : g[e + j] = tb[j]
    BY <1>16, <2>3, <2>4
  <2> QED
    BY <1>12, <2>1, <2>3, <2>5 DEF TableAt
<1> QED
  BY <1>2, <1>11, <1>12, <1>17, <1>18, <1>19, <1>20

LEMMA PromiseAfter ==
    ASSUME NEW c, NEW l, NEW e, NEW k, NEW i, NEW v, NEW d, d = [c EXCEPT ![k].bytes[i] = v],
           NEW p, p = <<[content |-> c, fl |-> l, end |-> e]>>
    PROVE  [p EXCEPT ![1].content[k].bytes[i] = v] = <<[content |-> d, fl |-> l, end |-> e]>>
<1>1. PICK o : o = [content |-> c, fl |-> l, end |-> e]
  OBVIOUS
<1>2. o.content = c /\ [o EXCEPT !.content = d] = [content |-> d, fl |-> l, end |-> e]
  BY <1>1
<1>3. p = <<o>> /\ p[1] = o
  BY <1>1
<1>4. [p EXCEPT ![1].content[k].bytes[i] = v] = [p EXCEPT ![1].content = d]
  BY <1>2, <1>3
<1>5. [p EXCEPT ![1].content = d] = <<[o EXCEPT !.content = d]>>
  BY <1>3
<1> QED
  BY <1>2, <1>4, <1>5

LEMMA SharedWriteKeeps ==
    ASSUME Inv, UNCHANGED setting, NEW p \in Procs, NEW k, NEW i, SharedWrite(p, k, i)
    PROVE  Inv'
<1>1. PICK q : q = Load(file).rec
  OBVIOUS
<1>2. sharer[p] # << >> /\ k \in DOMAIN sharer[p][1]
  BY DEF SharedWrite
<1>3. at = "none" /\ path = "ours"
  BY <1>2 DEF Inv, Control
<1>4. Load(file).ok /\ sharer[p] = <<q>>
  BY <1>1, <1>2 DEF Inv, SharersSound
<1>5. sharer[p][1] = q
  BY <1>4
<1>6. PICK g : g = Stored(file, Places(q[k].ext)[i], Byte(1))
  OBVIOUS
<1>7. /\ k \in DOMAIN q /\ i \in 1 .. Min({q[k].size, ext_total(q[k].ext)}) /\ file' = g
      /\ kept # << >> => kept' = [kept EXCEPT ![1].content[k].bytes[i] = Byte(1)]
      /\ kept = << >> => kept' = << >>
      /\ safe' = << >> /\ UNCHANGED owner /\ UNCHANGED <<path, sharer>>
      /\ UNCHANGED <<setting, platter, opens, written>>
  BY <1>2, <1>5, <1>6 DEF SharedWrite, Stored
<1>8. FileOK(Attrs, written, file) /\ file \in Seq(Cells)
  BY DEF Inv, FilesSound, FileOK
<1>9. PICK r, l, e : TableOK(Attrs, r, l, e) /\ Begins(file, r, e) /\ q = Plain(r) /\ Len(file) # 0
  BY <1>1, <1>4, <1>8, FileLoads
<1>10. Load(g).ok /\ Load(g).rec = q
  BY <1>4, <1>6, <1>7, <1>8, <1>9, SharedByte
<1>11. SharersSound'
  BY <1>1, <1>7, <1>10 DEF Inv, SharersSound
<1>12. FileOK(Attrs, written, file')
  <2>1. Byte(1) \in ByteCells
    BY ByteIsCell
  <2>2. Touched(file, g)
    BY <1>6, <1>8, <2>1, StoredProps
  <2> QED
    BY <1>7, <1>8, <1>9, <2>2, FileTouched
<1>13. SafeSound'
  BY <1>7 DEF SafeSound
<1>14. KeptSound'
  <2> SUFFICES ASSUME kept' # << >>
               PROVE  \E t, m, d : Promised(Attrs', file', kept', t, m, d)
    BY DEF KeptSound
  <2>1. kept # << >> /\ kept' = [kept EXCEPT ![1].content[k].bytes[i] = Byte(1)]
    BY <1>7
  <2>2. PICK t, m, d : Promised(Attrs, file, kept, t, m, d)
    BY <2>1 DEF Inv, KeptSound
  <2>3. /\ TableOK(Attrs, t, m, d) /\ TableAt(file, t, d) /\ Begins(file, t, d) /\ OnDisk(t)
        /\ kept = <<[content |-> Content(t, file), fl |-> m, end |-> d]>>
    BY <2>2 DEF Promised, Whole
  <2>4. q = Plain(t) /\ d <= Len(file)
    BY <1>1, <1>4, <2>3, LoadGives
  <2>5. /\ k \in DOMAIN t /\ ByteWritten(t, k, i, Byte(1), file, g)
        /\ Begins(g, t, d) /\ TableAt(g, t, d)
    BY <1>4, <1>6, <1>7, <1>8, <2>3, <2>4, SharedByte
  <2>6. PICK c : c = Content(t, file)
    OBVIOUS
  <2>7. [c EXCEPT ![k].bytes[i] = Byte(1)] = Content(t, g)
    BY <1>8, <2>3, <2>4, <2>5, <2>6, ContentAfter
  <2>8. kept' = <<[content |-> Content(t, g), fl |-> m, end |-> d]>>
    BY <2>1, <2>3, <2>6, <2>7, PromiseAfter
  <2>9. Attrs' = Attrs
    BY <1>7 DEF Attrs
  <2>10. Promised(Attrs', file', kept', t, m, d)
    BY <1>7, <2>3, <2>5, <2>8, <2>9 DEF Promised, Whole
  <2> QED
    BY <2>10
<1>15. sharer' = [o \in Procs |-> sharer'[o]]
  BY <1>7 DEF Inv, Basic
<1> QED
  BY <1>3, <1>7, <1>11, <1>12, <1>13, <1>14, <1>15, SharedStep

-----------------------------------------------------------------------------
(* The invariant holds in every state.                                     *)

LEMMA InvInit == Init => Inv
<1> SUFFICES ASSUME Init
             PROVE  Inv
  OBVIOUS
<1>1. MaxOpens \in Nat
  BY PersistAssumption
<1>2. Basic
  <2>1. opens \in 0 .. MaxOpens
    BY <1>1 DEF Init
  <2>2. sharer = [p \in Procs |-> sharer[p]]
    BY DEF Init
  <2> QED
    BY <2>1, <2>2 DEF Init, Basic
<1>3. Control /\ SpaceSound /\ StageSound /\ SafeSound /\ KeptSound
  BY DEF Init, Control, SpaceSound, StageSound, SafeSound, KeptSound
<1>4. FilesSound
  BY FileEmpty DEF Init, FilesSound
<1>5. SharersSound
  BY DEF Init, SharersSound
<1> QED
  BY <1>2, <1>3, <1>4, <1>5 DEF Inv

LEMMA InvStutter ==
    ASSUME Inv, UNCHANGED vars
    PROVE  Inv'
<1>1. /\ UNCHANGED <<setting, file, platter, path, at, named, rec, fl, file_end, first>>
      /\ UNCHANGED <<sharer, opens, kept, safe, written>>
  BY DEF vars, disk, owner, history
<1>2. Attrs' = Attrs /\ Durable' = Durable
  BY <1>1 DEF Attrs, Durable
<1>3. Basic'
  BY <1>1 DEF Inv, Basic
<1>4. Control' /\ SpaceSound'
  BY <1>1, <1>2 DEF Inv, Control, SpaceSound
<1>5. FilesSound'
  BY <1>1, <1>2 DEF Inv, FilesSound
<1>6. StageSound'
  BY <1>1, <1>2 DEF Inv, StageSound
<1>7. SafeSound' /\ KeptSound'
  BY <1>1, PromisesStay
<1>8. SharersSound'
  BY <1>1 DEF Inv, SharersSound
<1> QED
  BY <1>3, <1>4, <1>5, <1>6, <1>7, <1>8 DEF Inv

LEMMA InvStep ==
    ASSUME Inv, Next
    PROVE  Inv'
<1>1. UNCHANGED setting
  BY DEF Next
<1>2. ASSUME NEW k \in Keys,
             \/ \E n \in Sizes : Grow(k, n)
             \/ \E i \in Spots : Write(k, i)
             \/ \E a \in Attrs : ls_set_attr(k, a)
             \/ ls_erase(k) \/ SpillOne(k) \/ SpillFails(k)
      PROVE  Inv'
  BY <1>1, <1>2, GrowKeeps, WriteKeeps, SetAttrKeeps, EraseKeeps, SpillOneKeeps, SpillFailsKeeps
<1>3. ASSUME NEW p \in Procs,
             \/ SharedOpen(p) \/ SharedClose(p)
             \/ \E k \in Keys, i \in Spots : SharedWrite(p, k, i)
      PROVE  Inv'
  BY <1>1, <1>3, SharedOpenKeeps, SharedCloseKeeps, SharedWriteKeeps
<1>4. CASE ls_open_new \/ ls_open_kept \/ ls_unlink_now \/ OtherFile
  BY <1>1, <1>4, OpenNewKeeps, OpenKeptKeeps, UnlinkKeeps
<1>5. CASE ls_close_drop \/ ls_close_keep \/ SpilledAll \/ WriteToc \/ TocFails
  BY <1>1, <1>5, LeaveKeeps, CloseBeginsKeeps, SpilledAllKeeps, WriteTocKeeps, TocFailsKeeps
<1>6. CASE WriteSuper \/ SuperFails \/ Sync \/ SyncFails \/ Finish
  BY <1>1, <1>6, WriteSuperKeeps, SyncKeeps, FinishKeeps
<1>7. CASE Crash \/ PowerLoss
  BY <1>1, <1>7, LeaveKeeps, PowerLossKeeps
<1> QED
  BY <1>2, <1>3, <1>4, <1>5, <1>6, <1>7 DEF Next, Steps

\* The inductive invariant: the file and the tables in memory fit together, at
\* every point of the owner's life and of ls_close, whatever failed or died.
THEOREM PersistInvariant == Spec => []Inv
<1>1. Inv /\ [Next]_vars => Inv'
  BY InvStep, InvStutter
<1> QED
  BY InvInit, <1>1, PTL DEF Spec

-----------------------------------------------------------------------------
(* What follows from it.                                                   *)

LEMMA TypeFromInv == Inv => TypeOK
<1> SUFFICES ASSUME Inv
             PROVE  TypeOK
  OBVIOUS
<1>1. /\ setting \in DOMAIN Settings /\ path \in {"none", "ours", "theirs"}
      /\ at \in {"none", "open", "spill", "toc", "super", "sync", "end"}
      /\ named \in BOOLEAN /\ first \in {"LS_OK", "error"} /\ opens \in 0 .. MaxOpens
      /\ DOMAIN sharer = Procs
  BY DEF Inv, Basic
<1>2. path = "none" /\ at = "none" => file = << >>
  BY DEF Inv, Control
<1>3. /\ DOMAIN rec \subseteq Keys
      /\ \A k \in DOMAIN rec :
           /\ rec[k].size \in Nat /\ rec[k].attr \in Attrs
           /\ \A i \in DOMAIN rec[k].ext : rec[k].ext[i] \in Extent
           /\ rec[k].resident <=> rec[k].mem # NULL
      /\ \A i \in DOMAIN fl : fl[i] \in Extent
  <2>1. CASE at = "none"
    <3>1. rec = << >> /\ fl = << >>
      BY <2>1 DEF Inv, Control
    <3>2. DOMAIN rec = {} /\ DOMAIN fl = {}
      BY <3>1
    <3> QED
      BY <3>2
  <2>2. CASE at # "none"
    <3>1. TableTyped(Attrs, rec) /\ fl \in Seq(Extent)
      BY <2>2, Busy DEF TableOK, Accounted
    <3>2. \A k \in DOMAIN rec : /\ rec[k].size \in Nat /\ rec[k].attr \in Attrs
                                /\ rec[k].ext \in Seq(Extent)
      BY <3>1, RecordFields
    <3>3. \A k \in DOMAIN rec : rec[k].resident <=> rec[k].mem # NULL
      BY <3>1 DEF TableTyped
    <3>4. DOMAIN rec \subseteq Keys
      BY <3>1 DEF TableTyped
    <3> QED
      BY <3>1, <3>2, <3>3, <3>4
  <2> QED
    BY <2>1, <2>2
<1> QED
  BY <1>1, <1>2, <1>3 DEF TypeOK

\* Every variable has its type, and a file without a name is nobody's.
THEOREM PersistTypeCorrect == Spec => []TypeOK
  BY PersistInvariant, TypeFromInv, PTL

Clear(d, e) == Bytes(d) \cap Bytes(e) = {}

LEMMA ClearIs ==
    ASSUME NEW d \in Extent, NEW e \in Extent, \A b \in Int : ~(In(b, d) /\ In(b, e))
    PROVE  Clear(d, e)
<1>1. d.foff \in Nat /\ d.len \in Nat /\ e.foff \in Nat /\ e.len \in Nat
  BY DEF Extent
<1>2. ASSUME NEW b \in Bytes(d), b \in Bytes(e)
      PROVE  FALSE
  <2>1. b \in Int /\ In(b, d) /\ In(b, e)
    BY <1>1, <1>2 DEF Bytes, End, In
  <2> QED
    BY <2>1
<1> QED
  BY <1>2 DEF Clear

\* The extents of a table, in the order of its records, and the holes.
LaidOut(ks, r, l) == FlattenSeq([i \in DOMAIN ks |-> r[ks[i]].ext]) \o l

LEMMA AllClear ==
    ASSUME NEW A, NEW r, NEW l, NEW e, TableOK(A, r, l, e),
           NEW ks, ks = SetToSeq(DOMAIN r),
           NEW all, all = LaidOut(ks, r, l)
    PROVE  \A i, j \in DOMAIN all : End(all[i]) <= e /\ (i # j => Clear(all[i], all[j]))
<1>1. /\ TableTyped(A, r) /\ Distinct(r) /\ Accounted(l, AllExtents(r), e)
      /\ l \in Seq(Extent) /\ AllExtents(r) \in SUBSET Extent /\ Separated(l)
      /\ Partitioned(l, AllExtents(r), e) /\ Apart(AllExtents(r)) /\ e \in Nat
      /\ \A i \in DOMAIN l : End(l[i]) < e
  BY DEF TableOK, Accounted
<1>2. PICK n : Serialised(toc_serialise(r), ks, n, r)
  BY <1>1, SerialiseProps
<1>3. /\ n \in Nat /\ DOMAIN ks = 1 .. n /\ \A i \in 1 .. n : ks[i] \in DOMAIN r
      /\ \A i, j \in 1 .. n : ks[i] = ks[j] => i = j
  BY <1>2 DEF Serialised
<1>4. PICK ss, p, m : /\ ss = [i \in 1 .. n |-> r[ks[i]].ext]
                      /\ p = FlattenSeq(ss) /\ m = Len(p)
  OBVIOUS
<1>5. ss \in Seq(Seq(Extent)) /\ Len(ss) = n
  <2>1. \A i \in 1 .. n : r[ks[i]].ext \in Seq(Extent)
    BY <1>1, <1>3, RecordFields
  <2>2. \A i \in 1 .. n : ss[i] \in Seq(Extent)
    BY <1>4, <2>1
  <2>3. n \in Nat /\ ss = [i \in 1 .. n |-> ss[i]]
    BY <1>3, <1>4
  <2> QED
    BY <2>2, <2>3
<1>6. p \in Seq(Extent) /\ m \in Nat
  BY <1>4, <1>5, FlattenTyped
<1>7. PICK u, v : Traced(ss, n, p, u, v)
  BY <1>4, <1>5, FlattenTraced
<1>8. /\ \A i \in 1 .. m : /\ u[i] \in 1 .. n /\ v[i] \in 1 .. Len(ss[u[i]])
                           /\ p[i] = ss[u[i]][v[i]]
      /\ \A i, j \in 1 .. m : u[i] = u[j] /\ v[i] = v[j] => i = j
  BY <1>4, <1>7 DEF Traced
<1>9. ASSUME NEW i \in 1 .. m
      PROVE  /\ ks[u[i]] \in DOMAIN r /\ v[i] \in DOMAIN r[ks[u[i]]].ext
             /\ p[i] = r[ks[u[i]]].ext[v[i]] /\ p[i] \in AllExtents(r)
  <2>1. ks[u[i]] \in DOMAIN r /\ ss[u[i]] = r[ks[u[i]]].ext
    BY <1>3, <1>4, <1>8
  <2>2. r[ks[u[i]]].ext \in Seq(Extent)
    BY <1>1, <2>1, RecordFields
  <2>3. v[i] \in DOMAIN r[ks[u[i]]].ext /\ p[i] = r[ks[u[i]]].ext[v[i]]
    BY <1>8, <2>1, <2>2
  <2> QED
    BY <2>1, <2>3, InExtents
<1>10. ASSUME NEW i \in 1 .. m, NEW j \in 1 .. m, i # j
       PROVE  Clear(p[i], p[j])
  <2>1. p[i] # p[j]
    <3> SUFFICES ASSUME p[i] = p[j]
                 PROVE  FALSE
      OBVIOUS
    <3>1. ks[u[i]] = ks[u[j]] /\ v[i] = v[j]
      BY <1>1, <1>9, SameExtent
    <3>2. u[i] = u[j]
      BY <1>3, <1>8, <3>1
    <3> QED
      BY <1>8, <1>10, <3>1, <3>2
  <2>2. p[i] \in AllExtents(r) /\ p[j] \in AllExtents(r)
    BY <1>9
  <2>3. \A b \in Int : ~(In(b, p[i]) /\ In(b, p[j]))
    BY <1>1, <2>1, <2>2 DEF Apart
  <2> QED
    BY <1>1, <2>2, <2>3, ClearIs
<1>11. ASSUME NEW i \in 1 .. m, NEW j \in DOMAIN l
       PROVE  Clear(p[i], l[j]) /\ Clear(l[j], p[i])
  <2>1. p[i] \in AllExtents(r) /\ l[j] \in Extent
    BY <1>1, <1>9
  <2>2. \A b \in Int : ~(In(b, p[i]) /\ In(b, l[j]))
    BY <1>1, <2>1 DEF Partitioned, InHole, InOwned
  <2>3. Clear(p[i], l[j])
    BY <1>1, <2>1, <2>2, ClearIs
  <2> QED
    BY <2>3 DEF Clear
<1>12. ASSUME NEW i \in DOMAIN l, NEW j \in DOMAIN l, i < j
       PROVE  Clear(l[i], l[j]) /\ Clear(l[j], l[i])
  <2>1. End(l[i]) < l[j].foff /\ l[i] \in Extent /\ l[j] \in Extent
    BY <1>1, <1>12 DEF Separated
  <2>2. \A b \in Int : ~(In(b, l[i]) /\ In(b, l[j]))
    BY <2>1 DEF In, End, Extent
  <2>3. Clear(l[i], l[j])
    BY <2>1, <2>2, ClearIs
  <2> QED
    BY <2>3 DEF Clear
<1>13. /\ all = p \o l /\ all \in Seq(Extent) /\ Len(all) = m + Len(l) /\ Len(l) \in Nat
       /\ DOMAIN l = 1 .. Len(l) /\ DOMAIN all = 1 .. (m + Len(l))
  <2>1. all = p \o l
    BY <1>3, <1>4 DEF LaidOut
  <2>2. l \in Seq(Extent) /\ m = Len(p)
    BY <1>1, <1>4
  <2>3. Len(l) \in Nat /\ DOMAIN l = 1 .. Len(l)
    BY <2>2
  <2>4. all \in Seq(Extent) /\ Len(all) = Len(p) + Len(l)
    BY <1>6, <2>1, <2>2, ConcatProperties
  <2>5. DOMAIN all = 1 .. Len(all)
    BY <2>4
  <2> QED
    BY <2>1, <2>2, <2>3, <2>4, <2>5
<1>14. \A i \in DOMAIN all : \/ i \in 1 .. m /\ all[i] = p[i]
                             \/ i > m /\ i - m \in DOMAIN l /\ all[i] = l[i - m]
  <2>1. l \in Seq(Extent) /\ m = Len(p)
    BY <1>1, <1>4
  <2> QED
    BY <1>6, <1>13, <2>1
<1> TAKE i, j \in DOMAIN all
<1>15. End(all[i]) <= e
  <2>1. CASE i \in 1 .. m /\ all[i] = p[i]
    BY <1>1, <1>9, <2>1, AccountInside
  <2>2. CASE i - m \in DOMAIN l /\ all[i] = l[i - m]
    <3>1. l[i - m] \in Extent /\ End(l[i - m]) < e
      BY <1>1, <2>2
    <3>2. End(l[i - m]) \in Nat
      BY <3>1 DEF End, Extent
    <3> QED
      BY <1>1, <2>2, <3>1, <3>2
  <2> QED
    BY <1>14, <2>1, <2>2
<1>16. ASSUME i # j
       PROVE  Clear(all[i], all[j])
  <2>1. i \in Nat /\ j \in Nat
    BY <1>13
  <2>2. CASE i \in 1 .. m /\ all[i] = p[i]
    BY <1>10, <1>11, <1>14, <1>16, <2>2
  <2>3. CASE i > m /\ i - m \in DOMAIN l /\ all[i] = l[i - m]
    <3>1. CASE j \in 1 .. m /\ all[j] = p[j]
      BY <1>11, <2>3, <3>1
    <3>2. CASE j > m /\ j - m \in DOMAIN l /\ all[j] = l[j - m]
      <4>1. i - m < j - m \/ j - m < i - m
        BY <1>6, <1>16, <2>1
      <4> QED
        BY <1>12, <2>3, <3>2, <4>1
    <3> QED
      BY <1>14, <3>1, <3>2
  <2> QED
    BY <1>14, <2>2, <2>3
<1> QED
  BY <1>15, <1>16

LEMMA SpaceFromInv == Inv => SpaceDisjoint
<1> SUFFICES ASSUME Inv, at # "none"
             PROVE  LET keys == SetToSeq(DOMAIN rec)
                        all == FlattenSeq([i \in DOMAIN keys |-> rec[keys[i]].ext]) \o fl
                    IN  \A i, j \in DOMAIN all :
                            /\ End(all[i]) <= file_end
                            /\ i # j => Bytes(all[i]) \cap Bytes(all[j]) = {}
  BY DEF SpaceDisjoint
<1>1. PICK ks, all : ks = SetToSeq(DOMAIN rec) /\ all = LaidOut(ks, rec, fl)
  OBVIOUS
<1>2. \A i, j \in DOMAIN all : End(all[i]) <= file_end /\ (i # j => Clear(all[i], all[j]))
  BY <1>1, Busy, AllClear
<1> QED
  BY <1>1, <1>2 DEF LaidOut, Clear

\* The owner's records do not overlap each other or a hole, whether their
\* extents came from ensure_extents or from a table in a file, and all of them
\* end before s->file_end, where the table of contents will go.
THEOREM PersistSpace == Spec => []SpaceDisjoint
  BY PersistInvariant, SpaceFromInv, PTL

LEMMA SharedFromInv == Inv => SharedCoherent
<1> SUFFICES ASSUME Inv, NEW p \in Procs, sharer[p] # << >>
             PROVE  path = "ours" /\ Load(file).ok /\ sharer[p][1] = Load(file).rec
  BY DEF SharedCoherent
<1>1. path = "ours"
  BY DEF Inv, Control
<1>2. Load(file).ok /\ sharer[p] = <<Load(file).rec>>
  BY DEF Inv, SharersSound
<1> QED
  BY <1>1, <1>2

\* Processes that share a store agree with the file, and so with each other, on
\* the place of every record, and the file keeps its name while they have it.
THEOREM PersistShared == Spec => []SharedCoherent
  BY PersistInvariant, SharedFromInv, PTL

LEMMA RebuiltFromInv == Inv => FreeListRebuilt
<1> SUFFICES ASSUME Inv, kept # << >>, Load(file).ok
             PROVE  Load(file).fl = kept[1].fl /\ Load(file).end = kept[1].end
  BY DEF FreeListRebuilt
<1>1. PICK r, l, e : Promised(Attrs, file, kept, r, l, e)
  BY DEF Inv, KeptSound
<1>2. /\ TableOK(Attrs, r, l, e) /\ Begins(file, r, e)
      /\ kept = <<[content |-> Content(r, file), fl |-> l, end |-> e]>>
  BY <1>1 DEF Promised, Whole
<1>3. kept[1].fl = l /\ kept[1].end = e
  BY <1>2
<1>4. Load(file).fl = l /\ Load(file).end = e
  BY <1>2, LoadGives
<1> QED
  BY <1>3, <1>4

\* The gaps between the extents that rebuild_free_list finds when the store is
\* opened are exactly the free list that fl_insert and the allocations had left
\* when it was closed, no insertion having run out of memory.
THEOREM PersistFreeList == Spec => []FreeListRebuilt
  BY PersistInvariant, RebuiltFromInv, PTL

LEMMA KeptFromInv == Inv => KeptReadable
<1> SUFFICES ASSUME Inv, kept # << >>, DOMAIN kept[1].content # {}
             PROVE  Load(file).ok /\ Content(Load(file).rec, file) = kept[1].content
  BY DEF KeptReadable
<1>1. PICK r, l, e : Promised(Attrs, file, kept, r, l, e)
  BY DEF Inv, KeptSound
<1>2. /\ TableOK(Attrs, r, l, e) /\ Whole(file, r, e) /\ Begins(file, r, e) /\ OnDisk(r)
      /\ kept = <<[content |-> Content(r, file), fl |-> l, end |-> e]>>
  BY <1>1 DEF Promised, Whole
<1>3. kept[1].content = Content(r, file)
  BY <1>2
<1>4. DOMAIN r # {}
  <2>1. DOMAIN Content(r, file) = DOMAIN r
    BY DEF Content
  <2> QED
    BY <1>3, <2>1
<1>5. file \in Seq(Cells)
  BY DEF Inv, FilesSound, FileOK
<1>6. Load(file).ok
  BY <1>2, <1>4, <1>5, LoadOK
<1>7. Load(file).rec = Plain(r)
  BY <1>2, <1>6, LoadGives
<1>8. Content(Plain(r), file) = Content(r, file)
  <2>1. TableTyped(Attrs, r)
    BY <1>2 DEF TableOK
  <2> QED
    BY <1>2, <2>1, PlainContent
<1> QED
  BY <1>3, <1>6, <1>7, <1>8

\* What ls_close(keep=1) returned LS_OK for can be read back: the table loads,
\* and every record has its size, attribute and bytes, those that sharing
\* processes wrote since included; after a power failure too, if durable_close
\* was set and the directory entry, which is not synced, has survived.
THEOREM PersistKept == Spec => []KeptReadable
  BY PersistInvariant, KeptFromInv, PTL

LEMMA CrashFromInv == Inv => CrashConsistent
<1> SUFFICES ASSUME Inv, Load(file).ok
             PROVE  toc_serialise(Load(file).rec) \in written
  BY DEF CrashConsistent
<1>1. FileOK(Attrs, written, file)
  BY DEF Inv, FilesSound
<1>2. PICK r, l, e : /\ TableOK(Attrs, r, l, e) /\ toc_serialise(r) \in written
                     /\ Load(file).rec = Plain(r)
  BY <1>1, FileLoads
<1>3. TableTyped(Attrs, r)
  BY <1>2 DEF TableOK
<1>4. toc_serialise(Plain(r)) = toc_serialise(r)
  BY <1>3, PlainSerialised
<1> QED
  BY <1>2, <1>4

\* Wherever ls_close failed or died, and whatever part of an unsynced file the
\* medium kept, a file that opens has a table that some ls_close wrote, whole.
THEOREM PersistCrash == Spec => []CrashConsistent
  BY PersistInvariant, CrashFromInv, PTL

LEMMA TheirsKept ==
    ASSUME Inv, Next, path = "theirs"
    PROVE  path' = "theirs"
<1>1. ~named
  BY DEF Inv, Control
<1>2. CASE \E k \in Keys : \/ \E n \in Sizes : Grow(k, n)
                           \/ \E i \in Spots : Write(k, i)
                           \/ \E a \in Attrs : ls_set_attr(k, a)
                           \/ ls_erase(k) \/ SpillOne(k) \/ SpillFails(k)
  BY <1>2 DEF Grow, Update, Write, ls_set_attr, ls_erase, SpillOne, SpillFails, disk
<1>3. CASE \E p \in Procs : \/ SharedOpen(p) \/ SharedClose(p)
                            \/ \E k \in Keys, i \in Spots : SharedWrite(p, k, i)
  BY <1>3 DEF SharedOpen, SharedClose, SharedWrite, disk
<1>4. CASE ls_open_new \/ ls_open_kept \/ ls_unlink_now \/ OtherFile
  BY <1>1, <1>4 DEF ls_open_new, ls_open_kept, MayOpen, ls_unlink_now, OtherFile
<1>5. CASE ls_close_drop \/ ls_close_keep \/ SpilledAll \/ WriteToc \/ TocFails
  BY <1>1, <1>5 DEF ls_close_drop, ls_close_keep, SpilledAll, WriteToc, TocFails, disk
<1>6. CASE WriteSuper \/ SuperFails \/ Sync \/ SyncFails \/ Finish
  BY <1>6 DEF WriteSuper, SuperFails, Sync, SyncFails, Finish, disk
<1>7. CASE Crash \/ PowerLoss
  BY <1>7 DEF Crash, PowerLoss
<1> QED
  BY <1>2, <1>3, <1>4, <1>5, <1>6, <1>7 DEF Next, Steps

\* Once ls_unlink_now has given the name up and another program has taken it,
\* no step of the store, ls_close included, removes or replaces that file.
THEOREM PersistOthers == Spec => OthersKept
<1>1. Inv /\ [Next]_vars => [path = "theirs" => path' = "theirs"]_vars
  BY TheirsKept
<1> QED
  BY PersistInvariant, <1>1, PTL DEF Spec, OthersKept
=============================================================================
