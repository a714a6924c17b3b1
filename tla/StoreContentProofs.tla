------------------------- MODULE StoreContentProofs -------------------------
(***************************************************************************)
(* Proofs about the bytes of the data path: what a call that returns LS_OK *)
(* has done, and that the data path implements ByteStore.                  *)
(*                                                                         *)
(* Calls move their bytes without toc_lk.  What they have done so far is   *)
(* kept by what other threads may do meanwhile (Effect), what they         *)
(* have read is still what the record holds when they use it (Fed), and    *)
(* space that a record has not used yet holds zeros (Blank), so that it    *)
(* can grow without a write.                                               *)
(***************************************************************************)
EXTENDS StoreProofs

-----------------------------------------------------------------------------
(* Where the bytes of a record are.                                        *)

LEMMA BaseMono ==
    ASSUME NEW ext \in Seq(Extent), NEW i \in 1 .. Len(ext), NEW j \in 1 .. (Len(ext) + 1), i < j
    PROVE  Base(ext, i) + ext[i].len <= Base(ext, j)
<1>0. /\ Len(ext) \in Nat
      /\ \A l \in 1 .. Len(ext) : ext[l].len \in Nat
  BY HoleFields
<1>1. /\ \A l \in 1 .. (Len(ext) + 1) : Base(ext, l) \in Nat
      /\ \A l \in 1 .. Len(ext) : Base(ext, l + 1) = Base(ext, l) + ext[l].len
  BY BaseProps
<1> DEFINE P == {m \in Nat : i + 1 + m <= Len(ext) + 1 => Base(ext, i + 1) <= Base(ext, i + 1 + m)}
<1>2. 0 \in P
  <2>1. i + 1 \in 1 .. (Len(ext) + 1) /\ i + 1 + 0 = i + 1
    BY <1>0
  <2>2. Base(ext, i + 1) \in Nat
    BY <1>1, <2>1
  <2>3. Base(ext, i + 1) <= Base(ext, i + 1 + 0)
    BY <2>1, <2>2
  <2> QED
    BY <2>3
<1>3. ASSUME NEW m \in P PROVE m + 1 \in P
  <2> SUFFICES ASSUME i + 1 + (m + 1) <= Len(ext) + 1
               PROVE  Base(ext, i + 1) <= Base(ext, i + 1 + (m + 1))
    OBVIOUS
  <2>1. PICK l : l = i + 1 + m
    OBVIOUS
  <2>2. l \in 1 .. Len(ext) /\ l \in 1 .. (Len(ext) + 1) /\ l + 1 = i + 1 + (m + 1) /\ l + 1 \in 1 .. (Len(ext) + 1)
        /\ i + 1 \in 1 .. (Len(ext) + 1)
    BY <1>0, <2>1
  <2>3. Base(ext, i + 1) <= Base(ext, l)
    BY <2>1, <2>2
  <2>4. Base(ext, l + 1) = Base(ext, l) + ext[l].len /\ ext[l].len \in Nat
    BY <1>0, <1>1, <2>2
  <2>5. Base(ext, l) \in Nat /\ Base(ext, i + 1) \in Nat
    BY <1>1, <2>2
  <2>6. Base(ext, i + 1) <= Base(ext, l + 1)
    BY <2>3, <2>4, <2>5
  <2> QED
    BY <2>2, <2>6
<1>4. P = Nat
  <2> HIDE DEF P
  <2> QED
    BY <1>2, <1>3, NatSet DEF P
<1>5. PICK m : m = j - (i + 1)
  OBVIOUS
<1>6. m \in Nat /\ i + 1 + m = j /\ j <= Len(ext) + 1
  BY <1>0, <1>5
<1>7. m \in P
  BY <1>4, <1>6
<1>8. Base(ext, i + 1) <= Base(ext, j)
  BY <1>6, <1>7
<1> QED
  BY <1>1, <1>8

\* Byte o is in the one extent whose offsets contain it.
LEMMA AddrIn ==
    ASSUME NEW ext \in Seq(Extent), NEW j \in DOMAIN ext, NEW o \in Nat,
           Base(ext, j) <= o, o < Base(ext, j) + ext[j].len
    PROVE  /\ Addr(ext, o) = ext[j].foff + (o - Base(ext, j))
           /\ o < Base(ext, Len(ext) + 1)
           /\ Addr(ext, o) \in Nat /\ In(Addr(ext, o), ext[j])
<1>0. /\ Len(ext) \in Nat /\ DOMAIN ext = 1 .. Len(ext)
      /\ \A l \in 1 .. Len(ext) : ext[l].len \in Nat /\ ext[l].foff \in Nat
  BY HoleFields
<1>b. \A l \in 1 .. (Len(ext) + 1) : Base(ext, l) \in Nat
  BY BaseProps
<1>1. PICK i : i = CHOOSE l \in DOMAIN ext : Base(ext, l) <= o /\ o < Base(ext, l) + ext[l].len
  OBVIOUS
<1>2. i \in DOMAIN ext /\ Base(ext, i) <= o /\ o < Base(ext, i) + ext[i].len
  BY <1>1
<1>3. Addr(ext, o) = ext[i].foff + (o - Base(ext, i))
  BY <1>1 DEF Addr
<1>4. i \in 1 .. Len(ext) /\ j \in 1 .. Len(ext) /\ i \in 1 .. (Len(ext) + 1) /\ j \in 1 .. (Len(ext) + 1)
      /\ Len(ext) + 1 \in 1 .. (Len(ext) + 1) /\ j < Len(ext) + 1
  BY <1>0, <1>2
<1>5. Base(ext, i) \in Nat /\ Base(ext, j) \in Nat /\ Base(ext, Len(ext) + 1) \in Nat
      /\ ext[i].len \in Nat /\ ext[j].len \in Nat /\ ext[j].foff \in Nat
  BY <1>0, <1>b, <1>4
<1>6. ~(i < j)
  <2> SUFFICES ASSUME i < j PROVE FALSE
    OBVIOUS
  <2>1. Base(ext, i) + ext[i].len <= Base(ext, j)
    BY <1>4, BaseMono
  <2> QED
    BY <1>2, <1>5, <2>1
<1>7. ~(j < i)
  <2> SUFFICES ASSUME j < i PROVE FALSE
    OBVIOUS
  <2>1. Base(ext, j) + ext[j].len <= Base(ext, i)
    BY <1>4, BaseMono
  <2> QED
    BY <1>2, <1>5, <2>1
<1>8. i = j
  BY <1>0, <1>4, <1>6, <1>7
<1>9. Base(ext, j) + ext[j].len <= Base(ext, Len(ext) + 1)
  BY <1>4, BaseMono
<1> QED
  BY <1>3, <1>5, <1>8, <1>9 DEF In

\* The first extents of a record are where they were when there are more.
LEMMA BasePrefix ==
    ASSUME NEW p \in Seq(Extent), NEW x \in Seq(Extent), IsPrefix(p, x)
    PROVE  /\ Len(p) <= Len(x)
           /\ \A i \in 1 .. Len(p) : p[i] = x[i]
           /\ \A i \in 1 .. (Len(p) + 1) : Base(x, i) = Base(p, i)
           /\ Base(p, Len(p) + 1) <= Base(x, Len(x) + 1)
<1>0. Len(p) \in Nat /\ Len(x) \in Nat /\ \A i \in 1 .. Len(x) : x[i].len \in Nat
  BY HoleFields
<1>1. Len(p) <= Len(x) /\ \A i \in 1 .. Len(p) : p[i] = x[i]
  <2>1. Len(p) <= Len(x) /\ p = SubSeq(x, 1, Len(p))
    BY DEF IsPrefix
  <2> QED
    BY <1>0, <2>1
<1>2. ASSUME NEW i \in 1 .. (Len(p) + 1)
      PROVE  Base(x, i) = Base(p, i)
  <2>1. i \in 1 .. (Len(x) + 1) /\ i \in Nat /\ \A j \in 1 .. (i - 1) : j \in 1 .. Len(p)
    BY <1>0, <1>1
  <2>2. PICK f : RunRec(p, i, f) /\ Base(p, i) = f[i]
    BY BaseIsRun
  <2>3. PICK g : RunRec(x, i, g) /\ Base(x, i) = g[i]
    BY <2>1, BaseIsRun
  <2>4. \A j \in 1 .. (i - 1) : p[j].len = x[j].len
    BY <1>1, <2>1
  <2>5. \A j \in 1 .. i : f[j] = g[j]
    BY <2>1, <2>2, <2>3, <2>4, RunsAgree
  <2> QED
    BY <1>0, <2>2, <2>3, <2>5
<1>3. PICK n, m : n = Len(p) + 1 /\ m = Len(x) + 1
  OBVIOUS
<1>4. n \in 1 .. n /\ n \in 1 .. m /\ m \in 1 .. m /\ n <= m
  BY <1>0, <1>1, <1>3
<1>5. Base(x, n) = Base(p, n)
  BY <1>2, <1>3, <1>4
<1>6. Base(x, n) <= Base(x, m)
  <2>1. Base(x, n) \in Nat /\ Base(x, m) \in Nat
    BY <1>3, <1>4, BaseProps
  <2>2. CASE n = m
    BY <2>1, <2>2
  <2>3. CASE n < m
    <3>1. n \in 1 .. Len(x)
      BY <1>0, <1>3, <1>4, <2>3
    <3>2. Base(x, n) + x[n].len <= Base(x, m)
      BY <1>3, <1>4, <2>3, <3>1, BaseMono
    <3> QED
      BY <1>0, <2>1, <3>1, <3>2
  <2> QED
    BY <1>0, <1>3, <1>4, <2>2, <2>3
<1> QED
  BY <1>1, <1>2, <1>3, <1>5, <1>6

LEMMA AddrPrefix ==
    ASSUME NEW p \in Seq(Extent), NEW x \in Seq(Extent), IsPrefix(p, x),
           NEW o \in Nat, o < Base(p, Len(p) + 1)
    PROVE  Addr(x, o) = Addr(p, o) /\ o < Base(x, Len(x) + 1)
<1>0. Len(p) \in Nat /\ Len(x) \in Nat /\ DOMAIN p = 1 .. Len(p) /\ DOMAIN x = 1 .. Len(x)
  BY HoleFields
<1>1. /\ Len(p) <= Len(x)
      /\ \A i \in 1 .. Len(p) : p[i] = x[i]
      /\ \A i \in 1 .. (Len(p) + 1) : Base(x, i) = Base(p, i)
  BY BasePrefix
<1>2. PICK j \in DOMAIN p : /\ Base(p, j) <= o /\ o < Base(p, j) + p[j].len
                            /\ Addr(p, o) = p[j].foff + (o - Base(p, j))
  BY AddrProps
<1>3. j \in DOMAIN x /\ x[j] = p[j] /\ Base(x, j) = Base(p, j)
  BY <1>0, <1>1
<1>4. Addr(x, o) = x[j].foff + (o - Base(x, j)) /\ o < Base(x, Len(x) + 1)
  BY <1>2, <1>3, AddrIn
<1> QED
  BY <1>2, <1>3, <1>4

-----------------------------------------------------------------------------
(* What a piece is a piece of.                                             *)

\* The offsets in the record that a piece transfers.
Spanned(x) == x.off .. (x.off + x.n - 1)

\* The piece is where the place p has those offsets.
Lies(p, x) ==
    IF p.mem # NULL THEN x.at = x.off
    ELSE \E j \in DOMAIN p.ext : /\ p.ext[j].foff <= x.at /\ x.at + x.n <= End(p.ext[j])
                                 /\ x.off - Base(p.ext, j) = x.at - p.ext[j].foff

LEMMA LiesAt ==
    ASSUME NEW p, p.ext \in Seq(Extent), p.mem = NULL, NEW x, x.at \in Nat, x.off \in Nat, x.n \in Nat,
           Lies(p, x), NEW o \in Spanned(x)
    PROVE  /\ o \in Nat /\ o < Base(p.ext, Len(p.ext) + 1)
           /\ Addr(p.ext, o) = x.at + (o - x.off)
<1>1. PICK j \in DOMAIN p.ext : /\ p.ext[j].foff <= x.at /\ x.at + x.n <= End(p.ext[j])
                                /\ x.off - Base(p.ext, j) = x.at - p.ext[j].foff
  BY DEF Lies
<1>2. Len(p.ext) \in Nat /\ j \in 1 .. Len(p.ext) /\ p.ext[j].foff \in Nat /\ p.ext[j].len \in Nat
  BY HoleFields
<1>3. j \in 1 .. (Len(p.ext) + 1)
  BY <1>2
<1>4. Base(p.ext, j) \in Nat
  BY <1>3, BaseProps
<1>5. PICK b, f, l : b = Base(p.ext, j) /\ f = p.ext[j].foff /\ l = p.ext[j].len
  OBVIOUS
<1>6. x.at + x.n <= f + l /\ x.off - b = x.at - f /\ f <= x.at /\ b \in Nat /\ f \in Nat /\ l \in Nat
  BY <1>1, <1>2, <1>4, <1>5 DEF End
<1>7. o \in Int /\ x.off <= o /\ o <= x.off + x.n - 1
  BY DEF Spanned
<1>8. PICK a, q, n : a = x.at /\ q = x.off /\ n = x.n
  OBVIOUS
<1>9. a + n <= f + l /\ q - b = a - f /\ f <= a /\ q <= o /\ o <= q + n - 1 /\ o \in Int
      /\ a \in Nat /\ q \in Nat /\ n \in Nat /\ b \in Nat /\ f \in Nat /\ l \in Nat
  BY <1>6, <1>7, <1>8
<1>10. o \in Nat /\ b <= o /\ o < b + l /\ f + (o - b) = a + (o - q)
  BY <1>9, SMT
<1> QED
  BY <1>5, <1>8, <1>10, AddrIn

\* What Piece makes of a range and an extent at f, of l bytes, that has b before it.
PieceOf(x, off, n, b, l, f) ==
    /\ x.off = IF off >= b THEN off ELSE b
    /\ x.off + x.n = IF off + n <= b + l THEN off + n ELSE b + l
    /\ x.at = f + (x.off - b)
    /\ x.off \in Int /\ x.n \in Int /\ b \in Nat /\ l \in Nat /\ f \in Nat

LEMMA PieceIs ==
    ASSUME NEW ext \in Seq(Extent), NEW i \in DOMAIN ext, NEW off \in Nat, NEW n \in Int
    PROVE  PieceOf(Piece(ext, i, off, n), off, n, Base(ext, i), ext[i].len, ext[i].foff)
<1>1. PICK b, l, f : b = Base(ext, i) /\ l = ext[i].len /\ f = ext[i].foff
  OBVIOUS
<1>2. b \in Nat /\ l \in Nat /\ f \in Nat
  <2>1. Len(ext) \in Nat /\ i \in 1 .. Len(ext) /\ ext[i].foff \in Nat /\ ext[i].len \in Nat
    BY HoleFields
  <2>2. i \in 1 .. (Len(ext) + 1)
    BY <2>1
  <2> QED
    BY <1>1, <2>1, <2>2, BaseProps
<1>3. PICK lo, hi : lo = Max({off, b}) /\ hi = Min({off + n, b + l})
  OBVIOUS
<1>4. lo = IF off >= b THEN off ELSE b
  BY <1>2, <1>3, MaxOfTwo
<1>5. hi = IF off + n <= b + l THEN off + n ELSE b + l
  <2>1. PICK p, q : p = off + n /\ q = b + l
    OBVIOUS
  <2>2. p \in Int /\ q \in Int
    BY <1>2, <2>1
  <2>3. Min({p, q}) = IF p <= q THEN p ELSE q
    BY <2>2, MinOfTwo
  <2> QED
    BY <1>3, <2>1, <2>3
<1>6. Piece(ext, i, off, n) = [at |-> f + (lo - b), off |-> lo, n |-> hi - lo]
  BY <1>1, <1>3 DEF Piece
<1>7. lo \in Int /\ hi \in Int
  BY <1>2, <1>4, <1>5
<1>8. PICK x : x = Piece(ext, i, off, n)
  OBVIOUS
<1>9. x.off = lo /\ x.n = hi - lo /\ x.at = f + (lo - b)
  BY <1>6, <1>8
<1>10. x.off + x.n = hi /\ x.n \in Int
  BY <1>7, <1>9
<1>11. PieceOf(x, off, n, b, l, f)
  BY <1>2, <1>4, <1>5, <1>7, <1>9, <1>10 DEF PieceOf
<1> QED
  BY <1>1, <1>8, <1>11

\* The pieces of a range that lie inside it.
Within(p, off, n) == {x \in Span : Lies(p, x) /\ off <= x.off /\ x.off + x.n <= off + n}

LEMMA PieceWithin ==
    ASSUME NEW p, p.ext \in Seq(Extent), p.mem = NULL, NEW i \in DOMAIN p.ext, NEW off \in Nat, NEW n \in Int,
           Piece(p.ext, i, off, n).n > 0
    PROVE  Piece(p.ext, i, off, n) \in Within(p, off, n)
<1>1. PICK x, b, l, f : x = Piece(p.ext, i, off, n) /\ b = Base(p.ext, i) /\ l = p.ext[i].len /\ f = p.ext[i].foff
  OBVIOUS
<1>2. PieceOf(x, off, n, b, l, f)
  BY <1>1, PieceIs
<1>3. x \in Span /\ x.n > 0
  BY <1>1, PieceProps
<1>5. off <= x.off /\ x.off + x.n <= off + n
  BY <1>2 DEF PieceOf
<1>6. f <= x.at /\ x.at + x.n <= f + l /\ x.off - b = x.at - f
  BY <1>2 DEF PieceOf
<1>7. Lies(p, x)
  BY <1>1, <1>6 DEF Lies, End
<1> QED
  BY <1>1, <1>3, <1>5, <1>7 DEF Within

\* What ls_scatter flattens.
Scattered(p, off, n) ==
    [i \in DOMAIN p.ext |-> IF Piece(p.ext, i, off, n).n > 0 THEN <<Piece(p.ext, i, off, n)>>
                                                             ELSE << >>]

LEMMA ScatteredProps ==
    ASSUME NEW p, p.ext \in Seq(Extent), p.mem = NULL, NEW off \in Nat, NEW n \in Int
    PROVE  /\ ls_scatter(p, off, n) = FlattenSeq(Scattered(p, off, n))
           /\ Scattered(p, off, n) \in Seq(Seq(Within(p, off, n)))
           /\ Len(Scattered(p, off, n)) = Len(p.ext)
<1>1. ls_scatter(p, off, n) = FlattenSeq(Scattered(p, off, n))
  BY DEF ls_scatter, Scattered
<1>2. PICK ss, W : ss = Scattered(p, off, n) /\ W = Within(p, off, n)
  OBVIOUS
<1>3. ASSUME NEW i \in DOMAIN p.ext
      PROVE  ss[i] \in Seq(W)
  <2>1. ss[i] = IF Piece(p.ext, i, off, n).n > 0 THEN <<Piece(p.ext, i, off, n)>> ELSE << >>
    BY <1>2 DEF Scattered
  <2>2. CASE Piece(p.ext, i, off, n).n > 0
    <3>1. Piece(p.ext, i, off, n) \in W
      BY <1>2, <2>2, PieceWithin
    <3> QED
      BY <2>1, <2>2, <3>1
  <2>3. CASE ~(Piece(p.ext, i, off, n).n > 0)
    <3>1. << >> \in Seq(W)
      OBVIOUS
    <3> QED
      BY <2>1, <2>3, <3>1
  <2> QED
    BY <2>2, <2>3
<1>4. Len(p.ext) \in Nat /\ DOMAIN p.ext = 1 .. Len(p.ext)
  BY HoleFields
<1>5. DOMAIN ss = 1 .. Len(p.ext) /\ ss = [i \in 1 .. Len(p.ext) |-> ss[i]]
  BY <1>2, <1>4 DEF Scattered
<1>6. \A i \in 1 .. Len(p.ext) : ss[i] \in Seq(W)
  BY <1>3, <1>4
<1>7. [i \in 1 .. Len(p.ext) |-> ss[i]] \in Seq(Seq(W))
  BY <1>4, <1>6, SeqBy
<1>8. Len(ss) = Len(p.ext)
  BY <1>4, <1>5, <1>7
<1> QED
  BY <1>1, <1>2, <1>5, <1>7, <1>8

LEMMA ScatterIn ==
    ASSUME NEW p, p.ext \in Seq(Extent), NEW off \in Nat, NEW n \in Int, p.mem # NULL => n \in Nat
    PROVE  ls_scatter(p, off, n) \in Seq(Within(p, off, n))
<1>1. CASE p.mem = NULL
  BY <1>1, ScatteredProps, FlattenTyped
<1>2. CASE p.mem # NULL
  <2>1. PICK x : x = [at |-> off, off |-> off, n |-> n]
    OBVIOUS
  <2>2. x \in Span /\ x.at = x.off /\ x.off = off /\ x.n = n
    BY <1>2, <2>1 DEF Span
  <2>3. x \in Within(p, off, n)
    BY <1>2, <2>2 DEF Within, Lies
  <2>4. ls_scatter(p, off, n) = <<x>>
    BY <1>2, <2>1 DEF ls_scatter
  <2> QED
    BY <2>3, <2>4
<1> QED
  BY <1>1, <1>2

\* Every byte of the range that the place has is in some piece.
LEMMA ScatterCovers ==
    ASSUME NEW p, p.ext \in Seq(Extent), NEW off \in Nat, NEW n \in Int, p.mem # NULL => n \in Nat,
           NEW o \in off .. (off + n - 1), p.mem = NULL => o < Base(p.ext, Len(p.ext) + 1)
    PROVE  \E l \in 1 .. Len(ls_scatter(p, off, n)) : o \in Spanned(ls_scatter(p, off, n)[l])
<1>0. o \in Nat /\ off <= o /\ o < off + n
  OBVIOUS
<1>1. CASE p.mem = NULL
  <2>1. PICK j \in DOMAIN p.ext : Base(p.ext, j) <= o /\ o < Base(p.ext, j) + p.ext[j].len
    BY <1>0, <1>1, CoveringExtent
  <2>2. PICK x, b, l, f : x = Piece(p.ext, j, off, n) /\ b = Base(p.ext, j) /\ l = p.ext[j].len /\ f = p.ext[j].foff
    OBVIOUS
  <2>3. PieceOf(x, off, n, b, l, f)
    BY <2>2, PieceIs
  <2>5. x.off <= o /\ o < x.off + x.n /\ x.off \in Int /\ x.n \in Int
    BY <1>0, <2>1, <2>2, <2>3 DEF PieceOf
  <2>6. x.n > 0 /\ o \in Spanned(x)
    BY <1>0, <2>5 DEF Spanned
  <2>7. PICK ss, W : ss = Scattered(p, off, n) /\ W = Within(p, off, n)
    OBVIOUS
  <2>8. ss \in Seq(Seq(W)) /\ Len(ss) = Len(p.ext) /\ ls_scatter(p, off, n) = FlattenSeq(ss)
    BY <1>1, <2>7, ScatteredProps
  <2>9. ss[j] = <<x>> /\ j \in 1 .. Len(ss)
    <3>1. j \in 1 .. Len(p.ext)
      BY HoleFields
    <3> QED
      BY <2>2, <2>6, <2>7, <2>8, <3>1 DEF Scattered
  <2>10. 1 \in 1 .. Len(ss[j]) /\ ss[j][1] = x
    BY <2>9
  <2>11. \E m \in 1 .. Len(FlattenSeq(ss)) : FlattenSeq(ss)[m] = ss[j][1]
    <3>1. PICK i : i = 1
      OBVIOUS
    <3>2. i \in 1 .. Len(ss[j])
      BY <2>10, <3>1
    <3>3. \E m \in 1 .. Len(FlattenSeq(ss)) : FlattenSeq(ss)[m] = ss[j][i]
      BY <2>8, <2>9, <3>2, FlattenHas
    <3> QED
      BY <3>1, <3>3
  <2> QED
    BY <2>6, <2>8, <2>10, <2>11
<1>2. CASE p.mem # NULL
  <2>1. PICK x : x = [at |-> off, off |-> off, n |-> n]
    OBVIOUS
  <2>2. ls_scatter(p, off, n) = <<x>> /\ x.off = off /\ x.n = n
    BY <1>2, <2>1 DEF ls_scatter
  <2>3. o \in Spanned(x)
    BY <2>2 DEF Spanned
  <2>4. PICK ss : ss = <<x>>
    OBVIOUS
  <2>5. 1 \in 1 .. Len(ss) /\ ss[1] = x
    BY <2>4
  <2> QED
    BY <2>2, <2>3, <2>4, <2>5
<1> QED
  BY <1>1, <1>2

-----------------------------------------------------------------------------
(* What the transfers of a call are.                                       *)

\* The pieces that a call may have to transfer: inside its ranges, in the
\* direction it transfers.
Fits(c, p) ==
    {x \in Transfer : /\ Lies(p, x) /\ Spanned(x) \subseteq Covers(c)
                      /\ x.dir = "read" => c.op \in {"read", "acc"}
                      /\ x.dir = "write" => c.op # "read"}

LEMMA DirectedFits ==
    ASSUME NEW c, NEW p, p.ext \in Seq(Extent), NEW off \in Nat, NEW n \in Int, p.mem # NULL => n \in Nat,
           off .. (off + n - 1) \subseteq Covers(c), NEW d \in {"read", "write"},
           d = "read" => c.op \in {"read", "acc"}, d = "write" => c.op # "read"
    PROVE  Directed(d, ls_scatter(p, off, n)) \in Seq(Fits(c, p))
<1>1. PICK s, W : s = ls_scatter(p, off, n) /\ W = Within(p, off, n)
  OBVIOUS
<1>2. s \in Seq(W)
  BY <1>1, ScatterIn
<1>3. ASSUME NEW x \in W
      PROVE  [dir |-> d, at |-> x.at, off |-> x.off, n |-> x.n] \in Fits(c, p)
  <2>1. x \in Span /\ Lies(p, x) /\ off <= x.off /\ x.off + x.n <= off + n
    BY <1>1 DEF Within
  <2>2. x.at \in Nat /\ x.off \in Nat /\ x.n \in Nat
    BY <2>1 DEF Span
  <2>3. PICK y : y = [dir |-> d, at |-> x.at, off |-> x.off, n |-> x.n]
    OBVIOUS
  <2>4. y \in Transfer /\ y.dir = d /\ y.at = x.at /\ y.off = x.off /\ y.n = x.n
    BY <2>2, <2>3 DEF Transfer
  <2>5. Lies(p, y)
    BY <2>1, <2>4 DEF Lies
  <2>6. Spanned(y) \subseteq off .. (off + n - 1)
    BY <2>1, <2>2, <2>4 DEF Spanned
  <2> QED
    BY <2>3, <2>4, <2>5, <2>6 DEF Fits
<1>4. Len(s) \in Nat /\ DOMAIN s = 1 .. Len(s) /\ \A i \in 1 .. Len(s) : s[i] \in W
  BY <1>2
<1>5. PICK ds : ds = Directed(d, s)
  OBVIOUS
<1>6. /\ DOMAIN ds = 1 .. Len(s) /\ ds = [i \in 1 .. Len(s) |-> ds[i]]
      /\ \A i \in 1 .. Len(s) : ds[i] = [dir |-> d, at |-> s[i].at, off |-> s[i].off, n |-> s[i].n]
  BY <1>4, <1>5 DEF Directed
<1>7. \A i \in 1 .. Len(s) : ds[i] \in Fits(c, p)
  BY <1>3, <1>4, <1>6
<1>8. [i \in 1 .. Len(s) |-> ds[i]] \in Seq(Fits(c, p))
  BY <1>4, <1>7, SeqBy
<1> QED
  BY <1>1, <1>5, <1>6, <1>8

\* ls_accumulate's chunks, and what it does to each.
Chunk(off, n, i) == [off |-> off + (i - 1) * CHUNK, n |-> Min({CHUNK, n - (i - 1) * CHUNK})]
Chunks(n) == (n + CHUNK - 1) \div CHUNK
Round(p, x) == Directed("read", ls_scatter(p, x.off, x.n)) \o Directed("write", ls_scatter(p, x.off, x.n))
Rounds(p, s) == [i \in 1 .. Chunks(s.n) |-> Round(p, Chunk(s.off, s.n, i))]

LEMMA ChunkProps ==
    ASSUME NEW off \in Nat, NEW n \in Nat
    PROVE  /\ Chunks(n) \in Nat
           /\ \A i \in 1 .. Chunks(n) :
                /\ Chunk(off, n, i).off \in Nat /\ Chunk(off, n, i).n \in Int
                /\ off <= Chunk(off, n, i).off
                /\ Chunk(off, n, i).off + Chunk(off, n, i).n <= off + n
<1>0. CHUNK \in Nat \ {0}
  BY StoreAssumption
<1>1. Chunks(n) \in Nat
  <2>1. PICK a : a = n + CHUNK - 1
    OBVIOUS
  <2>2. a \in Nat
    BY <1>0, <2>1
  <2>3. a \div CHUNK \in Nat
    BY <1>0, <2>2
  <2> QED
    BY <2>1, <2>3 DEF Chunks
<1>2. ASSUME NEW i \in 1 .. Chunks(n)
      PROVE  /\ Chunk(off, n, i).off \in Nat /\ Chunk(off, n, i).n \in Int
             /\ off <= Chunk(off, n, i).off
             /\ Chunk(off, n, i).off + Chunk(off, n, i).n <= off + n
  <2>1. PICK z : z = (i - 1) * CHUNK
    OBVIOUS
  <2>2. i - 1 \in Nat
    BY <1>1
  <2>3. z \in Nat
    BY <1>0, <2>1, <2>2
  <2>4. PICK q : q = n - z
    OBVIOUS
  <2>5. q \in Int /\ CHUNK \in Int
    BY <1>0, <2>3, <2>4
  <2>6. Min({CHUNK, q}) = IF CHUNK <= q THEN CHUNK ELSE q
    BY <2>5, MinOfTwo
  <2>7. Chunk(off, n, i).off = off + z /\ Chunk(off, n, i).n = Min({CHUNK, q})
    BY <2>1, <2>4 DEF Chunk
  <2>8. Chunk(off, n, i).n \in Int /\ Chunk(off, n, i).n <= q
    BY <2>5, <2>6, <2>7
  <2> QED
    BY <2>3, <2>4, <2>7, <2>8
<1> QED
  BY <1>1, <1>2

\* The transfers of each of a call's ranges.
Parts(c, p) ==
    [i \in DOMAIN c.segs |->
        CASE c.op = "read" -> Directed("read", ls_scatter(p, c.segs[i].off, c.segs[i].n))
          [] c.op = "acc" /\ p.mem = NULL -> FlattenSeq(Rounds(p, c.segs[i]))
          [] OTHER -> Directed("write", ls_scatter(p, c.segs[i].off, c.segs[i].n))]

LEMMA TransfersAre == ASSUME NEW c, NEW p PROVE Transfers(c, p) = FlattenSeq(Parts(c, p))
  BY DEF Transfers, Parts, Rounds, Round, Chunks, Chunk, Directed
LEMMA SegCovered ==
    ASSUME NEW c \in Call, c.op \notin {"reserve", "erase"}, NEW i \in DOMAIN c.segs
    PROVE  c.segs[i].off .. (c.segs[i].off + c.segs[i].n - 1) \subseteq Covers(c)
  BY DEF Covers

LEMMA RoundsFit ==
    ASSUME NEW c \in Call, c.op = "acc", NEW p, p.ext \in Seq(Extent), p.mem = NULL, NEW i \in DOMAIN c.segs
    PROVE  Rounds(p, c.segs[i]) \in Seq(Seq(Fits(c, p)))
<1>1. PICK off, n, m : off = c.segs[i].off /\ n = c.segs[i].n /\ m = Chunks(n)
  OBVIOUS
<1>2. off \in Nat /\ n \in Nat
  <2>1. c.segs \in Seq(Segment)
    BY DEF Call
  <2> QED
    BY <1>1, <2>1, SegFields
<1>3. off .. (off + n - 1) \subseteq Covers(c)
  BY <1>1, SegCovered
<1>4. m \in Nat
  BY <1>1, <1>2, ChunkProps
<1>5. PICK rs, F : rs = Rounds(p, c.segs[i]) /\ F = Fits(c, p)
  OBVIOUS
<1>6. /\ rs = [j \in 1 .. m |-> rs[j]]
      /\ \A j \in 1 .. m : rs[j] = Round(p, Chunk(off, n, j))
  BY <1>1, <1>5 DEF Rounds
<1>7. ASSUME NEW j \in 1 .. m
      PROVE  rs[j] \in Seq(F)
  <2>1. PICK x : x = Chunk(off, n, j)
    OBVIOUS
  <2>2. x.off \in Nat /\ x.n \in Int /\ off <= x.off /\ x.off + x.n <= off + n
    BY <1>1, <1>2, <2>1, ChunkProps
  <2>3. x.off .. (x.off + x.n - 1) \subseteq off .. (off + n - 1)
    BY <1>2, <2>2
  <2>4. x.off .. (x.off + x.n - 1) \subseteq Covers(c)
    BY <1>3, <2>3
  <2>5. /\ Directed("read", ls_scatter(p, x.off, x.n)) \in Seq(F)
        /\ Directed("write", ls_scatter(p, x.off, x.n)) \in Seq(F)
    BY <1>5, <2>2, <2>4, DirectedFits
  <2>6. Round(p, x) \in Seq(F)
    BY <2>5 DEF Round
  <2> QED
    BY <1>6, <2>1, <2>6
<1>8. [j \in 1 .. m |-> rs[j]] \in Seq(Seq(F))
  BY <1>4, <1>7, SeqBy
<1> QED
  BY <1>5, <1>6, <1>8

LEMMA PartsFit ==
    ASSUME NEW c \in Call, c.op \notin {"reserve", "erase"}, NEW p, p.ext \in Seq(Extent)
    PROVE  Parts(c, p) \in Seq(Seq(Fits(c, p))) /\ Len(Parts(c, p)) = Len(c.segs)
<1>0. c.segs \in Seq(Segment)
  BY DEF Call
<1>1. /\ Len(c.segs) \in Nat /\ DOMAIN c.segs = 1 .. Len(c.segs)
      /\ \A i \in 1 .. Len(c.segs) : c.segs[i].off \in Nat /\ c.segs[i].n \in Nat
  BY <1>0, SegFields
<1>2. PICK ss, F : ss = Parts(c, p) /\ F = Fits(c, p)
  OBVIOUS
<1>3. ss = [i \in 1 .. Len(c.segs) |-> ss[i]]
  BY <1>1, <1>2 DEF Parts
<1>4. ASSUME NEW i \in 1 .. Len(c.segs)
      PROVE  ss[i] \in Seq(F)
  <2>1. PICK off, n : off = c.segs[i].off /\ n = c.segs[i].n
    OBVIOUS
  <2>2. off \in Nat /\ n \in Nat /\ n \in Int
    BY <1>1, <2>1
  <2>3. off .. (off + n - 1) \subseteq Covers(c)
    BY <1>1, <2>1, SegCovered
  <2>4. PICK s : s = ls_scatter(p, off, n)
    OBVIOUS
  <2>5. CASE c.op = "read"
    <3>1. ss[i] = Directed("read", s)
      BY <1>1, <1>2, <2>1, <2>4, <2>5 DEF Parts
    <3>2. Directed("read", s) \in Seq(F)
      BY <1>2, <2>2, <2>3, <2>4, <2>5, DirectedFits
    <3> QED
      BY <3>1, <3>2
  <2>6. CASE c.op = "acc" /\ p.mem = NULL
    <3>1. ss[i] = FlattenSeq(Rounds(p, c.segs[i]))
      BY <1>1, <1>2, <2>6 DEF Parts
    <3>2. Rounds(p, c.segs[i]) \in Seq(Seq(F))
      BY <1>1, <1>2, <2>6, RoundsFit
    <3> QED
      BY <3>1, <3>2, FlattenTyped
  <2>7. CASE c.op # "read" /\ ~(c.op = "acc" /\ p.mem = NULL)
    <3>1. ss[i] = Directed("write", s)
      BY <1>1, <1>2, <2>1, <2>4, <2>7 DEF Parts
    <3>2. Directed("write", s) \in Seq(F)
      BY <1>2, <2>2, <2>3, <2>4, <2>7, DirectedFits
    <3> QED
      BY <3>1, <3>2
  <2> QED
    BY <2>5, <2>6, <2>7
<1>5. [i \in 1 .. Len(c.segs) |-> ss[i]] \in Seq(Seq(F))
  BY <1>1, <1>4, SeqBy
<1>6. Len([i \in 1 .. Len(c.segs) |-> ss[i]]) = Len(c.segs)
  BY <1>1
<1> QED
  BY <1>2, <1>3, <1>5, <1>6

\* Every piece of a call is inside its ranges, where its place has them.
LEMMA TransfersFit ==
    ASSUME NEW c \in Call, c.op \notin {"reserve", "erase"}, NEW p, p.ext \in Seq(Extent)
    PROVE  Transfers(c, p) \in Seq(Fits(c, p))
  BY PartsFit, TransfersAre, FlattenTyped

\* The bytes of some piece.
Pending(s) == {o \in Nat : \E i \in DOMAIN s : o \in Spanned(s[i])}

\* Every byte of a call's ranges that its place has is in some piece.
LEMMA TransfersCover ==
    ASSUME NEW c \in Call, c.op \in {"read", "write", "append"}, NEW p, p.ext \in Seq(Extent),
           NEW o \in Covers(c), p.mem = NULL => o < Base(p.ext, Len(p.ext) + 1)
    PROVE  o \in Pending(Transfers(c, p))
<1>0. c.segs \in Seq(Segment)
  BY DEF Call
<1>1. /\ Len(c.segs) \in Nat /\ DOMAIN c.segs = 1 .. Len(c.segs)
      /\ \A i \in 1 .. Len(c.segs) : c.segs[i].off \in Nat /\ c.segs[i].n \in Nat
  BY <1>0, SegFields
<1>2. PICK i \in 1 .. Len(c.segs) : o \in c.segs[i].off .. (c.segs[i].off + c.segs[i].n - 1)
  BY <1>1 DEF Covers
<1>3. PICK off, n : off = c.segs[i].off /\ n = c.segs[i].n
  OBVIOUS
<1>4. off \in Nat /\ n \in Nat /\ n \in Int /\ o \in off .. (off + n - 1)
  BY <1>1, <1>2, <1>3
<1>5. o \in Nat
  BY <1>4
<1>6. PICK s : s = ls_scatter(p, off, n)
  OBVIOUS
<1>7. PICK l \in 1 .. Len(s) : o \in Spanned(s[l])
  BY <1>4, <1>6, ScatterCovers
<1>8. s \in Seq(Within(p, off, n))
  BY <1>4, <1>6, ScatterIn
<1>9. Len(s) \in Nat /\ DOMAIN s = 1 .. Len(s)
  BY <1>8
<1>10. PICK d, ss, F : /\ d = (IF c.op = "read" THEN "read" ELSE "write")
                       /\ ss = Parts(c, p) /\ F = Fits(c, p)
  OBVIOUS
<1>11. ss[i] = Directed(d, s)
  BY <1>1, <1>3, <1>6, <1>10 DEF Parts
<1>12. DOMAIN ss[i] = 1 .. Len(s) /\ ss[i][l].off = s[l].off /\ ss[i][l].n = s[l].n
  BY <1>9, <1>11 DEF Directed
<1>13. o \in Spanned(ss[i][l])
  BY <1>7, <1>12 DEF Spanned
<1>14. ss \in Seq(Seq(F)) /\ i \in 1 .. Len(ss)
  BY <1>10, PartsFit
<1>15. l \in 1 .. Len(ss[i])
  <2>1. ss[i] \in Seq(F)
    BY <1>14
  <2>2. DOMAIN ss[i] = 1 .. Len(ss[i]) /\ Len(ss[i]) \in Nat
    BY <2>1
  <2> QED
    BY <1>12, <2>2
<1>16. PICK f : f = FlattenSeq(ss)
  OBVIOUS
<1>17. PICK m \in 1 .. Len(f) : f[m] = ss[i][l]
  BY <1>14, <1>15, <1>16, FlattenHas
<1>18. f \in Seq(F)
  BY <1>14, <1>16, FlattenTyped
<1>19. m \in DOMAIN f
  BY <1>17, <1>18
<1>20. o \in Pending(f)
  BY <1>5, <1>13, <1>17, <1>19 DEF Pending
<1> QED
  BY <1>10, <1>16, <1>20, TransfersAre
-----------------------------------------------------------------------------
(* What is where after a write.                                            *)

LEMMA OverwriteAt ==
    ASSUME NEW f, IsSeq(f), NEW at \in Nat, NEW bytes, Len(bytes) \in Nat, NEW i \in Nat, i > 0
    PROVE  /\ i > at /\ i <= at + Len(bytes) => Overwrite(f, at, bytes)[i] = bytes[i - at]
           /\ i <= Len(f) /\ ~(i > at /\ i <= at + Len(bytes)) => Overwrite(f, at, bytes)[i] = f[i]
<1>1. PICK a, b, l : a = Len(f) /\ b = at + Len(bytes) /\ l = Len(bytes)
  OBVIOUS
<1>2. a \in Nat /\ b \in Nat /\ l \in Nat
  BY <1>1 DEF IsSeq
<1>3. PICK m : m = Max({a, b})
  OBVIOUS
<1>4. m = IF a >= b THEN a ELSE b
  BY <1>2, <1>3, MaxOfTwo
<1>5. m \in Nat /\ m >= a /\ m >= b
  BY <1>2, <1>4
<1>6. PICK w : w = Overwrite(f, at, bytes)
  OBVIOUS
<1>7. w = [j \in 1 .. m |-> IF j > at /\ j <= b THEN bytes[j - at]
                            ELSE IF j <= a THEN f[j] ELSE 0]
  BY <1>1, <1>3, <1>6 DEF Overwrite
<1>8. ASSUME i > at, i <= b
      PROVE  w[i] = bytes[i - at]
  <2>1. i \in 1 .. m
    BY <1>2, <1>5, <1>8
  <2> QED
    BY <1>7, <1>8, <2>1
<1>9. ASSUME i <= a, ~(i > at /\ i <= b)
      PROVE  w[i] = f[i]
  <2>1. i \in 1 .. m
    BY <1>2, <1>5, <1>9
  <2> QED
    BY <1>7, <1>9, <2>1
<1> QED
  BY <1>1, <1>6, <1>8, <1>9

\* w is f with bytes at offset at.
Written(w, f, at, bytes) ==
    \A i \in Nat : i > 0 =>
        /\ i > at /\ i <= at + Len(bytes) => w[i] = bytes[i - at]
        /\ i <= Len(f) /\ ~(i > at /\ i <= at + Len(bytes)) => w[i] = f[i]

LEMMA OverwriteIs ==
    ASSUME NEW f, IsSeq(f), NEW at \in Nat, NEW bytes, Len(bytes) \in Nat
    PROVE  Written(Overwrite(f, at, bytes), f, at, bytes)
  BY OverwriteAt DEF Written

LEMMA TruncateAt ==
    ASSUME NEW f, NEW n \in Nat, NEW i \in 1 .. n, i <= Len(f)
    PROVE  ftruncate(f, n)[i] = f[i]
  BY DEF ftruncate

\* No two extents of the list have a byte of the file in common.
Clear(ext) == \A i, j \in DOMAIN ext : i # j => \A b \in Int : ~(In(b, ext[i]) /\ In(b, ext[j]))

LEMMA AddrOwn ==
    ASSUME NEW ext \in Seq(Extent), Clear(ext), NEW o \in Nat, NEW q \in Nat,
           o < Base(ext, Len(ext) + 1), q < Base(ext, Len(ext) + 1), Addr(ext, o) = Addr(ext, q)
    PROVE  o = q
<1>0. /\ Len(ext) \in Nat /\ DOMAIN ext = 1 .. Len(ext)
      /\ \A l \in 1 .. Len(ext) : ext[l].len \in Nat /\ ext[l].foff \in Nat
      /\ \A l \in 1 .. (Len(ext) + 1) : Base(ext, l) \in Nat
  BY HoleFields, BaseProps
<1>1. PICK i \in DOMAIN ext : Base(ext, i) <= o /\ o < Base(ext, i) + ext[i].len
  BY CoveringExtent
<1>2. PICK j \in DOMAIN ext : Base(ext, j) <= q /\ q < Base(ext, j) + ext[j].len
  BY CoveringExtent
<1>3. PICK a, b : a = Addr(ext, o) /\ b = Base(ext, i)
  OBVIOUS
<1>4. a = ext[i].foff + (o - b) /\ a \in Nat /\ In(a, ext[i])
  BY <1>1, <1>3, AddrIn
<1>5. a = ext[j].foff + (q - Base(ext, j)) /\ In(a, ext[j])
  BY <1>2, <1>3, AddrIn
<1>6. i = j
  BY <1>4, <1>5 DEF Clear
<1>7. b \in Nat /\ ext[i].foff \in Nat
  <2>1. i \in 1 .. Len(ext) /\ i \in 1 .. (Len(ext) + 1)
    BY <1>0
  <2> QED
    BY <1>0, <1>3, <2>1
<1>8. a = ext[i].foff + (q - b)
  BY <1>3, <1>5, <1>6
<1>9. PICK e : e = ext[i].foff
  OBVIOUS
<1>10. a = e + (o - b) /\ a = e + (q - b) /\ e \in Nat /\ b \in Nat
  BY <1>4, <1>7, <1>8, <1>9
<1> QED
  BY <1>10, SMT

\* The bytes that spill writes.
LEMMA WriteOutAt ==
    ASSUME NEW f, IsSeq(f), NEW ext \in Seq(Extent), NEW bytes, NEW size \in Nat,
           \A j \in DOMAIN ext : End(ext[j]) <= Len(f), NEW w, w = WriteOut(f, ext, bytes, size)
    PROVE  /\ \A a \in Nat : a < Len(f) /\ (\A j \in DOMAIN ext : ~In(a, ext[j])) => w[a + 1] = f[a + 1]
           /\ Clear(ext) => \A o \in Nat : o < size /\ o < Base(ext, Len(ext) + 1) =>
                               w[Addr(ext, o) + 1] = bytes[o + 1]
           /\ Clear(ext) => \A o \in Nat : size <= o /\ o < Base(ext, Len(ext) + 1) =>
                               w[Addr(ext, o) + 1] = f[Addr(ext, o) + 1]
<1>1. PICK b, n, at, m : /\ b = Base(ext, Len(ext) + 1) /\ n = Min({size, b})
                         /\ at = [o \in 1 .. n |-> Addr(ext, o - 1) + 1]
                         /\ m = Max({Len(f)} \cup Range(at))
  OBVIOUS
<1>2. b \in Nat
  <2>1. Len(ext) \in Nat /\ Len(ext) + 1 \in 1 .. (Len(ext) + 1)
    BY HoleFields
  <2> QED
    BY <1>1, <2>1, BaseProps
<1>3. n = IF size <= b THEN size ELSE b
  BY <1>1, <1>2, MinOfTwo
<1>4. n \in Nat
  BY <1>2, <1>3
<1>5. w = [i \in 1 .. m |-> IF i \in Range(at) THEN bytes[CHOOSE o \in DOMAIN at : at[o] = i]
                            ELSE IF i <= Len(f) THEN f[i] ELSE 0]
  BY <1>1 DEF WriteOut
<1>6. DOMAIN w = 1 .. Len(f) /\ Len(f) \in Nat
  <2>1. IsSeq(w) /\ Len(w) = Len(f)
    BY WriteOutLen
  <2> QED
    BY <2>1 DEF IsSeq
<1>7. DOMAIN w = 1 .. m
  BY <1>5
<1>8. \A o \in 1 .. n : /\ o - 1 \in Nat /\ o - 1 < b /\ o - 1 < size
                        /\ at[o] = Addr(ext, o - 1) + 1
  BY <1>1, <1>2, <1>3, <1>4
<1>9. ASSUME NEW a \in Nat, a < Len(f), \A j \in DOMAIN ext : ~In(a, ext[j])
      PROVE  w[a + 1] = f[a + 1]
  <2>1. PICK i : i = a + 1
    OBVIOUS
  <2>2. i \in 1 .. m /\ i <= Len(f)
    <3>1. i \in 1 .. Len(f)
      BY <1>6, <1>9, <2>1
    <3>2. 1 .. Len(f) = 1 .. m
      BY <1>6, <1>7
    <3>3. i \in 1 .. m
      BY <3>1, <3>2, Zenon
    <3>4. i <= Len(f)
      BY <1>6, <3>1
    <3> QED
      BY <3>3, <3>4
  <2>3. i \notin Range(at)
    <3> SUFFICES ASSUME i \in Range(at) PROVE FALSE
      OBVIOUS
    <3>1. PICK o \in 1 .. n : at[o] = i
      BY <1>1 DEF Range
    <3>2. PICK q : q = o - 1
      OBVIOUS
    <3>3. q \in Nat /\ q < b /\ i = Addr(ext, q) + 1
      BY <1>8, <3>1, <3>2
    <3>4. PICK j \in DOMAIN ext : Base(ext, j) <= q /\ q < Base(ext, j) + ext[j].len
      BY <1>1, <3>3, CoveringExtent
    <3>5. Addr(ext, q) \in Nat /\ In(Addr(ext, q), ext[j])
      BY <3>3, <3>4, AddrIn
    <3>6. Addr(ext, q) = a
      BY <2>1, <3>3, <3>5
    <3> QED
      BY <1>9, <3>5, <3>6
  <2> QED
    BY <1>5, <2>1, <2>2, <2>3
<1>10. ASSUME Clear(ext), NEW o \in Nat, o < size, o < b
       PROVE  w[Addr(ext, o) + 1] = bytes[o + 1]
  <2>1. PICK i, p : p = o + 1 /\ i = Addr(ext, o) + 1
    OBVIOUS
  <2>2. p \in 1 .. n /\ p - 1 = o
    BY <1>2, <1>3, <1>4, <1>10, <2>1
  <2>3. at[p] = i /\ DOMAIN at = 1 .. n
    BY <1>1, <1>8, <2>1, <2>2
  <2>4. i \in Range(at)
    BY <2>2, <2>3 DEF Range
  <2>5. PICK q : q = CHOOSE x \in DOMAIN at : at[x] = i
    OBVIOUS
  <2>6. q \in 1 .. n /\ at[q] = i
    BY <2>2, <2>3, <2>5
  <2>7. q - 1 \in Nat /\ q - 1 < b /\ i = Addr(ext, q - 1) + 1
    BY <1>8, <2>6
  <2>8. PICK j \in DOMAIN ext : Addr(ext, o) \in Nat /\ Addr(ext, o) < End(ext[j])
    BY <1>1, <1>10, AddrProps
  <2>9. PICK l : l = q - 1
    OBVIOUS
  <2>10. PICK h \in DOMAIN ext : Addr(ext, l) \in Nat /\ Addr(ext, l) < End(ext[h])
    BY <1>1, <2>7, <2>9, AddrProps
  <2>11. Addr(ext, o) = Addr(ext, l)
    BY <2>1, <2>7, <2>8, <2>9, <2>10
  <2>12. o = l
    BY <1>1, <1>10, <2>7, <2>9, <2>11, AddrOwn
  <2>13. q = p
    BY <2>1, <2>6, <2>9, <2>12
  <2>14. End(ext[j]) <= Len(f) /\ End(ext[j]) \in Nat
    <3>1. ext[j].foff \in Nat /\ ext[j].len \in Nat
      BY HoleFields
    <3> QED
      BY <3>1 DEF End
  <2>15. i \in 1 .. m
    <3>1. PICK a, e, l0 : a = Addr(ext, o) /\ e = End(ext[j]) /\ l0 = Len(f)
      OBVIOUS
    <3>2. a \in Nat /\ e \in Nat /\ l0 \in Nat /\ a < e /\ e <= l0 /\ i = a + 1
      BY <1>6, <2>1, <2>8, <2>14, <3>1
    <3>3. i \in 1 .. l0
      BY <3>2
    <3>4. 1 .. l0 = 1 .. m
      BY <1>6, <1>7, <3>1
    <3> QED
      BY <3>3, <3>4
  <2>16. w[i] = bytes[q]
    BY <1>5, <2>4, <2>5, <2>15
  <2> QED
    BY <2>1, <2>13, <2>16
<1>11. ASSUME Clear(ext), NEW o \in Nat, size <= o, o < b
       PROVE  w[Addr(ext, o) + 1] = f[Addr(ext, o) + 1]
  <2>1. PICK j \in DOMAIN ext : Addr(ext, o) \in Nat /\ Addr(ext, o) < End(ext[j])
    BY <1>1, <1>11, AddrProps
  <2>2. PICK i, a : a = Addr(ext, o) /\ i = a + 1
    OBVIOUS
  <2>3. i \in 1 .. m /\ i <= Len(f)
    <3>1. ext[j].foff \in Nat /\ ext[j].len \in Nat /\ End(ext[j]) <= Len(f)
      BY HoleFields
    <3>2. i \in 1 .. Len(f)
      BY <1>6, <2>1, <2>2, <3>1 DEF End
    <3>3. 1 .. Len(f) = 1 .. m
      BY <1>6, <1>7
    <3>4. i \in 1 .. m
      BY <3>2, <3>3, Zenon
    <3>5. i <= Len(f)
      BY <1>6, <3>2
    <3> QED
      BY <3>4, <3>5
  <2>4. i \notin Range(at)
    <3> SUFFICES ASSUME i \in Range(at) PROVE FALSE
      OBVIOUS
    <3>1. PICK p \in 1 .. n : at[p] = i
      BY <1>1 DEF Range
    <3>2. PICK q : q = p - 1
      OBVIOUS
    <3>3. q \in Nat /\ q < b /\ q < size /\ i = Addr(ext, q) + 1
      BY <1>8, <3>1, <3>2
    <3>4. PICK h \in DOMAIN ext : Addr(ext, q) \in Nat /\ Addr(ext, q) < End(ext[h])
      BY <1>1, <3>3, AddrProps
    <3>5. Addr(ext, q) = Addr(ext, o)
      BY <2>1, <2>2, <3>3, <3>4
    <3>6. o = q
      BY <1>1, <1>11, <3>3, <3>5, AddrOwn
    <3> QED
      BY <1>11, <3>3, <3>6
  <2> QED
    BY <1>5, <2>2, <2>3, <2>4
<1> QED
  BY <1>1, <1>9, <1>10, <1>11
-----------------------------------------------------------------------------
(* Whole blocks: every extent and hole is made of them.                    *)

Grid ==
    /\ \A e \in Owned : OnGrid(e)
    /\ AllOnGrid(fl)
    /\ (file_end - LS_SUPER_SIZE) % LS_ALIGN = 0

LEMMA OwnedKept ==
    ASSUME Safe, NEW t \in Threads, Step(t), ~Alloc(t), ~Free(t)
    PROVE  Owned' \subseteq Owned /\ UNCHANGED <<fl, flcap, file_end, lost>>
<1>0. Types /\ Control /\ Holding /\ Space
  BY DEF Safe
<1>n. Range(<< >>) = {}
  BY DEF Range
<1>k. ASSUME Extents' \subseteq Extents, UNCHANGED <<fresh, dying, lost>>
      PROVE  Owned' \subseteq Owned
  BY <1>k DEF Owned
<1>1. ASSUME NEW c \in Calls, StartRead(t, c) \/ StartGrow(t, Resolve(c))
      PROVE  UNCHANGED <<fl, flcap, file_end, lost, fresh, dying>> /\ ~Zero(t)
  <2>1. UNCHANGED <<fl, flcap, file_end, lost, fresh, dying>> /\ pc[t] = "idle"
    BY <1>1 DEF StartRead, StartGrow, Enter, space
  <2> QED
    BY <2>1 DEF Zero
<1>2. ASSUME NEW c \in Calls, ls_erase(t, c)
      PROVE  Owned' \subseteq Owned /\ UNCHANGED <<fl, flcap, file_end, lost>>
  <2>1. UNCHANGED <<fl, flcap, file_end, lost, fresh>> /\ dying' = rec[c.key].ext /\ c.key \in DOMAIN rec
        /\ pc[t] = "idle"
    BY <1>2 DEF ls_erase, ls_rec_free, space, Enter
  <2>2. ~Zero(t)
    BY <2>1 DEF Zero
  <2>3. Range(dying') \subseteq Extents
    BY <2>1, ExtentsAre DEF Range
  <2>4. Extents' \subseteq Extents
    BY <2>2, ExtentsKept
  <2> QED
    BY <2>1, <2>3, <2>4 DEF Owned
<1>3. CASE QuietStep(t)
  <2>1. UNCHANGED <<fl, flcap, file_end, lost, fresh, dying, rec>>
    BY <1>3, QuietSteps DEF Quiet
  <2> QED
    BY <2>1 DEF Owned, Extents
<1>4. CASE ZeroFails(t)
  <2>1. UNCHANGED <<fl, flcap, file_end, lost, rec>> /\ dying' = fresh /\ fresh' = << >>
    BY <1>4 DEF ZeroFails, space
  <2>2. Range(fresh') = {} /\ Range(dying') = Range(fresh) /\ Extents' = Extents
    BY <1>n, <2>1 DEF Extents
  <2> QED
    BY <2>1, <2>2 DEF Owned
<1>5. CASE Zero(t)
  <2>1. UNCHANGED <<fl, flcap, file_end, lost, dying>> /\ fresh' = << >>
    BY <1>5 DEF Zero, space
  <2>2. PICK k, r, e, x, y : k = Grown(t) /\ r = rec[k] /\ e = fresh[1]
                           /\ x = Append(r.ext, e) /\ y = r.ext_total + e.len
    OBVIOUS
  <2>3. k \in DOMAIN rec /\ e \in Extent /\ Sets(k, [r EXCEPT !.ext = x, !.ext_total = y])
        /\ Len(fresh) = 1
    BY <1>0, <1>5, <2>2, ZeroEffect
  <2>4. r \in Record /\ r.ext \in Seq(Extent)
    BY <1>0, <2>2, <2>3, RecordFields DEF Types
  <2>5. rec'[k].ext = x
    BY <2>3, <2>4, RecordUpdates DEF Sets
  <2>6. \A i \in DOMAIN x : x[i] = e \/ (i \in DOMAIN r.ext /\ x[i] = r.ext[i])
    BY <2>2, <2>3, <2>4
  <2>7. e \in Range(fresh)
    <3>1. fresh \in Seq(Extent)
      BY <1>0 DEF Space
    <3>2. 1 \in DOMAIN fresh
      BY <2>3, <3>1
    <3> QED
      BY <2>2, <3>2 DEF Range
  <2>8. ASSUME NEW d \in Extents'
        PROVE  d = e \/ d \in Extents
    <3>1. PICK j \in DOMAIN rec' : \E i \in DOMAIN rec'[j].ext : d = rec'[j].ext[i]
      BY ExtentsAre
    <3>2. PICK i \in DOMAIN rec'[j].ext : d = rec'[j].ext[i]
      BY <3>1
    <3>3. CASE j = k
      BY <2>2, <2>3, <2>5, <2>6, <3>2, <3>3, ExtentsAre
    <3>4. CASE j # k
      <4>1. j \in DOMAIN rec /\ rec'[j] = rec[j]
        BY <2>3, <3>4 DEF Sets
      <4> QED
        BY <3>2, <4>1, ExtentsAre
    <3> QED
      BY <3>3, <3>4
  <2>9. Range(fresh') = {} /\ Range(dying') = Range(dying)
    BY <1>n, <2>1
  <2> QED
    BY <2>1, <2>7, <2>8, <2>9 DEF Owned
<1>6. CASE Leave(t) \/ Fit(t) \/ Spill(t) \/ Ready(t) \/ Reserved(t)
  <2>1. UNCHANGED <<fl, flcap, file_end, lost, fresh, dying>> /\ pc[t] # "zero"
    BY <1>6 DEF Leave, Fit, Spill, Ready, Reserved, space, lock
  <2>2. ~Zero(t)
    BY <2>1 DEF Zero
  <2> QED
    BY <1>k, <2>1, <2>2, ExtentsKept
<1>7. ASSUME NEW c \in Calls, StartRead(t, c) \/ StartGrow(t, Resolve(c))
      PROVE  Owned' \subseteq Owned /\ UNCHANGED <<fl, flcap, file_end, lost>>
  BY <1>1, <1>7, <1>k, ExtentsKept
<1> QED
  BY <1>2, <1>3, <1>4, <1>5, <1>6, <1>7, StepCases

LEMMA GridNext ==
    ASSUME Safe, Grid, NEW t \in Threads, Step(t)
    PROVE  Grid'
<1>0. Types /\ Control /\ Holding /\ Space /\ Accounted(fl, Owned, file_end)
      /\ AllOnGrid(fl) /\ (file_end - LS_SUPER_SIZE) % LS_ALIGN = 0
  BY DEF Safe, Space, Grid
<1>a. fl \in Seq(Extent) /\ Owned \subseteq Extent /\ file_end \in Nat /\ Separated(fl)
  BY <1>0 DEF Accounted
<1>1. CASE ~Alloc(t) /\ ~Free(t)
  <2>1. Owned' \subseteq Owned /\ UNCHANGED <<fl, flcap, file_end, lost>>
    BY <1>1, OwnedKept
  <2> QED
    BY <2>1 DEF Grid
<1>2. CASE Free(t)
  <2>1. PICK e, r : e = Head(dying) /\ r = fl_insert(fl, file_end, e)
    OBVIOUS
  <2>2. dying # << >> /\ dying' = Tail(dying) /\ UNCHANGED <<rec, fresh>>
    BY <1>2 DEF Free
  <2>f. \/ fl' = r.fl /\ file_end' = r.file_end /\ lost' = lost
        \/ fl' = fl /\ file_end' = file_end /\ lost' = lost \cup {e}
    BY <1>2, <2>1 DEF Free, Inserted, Dropped
  <2>3. dying \in Seq(Extent) /\ Len(dying) \in Nat \ {0} /\ DOMAIN dying = 1 .. Len(dying)
    BY <1>0, <2>2, EmptySeq DEF Space
  <2>4. e \in Range(dying)
    BY <2>1, <2>3 DEF Range
  <2>5. Range(dying') \subseteq Range(dying)
    <3> SUFFICES ASSUME NEW d \in Range(dying') PROVE d \in Range(dying)
      OBVIOUS
    <3>1. PICK i \in 1 .. (Len(dying) - 1) : d = dying[i + 1]
      BY <2>2, <2>3 DEF Range
    <3>2. i + 1 \in DOMAIN dying
      BY <2>3
    <3> QED
      BY <3>1, <3>2 DEF Range
  <2>6. Owned' \subseteq Owned /\ e \in Owned
    BY <2>2, <2>4, <2>5, <2>f DEF Owned, Extents
  <2>7. e \in Extent /\ OnGrid(e)
    BY <1>a, <2>6 DEF Grid
  <2>8. OffList(e, fl)
    BY <1>0, <2>6 DEF OffList, Accounted, Partitioned, InOwned
  <2>9. Coalesce(fl, e) \in Seq(Extent)
    BY <1>a, <2>7, <2>8, CoalesceProps
  <2>10. AllOnGrid(r.fl) /\ (r.file_end - LS_SUPER_SIZE) % LS_ALIGN = 0
    BY <1>0, <1>a, <2>1, <2>7, <2>9, GridFlInsert
  <2> QED
    BY <1>0, <2>6, <2>10, <2>f DEF Grid
<1>3. CASE Alloc(t)
  <2>1. pc[t] = "extents" /\ Deficit(t) > 0 /\ UNCHANGED <<rec, lost, dying>>
    BY <1>3 DEF Alloc
  <2>2. Key(t) \in DOMAIN rec /\ Need(t) \in Nat
    BY <1>0, <2>1, NotErasing, Caught
  <2>3. Deficit(t) \in Nat \ {0}
    <3>1. \A k \in DOMAIN rec : rec[k].size \in Nat /\ rec[k].ext_total \in Nat
      BY <1>0, RecordFields DEF Types
    <3>2. vic # NoKey => vic \in DOMAIN rec
      BY <1>0 DEF Holding
    <3> QED
      BY <2>1, <2>2, <3>1, <3>2 DEF Wanted, Grown, Deficit
  <2>4. PICK need : need = Request(t)
    OBVIOUS
  <2>5. need \in Nat \ {0} /\ need % LS_ALIGN = 0
    BY <2>3, <2>4, RoundUpProps, RoundUpAligned DEF Request
  <2>6. ASSUME NEW e, fresh' = <<e>>, OnGrid(e), AllOnGrid(fl'), (file_end' - LS_SUPER_SIZE) % LS_ALIGN = 0
        PROVE  Grid'
    <3>1. Range(fresh') = {e}
      BY <2>6 DEF Range
    <3>2. \A d \in Owned' : d = e \/ d \in Owned
      BY <2>1, <3>1 DEF Owned, Extents
    <3> QED
      BY <2>6, <3>2 DEF Grid
  <2>7. CASE Fitting(fl, need) # {}
    <3>1. PICK e, g, k : /\ k = BestFit(fl, need) /\ e = [foff |-> fl[k].foff, len |-> need]
                         /\ g = TakeFront(fl, k, need)
      OBVIOUS
    <3>2. fresh' = <<e>> /\ fl' = g /\ file_end' = file_end
      BY <1>3, <2>4, <2>7, <3>1 DEF Alloc
    <3>3. k \in Fitting(fl, need)
      BY <1>a, <2>5, <2>7, <3>1, BestFitProps
    <3>4. k \in DOMAIN fl /\ need <= fl[k].len /\ fl[k] \in Extent /\ OnGrid(fl[k])
      BY <1>0, <1>a, <2>5, <3>3, HoleFields DEF Fitting, AllOnGrid
    <3>5. OnGrid(e)
      BY <2>5, <3>1, <3>4 DEF OnGrid
    <3>6. AllOnGrid(g)
      BY <1>0, <1>a, <2>5, <3>1, <3>4, GridTakeFront
    <3> QED
      BY <1>0, <2>6, <3>2, <3>5, <3>6
  <2>8. CASE /\ fl # << >> /\ fresh' = <<fl[Largest(fl)]>>
             /\ fl' = RemoveAt(fl, Largest(fl)) /\ UNCHANGED file_end
    <3>1. PICK k : k = Largest(fl)
      OBVIOUS
    <3>2. k \in DOMAIN fl
      BY <1>0, <2>8, <3>1, AccountLargest
    <3>3. k \in 1 .. Len(fl) /\ OnGrid(fl[k])
      BY <1>0, <1>a, <3>2, HoleFields DEF AllOnGrid
    <3>4. AllOnGrid(RemoveAt(fl, k))
      BY <1>0, <1>a, <3>3, GridRemoveAt
    <3> QED
      BY <1>0, <2>6, <2>8, <3>1, <3>3, <3>4
  <2>9. CASE /\ fresh' = <<[foff |-> file_end, len |-> need]>>
             /\ file_end' = file_end + need /\ UNCHANGED fl
    <3>1. PICK e : e = [foff |-> file_end, len |-> need]
      OBVIOUS
    <3>2. e.foff = file_end /\ e.len = need
      BY <3>1
    <3>3. OnGrid(e)
      BY <1>0, <2>5, <3>2 DEF OnGrid
    <3>4. file_end - LS_SUPER_SIZE \in Int
      BY <1>a, SuperAssumption
    <3>5. ((file_end - LS_SUPER_SIZE) + need) % LS_ALIGN = 0
      BY <1>0, <2>5, <3>4, MultiplesAdd
    <3>6. (file_end - LS_SUPER_SIZE) + need = (file_end + need) - LS_SUPER_SIZE
      BY <1>a, <2>5, SuperAssumption
    <3>7. (file_end' - LS_SUPER_SIZE) % LS_ALIGN = 0
      BY <2>9, <3>5, <3>6
    <3> QED
      BY <1>0, <2>6, <2>9, <3>1, <3>3, <3>7
  <2> QED
    BY <1>3, <2>4, <2>7, <2>8, <2>9 DEF Alloc
<1> QED
  BY <1>1, <1>2, <1>3
-----------------------------------------------------------------------------
(* What a step leaves alone.                                               *)

\* While one thread has the lock, another can only be transferring.
LEMMA Bystander ==
    ASSUME Types, Control, Holding, NEW t \in Threads, Step(t), lk \in Threads, lk # t
    PROVE  UNCHANGED <<rec, vic, lk, lru, resident, fl, flcap, file_end, lost, fresh, dying>> /\ pc[t] = "io"
<1>1. lk # NoThread
  BY StoreAssumption
<1>2. CASE \E c \in Calls : StartRead(t, c) \/ StartGrow(t, Resolve(c)) \/ ls_erase(t, c)
  BY <1>1, <1>2 DEF StartRead, StartGrow, ls_erase, Enter
<1>3. CASE Leave(t)
  BY <1>1, <1>3 DEF Leave
<1>4. CASE \/ MemPiece(t) \/ ReadPiece(t) \/ Bounce(t) \/ WritePiece(t) \/ PieceFails(t)
           \/ Transferred(t)
  BY <1>4 DEF MemPiece, ReadPiece, Bounce, WritePiece, PieceFails, Transferred, memory, space, lock
<1>5. CASE \/ Cap(t) \/ Evict(t) \/ Fit(t) \/ NoFit(t)
           \/ Alloc(t) \/ Zero(t) \/ ZeroFails(t)
           \/ Spill(t) \/ SpillFails(t) \/ Backed(t)
           \/ Free(t) \/ Freed(t)
           \/ Ready(t) \/ Reserved(t)
  BY <1>5, HolderShape
<1> QED
  BY <1>2, <1>3, <1>4, <1>5 DEF Step

\* A record that is being made to fit in the memory tier, by eviction of others,
\* has no extents.
Untiered(t) ==
    pc[t] \in {"evict", "fit"} \/ (lk = t /\ vic # NoKey /\ vic # Key(t)) => rec[Key(t)].ext = << >>

LEMMA UntieredNext ==
    ASSUME Safe, \A u \in Threads : Untiered(u), NEW t \in Threads, Step(t)
    PROVE  \A u \in Threads : Untiered(u)'
<1>0. Types /\ Control /\ Holding /\ Space /\ Memory
  BY DEF Safe
<1>p. pc \in [Threads -> Where] /\ NoThread \notin Threads /\ NoKey \notin Keys
  BY <1>0, StoreAssumption DEF Types
<1>g. \A w : Goto(t, w) => pc'[t] = w
  BY <1>p DEF Goto
<1>1. ASSUME NEW u \in Threads \ {t}
      PROVE  Untiered(u)'
  <2>1. pc'[u] = pc[u] /\ call'[u] = call[u]
    BY <1>0, OthersStay
  <2>2. lk' \in {lk, t, NoThread}
    BY <1>0, StepShape DEF Shape, Stays, Moves, Returns, Departs, Ends, Leaves, Enters, Begins
  <2>3. pc[u] \in {"evict", "fit"} => lk = u
    BY <1>0 DEF Control, Locked
  <2>4. ASSUME lk = u PROVE rec' = rec /\ vic' = vic /\ lk' = lk
    BY <1>0, <2>4, Bystander
  <2>5. CASE lk = u
    BY <2>1, <2>4, <2>5 DEF Untiered, Key
  <2>6. CASE lk # u
    <3>1. lk' # u
      BY <1>p, <2>2, <2>6
    <3>2. pc'[u] \notin {"evict", "fit"}
      BY <2>1, <2>3, <2>6
    <3> QED
      BY <3>1, <3>2 DEF Untiered
  <2> QED
    BY <2>5, <2>6
<1>v. vic # NoKey => lk \in Threads /\ pc[lk] \in Spills
  BY <1>0 DEF Holding
<1>2. CASE \E c \in Calls : StartRead(t, c) \/ StartGrow(t, Resolve(c)) \/ ls_erase(t, c)
  <2>1. lk = NoThread /\ vic' = vic /\ pc'[t] \in {"io", "cap", "free"}
    BY <1>2, <1>p DEF StartRead, StartGrow, ls_erase, Enter, Launch
  <2>2. vic' = NoKey
    BY <1>p, <1>v, <2>1
  <2> QED
    BY <2>1, <2>2, <1>1 DEF Untiered
<1>3. CASE \/ MemPiece(t) \/ ReadPiece(t) \/ Bounce(t) \/ WritePiece(t) \/ PieceFails(t)
           \/ Transferred(t) \/ Leave(t)
  <2>1. pc[t] \notin Locked /\ pc'[t] \in {"io", "fin", "idle"} /\ lk' = lk
    BY <1>3, <1>g DEF MemPiece, ReadPiece, Bounce, WritePiece, PieceFails, Transferred, Leave, lock, Locked
  <2>2. lk # t
    BY <1>0, <2>1 DEF Control
  <2> QED
    BY <1>1, <2>1, <2>2 DEF Untiered
<1>4. CASE Cap(t)
  <2>1. pc[t] = "cap" /\ lk = t /\ rec' = rec /\ call' = call /\ vic = NoKey
    <3>1. pc[t] = "cap" /\ rec' = rec /\ call' = call
      BY <1>4 DEF Cap, thread
    <3>2. lk = t
      BY <1>0, <3>1 DEF Control, Locked
    <3> QED
      BY <1>v, <3>1, <3>2 DEF Spills
  <2>2. \/ pc'[t] = "evict" /\ rec[Key(t)].ext = << >>
        \/ pc'[t] \in {"ready", "extents"} /\ vic' \in {vic, NoKey, Key(t)}
    BY <1>4, <1>g DEF Cap, ToExtents
  <2>3. Untiered(t)'
    BY <2>1, <2>2 DEF Untiered, Key
  <2> QED
    BY <1>1, <2>3
<1>5. CASE Evict(t)
  <2>1. pc[t] = "evict" /\ rec' = rec /\ call' = call
    BY <1>5 DEF Evict, thread
  <2>2. rec[Key(t)].ext = << >>
    BY <2>1 DEF Untiered
  <2>3. Untiered(t)'
    BY <2>1, <2>2 DEF Untiered, Key
  <2> QED
    BY <1>1, <2>3
<1>6. CASE NoFit(t)
  <2>1. rec' = rec /\ call' = call /\ pc'[t] = "extents" /\ vic' \in {NoKey, Key(t)}
    BY <1>6, <1>g DEF NoFit, ToExtents, thread
  <2>2. Untiered(t)'
    BY <2>1 DEF Untiered, Key
  <2> QED
    BY <1>1, <2>2
<1>7. CASE Fit(t)
  <2>1. pc[t] = "fit" /\ pc'[t] = "ready" /\ vic' = vic
    BY <1>7, <1>g DEF Fit, lock
  <2>2. lk = t
    BY <1>0, <2>1 DEF Control, Locked
  <2>3. vic' = NoKey
    BY <1>v, <2>1, <2>2 DEF Spills
  <2>4. Untiered(t)'
    BY <2>1, <2>3 DEF Untiered
  <2> QED
    BY <1>1, <2>4
<1>8. CASE Alloc(t) \/ ZeroFails(t) \/ Free(t) \/ Backed(t)
  <2>1. rec' = rec /\ call' = call /\ vic' = vic /\ lk' = lk /\ pc'[t] \in {"zero", "free", "ready"}
    BY <1>8, <1>g, <1>p DEF Alloc, ZeroFails, Free, Backed, thread, lock
  <2>2. Untiered(t)'
    BY <2>1 DEF Untiered, Key
  <2> QED
    BY <1>1, <2>2
<1>9. CASE Zero(t)
  <2>1. call' = call /\ vic' = vic /\ lk' = lk /\ pc'[t] = "extents" /\ pc[t] = "zero"
    BY <1>9, <1>g DEF Zero, thread
  <2>2. ASSUME lk = t, vic # NoKey, vic # Key(t)
        PROVE  rec'[Key(t)].ext = << >>
    <3>1. rec[Key(t)].ext = << >>
      BY <2>2 DEF Untiered
    <3>2. Grown(t) = vic
      BY <2>2 DEF Grown
    <3>3. Key(t) \in DOMAIN rec
      BY <1>0, <2>1, NotErasing, Caught
    <3>4. rec'[Key(t)] = rec[Key(t)]
      BY <1>0, <1>9, <2>2, <3>2, <3>3, ZeroEffect DEF Sets
    <3> QED
      BY <3>1, <3>4
  <2>3. Untiered(t)'
    BY <2>1, <2>2 DEF Untiered, Key
  <2> QED
    BY <1>1, <2>3
<1>10. CASE Spill(t)
  <2>1. vic' = NoKey /\ call' = call /\ pc[t] = "extents" /\ vic # NoKey
        /\ pc'[t] = IF vic = Key(t) THEN "extents" ELSE "evict"
    BY <1>10, <1>g DEF Spill, thread
  <2>2. lk = t
    BY <1>0, <2>1 DEF Control, Locked
  <2>3. ASSUME vic # Key(t)
        PROVE  rec'[Key(t)].ext = << >>
    <3>1. rec[Key(t)].ext = << >>
      BY <2>1, <2>2, <2>3 DEF Untiered
    <3>2. Key(t) \in DOMAIN rec
      BY <1>0, <2>1, NotErasing, Caught
    <3>3. rec'[Key(t)] = rec[Key(t)]
      BY <1>0, <1>10, <2>3, <3>2, SpillEffect DEF Sets
    <3> QED
      BY <3>1, <3>3
  <2>4. Untiered(t)'
    BY <2>1, <2>3 DEF Untiered, Key
  <2> QED
    BY <1>1, <2>4
<1>11. CASE SpillFails(t) \/ Freed(t)
  <2>1. rec' = rec /\ Fail(t) /\ pc[t] \in {"extents", "free"}
    BY <1>11 DEF SpillFails, Freed
  <2>2. lk = t
    BY <1>0, <2>1 DEF Control, Locked
  <2>3. CASE vic # NoKey /\ vic # Key(t)
    <3>1. rec[Key(t)].ext = << >> /\ call' = call
      BY <2>1, <2>2, <2>3 DEF Untiered, Fail
    <3>2. Untiered(t)'
      BY <2>1, <3>1 DEF Untiered, Key
    <3> QED
      BY <1>1, <3>2
  <2>4. CASE ~(vic # NoKey /\ vic # Key(t))
    <3>1. pc'[t] = "idle" /\ lk' = NoThread
      BY <1>g, <2>1, <2>4 DEF Fail
    <3>2. Untiered(t)'
      BY <1>p, <3>1 DEF Untiered
    <3> QED
      BY <1>1, <3>2
  <2> QED
    BY <2>3, <2>4
<1>12. CASE Ready(t) \/ Reserved(t)
  <2>1. lk' = NoThread /\ pc'[t] \in {"io", "idle"}
    BY <1>12, <1>g, <1>p DEF Ready, Reserved, Launch
  <2>2. Untiered(t)'
    BY <1>p, <2>1 DEF Untiered
  <2> QED
    BY <1>1, <2>2
<1> QED
  BY <1>2, <1>3, <1>4, <1>5, <1>6, <1>7, <1>8, <1>9, <1>10, <1>11, <1>12 DEF Step
LEMMA OthersHold ==
    ASSUME Safe, Pieces, DOMAIN buf = Threads, NEW t \in Threads, Step(t)
    PROVE  /\ DOMAIN buf' = Threads
           /\ \A u \in Threads \ {t} : buf'[u] = buf[u] /\ bounce'[u] = bounce[u] /\ rc'[u] = rc[u]
<1>0. DOMAIN buf = Threads /\ DOMAIN bounce = Threads /\ DOMAIN rc = Threads
  BY DEF Safe, Types, Pieces
<1>1. (\E x : buf' = [buf EXCEPT ![t] = x]) \/ buf' = buf
  <2>1. CASE \E c \in Calls : StartRead(t, c) \/ StartGrow(t, Resolve(c)) \/ ls_erase(t, c)
    BY <2>1 DEF StartRead, StartGrow, ls_erase
  <2>2. CASE MemPiece(t)
    BY <2>2 DEF MemPiece
  <2>3. CASE ReadPiece(t) \/ Bounce(t) \/ WritePiece(t) \/ PieceFails(t) \/ Transferred(t) \/ Leave(t)
    BY <2>3 DEF ReadPiece, Bounce, WritePiece, PieceFails, Transferred, Leave, thread
  <2>4. CASE Cap(t) \/ Evict(t) \/ Fit(t) \/ NoFit(t) \/ Alloc(t) \/ Zero(t) \/ ZeroFails(t)
    BY <2>4 DEF Cap, Evict, Fit, NoFit, Alloc, Zero, ZeroFails, thread
  <2>5. CASE Spill(t) \/ SpillFails(t) \/ Backed(t) \/ Free(t) \/ Freed(t) \/ Ready(t) \/ Reserved(t)
    BY <2>5 DEF Spill, SpillFails, Backed, Free, Freed, Ready, Reserved, thread
  <2> QED
    BY <2>1, <2>2, <2>3, <2>4, <2>5 DEF Step
<1>2. (\E x : bounce' = [bounce EXCEPT ![t] = x]) \/ bounce' = bounce
  <2>1. CASE \E c \in Calls : StartRead(t, c) \/ StartGrow(t, Resolve(c)) \/ ls_erase(t, c)
    BY <2>1 DEF StartRead, StartGrow, ls_erase
  <2>3. CASE MemPiece(t) \/ ReadPiece(t) \/ Bounce(t) \/ WritePiece(t) \/ PieceFails(t)
             \/ Transferred(t) \/ Leave(t)
    BY <2>3 DEF MemPiece, ReadPiece, Bounce, WritePiece, PieceFails, Transferred, Leave, thread
  <2>4. CASE Cap(t) \/ Evict(t) \/ Fit(t) \/ NoFit(t) \/ Alloc(t) \/ Zero(t) \/ ZeroFails(t)
    BY <2>4 DEF Cap, Evict, Fit, NoFit, Alloc, Zero, ZeroFails, thread
  <2>5. CASE Spill(t) \/ SpillFails(t) \/ Backed(t) \/ Free(t) \/ Freed(t) \/ Ready(t) \/ Reserved(t)
    BY <2>5 DEF Spill, SpillFails, Backed, Free, Freed, Ready, Reserved, thread
  <2> QED
    BY <2>1, <2>3, <2>4, <2>5 DEF Step
<1>3. (\E x : rc' = [rc EXCEPT ![t] = x]) \/ rc' = rc
  <2>1. CASE \E c \in Calls : StartRead(t, c) \/ StartGrow(t, Resolve(c)) \/ ls_erase(t, c)
    BY <2>1 DEF StartRead, StartGrow, ls_erase
  <2>3. CASE MemPiece(t) \/ ReadPiece(t) \/ Bounce(t) \/ WritePiece(t) \/ PieceFails(t)
             \/ Transferred(t) \/ Leave(t)
    BY <2>3 DEF MemPiece, ReadPiece, Bounce, WritePiece, PieceFails, Transferred, Leave, thread
  <2>4. CASE Cap(t) \/ Evict(t) \/ Fit(t) \/ NoFit(t) \/ Alloc(t) \/ Zero(t) \/ ZeroFails(t)
    BY <2>4 DEF Cap, Evict, Fit, NoFit, Alloc, Zero, ZeroFails, thread
  <2>5. CASE Spill(t) \/ SpillFails(t) \/ Backed(t) \/ Free(t) \/ Freed(t) \/ Ready(t) \/ Reserved(t)
    BY <2>5 DEF Spill, SpillFails, Backed, Free, Freed, Ready, Reserved, thread
  <2> QED
    BY <2>1, <2>3, <2>4, <2>5 DEF Step
<1> QED
  BY <1>0, <1>1, <1>2, <1>3

-----------------------------------------------------------------------------
(* What threads have to do.                                                *)

Tasks(u) ==
    /\ pc[u] = "io" => /\ call[u].op \notin {"reserve", "erase"}
                       /\ todo[u] \in Seq(Fits(call[u], place[u]))
    /\ pc[u] = "fin" => /\ call[u].op \notin {"reserve", "erase"}
                        /\ todo[u] = << >>

LEMMA TasksNext ==
    ASSUME Safe, Pieces, \A u \in Threads : Tasks(u), NEW t \in Threads, Step(t)
    PROVE  \A u \in Threads : Tasks(u)'
<1>0. Types /\ Control /\ Holding /\ DOMAIN pc = Threads /\ DOMAIN call = Threads
      /\ DOMAIN place = Threads /\ DOMAIN todo = Threads
  BY DEF Safe, Types
<1>g. \A w : Goto(t, w) => pc'[t] = w
  BY <1>0 DEF Goto
<1>1. ASSUME NEW u \in Threads \ {t}
      PROVE  Tasks(u)'
  <2>1. pc'[u] = pc[u] /\ call'[u] = call[u] /\ place'[u] = place[u] /\ todo'[u] = todo[u]
    BY OthersStay
  <2> QED
    BY <2>1 DEF Tasks
<1>l. ASSUME NEW c \in Call, c.op \notin {"reserve", "erase"}, NEW r \in Record, NEW n,
             Launch(t, c, r, n), call'[t] = c
      PROVE  Tasks(t)'
  <2>1. PICK p : p = [mem |-> r.mem, ext |-> r.ext]
    OBVIOUS
  <2>2. p.ext \in Seq(Extent)
    BY <2>1, RecordFields
  <2>3. pc'[t] = "io" /\ place'[t] = p /\ todo'[t] = Transfers(c, p)
    BY <1>0, <1>l, <2>1 DEF Launch
  <2>4. Transfers(c, p) \in Seq(Fits(c, p))
    BY <2>2, <1>l, TransfersFit
  <2> QED
    BY <1>l, <2>3, <2>4 DEF Tasks
<1>2. ASSUME NEW c \in Calls, c.op = "read", StartRead(t, c)
      PROVE  Tasks(t)'
  <2>1. c \in Call /\ c.key \in DOMAIN rec /\ rec[c.key] \in Record
    BY <1>0, <1>2, CallsAssumption DEF StartRead, Types, Calls
  <2>2. Launch(t, c, rec[c.key], rec[c.key].size) /\ call'[t] = c
    BY <1>0, <1>2 DEF StartRead
  <2> QED
    BY <1>l, <1>2, <2>1, <2>2
<1>3. ASSUME Ready(t)
      PROVE  Tasks(t)'
  <2>1. call[t] \in Call /\ rec[Key(t)] \in Record /\ call[t].op \notin {"reserve", "erase"}
    BY <1>0, <1>3, NotErasing, Caught DEF Ready
  <2>2. Launch(t, call[t], rec[Key(t)], NewSize(rec[Key(t)], Need(t))) /\ call'[t] = call[t]
    BY <1>3 DEF Ready
  <2> QED
    BY <1>l, <2>1, <2>2
<1>4. ASSUME MemPiece(t) \/ ReadPiece(t) \/ WritePiece(t) \/ PieceFails(t)
      PROVE  Tasks(t)'
  <2>1. pc[t] = "io" /\ todo[t] # << >> /\ pc' = pc /\ call' = call /\ place' = place
    BY <1>4 DEF MemPiece, ReadPiece, WritePiece, PieceFails
  <2>2. todo'[t] \in {Tail(todo[t]), << >>}
    BY <1>0, <1>4 DEF MemPiece, ReadPiece, WritePiece, PieceFails
  <2>3. PICK F : F = Fits(call[t], place[t])
    OBVIOUS
  <2>4. todo[t] \in Seq(F) /\ call[t].op \notin {"reserve", "erase"}
    BY <2>1, <2>3 DEF Tasks
  <2>5. Tail(todo[t]) \in Seq(F) /\ << >> \in Seq(F)
    BY <2>1, <2>4
  <2>6. todo'[t] \in Seq(F)
    BY <2>2, <2>5
  <2> QED
    BY <2>1, <2>3, <2>4, <2>6 DEF Tasks
<1>5. ASSUME Bounce(t)
      PROVE  Tasks(t)'
  <2>1. pc' = pc /\ call' = call /\ place' = place /\ todo' = todo
    BY <1>5 DEF Bounce
  <2> QED
    BY <2>1 DEF Tasks
<1>6. ASSUME Transferred(t)
      PROVE  Tasks(t)'
  <2>1. pc[t] = "io" /\ pc'[t] = "fin" /\ todo[t] = << >> /\ todo' = todo /\ call' = call
    BY <1>6, <1>g DEF Transferred, thread
  <2> QED
    BY <2>1 DEF Tasks
<1>7. ASSUME pc'[t] \notin {"io", "fin"}
      PROVE  Tasks(t)'
  BY <1>7 DEF Tasks
<1>8. ASSUME \E c \in Calls : StartGrow(t, Resolve(c)) \/ ls_erase(t, c)
      PROVE  Tasks(t)'
  <2>1. pc'[t] \in {"cap", "free"}
    BY <1>0, <1>8 DEF StartGrow, ls_erase
  <2> QED
    BY <1>7, <2>1
<1>9. ASSUME Leave(t) \/ Cap(t) \/ Evict(t) \/ Fit(t) \/ NoFit(t) \/ Alloc(t) \/ Zero(t) \/ ZeroFails(t)
      PROVE  Tasks(t)'
  <2>1. pc'[t] \notin {"io", "fin"}
    BY <1>9, <1>g DEF Leave, Cap, Evict, Fit, NoFit, Alloc, Zero, ZeroFails, ToExtents
  <2> QED
    BY <1>7, <2>1
<1>10. ASSUME Spill(t) \/ SpillFails(t) \/ Backed(t) \/ Free(t) \/ Freed(t) \/ Reserved(t)
      PROVE  Tasks(t)'
  <2>1. pc'[t] \notin {"io", "fin"}
    BY <1>10, <1>g DEF Spill, SpillFails, Backed, Free, Freed, Reserved, Fail
  <2> QED
    BY <1>7, <2>1
<1>11. Tasks(t)'
  BY <1>2, <1>3, <1>4, <1>5, <1>6, <1>8, <1>9, <1>10 DEF Step
<1> QED
  BY <1>1, <1>11

\* No two calls in progress conflict.
Unshared(u, v) ==
    Active(u) /\ Active(v) /\ Key(u) = Key(v) /\ (Writes(call[u]) \/ Writes(call[v])) =>
        Covers(call[u]) \cap Covers(call[v]) = {}

LEMMA UnsharedNext ==
    ASSUME Safe, \A u, v \in Threads : u # v => Unshared(u, v), NEW t \in Threads, Step(t),
           AppendsDisjoint', UNCHANGED setting
    PROVE  \A u, v \in Threads : u # v => Unshared(u, v)'
<1>0. Types /\ Control /\ Holding /\ DOMAIN pc = Threads /\ DOMAIN call = Threads
  BY DEF Safe, Types
<1>1. \A u \in Threads \ {t} : pc'[u] = pc[u] /\ call'[u] = call[u]
  BY OthersStay
<1>2. \/ call'[t] = call[t] /\ pc[t] # "idle"
      \/ pc'[t] = "idle"
      \/ \E c \in Call : Permitted(t, c) /\ call'[t] = c
  <2>1. Shape(t)
    BY <1>0, StepShape
  <2>2. CASE Stays
    BY <2>2 DEF Stays
  <2>3. CASE (\E w \in Locked : Moves(t, w)) \/ Returns(t) \/ Departs(t) \/ Ends(t) \/ Leaves(t)
    BY <1>0, <2>3 DEF Moves, Returns, Departs, Ends, Leaves, Locked
  <2>4. CASE \E c \in Call, w \in {"cap", "free", "io"} : Enters(t, c, w)
    BY <1>0, <2>4 DEF Enters, Begins
  <2> QED
    BY <2>1, <2>2, <2>3, <2>4 DEF Shape
<1>3. ASSUME NEW u \in Threads \ {t}
      PROVE  Unshared(t, u)' /\ Unshared(u, t)'
  <2>1. CASE call'[t] = call[t] /\ pc[t] # "idle"
    <3>1. Unshared(t, u) /\ Unshared(u, t) /\ pc'[u] = pc[u] /\ call'[u] = call[u]
      BY <1>1
    <3> QED
      BY <2>1, <3>1 DEF Unshared, Active, Key
  <2>2. CASE pc'[t] = "idle"
    BY <2>2 DEF Unshared, Active
  <2>3. ASSUME NEW c \in Call, Permitted(t, c), call'[t] = c
        PROVE  Unshared(t, u)' /\ Unshared(u, t)'
    <3>1. pc'[u] = pc[u] /\ call'[u] = call[u]
      BY <1>1
    <3>2. PICK d : d = call[u]
      OBVIOUS
    <3>3. CASE ~Active(u) \/ c.key # d.key
      BY <2>3, <3>1, <3>2, <3>3 DEF Unshared, Active, Key
    <3>4. CASE Active(u) /\ c.key = d.key
      <4>1. Compatible(c, d)
        BY <2>3, <3>2, <3>4 DEF Permitted
      <4>2. CASE c.op = "append" /\ d.op = "append"
        <5>1. Covers(c) \cap Covers(d) = {}
          BY <2>3, <3>1, <3>2, <3>4, <4>2 DEF AppendsDisjoint, Key
        <5> QED
          BY <2>3, <3>1, <3>2, <5>1 DEF Unshared
      <4>3. CASE (Writes(c) \/ Writes(d)) => Covers(c) \cap Covers(d) = {}
        BY <2>3, <3>1, <3>2, <4>3 DEF Unshared
      <4> QED
        BY <4>1, <4>2, <4>3 DEF Compatible
    <3> QED
      BY <3>3, <3>4
  <2> QED
    BY <1>2, <2>1, <2>2, <2>3
<1>4. ASSUME NEW u \in Threads \ {t}, NEW v \in Threads \ {t}, u # v
      PROVE  Unshared(u, v)'
  <2>1. /\ Unshared(u, v) /\ pc'[u] = pc[u] /\ call'[u] = call[u]
        /\ pc'[v] = pc[v] /\ call'[v] = call[v]
    BY <1>1, <1>4
  <2> QED
    BY <2>1 DEF Unshared, Active, Key
<1> QED
  BY <1>3, <1>4
-----------------------------------------------------------------------------
(* Direct writes.                                                          *)

LEMMA MultiplesStep ==
    ASSUME NEW x \in Int, NEW y \in Int, x % LS_ALIGN = 0, y % LS_ALIGN = 0, x < y
    PROVE  x + LS_ALIGN <= y
<1>1. (y - x) % LS_ALIGN = 0
  BY MultiplesAdd
<1>2. PICK d : d = y - x
  OBVIOUS
<1>3. d \in Int /\ d > 0
  BY <1>2
<1>4. PICK q \in Int : d = q * LS_ALIGN
  BY <1>1, <1>2, <1>3, MultipleOf
<1>5. PICK A : A = LS_ALIGN
  OBVIOUS
<1>6. A \in Nat /\ A > 0
  BY <1>5, AlignAssumption
<1>7. q * A > 0
  BY <1>3, <1>4, <1>5
<1>8. q >= 1
  BY <1>6, <1>7
<1>9. q * A >= A
  BY <1>6, <1>8
<1>10. d >= A /\ A \in Int
  BY <1>4, <1>5, <1>6, <1>9
<1> QED
  BY <1>2, <1>5, <1>10

LEMMA BlockEdges ==
    ASSUME NEW at \in Nat, NEW m \in Nat
    PROVE  /\ BlockStart(at) \in Nat /\ BlockStart(at) % LS_ALIGN = 0
           /\ BlockStart(at) <= at /\ at < BlockStart(at) + LS_ALIGN
           /\ round_up(m) \in Nat /\ round_up(m) % LS_ALIGN = 0
           /\ m <= round_up(m) /\ round_up(m) < m + LS_ALIGN
<1>1. LS_ALIGN \in Nat /\ LS_ALIGN > 0
  BY AlignAssumption
<1>2. /\ at = LS_ALIGN * (at \div LS_ALIGN) + (at % LS_ALIGN)
      /\ at \div LS_ALIGN \in Int /\ at % LS_ALIGN \in 0 .. (LS_ALIGN - 1)
  BY <1>1
<1>3. PICK q, r, A : q = at \div LS_ALIGN /\ r = at % LS_ALIGN /\ A = LS_ALIGN
  OBVIOUS
<1>4. at = A * q + r /\ q \in Int /\ r \in 0 .. (A - 1) /\ A \in Nat /\ A > 0
  BY <1>1, <1>2, <1>3
<1>5. at - r = q * A /\ at - r \in Int
  BY <1>4
<1>6. (at - r) % LS_ALIGN = 0
  BY <1>3, <1>4, <1>5, MultipleOf
<1>7. BlockStart(at) % LS_ALIGN = 0
  BY <1>3, <1>6 DEF BlockStart
<1>8. BlockStart(at) = at - r
  BY <1>3 DEF BlockStart
<1>9. BlockStart(at) <= at /\ at < BlockStart(at) + LS_ALIGN
  BY <1>3, <1>4, <1>8
<1>10. BlockStart(at) \in Nat
  BY BlockProps
<1>11. round_up(m) \in Nat /\ round_up(m) >= m /\ round_up(m) % LS_ALIGN = 0
  BY RoundUpGrows, RoundUpAligned
<1>12. round_up(m) < m + LS_ALIGN
  <2>1. PICK y : y = m + (LS_ALIGN - 1)
    OBVIOUS
  <2>2. y \in Nat
    BY <1>1, <2>1
  <2>3. y % LS_ALIGN \in 0 .. (LS_ALIGN - 1)
    BY <1>1, <2>2
  <2>4. PICK s : s = y % LS_ALIGN
    OBVIOUS
  <2>5. round_up(m) = y - s
    BY <2>1, <2>4 DEF round_up
  <2> QED
    BY <1>1, <2>1, <2>2, <2>3, <2>4, <2>5
<1> QED
  BY <1>7, <1>9, <1>10, <1>11, <1>12

\* The blocks of a piece are in the extent the piece is in, and an aligned piece is
\* its blocks.
LEMMA BlocksInside ==
    ASSUME NEW at \in Nat, NEW n \in Nat
    PROVE  /\ \A e \in Extent : OnGrid(e) /\ e.foff <= at /\ at + n <= End(e) =>
                 e.foff <= BlockStart(at) /\ round_up(at + n) <= End(e)
           /\ at % LS_ALIGN = 0 => BlockStart(at) = at
           /\ (at + n) % LS_ALIGN = 0 => round_up(at + n) = at + n
<1>1. PICK m : m = at + n
  OBVIOUS
<1>2. m \in Nat
  BY <1>1
<1>3. PICK b, u, A : b = BlockStart(at) /\ u = round_up(m) /\ A = LS_ALIGN
  OBVIOUS
<1>4. /\ b \in Nat /\ b % LS_ALIGN = 0 /\ b <= at /\ at < b + A
      /\ u \in Nat /\ u % LS_ALIGN = 0 /\ m <= u /\ u < m + A /\ A \in Nat
  BY <1>2, <1>3, BlockEdges, AlignAssumption
<1>5. at % LS_ALIGN = 0 => b = at
  BY <1>3 DEF BlockStart
<1>6. ASSUME m % LS_ALIGN = 0
      PROVE  u = m
  <2>1. m < u => m + A <= u
    BY <1>2, <1>3, <1>4, <1>6, MultiplesStep
  <2> QED
    BY <1>2, <1>4, <2>1
<1>7. ASSUME NEW e \in Extent, OnGrid(e), e.foff <= at, m <= End(e)
      PROVE  e.foff <= b /\ u <= End(e)
  <2>1. PICK f, l : f = e.foff /\ l = e.len
    OBVIOUS
  <2>2. f \in Nat /\ l \in Nat /\ End(e) = f + l
    BY <2>1 DEF Extent, End
  <2>3. (f - LS_SUPER_SIZE) % LS_ALIGN = 0 /\ l % LS_ALIGN = 0
    BY <1>7, <2>1 DEF OnGrid
  <2>4. LS_SUPER_SIZE \in Int /\ LS_SUPER_SIZE % LS_ALIGN = 0 /\ f - LS_SUPER_SIZE \in Int
    BY <2>2, StoreAssumption, SuperAssumption
  <2>5. ((f - LS_SUPER_SIZE) + LS_SUPER_SIZE) % LS_ALIGN = 0
    BY <2>3, <2>4, MultiplesAdd
  <2>6. (f - LS_SUPER_SIZE) + LS_SUPER_SIZE = f
    BY <2>2, <2>4
  <2>7. f % LS_ALIGN = 0
    BY <2>5, <2>6
  <2>8. (f + l) % LS_ALIGN = 0
    BY <2>2, <2>3, <2>7, MultiplesAdd
  <2>9. b < f => b + A <= f
    BY <1>3, <1>4, <2>2, <2>7, MultiplesStep
  <2>10. f + l < u => (f + l) + A <= u
    <3>1. PICK z : z = f + l
      OBVIOUS
    <3>2. z \in Int /\ z % LS_ALIGN = 0
      BY <2>2, <2>8, <3>1
    <3>3. z < u => z + A <= u
      BY <1>3, <1>4, <3>2, MultiplesStep
    <3> QED
      BY <3>1, <3>3
  <2>11. f <= at /\ m <= f + l
    BY <1>7, <2>1, <2>2
  <2>12. f <= b /\ u <= f + l
    BY <1>2, <1>4, <2>2, <2>9, <2>10, <2>11
  <2> QED
    BY <2>1, <2>2, <2>12
<1> QED
  BY <1>1, <1>3, <1>5, <1>6, <1>7

\* b holds the blocks of the file that contain the piece x.
Copied(b, x) ==
    /\ x.dir = "write"
    /\ Len(b) = round_up(x.at + x.n) - BlockStart(x.at)
    /\ \A i \in 1 .. Len(b) : b[i] = file[BlockStart(x.at) + i]

\* What a thread has read for a read-modify-write is what the file still holds.
Mirrored(u) ==
    bounce[u] # << >> =>
        /\ pc[u] = "io" /\ todo[u] # << >> /\ place[u].mem = NULL /\ Direct
        /\ Copied(bounce[u], Head(todo[u]))

\* The step stores n bytes of d at offset at, and nothing else inside the file.
Puts(at, n, d) ==
    \A a \in Nat : a < Len(file) =>
        file'[a + 1] = IF at <= a /\ a < at + n THEN d[a - at + 1] ELSE file[a + 1]

LEMMA WriteEffect ==
    ASSUME FileSize, Pieces, NEW t \in Threads, WritePiece(t), Mirrored(t), NEW x, x = Head(todo[t])
    PROVE  Puts(x.at, x.n, Data(t, x, file))
<1>1. IsSeq(file) /\ Len(file) \in Nat
  BY DEF FileSize, IsSeq
<1>2. todo[t] # << >> /\ (NeedsBounce(x) => bounce[t] # << >>)
      /\ file' = IF Direct THEN Overwrite(file, BlockStart(x.at), Blocks(t, x))
                 ELSE Overwrite(file, x.at, Data(t, x, file))
  BY DEF WritePiece
<1>3. x.at \in Nat /\ x.n \in Nat
  BY <1>2, NextPiece, PieceFields
<1>4. PICK d, at, n : d = Data(t, x, file) /\ at = x.at /\ n = x.n
  OBVIOUS
<1>5. Len(d) = n /\ IsSeq(d) /\ at \in Nat /\ n \in Nat
  BY <1>3, <1>4, DataLen
<1> SUFFICES ASSUME NEW a \in Nat, a < Len(file)
             PROVE  file'[a + 1] = IF at <= a /\ a < at + n THEN d[a - at + 1] ELSE file[a + 1]
  BY <1>4 DEF Puts
<1>6. PICK i : i = a + 1
  OBVIOUS
<1>7. i \in Nat /\ i > 0 /\ i <= Len(file) /\ (i > at <=> at <= a) /\ (i <= at + n <=> a < at + n)
      /\ i - at = a - at + 1
  BY <1>1, <1>5, <1>6
<1>8. CASE ~Direct
  <2>1. file' = Overwrite(file, at, d)
    BY <1>2, <1>4, <1>8
  <2>2. /\ i > at /\ i <= at + n => file'[i] = d[i - at]
        /\ ~(i > at /\ i <= at + n) => file'[i] = file[i]
    <3>1. /\ i > at /\ i <= at + Len(d) => Overwrite(file, at, d)[i] = d[i - at]
          /\ i <= Len(file) /\ ~(i > at /\ i <= at + Len(d)) => Overwrite(file, at, d)[i] = file[i]
      <4>1. Len(d) \in Nat /\ at \in Nat /\ i \in Nat /\ i > 0
        BY <1>5, <1>7
      <4>2. Written(Overwrite(file, at, d), file, at, d)
        BY <1>1, <4>1, OverwriteIs
      <4> QED
        BY <4>1, <4>2 DEF Written
    <3> QED
      BY <1>5, <1>7, <2>1, <3>1
  <2> QED
    BY <1>6, <1>7, <2>2
<1>9. CASE Direct
  <2>1. PICK lo, u, s, L : lo = BlockStart(at) /\ u = round_up(at + n) /\ s = at - lo /\ L = u - lo
    OBVIOUS
  <2>2. lo \in Nat /\ lo <= at /\ u \in Nat /\ at + n <= u
    <3>1. PICK z : z = at + n
      OBVIOUS
    <3>2. z \in Nat
      BY <1>5, <3>1
    <3>3. BlockStart(at) \in Nat /\ BlockStart(at) <= at /\ round_up(z) \in Nat /\ z <= round_up(z)
      BY <1>5, <3>2, BlockEdges
    <3> QED
      BY <2>1, <3>1, <3>3
  <2>3. s \in Nat /\ L \in Nat /\ s + n <= L /\ lo + s = at
    <3>1. s = at - lo /\ L = u - lo
      BY <2>1
    <3> QED
      BY <1>5, <2>2, <3>1
  <2>4. PICK m : m = IF bounce[t] # << >> THEN bounce[t] ELSE [j \in 1 .. L |-> Meta]
    OBVIOUS
  <2>5. IsSeq(m) /\ Len(m) = L
    <3>1. CASE bounce[t] # << >>
      <4>1. IsSeq(bounce[t])
        BY DEF Pieces
      <4>2. Len(bounce[t]) = L
        BY <1>4, <2>1, <3>1 DEF Mirrored, Copied
      <4> QED
        BY <2>4, <3>1, <4>1, <4>2
    <3>2. CASE bounce[t] = << >>
      BY <2>3, <2>4, <3>2 DEF IsSeq
    <3> QED
      BY <3>1, <3>2
  <2>6. PICK b : b = Overwrite(m, s, d)
    OBVIOUS
  <2>7. Blocks(t, x) = b
    BY <1>4, <2>1, <2>4, <2>6 DEF Blocks
  <2>8. Len(b) = L
    BY <1>5, <2>3, <2>5, <2>6, OverwriteLen
  <2>9. file' = Overwrite(file, lo, b)
    BY <1>2, <1>4, <1>9, <2>1, <2>7
  <2>10. /\ i > lo /\ i <= lo + L => file'[i] = b[i - lo]
         /\ ~(i > lo /\ i <= lo + L) => file'[i] = file[i]
    <3>1. /\ i > lo /\ i <= lo + Len(b) => Overwrite(file, lo, b)[i] = b[i - lo]
          /\ i <= Len(file) /\ ~(i > lo /\ i <= lo + Len(b)) => Overwrite(file, lo, b)[i] = file[i]
      <4>1. Len(b) \in Nat
        BY <2>3, <2>8
      <4>2. Written(Overwrite(file, lo, b), file, lo, b)
        BY <1>1, <2>2, <4>1, OverwriteIs
      <4>3. i \in Nat /\ i > 0
        BY <1>7
      <4> QED
        BY <4>2, <4>3 DEF Written
    <3> QED
      BY <1>7, <2>8, <2>9, <3>1
  <2>11. CASE ~(i > lo /\ i <= lo + L)
    <3>1. ~(i > at /\ i <= at + n)
      BY <1>5, <1>7, <2>2, <2>3, <2>11
    <3> QED
      BY <1>6, <1>7, <2>10, <2>11, <3>1
  <2>12. CASE i > lo /\ i <= lo + L
    <3>1. PICK j : j = i - lo
      OBVIOUS
    <3>2. j \in Nat /\ j > 0 /\ j <= L /\ lo + j = i
      BY <1>7, <2>2, <2>3, <2>12, <3>1
    <3>3. /\ j > s /\ j <= s + n => b[j] = d[j - s]
          /\ ~(j > s /\ j <= s + n) => b[j] = m[j]
      <4>1. Len(d) \in Nat /\ j <= Len(m)
        BY <1>5, <2>5, <3>2
      <4>2. /\ j > s /\ j <= s + Len(d) => Overwrite(m, s, d)[j] = d[j - s]
            /\ j <= Len(m) /\ ~(j > s /\ j <= s + Len(d)) => Overwrite(m, s, d)[j] = m[j]
        <5>1. Written(Overwrite(m, s, d), m, s, d)
          BY <2>3, <2>5, <4>1, OverwriteIs
        <5>2. j \in Nat /\ j > 0
          BY <3>2
        <5> QED
          BY <5>1, <5>2 DEF Written
      <4> QED
        BY <1>5, <2>6, <4>1, <4>2
    <3>4. (j > s <=> i > at) /\ (j <= s + n <=> i <= at + n) /\ j - s = i - at
      BY <1>5, <1>7, <2>2, <2>3, <3>2
    <3>5. file'[i] = b[j]
      BY <2>10, <2>12, <3>1
    <3>6. CASE i > at /\ i <= at + n
      BY <1>6, <1>7, <3>3, <3>4, <3>5, <3>6
    <3>7. CASE ~(i > at /\ i <= at + n)
      <4>1. bounce[t] # << >>
        <5> SUFFICES ASSUME bounce[t] = << >> PROVE FALSE
          OBVIOUS
        <5>1. ~NeedsBounce(x)
          BY <1>2
        <5>2. at % LS_ALIGN = 0 /\ (at + n) % LS_ALIGN = 0
          BY <1>4, <1>9, <5>1 DEF NeedsBounce
        <5>3. lo = at /\ u = at + n
          BY <1>5, <2>1, <5>2, BlocksInside
        <5>4. i > at /\ i <= at + n
          BY <1>5, <1>7, <2>1, <2>12, <5>3
        <5> QED
          BY <3>7, <5>4
      <4>2. m[j] = file[lo + j]
        <5>1. Copied(m, x)
          BY <2>4, <4>1 DEF Mirrored
        <5>2. j \in 1 .. Len(m)
          BY <2>3, <2>5, <3>2
        <5> QED
          BY <1>4, <2>1, <5>1, <5>2 DEF Copied
      <4> QED
        BY <1>6, <1>7, <3>2, <3>3, <3>4, <3>5, <3>7, <4>2
    <3> QED
      BY <3>6, <3>7
  <2> QED
    BY <2>11, <2>12
<1> QED
  BY <1>8, <1>9
-----------------------------------------------------------------------------
(* Bytes of the file that a step leaves alone.                             *)

LEMMA OneOwner ==
    ASSUME Space, NEW k \in DOMAIN rec, NEW l \in DOMAIN rec,
           NEW i \in DOMAIN rec[k].ext, NEW j \in DOMAIN rec[l].ext,
           NEW a \in Int, In(a, rec[k].ext[i]), In(a, rec[l].ext[j])
    PROVE  k = l /\ i = j
<1>1. rec[k].ext[i] \in Owned /\ rec[l].ext[j] \in Owned
  BY ExtentsAre DEF Owned
<1>2. rec[k].ext[i] = rec[l].ext[j]
  BY <1>1 DEF Space, Accounted, Apart
<1> QED
  BY <1>2 DEF Space

LEMMA ClearExtents ==
    ASSUME Space, NEW k \in DOMAIN rec
    PROVE  Clear(rec[k].ext)
  BY OneOwner DEF Clear

\* The next piece of a thread is where its record is.
LEMMA PieceLies ==
    ASSUME Safe, Places, NEW t \in Threads, Tasks(t), pc[t] = "io", todo[t] # << >>,
           NEW x, x = Head(todo[t])
    PROVE  Key(t) \in DOMAIN rec /\ rec[Key(t)] \in Record /\ x \in Fits(call[t], rec[Key(t)])
           /\ place[t].mem = rec[Key(t)].mem
<1>1. PICK p, r : p = place[t] /\ r = rec[Key(t)]
  OBVIOUS
<1>2. Key(t) \in DOMAIN rec /\ p.mem = r.mem /\ p.ext \in Seq(Extent) /\ IsPrefix(p.ext, r.ext)
  BY <1>1, PlacesAre DEF Placed
<1>3. r \in Record /\ r.ext \in Seq(Extent)
  BY <1>1, <1>2, RecordFields DEF Safe, Types
<1>4. x \in Fits(call[t], p)
  <2>1. PICK F : F = Fits(call[t], p)
    OBVIOUS
  <2>2. todo[t] \in Seq(F)
    BY <1>1, <2>1 DEF Tasks
  <2>3. Head(todo[t]) \in F
    BY <2>2
  <2> QED
    BY <2>1, <2>3
<1>5. Lies(r, x)
  <2>1. Lies(p, x)
    BY <1>4 DEF Fits
  <2>2. CASE p.mem # NULL
    BY <1>2, <2>1, <2>2 DEF Lies
  <2>3. CASE p.mem = NULL
    <3>1. PICK j \in DOMAIN p.ext : /\ p.ext[j].foff <= x.at /\ x.at + x.n <= End(p.ext[j])
                                    /\ x.off - Base(p.ext, j) = x.at - p.ext[j].foff
      BY <2>1, <2>3 DEF Lies
    <3>2. Len(p.ext) \in Nat /\ Len(r.ext) \in Nat /\ DOMAIN p.ext = 1 .. Len(p.ext) /\ DOMAIN r.ext = 1 .. Len(r.ext)
      BY <1>2, <1>3, HoleFields
    <3>3. Len(p.ext) <= Len(r.ext) /\ (\A i \in 1 .. Len(p.ext) : p.ext[i] = r.ext[i])
          /\ \A i \in 1 .. (Len(p.ext) + 1) : Base(r.ext, i) = Base(p.ext, i)
      BY <1>2, <1>3, BasePrefix
    <3>4. j \in DOMAIN r.ext /\ j \in 1 .. (Len(p.ext) + 1)
      BY <3>2, <3>3
    <3>5. p.ext[j] = r.ext[j] /\ Base(r.ext, j) = Base(p.ext, j)
      BY <3>2, <3>3, <3>4
    <3> QED
      BY <1>2, <2>3, <3>1, <3>4, <3>5 DEF Lies
  <2> QED
    BY <2>2, <2>3
<1>6. x \in Fits(call[t], r)
  BY <1>4, <1>5 DEF Fits
<1> QED
  BY <1>1, <1>2, <1>3, <1>6

\* A byte of another record is not in the piece.
LEMMA PieceAway ==
    ASSUME Safe, Places, NEW t \in Threads, Tasks(t), pc[t] = "io", todo[t] # << >>, place[t].mem = NULL,
           NEW x, x = Head(todo[t]),
           NEW k \in DOMAIN rec, k # Key(t), NEW i \in DOMAIN rec[k].ext, NEW a \in Nat, In(a, rec[k].ext[i])
    PROVE  ~(x.at <= a /\ a < x.at + x.n)
<1>1. PICK r : r = rec[Key(t)]
  OBVIOUS
<1>2. Key(t) \in DOMAIN rec /\ r \in Record /\ x \in Fits(call[t], r) /\ r.mem = NULL
  BY <1>1, PieceLies
<1>3. PICK j \in DOMAIN r.ext : r.ext[j].foff <= x.at /\ x.at + x.n <= End(r.ext[j])
  BY <1>2 DEF Fits, Lies
<1>4. x \in Transfer /\ r.ext \in Seq(Extent)
  BY <1>2, RecordFields DEF Fits
<1>5. x.at \in Nat /\ x.n \in Nat /\ r.ext[j].foff \in Nat /\ r.ext[j].len \in Nat
  BY <1>4, PieceFields, HoleFields
<1>6. x.at <= a /\ a < x.at + x.n => In(a, r.ext[j])
  <2>1. PICK f, l, p, n : f = r.ext[j].foff /\ l = r.ext[j].len /\ p = x.at /\ n = x.n
    OBVIOUS
  <2>2. f <= p /\ p + n <= f + l /\ f \in Nat /\ l \in Nat /\ p \in Nat /\ n \in Nat
    BY <1>3, <1>5, <2>1 DEF End
  <2>3. p <= a /\ a < p + n => f <= a /\ a < f + l
    BY <2>2
  <2> QED
    BY <2>1, <2>3 DEF In
<1>7. ~In(a, r.ext[j])
  BY <1>1, <1>2, OneOwner DEF Safe
<1> QED
  BY <1>6, <1>7

LEMMA FileHeld ==
    ASSUME Sound, FileSize', NEW t \in Threads, Step(t), Mirrored(t),
           NEW k \in DOMAIN rec, NEW i \in DOMAIN rec[k].ext, rec[k].ext[i] \in Extents',
           NEW a \in Nat, In(a, rec[k].ext[i]),
           ~((Spill(t) \/ SpillFails(t)) /\ vic = k),
           WritePiece(t) => ~(Head(todo[t]).at <= a /\ a < Head(todo[t]).at + Head(todo[t]).n)
    PROVE  a < Len(file) /\ a < Len(file') /\ file'[a + 1] = file[a + 1]
<1>0. Types /\ Control /\ Holding /\ Space /\ IsSeq(file) /\ Len(file) \in Nat /\ FileSize /\ Pieces /\ Safe
      /\ \A e \in Extents : End(e) <= Len(file)
  BY DEF Sound, Safe, FileSize, IsSeq
<1>e. /\ Extents \subseteq Extent
      /\ \A e \in Extent : e.foff \in Nat /\ e.len \in Nat /\ e.len > 0 /\ End(e) \in Nat
  BY <1>0, ExtentEnds
<1>1. PICK d : d = rec[k].ext[i]
  OBVIOUS
<1>2. d \in Extents /\ d \in Extents' /\ In(a, d) /\ d \in Extent /\ d.foff \in Nat /\ d.len \in Nat
  BY <1>1, <1>e, ExtentsAre
<1>3. a < Len(file)
  BY <1>0, <1>2 DEF In, End
<1>4. a < Len(file')
  <2>1. End(d) <= Len(file') /\ Len(file') \in Nat
    BY <1>2 DEF FileSize, IsSeq
  <2> QED
    BY <1>2, <2>1 DEF In, End
<1>5. PICK m : m = a + 1
  OBVIOUS
<1>6. m \in Nat /\ m > 0 /\ m <= Len(file) /\ m <= Len(file')
  <2>1. Len(file') \in Nat
    BY DEF FileSize, IsSeq
  <2> QED
    BY <1>0, <1>3, <1>4, <1>5, <2>1
<1>w. ASSUME NEW e \in Owned, e # d, e \in Extent, file' = zero_range(file, e)
      PROVE  file'[m] = file[m]
  <2>1. ~In(a, e)
    BY <1>0, <1>2, <1>w DEF Space, Accounted, Apart, Owned
  <2>2. IsSeq(Zeros(e.len)) /\ Len(Zeros(e.len)) = e.len /\ e.len \in Nat /\ e.foff \in Nat
    BY <1>e, <1>w, ZerosLen
  <2>3. PICK z : z = Zeros(e.len)
    OBVIOUS
  <2>4. file' = Overwrite(file, e.foff, z)
    BY <1>w, <2>3 DEF zero_range
  <2>5. ~(m > e.foff /\ m <= e.foff + Len(z)) /\ Len(z) \in Nat
    BY <1>5, <2>1, <2>2, <2>3 DEF In
  <2> QED
    <3>1. Written(Overwrite(file, e.foff, z), file, e.foff, z)
      BY <1>0, <2>2, <2>5, OverwriteIs
    <3> QED
      BY <1>6, <2>4, <2>5, <3>1 DEF Written
<1>7. CASE UNCHANGED file
  BY <1>3, <1>4, <1>7
<1>8. CASE Zero(t) \/ ZeroFails(t)
  <2>1. pc[t] = "zero" /\ lk = t /\ (file' = file \/ file' = zero_range(file, fresh[1]))
    BY <1>0, <1>8 DEF Zero, ZeroFails, Control, Locked
  <2>2. fresh # << >> /\ fresh \in Seq(Extent)
    BY <1>0, <2>1 DEF Holding, Space
  <2>3. 1 \in DOMAIN fresh /\ fresh[1] \in Extent
    <3>1. PICK n : n = Len(fresh)
      OBVIOUS
    <3>2. n \in Nat /\ n # 0
      BY <2>2, <3>1, EmptySeq
    <3> QED
      BY <2>2, <3>1, <3>2
  <2>4. fresh[1] \in Range(fresh)
    BY <2>3 DEF Range
  <2>5. fresh[1] \in Owned /\ fresh[1] # d
    BY <1>0, <1>2, <2>4 DEF Owned, Space
  <2>6. file'[m] = file[m]
    BY <1>w, <2>1, <2>3, <2>5
  <2> QED
    BY <1>3, <1>4, <1>5, <2>6
<1>9. CASE Spill(t) \/ SpillFails(t)
  <2>1. vic # NoKey /\ vic # k
    BY <1>9 DEF Spill, SpillFails
  <2>2. PICK r : r = rec[vic]
    OBVIOUS
  <2>3. vic \in DOMAIN rec /\ r \in Record /\ r.ext \in Seq(Extent) /\ r.size \in Nat
    BY <1>0, <2>1, <2>2, RecordFields DEF Holding, Types
  <2>4. \A j \in DOMAIN r.ext : End(r.ext[j]) <= Len(file) /\ ~In(a, r.ext[j])
    BY <1>0, <1>1, <1>2, <2>1, <2>2, <2>3, ExtentsAre, OneOwner
  <2>5. PICK x : /\ x = r.ext \/ \E n \in 0 .. (Len(r.ext) - 1) : x = SubSeq(r.ext, 1, n)
                 /\ file' = WriteOut(file, x, heap[r.mem], r.size)
    BY <1>9, <2>2 DEF Spill, SpillFails
  <2>6. x \in Seq(Extent) /\ \A j \in DOMAIN x : End(x[j]) <= Len(file) /\ ~In(a, x[j])
    <3>1. CASE x = r.ext
      BY <2>3, <2>4, <3>1
    <3>2. CASE \E n \in 0 .. (Len(r.ext) - 1) : x = SubSeq(r.ext, 1, n)
      <4>1. PICK n \in 0 .. (Len(r.ext) - 1) : x = SubSeq(r.ext, 1, n)
        BY <3>2
      <4>2. Len(r.ext) \in Nat /\ DOMAIN r.ext = 1 .. Len(r.ext) /\ n \in Nat /\ n <= Len(r.ext)
        BY <2>3, HoleFields
      <4>3. x \in Seq(Extent) /\ DOMAIN x = 1 .. n /\ \A j \in 1 .. n : x[j] = r.ext[j]
        BY <2>3, <4>1, <4>2
      <4>4. \A j \in 1 .. n : j \in DOMAIN r.ext
        BY <4>2
      <4> QED
        BY <2>4, <4>3, <4>4
    <3> QED
      BY <2>5, <3>1, <3>2
  <2>7. file'[a + 1] = file[a + 1]
    BY <1>0, <1>3, <2>3, <2>5, <2>6, WriteOutAt
  <2> QED
    BY <1>3, <1>4, <2>7
<1>10. CASE Free(t)
  <2>1. file' = file \/ file' = ftruncate(file, file_end')
    BY <1>10 DEF Free, Inserted, Dropped
  <2>2. Space'
    BY <1>0, <1>10, FreeSpace
  <2>3. file_end' \in Nat
    BY <2>2 DEF Space, Accounted
  <2>4. CASE file' = ftruncate(file, file_end')
    <3>1. Len(file') = file_end'
      BY <2>3, <2>4, TruncateLen
    <3>2. m \in 1 .. file_end'
      BY <1>6, <2>3, <3>1
    <3>3. file'[m] = file[m]
      BY <1>6, <2>3, <2>4, <3>2, TruncateAt
    <3> QED
      BY <1>3, <1>4, <1>5, <3>3
  <2> QED
    BY <1>7, <2>1, <2>4
<1>11. CASE WritePiece(t)
  <2>1. PICK x : x = Head(todo[t])
    OBVIOUS
  <2>2. Puts(x.at, x.n, Data(t, x, file))
    BY <1>0, <1>11, <2>1, WriteEffect
  <2> QED
    BY <1>3, <1>4, <1>11, <2>1, <2>2 DEF Puts
<1>12. ASSUME ~Zero(t), ~ZeroFails(t), ~Spill(t), ~SpillFails(t), ~Free(t), ~WritePiece(t)
      PROVE  UNCHANGED file
  <2>1. CASE \E c \in Calls : StartRead(t, c) \/ StartGrow(t, Resolve(c)) \/ ls_erase(t, c)
    BY <2>1 DEF StartRead, StartGrow, ls_erase
  <2>2. CASE MemPiece(t) \/ ReadPiece(t) \/ Bounce(t) \/ PieceFails(t) \/ Transferred(t) \/ Leave(t)
    BY <2>2 DEF MemPiece, ReadPiece, Bounce, PieceFails, Transferred, Leave
  <2>3. CASE Cap(t) \/ Evict(t) \/ Fit(t) \/ NoFit(t) \/ Alloc(t) \/ Backed(t) \/ Freed(t)
             \/ Ready(t) \/ Reserved(t)
    BY <2>3 DEF Cap, Evict, Fit, NoFit, Alloc, Backed, Freed, Ready, Reserved
  <2> QED
    BY <1>12, <2>1, <2>2, <2>3 DEF Step
<1> QED
  BY <1>7, <1>8, <1>9, <1>10, <1>11, <1>12
-----------------------------------------------------------------------------
(* Bytes of a record that a step leaves alone.                             *)

\* Byte o of record k, where it is now.
Byte(k, o) ==
    IF rec[k].mem # NULL THEN heap[rec[k].mem][o + 1] ELSE file[Addr(rec[k].ext, o) + 1]

\* The step stores a piece with byte o of record k in it.
Stores(t, k, o) ==
    /\ MemPiece(t) \/ WritePiece(t)
    /\ Key(t) = k
    /\ Head(todo[t]).dir = "write"
    /\ o \in Spanned(Head(todo[t]))

LEMMA TableProps ==
    /\ \A f, x, v, m : m \in DOMAIN f /\ m # x => Bind(f, x, v)[m] = f[m]
    /\ \A f, x, v : Bind(f, x, v)[x] = v
    /\ \A f, x, m : m \in DOMAIN f /\ m # x => m \in DOMAIN Without(f, x) /\ Without(f, x)[m] = f[m]
  BY DEF Bind, Without

LEMMA HeapHeld ==
    ASSUME Safe, Places, NEW t \in Threads, Step(t), NEW k \in Resident, k \in DOMAIN rec',
           ~(Fit(t) /\ Key(t) = k), ~(Spill(t) /\ vic = k), ~(MemPiece(t) /\ Key(t) = k)
    PROVE  rec'[k].mem = rec[k].mem /\ heap'[rec[k].mem] = heap[rec[k].mem]
<1>0. Types /\ Control /\ Holding /\ Memory
  BY DEF Safe
<1>1. PICK m : m = rec[k].mem
  OBVIOUS
<1>2. k \in DOMAIN rec /\ m # NULL /\ m \in DOMAIN heap
  BY <1>0, <1>1 DEF Resident, Memory
<1>3. \A l \in DOMAIN rec : l # k => rec[l].mem # m
  BY <1>0, <1>1, <1>2 DEF Memory, Resident
<1>4. CASE Fit(t)
  <2>1. PICK l, r : l = Key(t) /\ r = rec[l]
    OBVIOUS
  <2>2. l \in DOMAIN rec /\ l # k
    BY <1>0, <1>4, <2>1, FitEffect
  <2>3. PICK b \in Nat \ {0} :
            /\ b \notin DOMAIN heap \/ b = rec[Key(t)].mem
            /\ Sets(Key(t), [rec[Key(t)] EXCEPT !.mem = b, !.mem_cap = Need(t)])
            /\ LET old == IF rec[Key(t)].mem # NULL THEN heap[rec[Key(t)].mem] ELSE << >>
               IN  heap' = Bind(Without(heap, rec[Key(t)].mem), b,
                                old \o Zeros(Need(t) - Len(old)))
    BY <1>0, <1>4, FitEffect
  <2>4. PICK v : heap' = Bind(Without(heap, r.mem), b, v)
    BY <2>1, <2>3
  <2>5. m # r.mem /\ m # b
    BY <1>2, <1>3, <2>1, <2>2, <2>3
  <2>6. heap'[m] = heap[m]
    BY <1>2, <2>4, <2>5, TableProps
  <2>7. rec'[k] = rec[k]
    BY <1>2, <2>1, <2>2, <2>3 DEF Sets
  <2> QED
    BY <1>1, <2>6, <2>7
<1>5. CASE Spill(t)
  <2>1. vic \in DOMAIN rec /\ rec'[k] = rec[k] /\ vic # k
    BY <1>0, <1>2, <1>5, SpillEffect DEF Sets
  <2>2. heap' = Without(heap, rec[vic].mem)
    BY <1>5 DEF Spill
  <2> QED
    BY <1>1, <1>2, <1>3, <2>1, <2>2, TableProps
<1>6. ASSUME NEW c \in Calls, ls_erase(t, c)
      PROVE  rec'[k].mem = rec[k].mem /\ heap'[rec[k].mem] = heap[rec[k].mem]
  <2>1. Drops(c.key)
    BY <1>0, <1>6, EraseShape
  <2>2. c.key \in DOMAIN rec /\ c.key # k /\ rec'[k] = rec[k]
    BY <1>2, <2>1 DEF Drops
  <2>3. heap' = Without(heap, rec[c.key].mem)
    BY <1>6 DEF ls_erase, ls_rec_free
  <2> QED
    BY <1>1, <1>2, <1>3, <2>2, <2>3, TableProps
<1>7. CASE MemPiece(t)
  <2>1. pc[t] = "io" /\ rec' = rec /\ (heap' = heap \/ \E v : heap' = [heap EXCEPT ![place[t].mem] = v])
    BY <1>7 DEF MemPiece
  <2>2. Key(t) \in DOMAIN rec /\ place[t].mem = rec[Key(t)].mem
    BY <2>1, PlacesAre DEF Placed
  <2>3. place[t].mem # m
    BY <1>3, <1>7, <2>2
  <2> QED
    BY <1>1, <1>2, <2>1, <2>3
<1>8. CASE ~MemPiece(t) /\ ~Fit(t) /\ ~Spill(t) /\ \A c \in Calls : ~ls_erase(t, c)
  BY <1>2, <1>8, HeapSame, SettledBut DEF Settled
<1> QED
  BY <1>4, <1>5, <1>6, <1>7, <1>8

\* memcpy to the record's buffer.
LEMMA MemEffect ==
    ASSUME Safe, Places, Buffers, Pieces, NEW t \in Threads, MemPiece(t), Tasks(t),
           NEW x, x = Head(todo[t]), x.dir = "write", NEW b, b = rec[Key(t)].mem
    PROVE  /\ b # NULL /\ b \in DOMAIN heap /\ x.at = x.off /\ x.off + x.n <= Len(heap[b])
           /\ rec' = rec
           /\ \A o \in Nat : o < Len(heap[b]) =>
                heap'[b][o + 1] = IF o \in Spanned(x) THEN Data(t, x, heap[b])[o - x.off + 1]
                                                     ELSE heap[b][o + 1]
<1>0. Types /\ Memory /\ Rooms
  BY DEF Safe
<1>1. pc[t] = "io" /\ todo[t] # << >> /\ place[t].mem # NULL /\ rec' = rec
  BY DEF MemPiece
<1>2. Key(t) \in DOMAIN rec /\ rec[Key(t)] \in Record /\ x \in Fits(call[t], rec[Key(t)]) /\ place[t].mem = b
  BY <1>1, PieceLies
<1>3. b # NULL /\ Key(t) \in Resident /\ b \in DOMAIN heap
  BY <1>0, <1>1, <1>2 DEF Resident, Memory
<1>4. x.at = x.off /\ x.at \in Nat /\ x.off \in Nat /\ x.n \in Nat
  BY <1>2, <1>3, PieceFields DEF Fits, Lies
<1>5. PICK h, n : h = heap[b] /\ n = Len(h)
  OBVIOUS
<1>6. IsSeq(h) /\ n = rec[Key(t)].mem_cap /\ n \in Nat
  BY <1>3, <1>5 DEF Buffers, Buffer, IsSeq
<1>7. x.at + x.n <= rec[Key(t)].size
  <2>1. todo[t] \in Seq(Transfer)
    BY DEF Pieces
  <2>2. 1 \in DOMAIN todo[t] /\ todo[t][1] = x
    <3>1. PICK z, l : z = todo[t] /\ l = Len(z)
      OBVIOUS
    <3>2. l \in Nat /\ l # 0
      BY <1>1, <2>1, <3>1, EmptySeq
    <3> QED
      BY <2>1, <3>1, <3>2
  <2> QED
    BY <1>1, <2>2, PlacesAre DEF Placed
<1>8. rec[Key(t)].size <= n /\ rec[Key(t)].size \in Nat
  BY <1>0, <1>2, <1>3, <1>6, RecordFields DEF Rooms, Room
<1>9. x.off + x.n <= n
  BY <1>4, <1>6, <1>7, <1>8
<1>10. heap' = [heap EXCEPT ![b] = Overwrite(heap[b], x.at, Data(t, x, heap[b]))]
  BY <1>2, <1>3 DEF MemPiece
<1>11. PICK d : d = Data(t, x, h)
  OBVIOUS
<1>12. Len(d) = x.n /\ Len(d) \in Nat
  BY <1>4, <1>11, DataLen
<1>13. heap'[b] = Overwrite(h, x.off, d)
  BY <1>3, <1>4, <1>5, <1>10, <1>11
<1>14. ASSUME NEW o \in Nat, o < n
       PROVE  heap'[b][o + 1] = IF o \in Spanned(x) THEN d[o - x.off + 1] ELSE h[o + 1]
  <2>1. PICK i, q, l : i = o + 1 /\ q = x.off /\ l = x.n
    OBVIOUS
  <2>2. i \in Nat /\ i > 0 /\ i <= n /\ q \in Nat /\ l \in Nat /\ i - q = o - q + 1
        /\ (i > q /\ i <= q + l <=> o \in q .. (q + l - 1))
    BY <1>4, <1>6, <1>14, <2>1
  <2>3. /\ i > q /\ i <= q + l => Overwrite(h, q, d)[i] = d[i - q]
        /\ ~(i > q /\ i <= q + l) => Overwrite(h, q, d)[i] = h[i]
    <3>1. IsSeq(h) /\ Len(h) = n /\ Len(d) = l /\ Len(d) \in Nat
      BY <1>5, <1>6, <1>12, <2>1
    <3>2. i \in Nat /\ i > 0 /\ i <= Len(h) /\ q \in Nat
      BY <2>2, <3>1
    <3>3. /\ i > q /\ i <= q + Len(d) => Overwrite(h, q, d)[i] = d[i - q]
          /\ i <= Len(h) /\ ~(i > q /\ i <= q + Len(d)) => Overwrite(h, q, d)[i] = h[i]
      <4>1. Written(Overwrite(h, q, d), h, q, d)
        BY <3>1, <3>2, OverwriteIs
      <4>2. i \in Nat /\ i > 0
        BY <3>2
      <4> QED
        BY <4>1, <4>2 DEF Written
    <3> QED
      BY <3>1, <3>2, <3>3
  <2>4. o \in Spanned(x) <=> (i > q /\ i <= q + l)
    BY <2>1, <2>2 DEF Spanned
  <2> QED
    BY <1>13, <2>1, <2>2, <2>3, <2>4
<1> QED
  BY <1>1, <1>3, <1>4, <1>5, <1>9, <1>11, <1>14

\* The file offset of a byte of a record on disk, and the extent it is in.
LEMMA ByteAddr ==
    ASSUME Safe, NEW k \in DOMAIN rec, NEW o \in Nat, o < rec[k].ext_total
    PROVE  /\ o < Base(rec[k].ext, Len(rec[k].ext) + 1)
           /\ Addr(rec[k].ext, o) \in Nat
           /\ \E i \in DOMAIN rec[k].ext : In(Addr(rec[k].ext, o), rec[k].ext[i])
<1>1. PICK x : x = rec[k].ext
  OBVIOUS
<1>2. x \in Seq(Extent) /\ o < Base(x, Len(x) + 1)
  BY <1>1, RecordFields DEF Safe, Types, Rooms, Room
<1>3. PICK j \in DOMAIN x : /\ Base(x, j) <= o /\ o < Base(x, j) + x[j].len
                            /\ Addr(x, o) \in Nat
  BY <1>2, AddrProps
<1>4. In(Addr(x, o), x[j])
  BY <1>2, <1>3, AddrIn
<1> QED
  BY <1>1, <1>2, <1>3, <1>4

\* A piece has a file offset in it only if it has the byte that is there.
LEMMA PieceHas ==
    ASSUME Safe, Places, NEW t \in Threads, Tasks(t), pc[t] = "io", todo[t] # << >>, place[t].mem = NULL,
           NEW x, x = Head(todo[t]), NEW o \in Nat, o < rec[Key(t)].ext_total,
           x.at <= Addr(rec[Key(t)].ext, o), Addr(rec[Key(t)].ext, o) < x.at + x.n
    PROVE  o \in Spanned(x) /\ Addr(rec[Key(t)].ext, o) = x.at + (o - x.off)
<1>1. PICK r, a, e : r = rec[Key(t)] /\ e = r.ext /\ a = Addr(e, o)
  OBVIOUS
<1>2. Key(t) \in DOMAIN rec /\ r \in Record /\ x \in Fits(call[t], r) /\ r.mem = NULL
  BY <1>1, PieceLies
<1>3. x \in Transfer /\ Lies(r, x) /\ e \in Seq(Extent)
  BY <1>1, <1>2, RecordFields DEF Fits
<1>4. x.at \in Nat /\ x.off \in Nat /\ x.n \in Nat
  BY <1>3, PieceFields
<1>5. o < Base(e, Len(e) + 1) /\ a \in Nat /\ Clear(e)
  BY <1>1, <1>2, ByteAddr, ClearExtents DEF Safe
<1>6. PICK at, off, n : at = x.at /\ off = x.off /\ n = x.n
  OBVIOUS
<1>7. at \in Nat /\ off \in Nat /\ n \in Nat /\ at <= a /\ a < at + n
  BY <1>1, <1>4, <1>6
<1>8. PICK q : q = off + (a - at)
  OBVIOUS
<1>9. q \in Nat /\ q \in off .. (off + n - 1) /\ at + (q - off) = a
  BY <1>5, <1>7, <1>8
<1>10. q \in Spanned(x)
  BY <1>6, <1>9 DEF Spanned
<1>11. q < Base(r.ext, Len(r.ext) + 1) /\ Addr(r.ext, q) = x.at + (q - x.off)
  BY <1>1, <1>2, <1>3, <1>4, <1>10, LiesAt
<1>12. q < Base(e, Len(e) + 1) /\ Addr(e, q) = a
  BY <1>1, <1>6, <1>9, <1>11
<1>13. o = q
  BY <1>1, <1>3, <1>5, <1>9, <1>12, AddrOwn
<1> QED
  BY <1>1, <1>6, <1>9, <1>10, <1>13

\* What the extents of a record hold, wherever the record itself is.
LEMMA DiskHeld ==
    ASSUME Sound, FileSize', Types', NEW t \in Threads, Step(t), Tasks(t), Mirrored(t),
           NEW k \in DOMAIN rec, k \in DOMAIN rec', IsPrefix(rec[k].ext, rec'[k].ext),
           NEW o \in Nat, o < rec[k].ext_total, ~Stores(t, k, o), ~((Spill(t) \/ SpillFails(t)) /\ vic = k)
    PROVE  /\ Addr(rec'[k].ext, o) = Addr(rec[k].ext, o)
           /\ file'[Addr(rec[k].ext, o) + 1] = file[Addr(rec[k].ext, o) + 1]
<1>0. Safe /\ Places /\ Types /\ Control /\ Holding
  BY DEF Sound, Safe
<1>1. PICK x, y, a : x = rec[k].ext /\ y = rec'[k].ext /\ a = Addr(x, o)
  OBVIOUS
<1>2. x \in Seq(Extent) /\ y \in Seq(Extent)
  BY <1>0, <1>1, RecordFields DEF Types
<1>3. IsPrefix(x, y)
  BY <1>1
<1>4. o < Base(x, Len(x) + 1) /\ a \in Nat /\ \E i \in DOMAIN x : In(a, x[i])
  BY <1>0, <1>1, ByteAddr
<1>5. PICK i \in DOMAIN x : In(a, x[i])
  BY <1>4
<1>6. Addr(y, o) = a
  BY <1>1, <1>2, <1>3, <1>4, AddrPrefix
<1>7. x[i] \in Extents'
  <2>1. Len(x) \in Nat /\ Len(y) \in Nat /\ DOMAIN x = 1 .. Len(x) /\ DOMAIN y = 1 .. Len(y)
    BY <1>2, HoleFields
  <2>2. Len(x) <= Len(y) /\ x[i] = y[i]
    BY <1>2, <1>3, <2>1, BasePrefix
  <2>3. i \in DOMAIN y
    BY <2>1, <2>2
  <2> QED
    BY <1>1, <1>2, <2>2, <2>3, ExtentsAre
<1>9. ASSUME WritePiece(t)
      PROVE  ~(Head(todo[t]).at <= a /\ a < Head(todo[t]).at + Head(todo[t]).n)
  <2>1. PICK z : z = Head(todo[t])
    OBVIOUS
  <2>2. pc[t] = "io" /\ todo[t] # << >> /\ place[t].mem = NULL /\ z.dir = "write"
    BY <1>9, <2>1 DEF WritePiece
  <2>3. CASE Key(t) # k
    BY <1>0, <1>1, <1>4, <1>5, <2>1, <2>2, <2>3, PieceAway
  <2>4. CASE Key(t) = k
    <3>1. o \notin Spanned(z)
      BY <1>9, <2>1, <2>2, <2>4 DEF Stores
    <3> QED
      BY <1>0, <1>1, <2>1, <2>2, <2>4, <3>1, PieceHas
  <2> QED
    BY <2>1, <2>3, <2>4
<1>10. file'[a + 1] = file[a + 1]
  BY <1>1, <1>4, <1>5, <1>7, <1>9, FileHeld
<1> QED
  BY <1>1, <1>6, <1>10

LEMMA ByteOnDisk ==
    ASSUME Sound, FileSize', Types', NEW t \in Threads, Step(t), Tasks(t), Mirrored(t),
           NEW k \in DOMAIN rec, Settled(k), rec[k].mem = NULL,
           NEW o \in Nat, o < rec[k].ext_total, ~Stores(t, k, o)
    PROVE  Byte(k, o)' = Byte(k, o)
<1>0. Types /\ Holding
  BY DEF Sound, Safe
<1>1. PICK x, y : x = rec[k].ext /\ y = rec'[k].ext
  OBVIOUS
<1>2. x \in Seq(Extent) /\ k \in DOMAIN rec' /\ rec'[k].mem = NULL
  BY <1>0, <1>1, RecordFields DEF Types, Settled
<1>3. IsPrefix(x, y)
  <2>1. IsPrefix(x, x)
    BY <1>2 DEF IsPrefix
  <2>2. y = x \/ \E e \in Extent : y = Append(x, e)
    BY <1>1 DEF Settled
  <2> QED
    BY <1>2, <2>1, <2>2, PrefixOfMore
<1>4. ~((Spill(t) \/ SpillFails(t)) /\ vic = k)
  <2>1. Spill(t) \/ SpillFails(t) => vic # NoKey
    BY DEF Spill, SpillFails
  <2> QED
    BY <1>0, <2>1 DEF Holding
<1>5. Addr(y, o) = Addr(x, o) /\ file'[Addr(x, o) + 1] = file[Addr(x, o) + 1]
  BY <1>1, <1>2, <1>3, <1>4, DiskHeld
<1> QED
  BY <1>1, <1>2, <1>5 DEF Byte

LEMMA ByteInMemory ==
    ASSUME Sound, NEW t \in Threads, Step(t), Tasks(t),
           NEW k \in Resident, k \in DOMAIN rec', ~(Fit(t) /\ Key(t) = k), ~(Spill(t) /\ vic = k),
           NEW o \in Nat, o < rec[k].mem_cap, ~Stores(t, k, o)
    PROVE  Byte(k, o)' = Byte(k, o)
<1>0. Safe /\ Places /\ Pieces /\ Buffers
  BY DEF Sound
<1>1. PICK b : b = rec[k].mem
  OBVIOUS
<1>2. b # NULL /\ k \in DOMAIN rec
  BY <1>1 DEF Resident
<1>3. CASE ~(MemPiece(t) /\ Key(t) = k)
  <2>1. rec'[k].mem = b /\ heap'[b] = heap[b]
    BY <1>0, <1>1, <1>3, HeapHeld
  <2> QED
    BY <1>1, <1>2, <2>1 DEF Byte
<1>4. CASE MemPiece(t) /\ Key(t) = k
  <2>1. PICK x : x = Head(todo[t])
    OBVIOUS
  <2>2. rec' = rec
    BY <1>4 DEF MemPiece
  <2>3. CASE x.dir # "write"
    <3>1. heap' = heap
      <4>1. x \in Transfer
        BY <1>0, <1>4, <2>1, NextPiece DEF MemPiece
      <4>2. x.dir = "read"
        BY <2>3, <4>1 DEF Transfer
      <4> QED
        BY <1>4, <2>1, <4>2 DEF MemPiece
    <3> QED
      BY <1>1, <1>2, <2>2, <3>1 DEF Byte
  <2>4. CASE x.dir = "write"
    <3>1. o \notin Spanned(x)
      BY <1>4, <2>1, <2>4 DEF Stores
    <3>2. o < Len(heap[b])
      BY <1>0, <1>1 DEF Buffers, Buffer
    <3>3. heap'[b][o + 1] = heap[b][o + 1]
      BY <1>0, <1>1, <1>4, <2>1, <2>4, <3>1, <3>2, MemEffect
    <3> QED
      BY <1>1, <1>2, <2>2, <3>3 DEF Byte
  <2> QED
    BY <2>3, <2>4
<1> QED
  BY <1>3, <1>4

\* realloc keeps the bytes.
LEMMA ByteFit ==
    ASSUME Sound, NEW t \in Threads, Fit(t), Untiered(t), NEW k, k = Key(t), NEW o \in Nat, o < rec[k].size
    PROVE  Byte(k, o)' = Byte(k, o)
<1>0. Safe /\ Buffers /\ Types /\ Control /\ Memory /\ Rooms
  BY DEF Sound, Safe
<1>1. PICK r, n : r = rec[k] /\ n = Need(t)
  OBVIOUS
<1>2. k \in DOMAIN rec /\ r \in Record /\ pc[t] = "fit"
  BY <1>0, <1>1, FitEffect DEF Types
<1>3. r.mem # NULL
  <2> SUFFICES ASSUME r.mem = NULL PROVE FALSE
    OBVIOUS
  <2>1. r.ext = << >>
    BY <1>1, <1>2 DEF Untiered
  <2>2. r.size <= r.ext_total /\ r.ext_total = Base(r.ext, Len(r.ext) + 1)
    BY <1>0, <1>1, <1>2 DEF Rooms, Room
  <2>3. r.ext \in Seq(Extent)
    BY <1>2, RecordFields
  <2>4. Len(r.ext) + 1 = 1
    BY <2>1
  <2>5. Base(r.ext, 1) = 0
    BY <2>3, BaseProps
  <2>6. r.size \in Nat /\ o < r.size /\ r.size <= 0
    BY <1>1, <1>2, <2>2, <2>4, <2>5, RecordFields
  <2> QED
    BY <2>6
<1>4. PICK b \in Nat \ {0} :
            /\ b \notin DOMAIN heap \/ b = rec[Key(t)].mem
            /\ Sets(Key(t), [rec[Key(t)] EXCEPT !.mem = b, !.mem_cap = Need(t)])
            /\ LET old == IF rec[Key(t)].mem # NULL THEN heap[rec[Key(t)].mem] ELSE << >>
               IN  heap' = Bind(Without(heap, rec[Key(t)].mem), b,
                                old \o Zeros(Need(t) - Len(old)))
  BY <1>0, FitEffect
<1>5. PICK old : old = heap[r.mem]
  OBVIOUS
<1>6. heap' = Bind(Without(heap, r.mem), b, old \o Zeros(n - Len(old)))
  BY <1>1, <1>3, <1>4, <1>5
<1>7. PICK v : v = old \o Zeros(n - Len(old))
  OBVIOUS
<1>8. heap'[b] = v
  <2>1. PICK f : f = Without(heap, r.mem)
    OBVIOUS
  <2>2. heap' = Bind(f, b, v)
    BY <1>6, <1>7, <2>1
  <2> QED
    BY <2>2, TableProps
<1>9. rec'[k].mem = b /\ b # NULL
  <2>1. rec'[k] = [r EXCEPT !.mem = b, !.mem_cap = n]
    BY <1>1, <1>4 DEF Sets
  <2> QED
    BY <1>2, <2>1, RecordUpdates DEF NULL
<1>10. IsSeq(old) /\ Len(old) = r.mem_cap /\ r.size <= r.mem_cap
  BY <1>0, <1>1, <1>2, <1>3, <1>5 DEF Buffers, Buffer, Resident, Rooms, Room
<1>11. r.mem_cap \in Nat /\ r.size \in Nat /\ r.mem_cap <= n /\ n \in Nat
  <2>1. Growing(t)
    BY <1>0, <1>2 DEF Safe, Holding
  <2>2. call[t].op # "erase"
    BY <1>0, <1>2, NotErasing
  <2>3. n \in Nat
    BY <1>0, <1>1, <1>2, <2>2, Caught
  <2> QED
    BY <1>1, <1>2, <2>1, <2>3, RecordFields DEF Growing
<1>12. PICK z, l, m : z = Zeros(n - Len(old)) /\ l = Len(old) /\ m = n - l
  OBVIOUS
<1>13. l \in Nat /\ m \in Nat /\ o < l
  BY <1>1, <1>10, <1>11, <1>12
<1>14. IsSeq(z)
  BY <1>12, <1>13, ZerosLen
<1>15. v[o + 1] = old[o + 1]
  <2>1. PICK i : i = o + 1
    OBVIOUS
  <2>2. i \in 1 .. l /\ i \in 1 .. (l + Len(z)) /\ i <= l
    BY <1>13, <1>14, <2>1 DEF IsSeq
  <2>3. v = [j \in 1 .. (l + Len(z)) |-> IF j <= l THEN old[j] ELSE z[j - l]]
    BY <1>7, <1>12
  <2>4. v[i] = old[i]
    BY <2>2, <2>3
  <2> QED
    BY <2>1, <2>4
<1> QED
  BY <1>1, <1>3, <1>5, <1>8, <1>9, <1>15 DEF Byte

\* A spilled record has in its extents what it had in its buffer.
LEMMA ByteSpilled ==
    ASSUME Sound, NEW t \in Threads, Spill(t), NEW k, k = vic, NEW o \in Nat, o < rec[k].size
    PROVE  Byte(k, o)' = Byte(k, o)
<1>0. Safe /\ Types /\ Control /\ Holding /\ Space /\ Rooms /\ FileSize /\ IsSeq(file)
  BY DEF Sound, Safe, FileSize
<1>1. PICK r, n, z : r = rec[k] /\ n = NULL /\ z = 0
  OBVIOUS
<1>2. k \in DOMAIN rec /\ r \in Record /\ r.mem # NULL /\ r.size <= r.ext_total
      /\ Sets(k, [r EXCEPT !.mem = n, !.mem_cap = z])
  BY <1>0, <1>1, SpillEffect DEF Types
<1>3. r.ext \in Seq(Extent) /\ r.size \in Nat /\ r.ext_total \in Nat
  BY <1>2, RecordFields
<1>4. rec'[k].mem = NULL /\ rec'[k].ext = r.ext
  BY <1>1, <1>2, RecordUpdates DEF Sets
<1>5. o < Base(r.ext, Len(r.ext) + 1)
  BY <1>0, <1>1, <1>2, <1>3 DEF Rooms, Room
<1>6. \A j \in DOMAIN r.ext : End(r.ext[j]) <= Len(file)
  BY <1>0, <1>1, <1>2, ExtentsAre DEF FileSize
<1>7. file' = WriteOut(file, r.ext, heap[r.mem], r.size)
  BY <1>1 DEF Spill
<1>8. Clear(r.ext)
  BY <1>0, <1>1, <1>2, ClearExtents
<1>9. PICK h, x, s : h = heap[r.mem] /\ x = r.ext /\ s = r.size
  OBVIOUS
<1>10. file'[Addr(x, o) + 1] = h[o + 1]
  <2>1. /\ IsSeq(file) /\ x \in Seq(Extent) /\ s \in Nat /\ Clear(x) /\ file' = WriteOut(file, x, h, s)
        /\ o < s /\ o < Base(x, Len(x) + 1) /\ \A j \in DOMAIN x : End(x[j]) <= Len(file)
    BY <1>0, <1>1, <1>3, <1>5, <1>6, <1>7, <1>8, <1>9
  <2> QED
    BY <2>1, WriteOutAt
<1> QED
  BY <1>1, <1>2, <1>4, <1>9, <1>10 DEF Byte

\* No step changes a byte of a record that it does not store.
LEMMA ByteKept ==
    ASSUME Sound, FileSize', Types', NEW t \in Threads, Step(t), Tasks(t), Mirrored(t), Untiered(t),
           NEW k \in DOMAIN rec, k \in DOMAIN rec', NEW o \in Nat, o < rec[k].size, ~Stores(t, k, o)
    PROVE  Byte(k, o)' = Byte(k, o)
<1>0. Safe /\ Types /\ Control /\ Holding /\ Rooms /\ Memory /\ rec[k] \in Record
  BY DEF Sound, Safe, Types
<1>1. rec[k].size \in Nat /\ rec[k].ext_total \in Nat /\ rec[k].mem_cap \in Nat
  BY <1>0, RecordFields
<1>2. CASE Fit(t) /\ Key(t) = k
  BY <1>2, ByteFit
<1>3. CASE Spill(t) /\ vic = k
  BY <1>3, ByteSpilled
<1>4. CASE ~(Fit(t) /\ Key(t) = k) /\ ~(Spill(t) /\ vic = k)
  <2>1. CASE rec[k].mem # NULL
    <3>1. k \in Resident /\ o < rec[k].mem_cap
      BY <1>0, <1>1, <2>1 DEF Resident, Rooms, Room
    <3> QED
      BY <1>4, <3>1, ByteInMemory
  <2>2. CASE rec[k].mem = NULL
    <3>1. o < rec[k].ext_total
      BY <1>0, <1>1, <2>2 DEF Rooms, Room
    <3>2. Settled(k)
      <4>1. ASSUME rec'[k] = rec[k] PROVE Settled(k)
        BY <4>1 DEF Settled
      <4>2. CASE Fit(t)
        <5>1. \E q : Sets(Key(t), q)
          BY <1>0, <4>2, FitEffect
        <5>2. rec'[k] = rec[k]
          BY <1>4, <4>2, <5>1 DEF Sets
        <5> QED
          BY <4>1, <5>2
      <4>3. CASE Spill(t)
        <5>1. \E q : Sets(vic, q)
          BY <1>0, <4>3, SpillEffect
        <5>2. rec'[k] = rec[k]
          BY <1>4, <4>3, <5>1 DEF Sets
        <5> QED
          BY <4>1, <5>2
      <4>4. ASSUME NEW c \in Calls, ls_erase(t, c) PROVE Settled(k)
        <5>1. Drops(c.key)
          BY <1>0, <4>4, EraseShape
        <5>2. rec'[k] = rec[k]
          BY <5>1 DEF Drops
        <5> QED
          BY <4>1, <5>2
      <4> QED
        BY <1>0, <4>2, <4>3, <4>4, SettledBut
    <3> QED
      BY <2>2, <3>1, <3>2, ByteOnDisk
  <2> QED
    BY <2>1, <2>2
<1> QED
  BY <1>2, <1>3, <1>4

\* What a step stores is what its call combines or puts.
LEMMA ByteStored ==
    ASSUME Sound, NEW t \in Threads, Tasks(t), Mirrored(t), NEW k, k = Key(t), NEW o \in Nat,
           Stores(t, k, o), NEW x, x = Head(todo[t])
    PROVE  /\ k \in DOMAIN rec /\ place[t].mem = rec[k].mem /\ o - x.off + 1 \in 1 .. x.n
           /\ x.at \in Nat /\ x.off \in Nat /\ x.n \in Nat /\ (rec[k].mem # NULL => x.at = x.off)
           /\ Byte(k, o)' = Data(t, x, IF rec[k].mem # NULL THEN heap[rec[k].mem] ELSE file)[o - x.off + 1]
<1>0. Safe /\ Places /\ Pieces /\ Buffers /\ FileSize /\ Types
  BY DEF Sound, Safe
<1>1. PICK r : r = rec[k]
  OBVIOUS
<1>2. x.dir = "write" /\ o \in Spanned(x) /\ pc[t] = "io" /\ todo[t] # << >>
  BY <1>1 DEF Stores, MemPiece, WritePiece
<1>3. k \in DOMAIN rec /\ r \in Record /\ x \in Fits(call[t], r) /\ place[t].mem = r.mem
  BY <1>0, <1>1, <1>2, PieceLies
<1>4. x.at \in Nat /\ x.off \in Nat /\ x.n \in Nat
  BY <1>3, PieceFields DEF Fits
<1>5. PICK i : i = o - x.off + 1
  OBVIOUS
<1>6. i \in 1 .. x.n
  BY <1>2, <1>4, <1>5 DEF Spanned
<1>8. CASE MemPiece(t)
  <2>1. PICK b : b = r.mem
    OBVIOUS
  <2>2. /\ b # NULL /\ x.at = x.off /\ x.off + x.n <= Len(heap[b]) /\ rec' = rec
        /\ \A q \in Nat : q < Len(heap[b]) =>
                heap'[b][q + 1] = IF q \in Spanned(x) THEN Data(t, x, heap[b])[q - x.off + 1]
                                                     ELSE heap[b][q + 1]
    BY <1>0, <1>1, <1>2, <1>8, <2>1, MemEffect
  <2>3. o < Len(heap[b])
    <3>1. Len(heap[b]) \in Nat
      <4>1. k \in Resident
        BY <1>1, <1>3, <2>1, <2>2 DEF Resident
      <4> QED
        BY <1>0, <1>1, <2>1, <4>1 DEF Buffers, Buffer, IsSeq
    <3> QED
      BY <1>2, <1>4, <2>2, <3>1 DEF Spanned
  <2>4. heap'[b][o + 1] = Data(t, x, heap[b])[i]
    BY <1>2, <1>5, <2>2, <2>3
  <2>5. Byte(k, o)' = heap'[b][o + 1]
    BY <1>1, <2>1, <2>2 DEF Byte
  <2> QED
    BY <1>1, <1>3, <1>4, <1>5, <1>6, <2>1, <2>2, <2>4, <2>5
<1>9. CASE WritePiece(t)
  <2>1. rec' = rec /\ r.mem = NULL
    BY <1>3, <1>9 DEF WritePiece
  <2>2. Puts(x.at, x.n, Data(t, x, file))
    BY <1>0, <1>1, <1>9, WriteEffect
  <2>3. Lies(r, x) /\ r.ext \in Seq(Extent)
    BY <1>3, RecordFields DEF Fits
  <2>4. o < Base(r.ext, Len(r.ext) + 1) /\ Addr(r.ext, o) = x.at + (o - x.off)
    BY <1>2, <1>4, <2>1, <2>3, LiesAt
  <2>5. PICK a : a = Addr(r.ext, o)
    OBVIOUS
  <2>6. a \in Nat /\ x.at <= a /\ a < x.at + x.n /\ a - x.at + 1 = i
    <3>1. PICK at, q, n : at = x.at /\ q = x.off /\ n = x.n
      OBVIOUS
    <3>2. at \in Nat /\ q \in Nat /\ n \in Nat /\ o \in q .. (q + n - 1) /\ i = o - q + 1 /\ a = at + (o - q)
      BY <1>2, <1>4, <1>5, <2>4, <2>5, <3>1 DEF Spanned
    <3>3. a \in Nat /\ at <= a /\ a < at + n /\ a - at + 1 = i
      BY <3>2
    <3> QED
      BY <3>1, <3>3
  <2>7. a < Len(file)
    <3>1. o < r.ext_total
      BY <1>0, <1>1, <1>3, <2>4 DEF Safe, Rooms, Room
    <3>2. PICK j \in DOMAIN r.ext : In(a, r.ext[j])
      BY <1>0, <1>1, <1>3, <2>5, <3>1, ByteAddr
    <3>3. End(r.ext[j]) <= Len(file) /\ Len(file) \in Nat
      BY <1>0, <1>1, <1>3, ExtentsAre DEF FileSize, IsSeq
    <3>4. r.ext[j].foff \in Nat /\ r.ext[j].len \in Nat
      BY <2>3, HoleFields
    <3> QED
      BY <2>6, <3>2, <3>3, <3>4 DEF In, End
  <2>8. file'[a + 1] = Data(t, x, file)[a - x.at + 1]
    BY <2>2, <2>6, <2>7 DEF Puts
  <2>9. file'[a + 1] = Data(t, x, file)[i]
    BY <2>6, <2>8
  <2>10. Byte(k, o)' = file'[a + 1]
    BY <1>1, <2>1, <2>5 DEF Byte
  <2> QED
    BY <1>1, <1>3, <1>4, <1>5, <1>6, <2>1, <2>9, <2>10
<1> QED
  BY <1>8, <1>9 DEF Stores

\* A piece that is stored holds the caller's value.
LEMMA ByteWritten ==
    ASSUME Sound, NEW t \in Threads, Tasks(t), Mirrored(t), NEW k, k = Key(t), NEW o \in Nat,
           Stores(t, k, o), call[t].op # "acc"
    PROVE  Byte(k, o)' = call[t].val
<1>1. PICK x, i : x = Head(todo[t]) /\ i = o - x.off + 1
  OBVIOUS
<1>2. i \in 1 .. x.n /\ \E old : Byte(k, o)' = Data(t, x, old)[i]
  BY <1>1, ByteStored
<1>3. \A old : Data(t, x, old)[i] = call[t].val
  BY <1>2 DEF Data
<1> QED
  BY <1>2, <1>3
-----------------------------------------------------------------------------
(* What a thread has read for a direct write.                              *)

\* Callers use one key from several threads only without O_DIRECT.
Undirected == \A s \in DOMAIN Settings : Settings[s].same_key => ~Settings[s].direct

LEMMA BlockByte ==
    ASSUME Safe, FileSize, Places, Grid, NEW u \in Threads, Tasks(u), pc[u] = "io", todo[u] # << >>,
           place[u].mem = NULL, NEW x, x = Head(todo[u]),
           NEW i \in 1 .. (round_up(x.at + x.n) - BlockStart(x.at)), NEW a, a = BlockStart(x.at) + i - 1
    PROVE  /\ a \in Nat /\ a < Len(file) /\ a + 1 = BlockStart(x.at) + i
           /\ Key(u) \in DOMAIN rec /\ rec[Key(u)].mem = NULL
           /\ \E j \in DOMAIN rec[Key(u)].ext : In(a, rec[Key(u)].ext[j])
<1>1. PICK r : r = rec[Key(u)]
  OBVIOUS
<1>2. Key(u) \in DOMAIN rec /\ r \in Record /\ x \in Fits(call[u], r) /\ r.mem = NULL
  BY <1>1, PieceLies
<1>3. PICK j \in DOMAIN r.ext : r.ext[j].foff <= x.at /\ x.at + x.n <= End(r.ext[j])
  BY <1>2 DEF Fits, Lies
<1>4. x.at \in Nat /\ x.n \in Nat /\ r.ext \in Seq(Extent)
  BY <1>2, PieceFields, RecordFields DEF Fits
<1>5. PICK e : e = r.ext[j]
  OBVIOUS
<1>6. e \in Extents /\ e \in Owned /\ e \in Extent
  BY <1>1, <1>2, <1>3, <1>4, <1>5, ExtentsAre, HoleFields DEF Owned
<1>7. OnGrid(e) /\ End(e) <= Len(file) /\ Len(file) \in Nat
  BY <1>6 DEF Grid, FileSize, IsSeq
<1>8. PICK lo, hi, f, l : lo = BlockStart(x.at) /\ hi = round_up(x.at + x.n) /\ f = e.foff /\ l = e.len
  OBVIOUS
<1>9. f <= lo /\ hi <= f + l
  <2>1. e.foff <= x.at /\ x.at + x.n <= End(e)
    BY <1>3, <1>5
  <2>2. PICK at, n : at = x.at /\ n = x.n
    OBVIOUS
  <2>3. at \in Nat /\ n \in Nat /\ e.foff <= at /\ at + n <= End(e)
    BY <1>4, <2>1, <2>2
  <2>4. e.foff <= BlockStart(at) /\ round_up(at + n) <= End(e)
    BY <1>6, <1>7, <2>3, BlocksInside
  <2>5. End(e) = f + l
    BY <1>8 DEF End
  <2> QED
    BY <1>8, <2>2, <2>4, <2>5
<1>10. lo \in Nat /\ hi \in Nat
  <2>1. PICK at, n, m : at = x.at /\ n = x.n /\ m = at + n
    OBVIOUS
  <2>2. at \in Nat /\ n \in Nat
    BY <1>4, <2>1
  <2>3. m \in Nat
    BY <2>1, <2>2
  <2>4. BlockStart(at) \in Nat /\ round_up(m) \in Nat
    BY <2>2, <2>3, BlockEdges
  <2> QED
    BY <1>8, <2>1, <2>4
<1>11. f \in Nat /\ l \in Nat /\ f + l <= Len(file)
  BY <1>6, <1>7, <1>8 DEF Extent, End
<1>12. i \in 1 .. (hi - lo) /\ a = lo + i - 1
  BY <1>8
<1>13. a \in Nat /\ f <= a /\ a < f + l /\ a < Len(file) /\ a + 1 = lo + i
  BY <1>7, <1>9, <1>10, <1>11, <1>12
<1>14. In(a, e)
  BY <1>8, <1>13 DEF In
<1> QED
  BY <1>1, <1>2, <1>3, <1>5, <1>8, <1>13, <1>14

LEMMA MirroredOthers ==
    ASSUME Sound, FileSize', Types', Grid, Unmixed, Undirected, NEW t \in Threads, Step(t), UNCHANGED setting,
           \A u \in Threads : Tasks(u) /\ Mirrored(u), DOMAIN buf = Threads,
           NEW u \in Threads \ {t}
    PROVE  Mirrored(u)'
<1>0. Safe /\ FileSize /\ Pieces /\ Places /\ Types /\ Control /\ Holding
  BY DEF Sound, Safe
<1>1. pc'[u] = pc[u] /\ todo'[u] = todo[u] /\ place'[u] = place[u] /\ bounce'[u] = bounce[u]
  BY <1>0, OthersStay, OthersHold
<1>2. Direct' = Direct
  BY DEF Direct
<1> SUFFICES ASSUME bounce[u] # << >>
             PROVE  Copied(bounce[u], Head(todo[u]))' /\ pc[u] = "io" /\ todo[u] # << >> /\ place[u].mem = NULL /\ Direct
  BY <1>1, <1>2 DEF Mirrored
<1>3. pc[u] = "io" /\ todo[u] # << >> /\ place[u].mem = NULL /\ Direct /\ Copied(bounce[u], Head(todo[u]))
  BY DEF Mirrored
<1>4. PICK x, k, lo : x = Head(todo[u]) /\ k = Key(u) /\ lo = BlockStart(x.at)
  OBVIOUS
<1>5. /\ x.dir = "write" /\ Len(bounce[u]) = round_up(x.at + x.n) - BlockStart(x.at)
      /\ \A i \in 1 .. Len(bounce[u]) : bounce[u][i] = file[BlockStart(x.at) + i]
  BY <1>3, <1>4 DEF Copied
<1>6. ASSUME NEW i \in 1 .. Len(bounce[u])
      PROVE  file'[lo + i] = file[lo + i]
  <2>1. PICK a : a = BlockStart(x.at) + i - 1
    OBVIOUS
  <2>2. i \in 1 .. (round_up(x.at + x.n) - BlockStart(x.at))
    BY <1>5, <1>6
  <2>3. /\ a \in Nat /\ a + 1 = lo + i /\ k \in DOMAIN rec /\ rec[k].mem = NULL
        /\ \E j \in DOMAIN rec[k].ext : In(a, rec[k].ext[j])
    BY <1>0, <1>3, <1>4, <2>1, <2>2, BlockByte
  <2>4. PICK j \in DOMAIN rec[k].ext : In(a, rec[k].ext[j])
    BY <2>3
  <2>5. Settled(k)
    BY <1>0, <1>3, <1>4, UsedSettled
  <2>6. rec[k].ext[j] \in Extents'
    <3>1. PICK x1, y1 : x1 = rec[k].ext /\ y1 = rec'[k].ext
      OBVIOUS
    <3>2. x1 \in Seq(Extent) /\ Len(x1) \in Nat /\ DOMAIN x1 = 1 .. Len(x1)
      BY <1>0, <2>3, <3>1, RecordFields, HoleFields DEF Types
    <3>3. y1 = x1 \/ \E e \in Extent : y1 = Append(x1, e)
      BY <2>5, <3>1 DEF Settled
    <3>4. j \in DOMAIN y1 /\ y1[j] = x1[j]
      BY <2>4, <3>1, <3>2, <3>3
    <3>5. k \in DOMAIN rec'
      BY <2>5 DEF Settled
    <3> QED
      BY <3>1, <3>4, <3>5, ExtentsAre
  <2>7. ~((Spill(t) \/ SpillFails(t)) /\ vic = k)
    <3>1. Spill(t) \/ SpillFails(t) => vic # NoKey
      BY DEF Spill, SpillFails
    <3> QED
      BY <1>0, <2>3, <3>1 DEF Holding
  <2>8. ASSUME WritePiece(t)
        PROVE  ~(Head(todo[t]).at <= a /\ a < Head(todo[t]).at + Head(todo[t]).n)
    <3>1. pc[t] = "io" /\ todo[t] # << >> /\ place[t].mem = NULL
      BY <2>8 DEF WritePiece
    <3>2. ~SameKey
      BY <1>0, <1>3 DEF Undirected, Direct, SameKey, Types
    <3>3. Key(t) # k
      BY <1>0, <1>4, <3>1, <3>2 DEF Control, Active
    <3> QED
      BY <1>0, <2>3, <2>4, <3>1, <3>3, PieceAway
  <2>9. file'[a + 1] = file[a + 1]
    BY <2>3, <2>4, <2>6, <2>7, <2>8, FileHeld
  <2> QED
    BY <2>3, <2>9
<1>7. /\ Len(bounce'[u]) = round_up(x.at + x.n) - BlockStart(x.at)
      /\ \A i \in 1 .. Len(bounce'[u]) : bounce'[u][i] = file'[BlockStart(x.at) + i]
  BY <1>1, <1>4, <1>5, <1>6
<1>8. Head(todo'[u]) = x
  BY <1>1, <1>4
<1>9. Copied(bounce[u], Head(todo[u]))'
  BY <1>5, <1>7, <1>8 DEF Copied
<1> QED
  BY <1>3, <1>9

LEMMA MirroredOwn ==
    ASSUME Sound, Grid, NEW t \in Threads, Step(t), UNCHANGED setting, Tasks(t), Mirrored(t)
    PROVE  Mirrored(t)'
<1>0. Safe /\ FileSize /\ Pieces /\ Places /\ Types /\ Control /\ Holding
  BY DEF Sound, Safe
<1>1. DOMAIN bounce = Threads
  BY <1>0 DEF Pieces
<1>2. ASSUME bounce'[t] = << >> PROVE Mirrored(t)'
  BY <1>2 DEF Mirrored
<1>3. ASSUME Bounce(t) PROVE Mirrored(t)'
  <2>1. PICK x, lo, n : x = Head(todo[t]) /\ lo = BlockStart(x.at) /\ n = round_up(x.at + x.n) - lo
    OBVIOUS
  <2>2. /\ pc[t] = "io" /\ todo[t] # << >> /\ place[t].mem = NULL /\ x.dir = "write" /\ NeedsBounce(x)
        /\ UNCHANGED <<pc, todo, place, file>>
        /\ bounce'[t] = [i \in 1 .. n |-> IF lo + i <= Len(file) THEN file[lo + i] ELSE 0]
    BY <1>1, <1>3, <2>1 DEF Bounce
  <2>3. Direct'
    BY <2>2 DEF NeedsBounce, Direct
  <2>4. n \in Nat
    <3>1. x.at \in Nat /\ x.n \in Nat
      BY <1>0, <2>1, <2>2, NextPiece, PieceFields
    <3> QED
      BY <2>1, <3>1, BlockProps
  <2>5. Len(bounce'[t]) = n
    BY <2>2, <2>4
  <2>6. ASSUME NEW i \in 1 .. n
        PROVE  bounce'[t][i] = file[lo + i]
    <3>1. PICK a : a = BlockStart(x.at) + i - 1
      OBVIOUS
    <3>2. i \in 1 .. (round_up(x.at + x.n) - BlockStart(x.at))
      BY <2>1, <2>6
    <3>3. a \in Nat /\ a < Len(file) /\ a + 1 = lo + i
      BY <1>0, <2>1, <2>2, <3>1, <3>2, BlockByte
    <3>4. lo + i <= Len(file)
      <4>1. Len(file) \in Nat
        BY <1>0 DEF FileSize, IsSeq
      <4> QED
        BY <3>3, <4>1
    <3> QED
      BY <2>2, <3>4
  <2>7. Copied(bounce[t], Head(todo[t]))'
    <3>1. Head(todo'[t]) = x /\ file' = file
      BY <2>1, <2>2
    <3>2. \A i \in 1 .. Len(bounce'[t]) : bounce'[t][i] = file'[BlockStart(x.at) + i]
      BY <2>1, <2>5, <2>6, <3>1
    <3>3. Len(bounce'[t]) = round_up(x.at + x.n) - BlockStart(x.at)
      BY <2>1, <2>5
    <3> QED
      BY <2>2, <3>1, <3>2, <3>3 DEF Copied
  <2> QED
    BY <2>2, <2>3, <2>7 DEF Mirrored
<1>4. ASSUME MemPiece(t) PROVE Mirrored(t)'
  <2>1. place[t].mem # NULL /\ bounce' = bounce
    BY <1>4 DEF MemPiece
  <2> QED
    BY <1>2, <2>1 DEF Mirrored
<1>5. ASSUME ReadPiece(t) PROVE Mirrored(t)'
  <2>1. Head(todo[t]).dir = "read" /\ bounce' = bounce
    BY <1>5 DEF ReadPiece
  <2> QED
    BY <1>2, <2>1 DEF Mirrored, Copied
<1>6. ASSUME WritePiece(t) \/ PieceFails(t) PROVE Mirrored(t)'
  <2>1. bounce'[t] = << >>
    BY <1>1, <1>6 DEF WritePiece, PieceFails
  <2> QED
    BY <1>2, <2>1
<1>7. ASSUME Transferred(t) PROVE Mirrored(t)'
  <2>1. todo[t] = << >> /\ bounce' = bounce
    BY <1>7 DEF Transferred, thread
  <2> QED
    BY <1>2, <2>1 DEF Mirrored
<1>8. ASSUME pc[t] # "io", bounce' = bounce PROVE Mirrored(t)'
  BY <1>2, <1>8 DEF Mirrored
<1>9. ASSUME \E c \in Calls : StartRead(t, c) \/ StartGrow(t, Resolve(c)) \/ ls_erase(t, c)
      PROVE  Mirrored(t)'
  <2>1. pc[t] = "idle" /\ bounce' = bounce
    BY <1>9 DEF StartRead, StartGrow, ls_erase, Enter
  <2> QED
    BY <1>8, <2>1
<1>10. ASSUME Leave(t) \/ Cap(t) \/ Evict(t) \/ Fit(t) \/ NoFit(t) \/ Alloc(t) \/ Zero(t) \/ ZeroFails(t)
       PROVE  Mirrored(t)'
  <2>1. pc[t] # "io" /\ bounce' = bounce
    BY <1>10 DEF Leave, Cap, Evict, Fit, NoFit, Alloc, Zero, ZeroFails, thread
  <2> QED
    BY <1>8, <2>1
<1>11. ASSUME Spill(t) \/ SpillFails(t) \/ Backed(t) \/ Free(t) \/ Freed(t) \/ Ready(t) \/ Reserved(t)
       PROVE  Mirrored(t)'
  <2>1. pc[t] # "io" /\ bounce' = bounce
    BY <1>11 DEF Spill, SpillFails, Backed, Free, Freed, Ready, Reserved, thread
  <2> QED
    BY <1>8, <2>1
<1> QED
  BY <1>3, <1>4, <1>5, <1>6, <1>7, <1>9, <1>10, <1>11 DEF Step
-----------------------------------------------------------------------------
(* What a call has done.                                                   *)

\* A call moves bytes that its record has.
Reaches(u) == pc[u] \in Moving => Need(u) <= rec[Key(u)].size

LEMMA CoversReach ==
    ASSUME NEW c \in Call, NEW o \in Covers(c)
    PROVE  o \in Nat /\ o < High(c.segs) /\ c.op \notin {"reserve", "erase"}
<1>0. c.segs \in Seq(Segment)
  BY DEF Call
<1>1. c.op \notin {"reserve", "erase"}
  BY DEF Covers
<1>2. PICK i \in DOMAIN c.segs : o \in c.segs[i].off .. (c.segs[i].off + c.segs[i].n - 1)
  BY DEF Covers
<1>3. c.segs[i].off \in Nat /\ c.segs[i].n \in Nat /\ High(c.segs) \in Nat
      /\ c.segs[i].off + c.segs[i].n <= High(c.segs)
  BY <1>0, <1>2, SegFields, HighProps
<1>4. PICK f, n, h : f = c.segs[i].off /\ n = c.segs[i].n /\ h = High(c.segs)
  OBVIOUS
<1>5. f \in Nat /\ n \in Nat /\ h \in Nat /\ f + n <= h /\ o \in f .. (f + n - 1)
  BY <1>2, <1>3, <1>4
<1>6. o \in Nat /\ o < h
  BY <1>5
<1> QED
  BY <1>1, <1>4, <1>6

LEMMA ReachesNext ==
    ASSUME Safe, Safe', NEW t \in Threads, Step(t), \A u \in Threads : Tasks(u) /\ Reaches(u)
    PROVE  \A u \in Threads : Reaches(u)'
<1>0. Types /\ Control /\ Types' /\ Control' /\ DOMAIN pc = Threads /\ DOMAIN call = Threads
  BY DEF Safe, Types
<1>1. ASSUME NEW u \in Threads, pc[u] \in Moving, pc'[u] \in Moving, call'[u] = call[u]
      PROVE  Reaches(u)'
  <2>1. PICK k, n : k = Key(u) /\ n = Need(u)
    OBVIOUS
  <2>2. call[u].op # "erase" /\ call'[u].op # "erase"
    BY <1>0, <1>1 DEF Tasks, Moving
  <2>3. k \in DOMAIN rec /\ n \in Nat
    BY <1>0, <1>1, <2>1, <2>2, Caught DEF Moving
  <2>4. k \in DOMAIN rec'
    <3>1. Active(u)' /\ Key(u)' = k
      BY <1>1, <2>1 DEF Active, Moving, Key
    <3> QED
      BY <1>0, <2>2, <3>1 DEF Control
  <2>5. rec[k].size \in Nat /\ rec'[k].size \in Nat /\ rec'[k].size >= rec[k].size
    BY <2>3, <2>4, SizesGrow
  <2>6. n <= rec[k].size
    BY <1>1, <2>1 DEF Reaches
  <2>7. n <= rec'[k].size
    BY <2>3, <2>5, <2>6
  <2>8. Need(u)' = n /\ Key(u)' = k
    BY <1>1, <2>1 DEF Need, Key
  <2> QED
    BY <2>7, <2>8 DEF Reaches
<1>2. ASSUME NEW u \in Threads \ {t} PROVE Reaches(u)'
  <2>1. pc'[u] = pc[u] /\ call'[u] = call[u]
    BY OthersStay
  <2> QED
    BY <1>1, <2>1 DEF Reaches
<1>3. ASSUME NEW c \in Calls, StartRead(t, c) PROVE Reaches(t)'
  <2>1. /\ call'[t] = c /\ c.key \in DOMAIN rec /\ High(c.segs) <= rec[c.key].size
        /\ rec'[c.key].size = rec[c.key].size
    <3>1. PICK r, n : r = rec[c.key] /\ n = r.size
      OBVIOUS
    <3>2. call'[t] = c /\ c.key \in DOMAIN rec /\ High(c.segs) <= n /\ Launch(t, c, r, n)
      BY <1>0, <1>3, <3>1 DEF StartRead
    <3>3. r \in Record
      BY <1>0, <3>1, <3>2 DEF Types
    <3>4. PICK b : b = r.busy + 1
      OBVIOUS
    <3>5. rec'[c.key] = [r EXCEPT !.size = n, !.busy = b]
      BY <3>2, <3>4 DEF Launch
    <3>6. rec'[c.key].size = n
      BY <3>3, <3>5, RecordUpdates
    <3> QED
      BY <3>1, <3>2, <3>6
  <2> QED
    BY <2>1 DEF Reaches, Key, Need
<1>4. ASSUME Ready(t) PROVE Reaches(t)'
  <2>1. PICK k, r, n : k = Key(t) /\ r = rec[k] /\ n = Need(t)
    OBVIOUS
  <2>2. pc[t] = "ready" /\ k \in DOMAIN rec /\ Sets(k, [r EXCEPT !.size = NewSize(r, n), !.busy = r.busy + 1])
    BY <1>0, <1>4, <2>1, ReadyEffect
  <2>3. n \in Nat /\ r \in Record /\ r.size \in Nat
    BY <1>0, <2>1, <2>2, NotErasing, Caught, RecordFields
  <2>4. PICK s, b : s = NewSize(r, n) /\ b = r.busy + 1
    OBVIOUS
  <2>5. rec'[k].size = s
    BY <2>2, <2>3, <2>4, RecordUpdates DEF Sets
  <2>6. n <= s
    BY <2>3, <2>4, MaxOfTwo DEF NewSize
  <2>7. call'[t] = call[t]
    BY <1>4 DEF Ready
  <2> QED
    BY <2>1, <2>5, <2>6, <2>7 DEF Reaches, Key, Need
<1>5. ASSUME MemPiece(t) \/ ReadPiece(t) \/ Bounce(t) \/ WritePiece(t) \/ PieceFails(t) \/ Transferred(t)
      PROVE  Reaches(t)'
  <2>1. pc[t] \in Moving /\ call'[t] = call[t] /\ pc'[t] \in Moving
    BY <1>0, <1>5 DEF MemPiece, ReadPiece, Bounce, WritePiece, PieceFails, Transferred, thread, Goto, Moving
  <2> QED
    BY <1>1, <2>1
<1>6. ASSUME pc'[t] \notin Moving PROVE Reaches(t)'
  BY <1>6 DEF Reaches
<1>g. \A w : Goto(t, w) => pc'[t] = w
  BY <1>0 DEF Goto
<1>7. ASSUME \E c \in Calls : StartGrow(t, Resolve(c)) \/ ls_erase(t, c) PROVE Reaches(t)'
  <2>1. pc'[t] \in {"cap", "free"}
    BY <1>0, <1>7 DEF StartGrow, ls_erase
  <2> QED
    BY <1>6, <2>1 DEF Moving
<1>8. ASSUME Leave(t) \/ Cap(t) \/ Evict(t) \/ Fit(t) \/ NoFit(t) \/ Alloc(t) \/ Zero(t) \/ ZeroFails(t)
      PROVE  Reaches(t)'
  <2>1. pc'[t] \notin {"io", "fin"}
    BY <1>8, <1>g DEF Leave, Cap, Evict, Fit, NoFit, Alloc, Zero, ZeroFails, ToExtents
  <2> QED
    BY <1>6, <2>1 DEF Moving
<1>9. ASSUME Spill(t) \/ SpillFails(t) \/ Backed(t) \/ Free(t) \/ Freed(t) \/ Reserved(t)
      PROVE  Reaches(t)'
  <2>1. pc'[t] \notin {"io", "fin"}
    BY <1>9, <1>g DEF Spill, SpillFails, Backed, Free, Freed, Reserved, Fail
  <2> QED
    BY <1>6, <2>1 DEF Moving
<1>10. Reaches(t)'
  BY <1>3, <1>4, <1>5, <1>7, <1>8, <1>9 DEF Step
<1> QED
  BY <1>2, <1>10

\* The byte is read, or stored, as the call says.
Done(u, o) ==
    IF call[u].op = "read" THEN o \in DOMAIN buf[u] /\ buf[u][o] = Byte(Key(u), o)
                           ELSE Byte(Key(u), o) = call[u].val

\* What a call has not yet moved, it still has to move.
Effect(u) ==
    pc[u] \in Moving /\ rc[u] = "LS_OK" /\ call[u].op \in {"read", "write", "append"} =>
        \A o \in Covers(call[u]) : o \in Pending(todo[u]) \/ Done(u, o)

\* A transfer covers its ranges.
LEMMA LaunchedCovers ==
    ASSUME NEW t \in Threads, NEW c \in Call, c.op \in {"read", "write", "append"}, NEW r \in Record, NEW n,
           Launch(t, c, r, n), DOMAIN todo = Threads, r.ext_total = Base(r.ext, Len(r.ext) + 1),
           r.mem = NULL => High(c.segs) <= r.ext_total
    PROVE  \A o \in Covers(c) : o \in Pending(todo'[t])
<1> TAKE o \in Covers(c)
<1>1. PICK p : p = [mem |-> r.mem, ext |-> r.ext]
  OBVIOUS
<1>2. p.ext \in Seq(Extent) /\ p.mem = r.mem /\ p.ext = r.ext /\ r.ext_total \in Nat
  BY <1>1, RecordFields
<1>3. o \in Nat /\ o < High(c.segs) /\ High(c.segs) \in Nat
  BY CoversReach, HighProps DEF Call
<1>4. p.mem = NULL => o < Base(p.ext, Len(p.ext) + 1)
  <2>1. PICK b, h : b = r.ext_total /\ h = High(c.segs)
    OBVIOUS
  <2>2. p.mem = NULL => o < b
    BY <1>2, <1>3, <2>1
  <2> QED
    BY <1>2, <2>1, <2>2
<1>5. o \in Pending(Transfers(c, p))
  BY <1>2, <1>4, TransfersCover
<1>6. todo'[t] = Transfers(c, p)
  BY <1>1 DEF Launch
<1> QED
  BY <1>5, <1>6

\* The bytes of a call's ranges stay as they are while another thread takes a step.
LEMMA OthersKeep ==
    ASSUME Sound, Sound', NEW t \in Threads, Step(t), Mirrored(t), Untiered(t),
           NEW u \in Threads \ {t}, Tasks(t), Tasks(u), Reaches(u), Unshared(t, u),
           pc[u] \in Moving, NEW o \in Covers(call[u])
    PROVE  Byte(Key(u), o)' = Byte(Key(u), o)
<1>0. Safe /\ Pieces /\ Places /\ Types /\ Control /\ Types' /\ Control' /\ FileSize'
  BY DEF Sound, Safe
<1>1. pc'[u] = pc[u] /\ call'[u] = call[u]
  BY <1>0, OthersStay
<1>2. call[u].op \notin {"reserve", "erase"}
  BY DEF Tasks, Moving
<1>3. PICK k : k = Key(u)
  OBVIOUS
<1>4. call[u] \in Call /\ k \in DOMAIN rec /\ rec[k] \in Record
  BY <1>0, <1>2, <1>3, Caught DEF Moving
<1>5. k \in DOMAIN rec'
  <2>1. Active(u)' /\ Key(u)' = k /\ call'[u].op # "erase"
    BY <1>1, <1>2, <1>3 DEF Active, Moving, Key
  <2> QED
    BY <1>0, <2>1 DEF Control
<1>6. o \in Nat /\ o < rec[k].size
  <2>1. o \in Nat /\ o < Need(u) /\ Need(u) \in Nat
    BY <1>4, CoversReach, HighProps DEF Need, Call
  <2>2. Need(u) <= rec[k].size /\ rec[k].size \in Nat
    BY <1>3, <1>4, RecordFields DEF Reaches
  <2> QED
    BY <2>1, <2>2
<1>7. ~Stores(t, k, o)
  <2> SUFFICES ASSUME Stores(t, k, o) PROVE FALSE
    OBVIOUS
  <2>1. PICK x : x = Head(todo[t])
    OBVIOUS
  <2>2. pc[t] = "io" /\ todo[t] # << >> /\ Key(t) = k /\ x.dir = "write" /\ o \in Spanned(x)
    BY <2>1 DEF Stores, MemPiece, WritePiece
  <2>3. x \in Fits(call[t], rec[Key(t)]) /\ call[t] \in Call /\ call[t].op \notin {"reserve", "erase"}
    BY <1>0, <2>1, <2>2, PieceLies DEF Tasks, Control
  <2>4. o \in Covers(call[t]) /\ call[t].op # "read"
    BY <2>2, <2>3 DEF Fits
  <2>5. Writes(call[t])
    BY <2>3, <2>4 DEF Writes, Call
  <2>6. Active(t) /\ Active(u)
    BY <2>2 DEF Active, Moving
  <2> QED
    BY <1>3, <2>2, <2>4, <2>5, <2>6 DEF Unshared
<1>8. Byte(k, o)' = Byte(k, o)
  BY <1>0, <1>4, <1>5, <1>6, <1>7, ByteKept
<1> QED
  <2>1. Key(u)' = k
    BY <1>1, <1>3 DEF Key
  <2>2. Byte(Key(u), o)' = Byte(k, o)'
    BY <2>1 DEF Byte
  <2> QED
    BY <1>3, <1>8, <2>2

\* A call keeps what it has done while another thread takes a step.
LEMMA EffectOthers ==
    ASSUME Sound, Sound', NEW t \in Threads, Step(t), DOMAIN buf = Threads, Mirrored(t), Untiered(t),
           NEW u \in Threads \ {t}, Tasks(t), Tasks(u), Reaches(u), Unshared(t, u), Effect(u)
    PROVE  Effect(u)'
<1>0. Safe /\ Pieces /\ Places /\ Types /\ Control /\ Types' /\ Control' /\ FileSize'
  BY DEF Sound, Safe
<1>1. /\ pc'[u] = pc[u] /\ call'[u] = call[u] /\ todo'[u] = todo[u]
      /\ buf'[u] = buf[u] /\ rc'[u] = rc[u]
  BY <1>0, OthersStay, OthersHold
<1> SUFFICES ASSUME pc[u] \in Moving, rc[u] = "LS_OK", call[u].op \in {"read", "write", "append"},
                    NEW o \in Covers(call[u])
             PROVE  o \in Pending(todo[u]) \/ Done(u, o)'
  BY <1>1 DEF Effect
<1>2. o \in Pending(todo[u]) \/ Done(u, o)
  BY DEF Effect
<1>3. Byte(Key(u), o)' = Byte(Key(u), o)
  BY OthersKeep
<1>4. Done(u, o) => Done(u, o)'
  BY <1>1, <1>3 DEF Done
<1> QED
  BY <1>2, <1>4

LEMMA PendingHead ==
    ASSUME NEW s \in Seq(Transfer), s # << >>, NEW o \in Pending(s)
    PROVE  o \in Spanned(Head(s)) \/ o \in Pending(Tail(s))
<1>1. o \in Nat /\ Len(s) \in Nat /\ Len(s) # 0 /\ DOMAIN s = 1 .. Len(s)
  BY EmptySeq DEF Pending
<1>2. PICK i \in DOMAIN s : o \in Spanned(s[i])
  BY DEF Pending
<1>3. CASE i = 1
  <2>1. Head(s) = s[1]
    OBVIOUS
  <2> QED
    BY <1>2, <1>3, <2>1
<1>4. CASE i # 1
  <2>1. PICK j, r : j = i - 1 /\ r = Tail(s)
    OBVIOUS
  <2>2. j \in 1 .. (Len(s) - 1) /\ j + 1 = i
    BY <1>1, <1>4, <2>1
  <2>3. Len(r) = Len(s) - 1 /\ DOMAIN r = 1 .. (Len(s) - 1) /\ \A m \in 1 .. (Len(s) - 1) : r[m] = s[m + 1]
    BY <1>1, <2>1
  <2>4. j \in DOMAIN r /\ r[j] = s[i]
    BY <2>2, <2>3
  <2>5. o \in Pending(r)
    BY <1>1, <1>2, <2>4 DEF Pending
  <2> QED
    BY <2>1, <2>5
<1> QED
  BY <1>3, <1>4

\* What is laid over a buffer is in it, and the rest stays.
LEMMA LaidOver ==
    ASSUME NEW g, NEW f, NEW h, h = Laid(g, f), NEW o
    PROVE  /\ o \in DOMAIN g => o \in DOMAIN h /\ h[o] = g[o]
           /\ o \notin DOMAIN g /\ o \in DOMAIN f => o \in DOMAIN h /\ h[o] = f[o]
  BY DEF Laid

\* A piece that is read is what the record holds.
LEMMA ByteRead ==
    ASSUME Sound, NEW t \in Threads, Tasks(t), DOMAIN buf = Threads, MemPiece(t) \/ ReadPiece(t),
           NEW x, x = Head(todo[t]), x.dir = "read", rc'[t] = "LS_OK" \/ todo'[t] # << >>, NEW k, k = Key(t), NEW o \in Nat
    PROVE  /\ o \in Spanned(x) => o \in DOMAIN buf'[t] /\ buf'[t][o] = Byte(k, o)
           /\ o \notin Spanned(x) /\ o \in DOMAIN buf[t] => o \in DOMAIN buf'[t] /\ buf'[t][o] = buf[t][o]
           /\ todo'[t] = Tail(todo[t])
<1>0. Safe /\ Places /\ Pieces /\ Memory /\ FileSize /\ Types /\ DOMAIN todo = Threads /\ DOMAIN rc = Threads
  BY DEF Sound, Safe, Types
<1>1. PICK r, b : r = rec[k] /\ b = r.mem
  OBVIOUS
<1>2. pc[t] = "io" /\ todo[t] # << >>
  BY DEF MemPiece, ReadPiece
<1>3. k \in DOMAIN rec /\ r \in Record /\ x \in Fits(call[t], r) /\ place[t].mem = b
  BY <1>0, <1>1, <1>2, PieceLies
<1>4. x.at \in Nat /\ x.off \in Nat /\ x.n \in Nat
  BY <1>3, PieceFields DEF Fits
<1>5. CASE MemPiece(t)
  <2>1. b # NULL /\ todo'[t] = Tail(todo[t])
    BY <1>0, <1>3, <1>5 DEF MemPiece
  <2>2. b \in DOMAIN heap
    BY <1>0, <1>1, <1>3, <2>1 DEF Memory, Resident
  <2>3. PICK g : g = [q \in Spanned(x) |-> heap[b][q + 1]]
    OBVIOUS
  <2>4. buf' = [buf EXCEPT ![t] = Laid(g, @)]
    BY <1>3, <1>5, <2>2, <2>3 DEF MemPiece, Spanned
  <2>5. o \in Spanned(x) => g[o] = Byte(k, o)
    BY <1>1, <2>1, <2>3 DEF Byte
  <2>6. DOMAIN g = Spanned(x)
    BY <2>3
  <2> QED
    <3>1. buf'[t] = Laid(g, buf[t])
      BY <2>4
    <3> QED
      BY <2>1, <2>5, <2>6, <3>1, LaidOver
<1>6. CASE ReadPiece(t)
  <2>1. b = NULL /\ todo'[t] = Tail(todo[t])
    BY <1>0, <1>3, <1>6 DEF ReadPiece
  <2>2. PICK g : g = [q \in Spanned(x) |->
                        LET i == x.at + (q - x.off) + 1 IN IF i <= Len(file) THEN file[i] ELSE 0]
    OBVIOUS
  <2>3. buf' = [buf EXCEPT ![t] = Laid(g, @)]
    BY <1>0, <1>6, <2>2 DEF ReadPiece, Spanned
  <2>4. ASSUME o \in Spanned(x) PROVE g[o] = Byte(k, o)
    <3>1. Lies(r, x) /\ r.ext \in Seq(Extent)
      BY <1>3, RecordFields DEF Fits
    <3>2. o < Base(r.ext, Len(r.ext) + 1) /\ Addr(r.ext, o) = x.at + (o - x.off)
      BY <1>1, <1>4, <2>1, <2>4, <3>1, LiesAt
    <3>3. PICK a, l : a = Addr(r.ext, o) /\ l = Len(file)
      OBVIOUS
    <3>4. o < r.ext_total
      BY <1>0, <1>1, <1>3, <3>2 DEF Safe, Rooms, Room
    <3>5. a \in Nat
      BY <1>0, <1>1, <1>3, <3>3, <3>4, ByteAddr
    <3>6. PICK j \in DOMAIN r.ext : In(a, r.ext[j])
      BY <1>0, <1>1, <1>3, <3>3, <3>4, ByteAddr
    <3>7. End(r.ext[j]) <= l /\ l \in Nat
      BY <1>0, <1>1, <1>3, <3>3, ExtentsAre DEF FileSize, IsSeq
    <3>8. r.ext[j].foff \in Nat /\ r.ext[j].len \in Nat
      BY <3>1, HoleFields
    <3>9. a + 1 <= l
      BY <3>5, <3>6, <3>7, <3>8 DEF In, End
    <3>10. g[o] = file[a + 1]
      <4>1. x.at + (o - x.off) + 1 = a + 1
        BY <3>2, <3>3
      <4> QED
        BY <2>2, <2>4, <3>3, <3>9, <4>1
    <3> QED
      BY <1>1, <2>1, <3>3, <3>10 DEF Byte
  <2>5. DOMAIN g = Spanned(x)
    BY <2>2
  <2> QED
    <3>1. buf'[t] = Laid(g, buf[t])
      BY <2>3
    <3> QED
      BY <2>1, <2>4, <2>5, <3>1, LaidOver
<1> QED
  BY <1>5, <1>6

\* A call has done what it moves.
LEMMA EffectPiece ==
    ASSUME Sound, Sound', NEW t \in Threads, Step(t), MemPiece(t) \/ ReadPiece(t) \/ WritePiece(t),
           DOMAIN buf = Threads, Mirrored(t), Untiered(t), Tasks(t), Reaches(t), Effect(t)
    PROVE  Effect(t)'
<1>0. Safe /\ Pieces /\ Places /\ Types /\ Control /\ Types' /\ FileSize' /\ DOMAIN todo = Threads
      /\ DOMAIN rc = Threads
  BY DEF Sound, Safe, Types
<1>1. pc[t] = "io" /\ todo[t] # << >> /\ call' = call /\ rec' = rec
  BY DEF MemPiece, ReadPiece, WritePiece
<1> SUFFICES ASSUME rc'[t] = "LS_OK", call[t].op \in {"read", "write", "append"}, NEW o \in Covers(call[t])
             PROVE  o \in Pending(todo'[t]) \/ Done(t, o)'
  BY <1>1 DEF Effect
<1>2. rc[t] = "LS_OK"
  BY <1>0 DEF MemPiece, ReadPiece, WritePiece
<1>3. o \in Pending(todo[t]) \/ Done(t, o)
  BY <1>1, <1>2 DEF Effect, Moving
<1>4. PICK k, x : k = Key(t) /\ x = Head(todo[t])
  OBVIOUS
<1>5. k \in DOMAIN rec /\ rec[k] \in Record /\ x \in Fits(call[t], rec[k]) /\ call[t] \in Call
  BY <1>0, <1>1, <1>4, PieceLies DEF Control
<1>6. o \in Nat /\ o < rec[k].size
  <2>1. o \in Nat /\ o < Need(t) /\ Need(t) \in Nat
    BY <1>5, CoversReach, HighProps DEF Need, Call
  <2>2. Need(t) <= rec[k].size /\ rec[k].size \in Nat
    BY <1>1, <1>4, <1>5, RecordFields DEF Reaches, Moving
  <2> QED
    BY <2>1, <2>2
<1>7. ASSUME ~Stores(t, k, o) PROVE Byte(k, o)' = Byte(k, o)
  BY <1>0, <1>1, <1>5, <1>6, <1>7, ByteKept
<1>8. o \in Pending(todo[t]) => o \in Spanned(x) \/ o \in Pending(Tail(todo[t]))
  BY <1>0, <1>1, <1>4, PendingHead DEF Pieces
<1>9. Byte(Key(t), o)' = Byte(k, o)' /\ Byte(Key(t), o) = Byte(k, o) /\ Key(t)' = k
  <2>1. Key(t)' = k
    BY <1>1, <1>4 DEF Key
  <2> QED
    BY <1>4, <2>1 DEF Byte
<1>10. CASE x.dir = "read"
  <2>1. MemPiece(t) \/ ReadPiece(t)
    BY <1>4, <1>10 DEF WritePiece
  <2>2. call[t].op = "read" /\ call'[t].op = "read"
    BY <1>1, <1>5, <1>10 DEF Fits
  <2>3. Byte(k, o)' = Byte(k, o)
    <3>1. ~Stores(t, k, o)
      BY <1>4, <1>10 DEF Stores
    <3> QED
      BY <1>7, <3>1
  <2>4. /\ o \in Spanned(x) => o \in DOMAIN buf'[t] /\ buf'[t][o] = Byte(k, o)
        /\ o \notin Spanned(x) /\ o \in DOMAIN buf[t] => o \in DOMAIN buf'[t] /\ buf'[t][o] = buf[t][o]
        /\ todo'[t] = Tail(todo[t])
    BY <1>4, <1>6, <1>10, <2>1, ByteRead
  <2>5. CASE o \in Spanned(x)
    BY <1>9, <2>2, <2>3, <2>4, <2>5 DEF Done
  <2>6. CASE o \notin Spanned(x)
    <3>1. CASE o \in Pending(Tail(todo[t]))
      BY <2>4, <3>1
    <3>2. CASE Done(t, o)
      <4>1. o \in DOMAIN buf[t] /\ buf[t][o] = Byte(k, o)
        BY <1>9, <2>2, <3>2 DEF Done
      <4> QED
        BY <1>9, <2>2, <2>3, <2>4, <2>6, <4>1 DEF Done
    <3> QED
      BY <1>3, <1>8, <2>6, <3>1, <3>2
  <2> QED
    BY <2>5, <2>6
<1>11. CASE x.dir = "write"
  <2>1. (MemPiece(t) \/ WritePiece(t)) /\ todo'[t] = Tail(todo[t])
    BY <1>0, <1>4, <1>11 DEF ReadPiece, MemPiece, WritePiece
  <2>2. call[t].op \notin {"read", "acc"} /\ call'[t].op # "read" /\ call'[t].val = call[t].val
    BY <1>1, <1>5, <1>11 DEF Fits
  <2>3. CASE o \in Spanned(x)
    <3>1. Stores(t, k, o)
      BY <1>4, <1>11, <2>1, <2>3 DEF Stores
    <3>2. Byte(k, o)' = call[t].val
      BY <1>4, <1>6, <2>2, <3>1, ByteWritten
    <3> QED
      BY <1>9, <2>2, <3>2 DEF Done
  <2>4. CASE o \notin Spanned(x)
    <3>1. Byte(k, o)' = Byte(k, o)
      <4>1. ~Stores(t, k, o)
        BY <1>4, <2>4 DEF Stores
      <4> QED
        BY <1>7, <4>1
    <3>2. CASE o \in Pending(Tail(todo[t]))
      BY <2>1, <3>2
    <3>3. CASE Done(t, o)
      BY <1>9, <2>2, <3>1, <3>3 DEF Done
    <3> QED
      BY <1>3, <1>8, <2>4, <3>2, <3>3
  <2> QED
    BY <2>3, <2>4
<1>12. x.dir \in {"read", "write"}
  <2>1. x \in Transfer
    BY <1>5 DEF Fits
  <2> QED
    BY <2>1 DEF Transfer
<1> QED
  BY <1>10, <1>11, <1>12

LEMMA EffectOwn ==
    ASSUME Sound, Sound', NEW t \in Threads, Step(t), DOMAIN buf = Threads, Mirrored(t), Untiered(t),
           Tasks(t), Reaches(t), Effect(t)
    PROVE  Effect(t)'
<1>0. Safe /\ Types /\ Control /\ Holding /\ Rooms /\ DOMAIN pc = Threads /\ DOMAIN call = Threads
      /\ DOMAIN todo = Threads /\ DOMAIN rc = Threads
  BY DEF Sound, Safe, Types
<1>1. ASSUME NEW c \in Calls, c.op = "read", StartRead(t, c) PROVE Effect(t)'
  <2>1. PICK r, n : r = rec[c.key] /\ n = r.size
    OBVIOUS
  <2>2. c \in Call /\ c.key \in DOMAIN rec /\ High(c.segs) <= n /\ Launch(t, c, r, n) /\ call'[t] = c
    <3>1. c \in Call
      BY <1>0, CallsAssumption DEF Types, Calls
    <3> QED
      BY <1>0, <1>1, <2>1, <3>1 DEF StartRead
  <2>3. r \in Record /\ Room(r)
    BY <1>0, <2>1, <2>2 DEF Types, Rooms
  <2>4. r.mem = NULL => High(c.segs) <= r.ext_total
    <3>1. n \in Nat /\ r.ext_total \in Nat /\ High(c.segs) \in Nat
      BY <2>1, <2>2, <2>3, RecordFields, HighProps DEF Call
    <3>2. r.mem = NULL => n <= r.ext_total
      BY <2>1, <2>3 DEF Room
    <3> QED
      BY <2>2, <3>1, <3>2
  <2>5. \A o \in Covers(c) : o \in Pending(todo'[t])
    BY <1>0, <1>1, <2>2, <2>3, <2>4, LaunchedCovers DEF Room
  <2> QED
    BY <2>2, <2>5 DEF Effect
<1>2. ASSUME Ready(t) PROVE Effect(t)'
  <2>1. PICK c, r, n : c = call[t] /\ r = rec[Key(t)] /\ n = NewSize(r, Need(t))
    OBVIOUS
  <2>2. pc[t] = "ready" /\ Launch(t, c, r, n) /\ call'[t] = c /\ Key(t) \in DOMAIN rec
    BY <1>0, <1>2, <2>1, ReadyEffect DEF Ready
  <2>3. c \in Call /\ r \in Record /\ Room(r)
    BY <1>0, <2>1, <2>2 DEF Control, Types, Rooms
  <2>4. r.mem = NULL => High(c.segs) <= r.ext_total
    BY <1>0, <2>1, <2>2 DEF Holding, Need
  <2> SUFFICES ASSUME c.op \in {"read", "write", "append"} PROVE \A o \in Covers(c) : o \in Pending(todo'[t])
    BY <2>2 DEF Effect
  <2> QED
    BY <1>0, <2>2, <2>3, <2>4, LaunchedCovers DEF Room
<1>3. ASSUME MemPiece(t) \/ ReadPiece(t) \/ WritePiece(t) PROVE Effect(t)'
  BY <1>3, EffectPiece
<1>4. ASSUME Bounce(t) \/ Transferred(t) PROVE Effect(t)'
  <2>1. pc[t] \in Moving /\ rec' = rec /\ heap' = heap /\ file' = file /\ call' = call /\ todo' = todo
        /\ buf' = buf /\ rc' = rc
    BY <1>4 DEF Bounce, Transferred, thread, memory, Moving
  <2>2. \A o : Done(t, o)' <=> Done(t, o)
    BY <2>1 DEF Done, Byte, Key
  <2> QED
    BY <2>1, <2>2 DEF Effect
<1>5. ASSUME PieceFails(t) PROVE Effect(t)'
  <2>1. rc'[t] = "EIO"
    BY <1>0, <1>5 DEF PieceFails
  <2> QED
    BY <2>1 DEF Effect
<1>6. ASSUME pc'[t] \notin Moving PROVE Effect(t)'
  BY <1>6 DEF Effect
<1>g. \A w : Goto(t, w) => pc'[t] = w
  BY <1>0 DEF Goto
<1>7. ASSUME \E c \in Calls : StartGrow(t, Resolve(c)) \/ ls_erase(t, c) PROVE Effect(t)'
  <2>1. pc'[t] \in {"cap", "free"}
    BY <1>0, <1>7 DEF StartGrow, ls_erase
  <2> QED
    BY <1>6, <2>1 DEF Moving
<1>8. ASSUME Leave(t) \/ Cap(t) \/ Evict(t) \/ Fit(t) \/ NoFit(t) \/ Alloc(t) \/ Zero(t) \/ ZeroFails(t)
      PROVE  Effect(t)'
  <2>1. pc'[t] \notin {"io", "fin"}
    BY <1>8, <1>g DEF Leave, Cap, Evict, Fit, NoFit, Alloc, Zero, ZeroFails, ToExtents
  <2> QED
    BY <1>6, <2>1 DEF Moving
<1>9. ASSUME Spill(t) \/ SpillFails(t) \/ Backed(t) \/ Free(t) \/ Freed(t) \/ Reserved(t)
      PROVE  Effect(t)'
  <2>1. pc'[t] \notin {"io", "fin"}
    BY <1>0, <1>9, <1>g DEF Spill, SpillFails, Backed, Free, Freed, Reserved, Fail
  <2> QED
    BY <1>6, <2>1 DEF Moving
<1> QED
  BY <1>1, <1>2, <1>3, <1>4, <1>5, <1>7, <1>8, <1>9 DEF Step
-----------------------------------------------------------------------------
(* The theorem.                                                            *)

\* The records that ls_close left are made of whole blocks.
LEMMA LoadedOnGrid ==
    /\ \A i \in DOMAIN Loaded : OnGrid(Loaded[i].ext)
    /\ (LoadedEnd(Len(Loaded)) - LS_SUPER_SIZE) % LS_ALIGN = 0
<1>0. Len(Loaded) \in Nat /\ DOMAIN Loaded = 1 .. Len(Loaded)
      /\ \A i \in DOMAIN Loaded : Loaded[i].ext \in Extent /\ Loaded[i].ext.len % LS_ALIGN = 0
  BY LoadedFields, RoundUpAligned
<1>1. PICK len : len = Len(Loaded)
  OBVIOUS
<1> DEFINE A(n) == /\ LoadedEnd(n) \in Nat /\ (LoadedEnd(n) - LS_SUPER_SIZE) % LS_ALIGN = 0
                   /\ \A i \in 1 .. n : OnGrid(Loaded[i].ext)
           P == {n \in Nat : n <= len => A(n)}
<1>2. 0 \in P
  <2>1. LoadedEnd(0) = LS_SUPER_SIZE /\ LS_SUPER_SIZE \in Nat
    BY SuperAssumption DEF LoadedEnd
  <2>2. LS_ALIGN \in Nat \ {0}
    BY AlignAssumption
  <2>3. LS_SUPER_SIZE - LS_SUPER_SIZE = 0
    BY <2>1
  <2>4. 0 % LS_ALIGN = 0
    BY <2>2
  <2>5. A(0)
    BY <2>1, <2>3, <2>4
  <2> HIDE DEF A
  <2> QED
    BY <2>5
<1>3. ASSUME NEW n \in P
      PROVE  n + 1 \in P
  <2> SUFFICES ASSUME n + 1 <= len
               PROVE  A(n + 1)
    OBVIOUS
  <2>1. n \in Nat /\ A(n) /\ n + 1 \in DOMAIN Loaded /\ (n + 1 = 1 <=> n = 0) /\ (n + 1) - 1 = n
    BY <1>0, <1>1
  <2>2. LoadedEnd(n) \in Nat /\ (LoadedEnd(n) - LS_SUPER_SIZE) % LS_ALIGN = 0
        /\ \A i \in 1 .. n : OnGrid(Loaded[i].ext)
    BY <2>1
  <2> HIDE DEF A
  <2>3. PICK m, e, x : m = n + 1 /\ e = Loaded[m].ext /\ x = LoadedEnd(n)
    OBVIOUS
  <2>4. e \in Extent /\ e.foff = x /\ e.len % LS_ALIGN = 0
    BY <1>0, <2>1, <2>3, LoadedAssumption DEF LoadedEnd
  <2>5. e.len \in Nat /\ x \in Nat /\ LS_SUPER_SIZE \in Nat
    BY <2>2, <2>3, <2>4, SuperAssumption DEF Extent
  <2>6. OnGrid(e)
    BY <2>2, <2>3, <2>4 DEF OnGrid
  <2>7. LoadedEnd(m) = x + e.len
    BY <2>1, <2>3, <2>4 DEF LoadedEnd, End
  <2>8. ((x - LS_SUPER_SIZE) + e.len) % LS_ALIGN = 0
    <3>1. PICK y, l : y = x - LS_SUPER_SIZE /\ l = e.len
      OBVIOUS
    <3>2. y \in Int /\ l \in Int
      BY <2>5, <3>1
    <3>3. y % LS_ALIGN = 0 /\ l % LS_ALIGN = 0
      BY <2>2, <2>3, <2>4, <3>1
    <3>4. (y + l) % LS_ALIGN = 0
      BY <3>2, <3>3, MultiplesAdd
    <3> QED
      BY <3>1, <3>4
  <2>9. (x - LS_SUPER_SIZE) + e.len = LoadedEnd(m) - LS_SUPER_SIZE /\ LoadedEnd(m) \in Nat
    BY <2>5, <2>7
  <2>10. \A i \in 1 .. m : OnGrid(Loaded[i].ext)
    <3>1. \A i : i \in 1 .. m <=> i \in 1 .. n \/ i = m
      BY <2>1, <2>3
    <3> QED
      BY <2>2, <2>3, <2>6, <3>1
  <2>11. (LoadedEnd(m) - LS_SUPER_SIZE) % LS_ALIGN = 0
    BY <2>8, <2>9
  <2> QED
    BY <2>3, <2>9, <2>10, <2>11 DEF A
<1>4. P = Nat
  <2> HIDE DEF P
  <2>1. P \in SUBSET Nat
    BY DEF P
  <2> QED
    BY <1>2, <1>3, <2>1, NatSet
<1>5. len \in P
  BY <1>0, <1>1, <1>4
<1>6. A(len)
  BY <1>0, <1>1, <1>5
<1>7. /\ (LoadedEnd(len) - LS_SUPER_SIZE) % LS_ALIGN = 0
      /\ \A i \in 1 .. len : OnGrid(Loaded[i].ext)
  BY <1>6
<1> HIDE DEF A, P
<1> QED
  BY <1>0, <1>1, <1>7

\* Byte by byte, what a record holds.
LEMMA StoredByte ==
    ASSUME Sound, NEW k \in DOMAIN rec, NEW o \in Nat, o < rec[k].size
    PROVE  Stored(k)[o + 1] = Byte(k, o)
<1>0. Safe /\ FileSize /\ Buffers /\ Rooms /\ Types
  BY DEF Sound, Safe
<1>1. PICK r, i : r = rec[k] /\ i = o + 1
  OBVIOUS
<1>2. r \in Record /\ Room(r) /\ r.size \in Nat /\ r.mem_cap \in Nat /\ r.ext_total \in Nat
      /\ r.ext \in Seq(Extent)
  BY <1>0, <1>1, RecordFields DEF Types, Rooms
<1>3. i \in 1 .. r.size /\ i - 1 = o
  BY <1>1, <1>2
<1>4. CASE r.mem # NULL
  <2>1. PICK h, n : h = heap[r.mem] /\ n = r.size
    OBVIOUS
  <2>2. IsSeq(h) /\ Len(h) = r.mem_cap /\ n <= r.mem_cap
    BY <1>0, <1>1, <1>2, <1>4, <2>1 DEF Buffers, Buffer, Resident, Room
  <2>3. Stored(k) = SubSeq(h, 1, n)
    BY <1>1, <1>4, <2>1 DEF Stored
  <2>4. SubSeq(h, 1, n)[i] = h[i]
    BY <1>2, <1>3, <2>1, <2>2 DEF IsSeq
  <2> QED
    BY <1>1, <1>4, <2>1, <2>3, <2>4 DEF Byte
<1>5. CASE r.mem = NULL
  <2>1. Stored(k) = [j \in 1 .. r.size |-> FileByte(Addr(r.ext, j - 1))]
    BY <1>1, <1>5 DEF Stored
  <2>2. PICK a, l : a = Addr(r.ext, o) /\ l = Len(file)
    OBVIOUS
  <2>3. Stored(k)[i] = FileByte(a)
    BY <1>3, <2>1, <2>2
  <2>4. o < r.ext_total
    BY <1>1, <1>2, <1>5 DEF Room
  <2>5. a \in Nat
    BY <1>0, <1>1, <2>2, <2>4, ByteAddr
  <2>6. PICK j \in DOMAIN r.ext : In(a, r.ext[j])
    BY <1>0, <1>1, <2>2, <2>4, ByteAddr
  <2>7. End(r.ext[j]) <= l /\ l \in Nat
    BY <1>0, <1>1, <2>2, ExtentsAre DEF FileSize, IsSeq
  <2>8. r.ext[j].foff \in Nat /\ r.ext[j].len \in Nat
    BY <1>2, HoleFields
  <2>9. a < l
    BY <2>5, <2>6, <2>7, <2>8 DEF In, End
  <2>10. FileByte(a) = file[a + 1]
    BY <2>2, <2>9 DEF FileByte
  <2> QED
    BY <1>1, <1>5, <2>2, <2>3, <2>10 DEF Byte
<1> QED
  BY <1>4, <1>5

\* Everything the calls' effects rest on.
Effective ==
    /\ Sound /\ Grid /\ DOMAIN buf = Threads
    /\ \A u \in Threads : Untiered(u) /\ Tasks(u) /\ Mirrored(u) /\ Reaches(u) /\ Effect(u)
    /\ \A u, v \in Threads : u # v => Unshared(u, v)

LEMMA InitEffective ==
    ASSUME Init
    PROVE  Effective
<1>1. Sound /\ Safe
  BY InitSound DEF Sound
<1>2. /\ DOMAIN buf = Threads /\ lk = NoThread /\ NoThread \notin Threads
      /\ \A u \in Threads : pc[u] = "idle" /\ bounce[u] = << >>
  BY StoreAssumption DEF Init
<1>3. \A u \in Threads : Untiered(u) /\ Tasks(u) /\ Mirrored(u) /\ Reaches(u) /\ Effect(u)
  BY <1>2 DEF Untiered, Tasks, Mirrored, Reaches, Effect, Moving
<1>4. \A u, v \in Threads : Unshared(u, v)
  BY <1>2 DEF Unshared, Active
<1>5. Grid
  <2>1. fl = << >> /\ lost = {} /\ fresh = << >> /\ dying = << >>
    BY DEF Init
  <2>2. file_end = LoadedEnd(Len(Loaded))
    <3>1. Loaded = << >> <=> Len(Loaded) = 0
      BY LoadedAssumption, EmptySeq
    <3> QED
      BY <3>1 DEF Init, LoadedEnd
  <2>3. ASSUME NEW e \in Owned PROVE OnGrid(e)
    <3>1. e \in Extents
      BY <2>1 DEF Owned, Range
    <3>2. PICK k \in DOMAIN rec : e \in Range(rec[k].ext)
      BY <3>1 DEF Extents
    <3>3. PICK i \in DOMAIN Loaded : k = Loaded[i].key
      BY <3>2, LoadedRecords
    <3>4. rec[k].ext = <<Loaded[i].ext>>
      <4>1. rec[k] = [size |-> Loaded[i].size, mem |-> NULL, mem_cap |-> 0, busy |-> 0,
                      ext |-> <<Loaded[i].ext>>, ext_total |-> Loaded[i].ext.len]
        BY <3>3, LoadedRecords
      <4> QED
        BY <4>1
    <3>5. e = Loaded[i].ext
      BY <3>2, <3>4 DEF Range
    <3> QED
      BY <3>3, <3>5, LoadedOnGrid
  <2>4. AllOnGrid(fl)
    BY <2>1 DEF AllOnGrid
  <2> QED
    BY <2>2, <2>3, <2>4, LoadedOnGrid DEF Grid
<1> QED
  BY <1>1, <1>2, <1>3, <1>4, <1>5 DEF Effective

LEMMA EffectiveStutter ==
    ASSUME Effective, UNCHANGED vars
    PROVE  Effective'
<1>0. /\ UNCHANGED <<setting, rec, heap, lru, resident, fl, flcap, file_end, lost, file>>
      /\ UNCHANGED <<lk, vic, fresh, dying, pc, call, place, todo, buf, bounce, rc>>
  BY DEF vars, memory, space, lock, thread
<1>1. Sound'
  BY SoundStutter DEF Effective
<1>2. Grid'
  BY <1>0 DEF Effective, Grid, Owned, Extents
<1>3. ASSUME NEW u \in Threads
      PROVE  /\ Untiered(u) => Untiered(u)'
             /\ Tasks(u) => Tasks(u)'
             /\ Reaches(u) => Reaches(u)'
  BY <1>0 DEF Untiered, Tasks, Reaches, Key, Need
<1>4. ASSUME NEW u \in Threads
      PROVE  Mirrored(u) => Mirrored(u)'
  BY <1>0 DEF Mirrored, Copied, Direct
<1>5. ASSUME NEW u \in Threads
      PROVE  Effect(u) => Effect(u)'
  <2>1. \A o : Done(u, o)' <=> Done(u, o)
    BY <1>0 DEF Done, Byte, Key
  <2> QED
    BY <1>0, <2>1 DEF Effect
<1>6. \A u, v \in Threads : Unshared(u, v) => Unshared(u, v)'
  BY <1>0 DEF Unshared, Active, Key
<1> QED
  BY <1>0, <1>1, <1>2, <1>3, <1>4, <1>5, <1>6 DEF Effective

LEMMA EffectiveNext ==
    ASSUME Unmixed, Undirected, Effective, [Next]_vars
    PROVE  Effective'
<1>1. CASE UNCHANGED vars
  BY <1>1, EffectiveStutter
<1>2. CASE Next
  <2>1. /\ Sound /\ Grid /\ DOMAIN buf = Threads /\ Safe /\ Pieces /\ Types
        /\ \A u \in Threads : Untiered(u) /\ Tasks(u) /\ Mirrored(u) /\ Reaches(u) /\ Effect(u)
        /\ \A u, v \in Threads : u # v => Unshared(u, v)
    BY DEF Effective, Sound, Safe
  <2>2. UNCHANGED setting /\ \E t \in Threads : Step(t)
    BY <1>2, <2>1, NextSteps
  <2>3. PICK t \in Threads : Step(t)
    BY <2>2
  <2>4. Sound' /\ Safe' /\ FileSize' /\ Types' /\ AppendsDisjoint'
    BY <1>2, <2>1, SoundNext DEF Sound, Safe, Appends
  <2>5. Grid'
    BY <2>1, <2>3, GridNext
  <2>6. DOMAIN buf' = Threads
    BY <2>1, <2>3, OthersHold
  <2>7. \A u \in Threads : Untiered(u)'
    BY <2>1, <2>3, UntieredNext
  <2>8. \A u \in Threads : Tasks(u)'
    BY <2>1, <2>3, TasksNext
  <2>9. \A u, v \in Threads : u # v => Unshared(u, v)'
    BY <2>1, <2>2, <2>3, <2>4, UnsharedNext
  <2>10. \A u \in Threads : Reaches(u)'
    BY <2>1, <2>3, <2>4, ReachesNext
  <2>11. \A u \in Threads : Mirrored(u)'
    <3>1. Mirrored(t)'
      BY <2>1, <2>2, <2>3, MirroredOwn
    <3>2. ASSUME NEW u \in Threads \ {t} PROVE Mirrored(u)'
      BY <2>1, <2>2, <2>3, <2>4, MirroredOthers
    <3> QED
      BY <3>1, <3>2
  <2>12. \A u \in Threads : Effect(u)'
    <3>1. Effect(t)'
      BY <2>1, <2>3, <2>4, EffectOwn
    <3>2. ASSUME NEW u \in Threads \ {t} PROVE Effect(u)'
      BY <2>1, <2>3, <2>4, EffectOthers
    <3> QED
      BY <3>1, <3>2
  <2> QED
    BY <2>4, <2>5, <2>6, <2>7, <2>8, <2>9, <2>10, <2>11, <2>12 DEF Effective
<1> QED
  BY <1>1, <1>2

LEMMA EffectiveCalls ==
    ASSUME Effective
    PROVE  CallsEffective
<1>1. Sound /\ Types /\ Control
      /\ \A u \in Threads : Tasks(u) /\ Reaches(u) /\ Effect(u)
  BY DEF Effective, Sound, Safe
<1>2. ASSUME NEW t \in Threads, pc[t] = "fin", rc[t] = "LS_OK", call[t].op \in {"read", "write", "append"},
             NEW o \in Covers(call[t])
      PROVE  Done(t, o) /\ Stored(Key(t))[o + 1] = Byte(Key(t), o)
  <2>1. todo[t] = << >> /\ call[t] \in Call /\ Key(t) \in DOMAIN rec /\ rec[Key(t)] \in Record
    BY <1>1, <1>2 DEF Tasks, Control, Active, Types
  <2>2. o \notin Pending(todo[t])
    BY <2>1 DEF Pending
  <2>3. Done(t, o)
    BY <1>1, <1>2, <2>2 DEF Effect, Moving
  <2>4. o \in Nat /\ o < Need(t) /\ Need(t) \in Nat
    BY <1>2, <2>1, CoversReach, HighProps DEF Need, Call
  <2>5. Need(t) <= rec[Key(t)].size /\ rec[Key(t)].size \in Nat
    BY <1>1, <1>2, <2>1, RecordFields DEF Reaches, Moving
  <2>6. o < rec[Key(t)].size
    BY <2>4, <2>5
  <2> QED
    BY <1>1, <2>1, <2>3, <2>4, <2>6, StoredByte
<1>3. ReadsReturnContent
  BY <1>2 DEF ReadsReturnContent, Done
<1>4. WritesStored
  BY <1>2 DEF WritesStored, Done
<1> QED
  BY <1>3, <1>4 DEF CallsEffective

\* A call that returns LS_OK has done what it says, whatever other calls, evictions
\* and spills went on while it moved its bytes without toc_lk: a read has returned
\* what the record holds, and a write or an append is in it, also when O_DIRECT
\* rewrote the blocks around it.  The hypotheses are about callers that use one
\* key from several threads: with a memory tier a transfer may work on a buffer
\* that has moved (MCStoreRace), and with O_DIRECT one of two disjoint writes to
\* a block may be lost (MCStoreDirectShared).
THEOREM StoreEffective ==
    ASSUME Unmixed, Undirected
    PROVE  Spec => []CallsEffective
<1>1. Init => Effective
  BY InitEffective
<1>2. Effective /\ [Next]_vars => Effective'
  BY EffectiveNext
<1>3. Effective => CallsEffective
  BY EffectiveCalls
<1> QED
  BY <1>1, <1>2, <1>3, PTL DEF Spec

-----------------------------------------------------------------------------
(* What a record has not used yet is zero.                                 *)

\* A call stores only inside its record.
LEMMA StoresInside ==
    ASSUME Sound, NEW t \in Threads, Tasks(t), Reaches(t), NEW k, NEW o, Stores(t, k, o)
    PROVE  k \in DOMAIN rec /\ o \in Nat /\ o < rec[k].size /\ o \in Covers(call[t])
<1>0. Safe /\ Places /\ Types /\ Control
  BY DEF Sound, Safe
<1>1. pc[t] = "io" /\ todo[t] # << >> /\ k = Key(t)
  BY DEF Stores, MemPiece, WritePiece
<1>2. PICK x : x = Head(todo[t])
  OBVIOUS
<1>3. k \in DOMAIN rec /\ rec[k] \in Record /\ x \in Fits(call[t], rec[k])
  BY <1>0, <1>1, <1>2, PieceLies
<1>4. o \in Covers(call[t])
  BY <1>2, <1>3 DEF Stores, Fits
<1>5. call[t] \in Call
  BY <1>0, <1>1 DEF Control
<1>6. o \in Nat /\ o < Need(t)
  BY <1>4, <1>5, CoversReach DEF Need
<1>7. Need(t) \in Nat
  BY <1>5, HighProps DEF Need, Call
<1>8. Need(t) <= rec[k].size /\ rec[k].size \in Nat
  BY <1>1, <1>3, RecordFields DEF Reaches, Moving
<1> QED
  BY <1>3, <1>4, <1>6, <1>7, <1>8

\* What a record's extents, and its buffer, have past its size.
BlankDisk(k) ==
    \A o \in Nat : rec[k].size <= o /\ o < rec[k].ext_total => file[Addr(rec[k].ext, o) + 1] = 0
BlankMem(k) ==
    rec[k].mem # NULL =>
        \A o \in Nat : rec[k].size <= o /\ o < rec[k].mem_cap => heap[rec[k].mem][o + 1] = 0
Blank == \A k \in DOMAIN rec : BlankDisk(k) /\ BlankMem(k)

LEMMA PartPrefix ==
    ASSUME NEW x \in Seq(Extent), NEW n \in 0 .. Len(x)
    PROVE  /\ SubSeq(x, 1, n) \in Seq(Extent) /\ Len(SubSeq(x, 1, n)) = n
           /\ \A i \in 1 .. n : SubSeq(x, 1, n)[i] = x[i]
           /\ IsPrefix(SubSeq(x, 1, n), x)
<1>1. Len(x) \in Nat
  OBVIOUS
<1>2. PICK p : p = SubSeq(x, 1, n)
  OBVIOUS
<1>3. p \in Seq(Extent) /\ Len(p) = n /\ \A i \in 1 .. n : p[i] = x[i]
  BY <1>1, <1>2, SubSeqProperties
<1>4. IsPrefix(p, x)
  BY <1>1, <1>2, <1>3 DEF IsPrefix
<1> QED
  BY <1>2, <1>3, <1>4

\* A spill, whole or in part, leaves what is past the record's size alone.
LEMMA WriteOutPast ==
    ASSUME NEW f, IsSeq(f), NEW x \in Seq(Extent), Clear(x), NEW bytes, NEW size \in Nat,
           \A j \in DOMAIN x : End(x[j]) <= Len(f), NEW n \in 0 .. Len(x),
           NEW w, w = WriteOut(f, SubSeq(x, 1, n), bytes, size),
           NEW o \in Nat, size <= o, o < Base(x, Len(x) + 1)
    PROVE  w[Addr(x, o) + 1] = f[Addr(x, o) + 1]
<1>1. PICK p : p = SubSeq(x, 1, n)
  OBVIOUS
<1>2. p \in Seq(Extent) /\ Len(p) = n /\ IsPrefix(p, x) /\ \A i \in 1 .. n : p[i] = x[i]
  BY <1>1, PartPrefix
<1>3. Len(x) \in Nat /\ n \in Nat /\ n <= Len(x) /\ DOMAIN x = 1 .. Len(x) /\ DOMAIN p = 1 .. n
  BY <1>2, HoleFields
<1>4. \A i \in DOMAIN p : i \in DOMAIN x /\ p[i] = x[i]
  BY <1>2, <1>3
<1>5. Clear(p)
  BY <1>4 DEF Clear
<1>6. \A j \in DOMAIN p : End(p[j]) <= Len(f)
  BY <1>4
<1>7. CASE o < Base(p, Len(p) + 1)
  <2>1. Addr(x, o) = Addr(p, o)
    BY <1>2, <1>7, AddrPrefix
  <2>2. w[Addr(p, o) + 1] = f[Addr(p, o) + 1]
    <3>1. IsSeq(f) /\ p \in Seq(Extent) /\ size \in Nat /\ w = WriteOut(f, p, bytes, size)
          /\ \A j \in DOMAIN p : End(p[j]) <= Len(f)
      BY <1>1, <1>2, <1>6
    <3>2. \A q \in Nat : size <= q /\ q < Base(p, Len(p) + 1) => w[Addr(p, q) + 1] = f[Addr(p, q) + 1]
      BY <1>5, <3>1, WriteOutAt
    <3> QED
      BY <1>7, <3>2
  <2> QED
    BY <2>1, <2>2
<1>8. CASE ~(o < Base(p, Len(p) + 1))
  <2>1. PICK j \in DOMAIN x : Base(x, j) <= o /\ o < Base(x, j) + x[j].len
    BY CoveringExtent
  <2>2. Addr(x, o) \in Nat /\ In(Addr(x, o), x[j])
    BY <2>1, AddrIn
  <2>3. ~(j <= n)
    <3> SUFFICES ASSUME j <= n PROVE FALSE
      OBVIOUS
    <3>1. j \in 1 .. Len(p) /\ j \in 1 .. (Len(p) + 1) /\ Len(p) + 1 \in 1 .. (Len(p) + 1) /\ j < Len(p) + 1
      BY <1>2, <1>3
    <3>2. Base(p, j) + p[j].len <= Base(p, Len(p) + 1)
      BY <1>2, <3>1, BaseMono
    <3>3. Base(x, j) = Base(p, j) /\ x[j] = p[j]
      BY <1>2, <3>1, BasePrefix
    <3>4. Base(p, j) \in Nat /\ Base(p, Len(p) + 1) \in Nat /\ p[j].len \in Nat
      BY <1>2, <3>1, BaseProps, HoleFields
    <3> QED
      BY <1>8, <2>1, <3>2, <3>3, <3>4
  <2>4. ASSUME NEW i \in DOMAIN p PROVE ~In(Addr(x, o), p[i])
    <3>1. i \in DOMAIN x /\ p[i] = x[i] /\ i # j
      BY <1>3, <1>4, <2>3
    <3> QED
      BY <2>1, <2>2, <3>1 DEF Clear
  <2>5. Addr(x, o) < Len(f)
    <3>1. x[j].foff \in Nat /\ x[j].len \in Nat /\ End(x[j]) <= Len(f) /\ Len(f) \in Nat
      BY HoleFields DEF IsSeq
    <3> QED
      BY <2>2, <3>1 DEF In, End
  <2>6. IsSeq(f) /\ p \in Seq(Extent) /\ size \in Nat /\ w = WriteOut(f, p, bytes, size)
        /\ \A i \in DOMAIN p : End(p[i]) <= Len(f)
    BY <1>1, <1>2, <1>6
  <2>7. \A a \in Nat : a < Len(f) /\ (\A i \in DOMAIN p : ~In(a, p[i])) => w[a + 1] = f[a + 1]
    BY <2>6, WriteOutAt
  <2> QED
    BY <2>2, <2>4, <2>5, <2>7
<1> QED
  BY <1>7, <1>8

\* The extent a record gets is zero, and what it had is where it was.
LEMMA BlankZero ==
    ASSUME Sound, Sound', NEW t \in Threads, Step(t), Tasks(t), Mirrored(t), Zero(t), NEW k, k = Grown(t),
           BlankDisk(k)
    PROVE  BlankDisk(k)'
<1>0. /\ Safe /\ Types /\ Control /\ Holding /\ Space /\ Rooms /\ IsSeq(file)
      /\ FileSize' /\ Types' /\ Rooms'
  BY DEF Sound, Safe, FileSize
<1>1. PICK r, e, x, y, m : r = rec[k] /\ e = fresh[1] /\ x = r.ext /\ y = Append(x, e) /\ m = r.ext_total + e.len
  OBVIOUS
<1>2. k \in DOMAIN rec /\ r \in Record /\ e \in Extent /\ Sets(k, [r EXCEPT !.ext = y, !.ext_total = m])
  BY <1>0, <1>1, ZeroEffect DEF Types
<1>3. k \in DOMAIN rec' /\ rec'[k].ext = y /\ rec'[k].ext_total = m /\ rec'[k].size = r.size
  BY <1>2, RecordUpdates DEF Sets
<1>4. x \in Seq(Extent) /\ r.size \in Nat /\ r.ext_total \in Nat /\ e.len \in Nat /\ e.foff \in Nat /\ e.len > 0
  BY <1>1, <1>2, RecordFields DEF Extent
<1>5. y \in Seq(Extent) /\ Len(y) = Len(x) + 1 /\ y[Len(y)] = e /\ Len(x) \in Nat /\ IsPrefix(x, y)
      /\ DOMAIN y = 1 .. Len(y)
  <2>1. IsPrefix(x, x)
    BY <1>4 DEF IsPrefix
  <2> QED
    BY <1>1, <1>2, <1>4, <2>1, PrefixOfMore
<1>6. r.ext_total = Base(x, Len(x) + 1)
  BY <1>0, <1>1, <1>2 DEF Rooms, Room
<1>7. ~Spill(t) /\ ~SpillFails(t) /\ ~MemPiece(t) /\ ~WritePiece(t)
  BY DEF Zero, Spill, SpillFails, MemPiece, WritePiece
<1> SUFFICES ASSUME NEW o \in Nat, r.size <= o, o < m
             PROVE  file'[Addr(y, o) + 1] = 0
  BY <1>3 DEF BlankDisk
<1>8. CASE o < r.ext_total
  <2>1. file[Addr(x, o) + 1] = 0
    BY <1>1, <1>8 DEF BlankDisk
  <2>2. ~Stores(t, k, o)
    BY <1>7 DEF Stores
  <2>3. Addr(rec'[k].ext, o) = Addr(x, o) /\ file'[Addr(x, o) + 1] = file[Addr(x, o) + 1]
    BY <1>0, <1>1, <1>2, <1>3, <1>5, <1>7, <1>8, <2>2, DiskHeld
  <2> QED
    BY <1>3, <2>1, <2>3
<1>9. CASE ~(o < r.ext_total)
  <2>1. PICK j : j = Len(x) + 1
    OBVIOUS
  <2>2. j \in DOMAIN y /\ y[j] = e /\ j \in 1 .. (Len(x) + 1)
    BY <1>5, <2>1
  <2>3. Base(y, j) = Base(x, j)
    BY <1>4, <1>5, <2>2, BasePrefix
  <2>4. Base(y, j) = r.ext_total
    BY <1>6, <2>1, <2>3
  <2>5. Addr(y, o) = e.foff + (o - r.ext_total)
    <3>1. Base(y, j) <= o /\ o < Base(y, j) + y[j].len
      BY <1>1, <1>4, <1>9, <2>2, <2>4
    <3>2. Addr(y, o) = y[j].foff + (o - Base(y, j))
      BY <1>5, <2>2, <3>1, AddrIn
    <3> QED
      BY <2>2, <2>4, <3>2
  <2>6. PICK z, i : z = Zeros(e.len) /\ i = Addr(y, o) + 1
    OBVIOUS
  <2>7. IsSeq(z) /\ Len(z) = e.len
    BY <1>4, <2>6, ZerosLen
  <2>8. file' = Overwrite(file, e.foff, z)
    BY <1>1, <2>6 DEF Zero, zero_range
  <2>9. Written(file', file, e.foff, z)
    BY <1>0, <1>4, <2>7, <2>8, OverwriteIs
  <2>10. i \in Nat /\ i > 0 /\ i > e.foff /\ i <= e.foff + Len(z) /\ i - e.foff \in 1 .. e.len
    <3>1. PICK a, l, c : a = e.foff /\ l = e.len /\ c = r.ext_total
      OBVIOUS
    <3>2. a \in Nat /\ l \in Nat /\ c \in Nat /\ i = a + (o - c) + 1 /\ o < c + l /\ ~(o < c) /\ Len(z) = l
      BY <1>1, <1>4, <1>9, <2>5, <2>6, <2>7, <3>1
    <3>3. i \in Nat /\ i > 0 /\ i > a /\ i <= a + l /\ i - a \in 1 .. l
      BY <3>2
    <3> QED
      BY <3>1, <3>2, <3>3
  <2>11. file'[i] = z[i - e.foff]
    BY <2>9, <2>10 DEF Written
  <2>12. z[i - e.foff] = 0
    BY <2>6, <2>10 DEF Zeros
  <2> QED
    BY <2>6, <2>11, <2>12
<1> QED
  BY <1>8, <1>9

LEMMA BlankDiskNext ==
    ASSUME Sound, Sound', NEW t \in Threads, Step(t), Tasks(t), Mirrored(t), Reaches(t),
           NEW k \in DOMAIN rec, k \in DOMAIN rec', BlankDisk(k)
    PROVE  BlankDisk(k)'
<1>0. /\ Safe /\ Types /\ Control /\ Holding /\ Memory /\ Space /\ Rooms /\ FileSize /\ IsSeq(file)
      /\ FileSize' /\ Types'
  BY DEF Sound, Safe, FileSize
<1>1. PICK r, x, n : r = rec[k] /\ x = r.ext /\ n = r.ext_total
  OBVIOUS
<1>2. r \in Record /\ x \in Seq(Extent) /\ r.size \in Nat /\ n \in Nat
  BY <1>0, <1>1, RecordFields DEF Types
<1>3. r.size <= rec'[k].size /\ rec'[k].size \in Nat
  BY <1>0, <1>1, SizesGrow
<1>4. CASE Zero(t) /\ Grown(t) = k
  BY <1>4, BlankZero
<1>5. CASE ~(Zero(t) /\ Grown(t) = k)
  <2>1. rec'[k].ext = x /\ rec'[k].ext_total = n
    <3>1. CASE SameSpace(rec'[k], rec[k])
      BY <1>1, <3>1 DEF SameSpace
    <3>2. CASE Fit(t) /\ Key(t) = k
      <4>1. PICK c : c = Need(t)
        OBVIOUS
      <4>2. PICK b \in Nat \ {0} : Sets(k, [r EXCEPT !.mem = b, !.mem_cap = c])
        BY <1>0, <1>1, <3>2, <4>1, FitEffect
      <4> QED
        BY <1>1, <1>2, <4>2, RecordUpdates DEF Sets
    <3>3. CASE Spill(t) /\ vic = k
      <4>1. PICK b, c : b = NULL /\ c = 0 /\ Sets(k, [r EXCEPT !.mem = b, !.mem_cap = c])
        BY <1>0, <1>1, <3>3, SpillEffect
      <4> QED
        BY <1>1, <1>2, <4>1, RecordUpdates DEF Sets
    <3> QED
      BY <1>0, <1>5, <3>1, <3>2, <3>3, RoomKept
  <2> SUFFICES ASSUME NEW o \in Nat, r.size <= o, o < n
               PROVE  file'[Addr(x, o) + 1] = 0
    <3>1. \A o \in Nat : rec'[k].size <= o => r.size <= o
      BY <1>2, <1>3
    <3> QED
      BY <2>1, <3>1 DEF BlankDisk
  <2>2. file[Addr(x, o) + 1] = 0
    BY <1>1 DEF BlankDisk
  <2>3. CASE ~((Spill(t) \/ SpillFails(t)) /\ vic = k)
    <3>1. ~Stores(t, k, o)
      BY <1>1, <1>2, StoresInside
    <3>2. IsPrefix(x, x)
      BY <1>2 DEF IsPrefix
    <3>3. file'[Addr(x, o) + 1] = file[Addr(x, o) + 1]
      BY <1>0, <1>1, <2>1, <2>3, <3>1, <3>2, DiskHeld
    <3> QED
      BY <2>2, <3>3
  <2>4. CASE (Spill(t) \/ SpillFails(t)) /\ vic = k
    <3>1. PICK h, s : h = heap[r.mem] /\ s = r.size
      OBVIOUS
    <3>2. PICK m \in 0 .. Len(x) : file' = WriteOut(file, SubSeq(x, 1, m), h, s)
      <4>1. CASE Spill(t)
        <5>1. file' = WriteOut(file, x, h, s)
          BY <1>1, <2>4, <3>1, <4>1 DEF Spill
        <5>2. Len(x) \in 0 .. Len(x) /\ SubSeq(x, 1, Len(x)) = x
          BY <1>2
        <5> QED
          BY <5>1, <5>2
      <4>2. CASE SpillFails(t)
        <5>1. \E m \in 0 .. (Len(x) - 1) : file' = WriteOut(file, SubSeq(x, 1, m), h, s)
          BY <1>1, <2>4, <3>1, <4>2 DEF SpillFails
        <5>2. \A m \in 0 .. (Len(x) - 1) : m \in 0 .. Len(x)
          BY <1>2
        <5> QED
          BY <5>1, <5>2
      <4> QED
        BY <2>4, <4>1, <4>2
    <3>3. Clear(x)
      BY <1>0, <1>1, ClearExtents
    <3>4. \A j \in DOMAIN x : End(x[j]) <= Len(file)
      BY <1>0, <1>1, ExtentsAre DEF FileSize
    <3>5. o < Base(x, Len(x) + 1)
      BY <1>0, <1>1 DEF Rooms, Room
    <3>6. file'[Addr(x, o) + 1] = file[Addr(x, o) + 1]
      BY <1>0, <1>2, <3>1, <3>2, <3>3, <3>4, <3>5, WriteOutPast
    <3> QED
      BY <2>2, <3>6
  <2> QED
    BY <2>3, <2>4
<1> QED
  BY <1>4, <1>5

\* A record that was not there is new, and no step but the entry of a call binds it.
LEMMA NewKeys ==
    ASSUME Safe, NEW t \in Threads, Step(t), NEW k \in DOMAIN rec', k \notin DOMAIN rec
    PROVE  /\ rec'[k] = NewRec
           /\ \E c \in Calls : /\ c.op \notin {"read", "erase"} /\ StartGrow(t, Resolve(c))
                               /\ c.key = k /\ Sets(k, NewRec)
<1>0. Types /\ Control /\ Holding /\ Space /\ Memory /\ Counts
  BY DEF Safe
<1>s. ASSUME NEW j \in DOMAIN rec, NEW q, Sets(j, q)
      PROVE  FALSE
  BY <1>s DEF Sets
<1>1. ASSUME NEW c \in Calls, c.op = "read", StartRead(t, c)
      PROVE  FALSE
  BY <1>0, <1>1, <1>s, StartReadShape
<1>2. ASSUME NEW c \in Calls, c.op \notin {"read", "erase"}, StartGrow(t, Resolve(c))
      PROVE  rec'[k] = NewRec /\ c.key = k /\ Sets(k, NewRec)
  <2>1. IF c.key \in DOMAIN rec THEN UNCHANGED rec ELSE Sets(c.key, NewRec)
    BY <1>0, <1>2, StartGrowShape
  <2>2. Sets(c.key, NewRec)
    BY <2>1
  <2>3. c.key = k
    BY <2>2 DEF Sets
  <2> QED
    BY <2>2, <2>3 DEF Sets
<1>3. ASSUME NEW c \in Calls, ls_erase(t, c)
      PROVE  FALSE
  <2>1. Drops(c.key)
    BY <1>0, <1>3, EraseShape
  <2> QED
    BY <2>1 DEF Drops
<1>4. ASSUME QuietStep(t) \/ Alloc(t) \/ ZeroFails(t) \/ Free(t)
      PROVE  FALSE
  BY <1>4, RecSame
<1>5. ASSUME Leave(t) \/ Ready(t) \/ Reserved(t) \/ Fit(t) \/ Zero(t) \/ Spill(t)
      PROVE  FALSE
  <2>1. ASSUME Leave(t) PROVE FALSE
    BY <1>0, <1>s, <2>1, LeaveEffect
  <2>2. ASSUME Ready(t) PROVE FALSE
    BY <1>0, <1>s, <2>2, ReadyEffect
  <2>3. ASSUME Reserved(t) PROVE FALSE
    BY <1>0, <1>s, <2>3, ReservedEffect
  <2>4. ASSUME Fit(t) PROVE FALSE
    BY <1>0, <1>s, <2>4, FitEffect
  <2>5. ASSUME Zero(t) PROVE FALSE
    BY <1>0, <1>s, <2>5, ZeroEffect
  <2>6. ASSUME Spill(t) PROVE FALSE
    BY <1>0, <1>s, <2>6, SpillEffect
  <2> QED
    BY <1>5, <2>1, <2>2, <2>3, <2>4, <2>5, <2>6
<1>6. PICK c \in Calls : c.op \notin {"read", "erase"} /\ StartGrow(t, Resolve(c))
  BY <1>1, <1>3, <1>4, <1>5, StepCases
<1> QED
  BY <1>2, <1>6

\* realloc zeroes what it adds.
LEMMA BlankFit ==
    ASSUME Sound, NEW t \in Threads, Fit(t), NEW k, k = Key(t), BlankMem(k)
    PROVE  BlankMem(k)'
<1>0. Safe /\ Buffers /\ Types /\ Control /\ Memory /\ Rooms
  BY DEF Sound, Safe
<1>1. PICK r, n : r = rec[k] /\ n = Need(t)
  OBVIOUS
<1>2. k \in DOMAIN rec /\ r \in Record /\ pc[t] = "fit"
  BY <1>0, <1>1, FitEffect DEF Types
<1>3. PICK old : old = IF r.mem # NULL THEN heap[r.mem] ELSE << >>
  OBVIOUS
<1>4. PICK b \in Nat \ {0} :
            /\ Sets(Key(t), [rec[Key(t)] EXCEPT !.mem = b, !.mem_cap = Need(t)])
            /\ LET was == IF rec[Key(t)].mem # NULL THEN heap[rec[Key(t)].mem] ELSE << >>
               IN  heap' = Bind(Without(heap, rec[Key(t)].mem), b,
                                was \o Zeros(Need(t) - Len(was)))
  BY <1>0, FitEffect
<1>5. heap' = Bind(Without(heap, r.mem), b, old \o Zeros(n - Len(old)))
  BY <1>1, <1>3, <1>4
<1>6. PICK v : v = old \o Zeros(n - Len(old))
  OBVIOUS
<1>7. heap'[b] = v
  <2>1. PICK f : f = Without(heap, r.mem)
    OBVIOUS
  <2>2. heap' = Bind(f, b, v)
    BY <1>5, <1>6, <2>1
  <2> QED
    BY <2>2, TableProps
<1>8. rec'[k].mem = b /\ rec'[k].mem_cap = n /\ rec'[k].size = r.size
  <2>1. rec'[k] = [r EXCEPT !.mem = b, !.mem_cap = n]
    BY <1>1, <1>4 DEF Sets
  <2> QED
    BY <1>2, <2>1, RecordUpdates
<1>9. IsSeq(old) /\ Len(old) = r.mem_cap
  <2>1. CASE r.mem # NULL
    BY <1>0, <1>1, <1>2, <1>3, <2>1 DEF Buffers, Buffer, Resident
  <2>2. CASE r.mem = NULL
    <3>1. r.mem_cap = 0
      BY <1>0, <1>1, <1>2, <2>2 DEF Rooms, Room
    <3> QED
      BY <1>3, <2>2, <3>1 DEF IsSeq
  <2> QED
    BY <2>1, <2>2
<1>10. r.mem_cap \in Nat /\ r.size \in Nat /\ r.mem_cap <= n /\ n \in Nat
  <2>1. Growing(t)
    BY <1>0, <1>2 DEF Safe, Holding
  <2>2. call[t].op # "erase"
    BY <1>0, <1>2, NotErasing
  <2>3. n \in Nat
    BY <1>0, <1>1, <1>2, <2>2, Caught
  <2> QED
    BY <1>1, <1>2, <2>1, <2>3, RecordFields DEF Growing
<1>11. PICK z, l, m : z = Zeros(n - Len(old)) /\ l = Len(old) /\ m = n - l
  OBVIOUS
<1>12. l \in Nat /\ m \in Nat /\ l = r.mem_cap /\ l + m = n
  BY <1>9, <1>10, <1>11
<1>13. IsSeq(z) /\ Len(z) = m
  BY <1>11, <1>12, ZerosLen
<1>14. v = [j \in 1 .. (l + m) |-> IF j <= l THEN old[j] ELSE z[j - l]]
  BY <1>6, <1>11, <1>13
<1> SUFFICES ASSUME NEW o \in Nat, r.size <= o, o < n
             PROVE  v[o + 1] = 0
  BY <1>7, <1>8 DEF BlankMem
<1>15. PICK i : i = o + 1
  OBVIOUS
<1>16. i \in 1 .. (l + m)
  BY <1>12, <1>15
<1>17. CASE i <= l
  <2>1. o < r.mem_cap /\ r.mem # NULL
    <3>1. o < r.mem_cap
      BY <1>12, <1>15, <1>17
    <3>2. r.mem = NULL => r.mem_cap = 0
      BY <1>0, <1>1, <1>2 DEF Rooms, Room
    <3> QED
      BY <1>10, <3>1, <3>2
  <2>2. old[o + 1] = 0
    BY <1>1, <1>3, <2>1 DEF BlankMem
  <2> QED
    BY <1>14, <1>15, <1>16, <1>17, <2>2
<1>18. CASE ~(i <= l)
  <2>1. i - l \in 1 .. m /\ n - Len(old) = m
    BY <1>11, <1>12, <1>16, <1>18
  <2>2. z[i - l] = 0
    BY <1>11, <2>1 DEF Zeros
  <2> QED
    BY <1>14, <1>15, <1>16, <1>18, <2>2
<1> QED
  BY <1>17, <1>18

LEMMA BlankMemNext ==
    ASSUME Sound, NEW t \in Threads, Step(t), Tasks(t), Reaches(t),
           NEW k \in DOMAIN rec, k \in DOMAIN rec', BlankMem(k)
    PROVE  BlankMem(k)'
<1>0. /\ Safe /\ Types /\ Control /\ Holding /\ Memory /\ Space /\ Rooms /\ Places /\ Buffers /\ Pieces
  BY DEF Sound, Safe
<1>1. PICK r, b, n : r = rec[k] /\ b = r.mem /\ n = r.mem_cap
  OBVIOUS
<1>2. r \in Record /\ r.size \in Nat /\ n \in Nat
  BY <1>0, <1>1, RecordFields DEF Types
<1>3. r.size <= rec'[k].size /\ rec'[k].size \in Nat
  BY <1>0, <1>1, SizesGrow
<1>4. CASE Fit(t) /\ Key(t) = k
  BY <1>4, BlankFit
<1>5. CASE Spill(t) /\ vic = k
  <2>1. PICK m, c : m = NULL /\ c = 0 /\ Sets(k, [r EXCEPT !.mem = m, !.mem_cap = c])
    BY <1>0, <1>1, <1>5, SpillEffect
  <2>2. rec'[k].mem = NULL
    BY <1>2, <2>1, RecordUpdates DEF Sets
  <2> QED
    BY <2>2 DEF BlankMem
<1>6. CASE ~(Fit(t) /\ Key(t) = k) /\ ~(Spill(t) /\ vic = k)
  <2>1. rec'[k].mem = b /\ rec'[k].mem_cap = n
    <3>1. CASE SameSpace(rec'[k], rec[k])
      BY <1>1, <3>1 DEF SameSpace
    <3>2. CASE Zero(t) /\ Grown(t) = k
      <4>1. PICK x, m : x = Append(r.ext, fresh[1]) /\ m = r.ext_total + fresh[1].len
        OBVIOUS
      <4>2. Sets(k, [r EXCEPT !.ext = x, !.ext_total = m])
        BY <1>0, <1>1, <3>2, <4>1, ZeroEffect
      <4> QED
        BY <1>1, <1>2, <4>2, RecordUpdates DEF Sets
    <3> QED
      BY <1>0, <1>6, <3>1, <3>2, RoomKept
  <2> SUFFICES ASSUME b # NULL, NEW o \in Nat, r.size <= o, o < n
               PROVE  heap'[b][o + 1] = 0
    <3>1. \A o \in Nat : rec'[k].size <= o => r.size <= o
      BY <1>2, <1>3
    <3> QED
      BY <2>1, <3>1 DEF BlankMem
  <2>2. heap[b][o + 1] = 0
    BY <1>1 DEF BlankMem
  <2>3. k \in Resident
    BY <1>1 DEF Resident
  <2>4. ~Stores(t, k, o)
    BY <1>1, <1>2, StoresInside
  <2>5. Byte(k, o)' = Byte(k, o)
    BY <1>1, <1>6, <2>3, <2>4, ByteInMemory
  <2>6. Byte(k, o) = heap[b][o + 1] /\ Byte(k, o)' = heap'[b][o + 1]
    BY <1>1, <2>1 DEF Byte
  <2> QED
    BY <2>2, <2>5, <2>6
<1> QED
  BY <1>4, <1>5, <1>6

LEMMA BlankNext ==
    ASSUME Sound, Sound', NEW t \in Threads, Step(t), Tasks(t), Mirrored(t), Reaches(t), Blank
    PROVE  Blank'
<1>0. Safe /\ Types
  BY DEF Sound, Safe
<1> SUFFICES ASSUME NEW k \in DOMAIN rec'
             PROVE  BlankDisk(k)' /\ BlankMem(k)'
  BY DEF Blank
<1>1. CASE k \in DOMAIN rec
  BY <1>1, BlankDiskNext, BlankMemNext DEF Blank
<1>2. CASE k \notin DOMAIN rec
  <2>1. rec'[k] = NewRec
    BY <1>0, <1>2, NewKeys
  <2>2. rec'[k].mem = NULL /\ rec'[k].ext_total = 0
    BY <2>1 DEF NewRec
  <2>3. \A o \in Nat : ~(o < 0)
    OBVIOUS
  <2> QED
    BY <2>2, <2>3 DEF BlankDisk, BlankMem
<1> QED
  BY <1>1, <1>2
-----------------------------------------------------------------------------
(* The pieces of a range are apart.                                        *)

\* The pieces come one after another and end by b.
Rising(s, b) ==
    /\ \A i \in DOMAIN s : s[i].off + s[i].n <= b
    /\ \A i, j \in DOMAIN s : i < j => s[i].off + s[i].n <= s[j].off

LEMMA SpanFields == \A x \in Span : x.at \in Nat /\ x.off \in Nat /\ x.n \in Nat
  BY DEF Span

LEMMA RisingMore ==
    ASSUME NEW a \in Seq(Span), NEW b \in Nat, NEW c \in Nat, b <= c, Rising(a, b)
    PROVE  /\ Rising(a, c)
           /\ \A x \in Span : b <= x.off /\ x.off + x.n <= c => Rising(a \o <<x>>, c)
<1>0. Len(a) \in Nat /\ DOMAIN a = 1 .. Len(a)
      /\ \A i \in DOMAIN a : a[i].off \in Nat /\ a[i].n \in Nat
  BY SpanFields
<1>1. \A i \in DOMAIN a : a[i].off + a[i].n <= b
  BY DEF Rising
<1>2. \A i \in DOMAIN a : a[i].off + a[i].n <= c
  BY <1>0, <1>1
<1>3. Rising(a, c)
  BY <1>2 DEF Rising
<1>4. ASSUME NEW x \in Span, b <= x.off, x.off + x.n <= c
      PROVE  Rising(a \o <<x>>, c)
  <2>1. PICK s, m : s = a \o <<x>> /\ m = Len(a)
    OBVIOUS
  <2>2. m \in Nat /\ DOMAIN s = 1 .. (m + 1) /\ s[m + 1] = x /\ \A i \in 1 .. m : s[i] = a[i]
    BY <2>1
  <2>3. x.off \in Nat /\ x.n \in Nat
    BY SpanFields
  <2>4. ASSUME NEW i \in DOMAIN s
        PROVE  s[i].off + s[i].n <= c
    <3>1. CASE i = m + 1
      BY <1>4, <2>2, <3>1
    <3>2. CASE i \in 1 .. m
      BY <1>0, <1>2, <2>1, <2>2, <3>2
    <3> QED
      BY <2>2, <3>1, <3>2
  <2>5. ASSUME NEW i \in DOMAIN s, NEW j \in DOMAIN s, i < j
        PROVE  s[i].off + s[i].n <= s[j].off
    <3>1. i \in 1 .. m
      BY <2>2, <2>5
    <3>2. i \in DOMAIN a /\ s[i] = a[i]
      BY <1>0, <2>1, <2>2, <3>1
    <3>3. CASE j = m + 1
      BY <1>0, <1>1, <1>4, <2>2, <2>3, <3>2, <3>3
    <3>4. CASE j \in 1 .. m
      BY <1>0, <2>1, <2>2, <2>5, <3>2, <3>4 DEF Rising
    <3> QED
      BY <2>2, <3>3, <3>4
  <2> QED
    BY <2>1, <2>4, <2>5 DEF Rising
<1> QED
  BY <1>3, <1>4

LEMMA RisingPart ==
    ASSUME NEW p, p.ext \in Seq(Extent), p.mem = NULL, NEW off \in Nat, NEW n \in Int,
           NEW i \in DOMAIN p.ext, NEW a \in Seq(Span), Rising(a, Base(p.ext, i))
    PROVE  /\ Rising(a \o Scattered(p, off, n)[i], Base(p.ext, i + 1))
           /\ a \o Scattered(p, off, n)[i] \in Seq(Span)
<1>1. PICK x, b, l, f, c : /\ x = Piece(p.ext, i, off, n) /\ b = Base(p.ext, i) /\ l = p.ext[i].len
                           /\ f = p.ext[i].foff /\ c = Base(p.ext, i + 1)
  OBVIOUS
<1>2. Len(p.ext) \in Nat /\ i \in 1 .. Len(p.ext) /\ l \in Nat
  BY <1>1, HoleFields
<1>3. i \in 1 .. (Len(p.ext) + 1)
  BY <1>2
<1>4. b \in Nat /\ c = b + l /\ c \in Nat /\ b <= c
  BY <1>1, <1>2, <1>3, BaseProps
<1>5. PieceOf(x, off, n, b, l, f)
  BY <1>1, PieceIs
<1>6. PICK s : s = Scattered(p, off, n)[i]
  OBVIOUS
<1>7. s = IF x.n > 0 THEN <<x>> ELSE << >>
  BY <1>1, <1>6 DEF Scattered
<1>8. Rising(a, b)
  BY <1>1
<1>9. CASE x.n > 0
  <2>1. x \in Span
    BY <1>1, <1>9, PieceProps
  <2>2. b <= x.off /\ x.off + x.n <= c
    <3>1. /\ x.off \in Nat /\ x.n \in Nat
          /\ x.off = IF off >= b THEN off ELSE b
          /\ x.off + x.n = IF off + n <= b + l THEN off + n ELSE b + l
      BY <1>5, <2>1, SpanFields DEF PieceOf
    <3>2. b <= x.off
      BY <1>4, <3>1
    <3>3. PICK e : e = x.off + x.n
      OBVIOUS
    <3>4. e <= b + l
      BY <1>2, <1>4, <3>1, <3>3
    <3>5. e <= c
      BY <1>4, <3>4
    <3> QED
      BY <3>2, <3>3, <3>5
  <2>3. Rising(a \o <<x>>, c)
    BY <1>4, <1>8, <2>1, <2>2, RisingMore
  <2>4. a \o <<x>> \in Seq(Span)
    BY <2>1
  <2> QED
    BY <1>1, <1>6, <1>7, <1>9, <2>3, <2>4
<1>10. CASE ~(x.n > 0)
  <2>1. Rising(a, c)
    BY <1>2, <1>4, <1>8, RisingMore
  <2>2. a \o << >> = a
    OBVIOUS
  <2> QED
    BY <1>1, <1>6, <1>7, <1>10, <2>1, <2>2
<1> QED
  BY <1>9, <1>10

LEMMA ScatterRises ==
    ASSUME NEW p, p.ext \in Seq(Extent), p.mem = NULL, NEW off \in Nat, NEW n \in Int
    PROVE  \E b \in Nat : Rising(ls_scatter(p, off, n), b)
<1>1. PICK ss, S : ss = Scattered(p, off, n) /\ S = Within(p, off, n)
  OBVIOUS
<1>2. ls_scatter(p, off, n) = FlattenSeq(ss) /\ ss \in Seq(Seq(S)) /\ Len(ss) = Len(p.ext)
  BY <1>1, ScatteredProps
<1>3. Len(p.ext) \in Nat /\ DOMAIN p.ext = 1 .. Len(p.ext)
  BY HoleFields
<1>4. CASE Len(ss) = 0
  <2>1. ss = << >> /\ FlattenSeq(ss) = ss
    BY <1>2, <1>4 DEF FlattenSeq
  <2>2. Rising(<< >>, 0)
    BY DEF Rising
  <2> QED
    BY <1>2, <2>1, <2>2
<1>5. CASE Len(ss) # 0
  <2>1. PICK m, f : m = Len(ss) /\ FlatRec(ss, m, f) /\ FlattenSeq(ss) = f[m]
    BY <1>2, <1>5, FlattenIs
  <2>2. m \in Nat /\ m \in 1 .. m /\ m - 1 \in Nat /\ m - 1 + 1 = m /\ DOMAIN p.ext = 1 .. m /\ 1 \in 1 .. m
    BY <1>2, <1>3, <1>5, <2>1
  <2>3. \A i \in 1 .. m : f[i] = IF i = 1 THEN ss[i] ELSE f[i - 1] \o ss[i]
    BY <2>1 DEF FlatRec
  <2> DEFINE Good(i) == f[i] \in Seq(Span) /\ Rising(f[i], Base(p.ext, i + 1))
             P == {i \in Nat : i + 1 \in 1 .. m => Good(i + 1)}
  <2>4. Good(1)
    <3>1. << >> \in Seq(Span) /\ Rising(<< >>, Base(p.ext, 1))
      BY DEF Rising
    <3>2. << >> \o ss[1] \in Seq(Span) /\ Rising(<< >> \o ss[1], Base(p.ext, 1 + 1))
      BY <1>1, <2>2, <3>1, RisingPart
    <3>3. << >> \o ss[1] = ss[1]
      <4>1. ss[1] \in Seq(S)
        BY <1>2, <2>1, <2>2
      <4> QED
        BY <4>1
    <3>4. f[1] = ss[1]
      BY <2>2, <2>3
    <3> QED
      BY <3>2, <3>3, <3>4
  <2>5. ASSUME NEW i \in 1 .. m, i # 1, Good(i - 1)
        PROVE  Good(i)
    <3>1. i - 1 + 1 = i /\ i \in DOMAIN p.ext
      BY <2>2
    <3>2. f[i - 1] \in Seq(Span) /\ Rising(f[i - 1], Base(p.ext, i))
      BY <2>5, <3>1
    <3>3. f[i - 1] \o ss[i] \in Seq(Span) /\ Rising(f[i - 1] \o ss[i], Base(p.ext, i + 1))
      BY <1>1, <3>1, <3>2, RisingPart
    <3>4. f[i] = f[i - 1] \o ss[i]
      BY <2>3, <2>5
    <3> QED
      BY <3>3, <3>4
  <2> HIDE DEF Good
  <2>6. 0 \in P
    BY <2>2, <2>4
  <2>7. ASSUME NEW i \in P
        PROVE  i + 1 \in P
    <3> SUFFICES ASSUME i + 1 + 1 \in 1 .. m PROVE Good(i + 1 + 1)
      OBVIOUS
    <3>1. PICK j : j = i + 1 + 1
      OBVIOUS
    <3>2. j \in 1 .. m /\ j # 1 /\ j - 1 = i + 1 /\ i + 1 \in 1 .. m
      BY <2>2, <3>1
    <3>3. Good(j - 1)
      BY <3>2
    <3> QED
      BY <2>5, <3>1, <3>2, <3>3
  <2>8. P = Nat
    <3>1. P \in SUBSET Nat
      OBVIOUS
    <3> HIDE DEF P
    <3> QED
      BY <2>6, <2>7, <3>1, NatSet
  <2>9. m - 1 \in P
    <3> HIDE DEF P
    <3> QED
      BY <2>2, <2>8
  <2>10. Good(m)
    BY <2>2, <2>9
  <2>11. Rising(f[m], Base(p.ext, m + 1))
    BY <2>10 DEF Good
  <2>12. Base(p.ext, m + 1) \in Nat
    <3>1. m + 1 \in 1 .. (Len(p.ext) + 1)
      BY <1>2, <2>1, <2>2
    <3> QED
      BY <3>1, BaseProps
  <2> QED
    BY <1>2, <2>1, <2>11, <2>12
<1> QED
  BY <1>4, <1>5

\* No byte is in two pieces of one range.
LEMMA ScatterApart ==
    ASSUME NEW p, p.ext \in Seq(Extent), p.mem = NULL, NEW off \in Nat, NEW n \in Int,
           NEW s, s = ls_scatter(p, off, n), NEW i \in DOMAIN s, NEW j \in DOMAIN s, i # j, NEW o
    PROVE  ~(o \in Spanned(s[i]) /\ o \in Spanned(s[j]))
<1>1. s \in Seq(Within(p, off, n))
  BY ScatterIn
<1>2. \A x \in Within(p, off, n) : x \in Span
  BY DEF Within
<1>3. Len(s) \in Nat /\ DOMAIN s = 1 .. Len(s) /\ \A l \in DOMAIN s : s[l].off \in Nat /\ s[l].n \in Nat
  BY <1>1, <1>2, SpanFields
<1>4. PICK b \in Nat : Rising(s, b)
  BY ScatterRises
<1>5. i < j \/ j < i
  BY <1>3
<1>6. ASSUME NEW l \in DOMAIN s, NEW m \in DOMAIN s, l < m
      PROVE  ~(o \in Spanned(s[l]) /\ o \in Spanned(s[m]))
  <2>1. PICK q, r, v, w : q = s[l].off /\ r = s[l].n /\ v = s[m].off /\ w = s[m].n
    OBVIOUS
  <2>2. q \in Nat /\ r \in Nat /\ v \in Nat /\ w \in Nat /\ q + r <= v
    BY <1>3, <1>4, <1>6, <2>1 DEF Rising
  <2>3. ~(o \in q .. (q + r - 1) /\ o \in v .. (v + w - 1))
    BY <2>2
  <2> QED
    BY <2>1, <2>3 DEF Spanned
<1> QED
  BY <1>5, <1>6
-----------------------------------------------------------------------------
(* ls_accumulate on extents reads every byte before it stores it.          *)

\* No piece of s from j up to i stores byte o.
Unstored(s, o, j, i) == \A l \in j .. (i - 1) : s[l].dir = "write" => o \notin Spanned(s[l])

\* A piece before i reads byte o, and nothing stores it between.
ReadBefore(s, o, i) ==
    \E j \in 1 .. (i - 1) : s[j].dir = "read" /\ o \in Spanned(s[j]) /\ Unstored(s, o, j, i)

\* What s stores it has read, or it is in G.
ReadFirst(s, G) ==
    \A i \in DOMAIN s : s[i].dir = "write" =>
        \A o \in Spanned(s[i]) : ReadBefore(s, o, i) \/ (o \in G /\ Unstored(s, o, 1, i))

LEMMA ReadFirstMore ==
    ASSUME NEW s, NEW G, NEW H, G \subseteq H, ReadFirst(s, G)
    PROVE  ReadFirst(s, H)
  BY DEF ReadFirst

\* The read of a piece adds to what has been read, and its store takes away.
LEMMA ReadFirstTail ==
    ASSUME NEW s \in Seq(Transfer), s # << >>, NEW G, ReadFirst(s, G), NEW H,
           \A o \in G : s[1].dir = "write" => o \in Spanned(s[1]) \/ o \in H,
           \A o \in G : s[1].dir = "read" => o \in H,
           \A o \in Spanned(s[1]) : s[1].dir = "read" => o \in H
    PROVE  ReadFirst(Tail(s), H)
<1>1. PICK u, m : u = Tail(s) /\ m = Len(s)
  OBVIOUS
<1>2. m \in Nat /\ m # 0 /\ DOMAIN s = 1 .. m /\ DOMAIN u = 1 .. (m - 1)
      /\ \A i \in 1 .. (m - 1) : u[i] = s[i + 1]
  BY <1>1
<1>3. s[1].dir \in {"read", "write"}
  <2>1. 1 \in DOMAIN s
    BY <1>2
  <2>2. s[1] \in Transfer
    BY <2>1
  <2> QED
    BY <2>2 DEF Transfer
<1>4. ASSUME NEW i \in 1 .. (m - 1), NEW o, NEW j \in 1 .. i, Unstored(s, o, j, i + 1)
      PROVE  Unstored(u, o, IF j = 1 THEN 1 ELSE j - 1, i)
  <2>1. ASSUME NEW l \in (IF j = 1 THEN 1 ELSE j - 1) .. (i - 1), u[l].dir = "write"
        PROVE  o \notin Spanned(u[l])
    <3>1. l + 1 \in j .. (i + 1 - 1) /\ l \in 1 .. (m - 1)
      BY <1>2
    <3>2. u[l] = s[l + 1]
      BY <1>2, <3>1
    <3> QED
      BY <1>4, <2>1, <3>1, <3>2 DEF Unstored
  <2> QED
    BY <2>1 DEF Unstored
<1>5. ASSUME NEW i \in DOMAIN u, u[i].dir = "write", NEW o \in Spanned(u[i])
      PROVE  ReadBefore(u, o, i) \/ (o \in H /\ Unstored(u, o, 1, i))
  <2>1. i \in 1 .. (m - 1) /\ i + 1 \in DOMAIN s /\ u[i] = s[i + 1]
    BY <1>2
  <2>2. PICK i1 : i1 = i + 1
    OBVIOUS
  <2>3. s[i1].dir = "write" /\ o \in Spanned(s[i1]) /\ i1 \in DOMAIN s /\ i1 - 1 = i
    BY <1>5, <2>1, <2>2
  <2>4. ReadBefore(s, o, i1) \/ (o \in G /\ Unstored(s, o, 1, i1))
    BY <2>3 DEF ReadFirst
  <2>5. CASE ReadBefore(s, o, i1)
    <3>1. PICK j \in 1 .. (i1 - 1) : s[j].dir = "read" /\ o \in Spanned(s[j]) /\ Unstored(s, o, j, i1)
      BY <2>5 DEF ReadBefore
    <3>2. j \in 1 .. i
      BY <2>3, <3>1
    <3>3. Unstored(u, o, IF j = 1 THEN 1 ELSE j - 1, i)
      BY <1>4, <2>1, <2>2, <3>1, <3>2
    <3>4. CASE j = 1
      BY <3>1, <3>3, <3>4
    <3>5. CASE j # 1
      <4>1. PICK q : q = j - 1
        OBVIOUS
      <4>2. q \in 1 .. (i - 1) /\ q \in 1 .. (m - 1) /\ q + 1 = j
        BY <1>2, <2>1, <3>2, <3>5, <4>1
      <4>3. u[q] = s[j]
        BY <1>2, <4>2
      <4>4. Unstored(u, o, q, i)
        BY <3>3, <3>5, <4>1
      <4> QED
        BY <3>1, <4>2, <4>3, <4>4 DEF ReadBefore
    <3> QED
      BY <3>4, <3>5
  <2>6. CASE o \in G /\ Unstored(s, o, 1, i1)
    <3>1. 1 \in 1 .. i /\ 1 \in 1 .. (i1 - 1)
      BY <1>2, <2>1, <2>3
    <3>2. Unstored(u, o, 1, i)
      BY <1>4, <2>1, <2>2, <2>6, <3>1
    <3>3. s[1].dir = "write" => o \notin Spanned(s[1])
      BY <2>6, <3>1 DEF Unstored
    <3>4. o \in H
      BY <1>3, <2>6, <3>3
    <3> QED
      BY <3>2, <3>4
  <2> QED
    BY <2>4, <2>5, <2>6
<1> QED
  BY <1>1, <1>5 DEF ReadFirst

LEMMA ReadFirstBoth ==
    ASSUME NEW a \in Seq(Transfer), NEW b \in Seq(Transfer), ReadFirst(a, {}), ReadFirst(b, {})
    PROVE  ReadFirst(a \o b, {})
<1>1. PICK s, p, q : s = a \o b /\ p = Len(a) /\ q = Len(b)
  OBVIOUS
<1>2. p \in Nat /\ q \in Nat /\ DOMAIN s = 1 .. (p + q) /\ DOMAIN a = 1 .. p /\ DOMAIN b = 1 .. q
      /\ \A l \in 1 .. (p + q) : s[l] = IF l <= p THEN a[l] ELSE b[l - p]
  BY <1>1
<1>3. ASSUME NEW i \in DOMAIN s, s[i].dir = "write", NEW o \in Spanned(s[i])
      PROVE  ReadBefore(s, o, i)
  <2>1. CASE i <= p
    <3>1. i \in DOMAIN a /\ s[i] = a[i]
      BY <1>2, <2>1
    <3>2. ReadBefore(a, o, i)
      BY <1>3, <3>1 DEF ReadFirst
    <3>3. PICK j \in 1 .. (i - 1) : a[j].dir = "read" /\ o \in Spanned(a[j]) /\ Unstored(a, o, j, i)
      BY <3>2 DEF ReadBefore
    <3>4. \A l \in 1 .. (i - 1) : s[l] = a[l]
      BY <1>2, <2>1
    <3>5. \A l \in j .. (i - 1) : l \in 1 .. (i - 1)
      OBVIOUS
    <3>6. Unstored(s, o, j, i)
      BY <3>3, <3>4, <3>5 DEF Unstored
    <3> QED
      BY <3>3, <3>4, <3>6 DEF ReadBefore
  <2>2. CASE ~(i <= p)
    <3>1. PICK h : h = i - p
      OBVIOUS
    <3>2. h \in DOMAIN b /\ s[i] = b[h]
      BY <1>2, <2>2, <3>1
    <3>3. ReadBefore(b, o, h)
      BY <1>3, <3>2 DEF ReadFirst
    <3>4. PICK j \in 1 .. (h - 1) : b[j].dir = "read" /\ o \in Spanned(b[j]) /\ Unstored(b, o, j, h)
      BY <3>3 DEF ReadBefore
    <3>5. PICK g : g = j + p
      OBVIOUS
    <3>6. g \in 1 .. (i - 1) /\ \A l \in g .. (i - 1) : l - p \in j .. (h - 1) /\ s[l] = b[l - p]
      BY <1>2, <2>2, <3>1, <3>2, <3>4, <3>5
    <3>7. s[g] = b[j]
      <4>1. g \in 1 .. (p + q) /\ ~(g <= p) /\ g - p = j
        BY <1>2, <3>1, <3>2, <3>4, <3>5
      <4> QED
        BY <1>2, <4>1
    <3>8. Unstored(s, o, g, i)
      BY <3>4, <3>6 DEF Unstored
    <3> QED
      BY <3>4, <3>6, <3>7, <3>8 DEF ReadBefore
  <2> QED
    BY <2>1, <2>2
<1> QED
  BY <1>1, <1>3 DEF ReadFirst

\* One chunk: all of it is read, then each piece is stored once.
LEMMA RoundReadFirst ==
    ASSUME NEW p, p.ext \in Seq(Extent), p.mem = NULL, NEW x, x.off \in Nat, x.n \in Int
    PROVE  Round(p, x) \in Seq(Transfer) /\ ReadFirst(Round(p, x), {})
<1>1. PICK sc, m, W : sc = ls_scatter(p, x.off, x.n) /\ m = Len(sc) /\ W = Within(p, x.off, x.n)
  OBVIOUS
<1>2. sc \in Seq(W)
  BY <1>1, ScatterIn
<1>3. W \subseteq Span
  BY <1>1 DEF Within
<1>4. sc \in Seq(Span) /\ m \in Nat /\ DOMAIN sc = 1 .. m
  <2>1. Len(sc) \in Nat /\ DOMAIN sc = 1 .. Len(sc) /\ \A i \in 1 .. Len(sc) : sc[i] \in W
    BY <1>2
  <2>2. sc \in Seq(Span)
    <3>1. sc = [i \in 1 .. Len(sc) |-> sc[i]]
      BY <1>2, <2>1
    <3>2. \A i \in 1 .. Len(sc) : sc[i] \in Span
      BY <1>3, <2>1
    <3>3. [i \in 1 .. Len(sc) |-> sc[i]] \in Seq(Span)
      BY <2>1, <3>2, SeqBy
    <3> QED
      BY <3>1, <3>3
  <2> QED
    BY <1>1, <2>1, <2>2
<1>5. PICK r, w : r = Directed("read", sc) /\ w = Directed("write", sc)
  OBVIOUS
<1>6. r \in Seq(Transfer) /\ w \in Seq(Transfer)
  BY <1>4, <1>5, DirectedTyped
<1>7. /\ DOMAIN r = 1 .. m /\ DOMAIN w = 1 .. m
      /\ \A i \in 1 .. m : /\ r[i].dir = "read" /\ r[i].off = sc[i].off /\ r[i].n = sc[i].n
                           /\ w[i].dir = "write" /\ w[i].off = sc[i].off /\ w[i].n = sc[i].n
  BY <1>4, <1>5 DEF Directed
<1>8. \A i \in 1 .. m : Spanned(r[i]) = Spanned(sc[i]) /\ Spanned(w[i]) = Spanned(sc[i])
  BY <1>7 DEF Spanned
<1>9. PICK s : s = r \o w
  OBVIOUS
<1>10. s = Round(p, x)
  BY <1>1, <1>5, <1>9 DEF Round
<1>11. Len(r) = m /\ Len(w) = m
  <2>1. DOMAIN r = 1 .. Len(r) /\ DOMAIN w = 1 .. Len(w) /\ Len(r) \in Nat /\ Len(w) \in Nat
    BY <1>6
  <2> QED
    BY <1>4, <1>7, <2>1
<1>12. s \in Seq(Transfer) /\ DOMAIN s = 1 .. (m + m)
       /\ \A l \in 1 .. (m + m) : s[l] = IF l <= m THEN r[l] ELSE w[l - m]
  <2>1. s \in Seq(Transfer) /\ Len(s) = Len(r) + Len(w)
        /\ \A l \in 1 .. (Len(r) + Len(w)) : s[l] = IF l <= Len(r) THEN r[l] ELSE w[l - Len(r)]
    BY <1>6, <1>9
  <2>2. DOMAIN s = 1 .. Len(s)
    BY <2>1
  <2> QED
    BY <1>11, <2>1, <2>2
<1>13. ASSUME NEW i \in DOMAIN s, s[i].dir = "write", NEW o \in Spanned(s[i])
       PROVE  ReadBefore(s, o, i)
  <2>1. ~(i <= m)
    <3> SUFFICES ASSUME i <= m PROVE FALSE
      OBVIOUS
    <3>1. i \in 1 .. m /\ s[i] = r[i]
      BY <1>4, <1>12
    <3> QED
      BY <1>7, <1>13, <3>1
  <2>2. PICK h : h = i - m
    OBVIOUS
  <2>3. h \in 1 .. m /\ h \in 1 .. (i - 1) /\ h \in 1 .. (m + m) /\ h <= m
    BY <1>4, <1>12, <2>1, <2>2
  <2>4. s[i] = w[h] /\ s[h] = r[h]
    BY <1>12, <2>1, <2>2, <2>3
  <2>5. o \in Spanned(sc[h])
    BY <1>8, <1>13, <2>3, <2>4
  <2>6. ASSUME NEW l \in h .. (i - 1), s[l].dir = "write"
        PROVE  o \notin Spanned(s[l])
    <3>1. l \in 1 .. (m + m) /\ l \in Nat
      BY <1>4, <1>12, <2>3
    <3>2. ~(l <= m)
      <4> SUFFICES ASSUME l <= m PROVE FALSE
        OBVIOUS
      <4>1. l \in 1 .. m /\ s[l] = r[l]
        BY <1>12, <3>1
      <4> QED
        BY <1>7, <2>6, <4>1
    <3>3. PICK g : g = l - m
      OBVIOUS
    <3>4. g \in 1 .. m /\ g # h
      BY <1>4, <1>12, <2>2, <2>3, <3>1, <3>2, <3>3
    <3>5. s[l] = w[g]
      BY <1>12, <3>1, <3>2, <3>3
    <3>6. ~(o \in Spanned(sc[g]) /\ o \in Spanned(sc[h]))
      BY <1>1, <1>4, <2>3, <3>4, ScatterApart
    <3> QED
      BY <1>8, <2>5, <3>4, <3>5, <3>6
  <2>7. Unstored(s, o, h, i)
    BY <2>6 DEF Unstored
  <2> QED
    BY <1>7, <1>8, <2>3, <2>4, <2>5, <2>7 DEF ReadBefore
<1>14. ReadFirst(s, {})
  BY <1>13 DEF ReadFirst
<1> QED
  BY <1>10, <1>12, <1>14

\* The transfers that read what they store.
FedRuns == {s \in Seq(Transfer) : ReadFirst(s, {})}

LEMMA FedRunsClosed ==
    FedRuns \in SUBSET Seq(Transfer) /\ << >> \in FedRuns /\ \A a, b \in FedRuns : a \o b \in FedRuns
<1>1. << >> \in FedRuns
  BY DEF FedRuns, ReadFirst
<1>2. ASSUME NEW a \in FedRuns, NEW b \in FedRuns PROVE a \o b \in FedRuns
  <2>1. a \in Seq(Transfer) /\ b \in Seq(Transfer) /\ ReadFirst(a, {}) /\ ReadFirst(b, {})
    BY DEF FedRuns
  <2>2. a \o b \in Seq(Transfer) /\ ReadFirst(a \o b, {})
    BY <2>1, ReadFirstBoth
  <2> QED
    BY <2>2 DEF FedRuns
<1> QED
  BY <1>1, <1>2 DEF FedRuns

\* What ls_accumulate stores on extents, it has read in the same chunk.
LEMMA TransfersReadFirst ==
    ASSUME NEW c \in Call, c.op = "acc", NEW p, p.ext \in Seq(Extent), p.mem = NULL
    PROVE  ReadFirst(Transfers(c, p), {})
<1>0. c.segs \in Seq(Segment)
  BY DEF Call
<1>1. /\ Len(c.segs) \in Nat /\ DOMAIN c.segs = 1 .. Len(c.segs)
      /\ \A i \in 1 .. Len(c.segs) : c.segs[i].off \in Nat /\ c.segs[i].n \in Nat
  BY <1>0, SegFields
<1>2. ASSUME NEW i \in 1 .. Len(c.segs)
      PROVE  FlattenSeq(Rounds(p, c.segs[i])) \in FedRuns
  <2>1. PICK off, n, m, rs : /\ off = c.segs[i].off /\ n = c.segs[i].n /\ m = Chunks(n)
                             /\ rs = Rounds(p, c.segs[i])
    OBVIOUS
  <2>2. off \in Nat /\ n \in Nat /\ m \in Nat
    BY <1>1, <2>1, ChunkProps
  <2>3. rs = [j \in 1 .. m |-> rs[j]] /\ \A j \in 1 .. m : rs[j] = Round(p, Chunk(off, n, j))
    BY <2>1 DEF Rounds
  <2>4. ASSUME NEW j \in 1 .. m PROVE rs[j] \in FedRuns
    <3>1. PICK x : x = Chunk(off, n, j)
      OBVIOUS
    <3>2. x.off \in Nat /\ x.n \in Int
      BY <2>1, <2>2, <3>1, ChunkProps
    <3>3. Round(p, x) \in Seq(Transfer) /\ ReadFirst(Round(p, x), {})
      BY <3>2, RoundReadFirst
    <3> QED
      BY <2>3, <3>1, <3>3 DEF FedRuns
  <2>5. [j \in 1 .. m |-> rs[j]] \in Seq(FedRuns)
    BY <2>2, <2>4, SeqBy
  <2>6. rs \in Seq(FedRuns)
    BY <2>3, <2>5
  <2> QED
    BY <2>1, <2>6, FedRunsClosed, FlattenClosed
<1>3. PICK ss : ss = Parts(c, p)
  OBVIOUS
<1>4. /\ ss = [i \in 1 .. Len(c.segs) |-> ss[i]]
      /\ \A i \in 1 .. Len(c.segs) : ss[i] = FlattenSeq(Rounds(p, c.segs[i]))
  BY <1>1, <1>3 DEF Parts
<1>5. \A i \in 1 .. Len(c.segs) : ss[i] \in FedRuns
  BY <1>2, <1>4
<1>6. [i \in 1 .. Len(c.segs) |-> ss[i]] \in Seq(FedRuns)
  BY <1>1, <1>5, SeqBy
<1>7. ss \in Seq(FedRuns)
  BY <1>4, <1>6
<1>8. FlattenSeq(ss) \in FedRuns
  BY <1>7, FedRunsClosed, FlattenClosed
<1> QED
  BY <1>3, <1>8, TransfersAre DEF FedRuns

\* What a call has read and the record still holds.
Current(u) == {o \in Covers(call[u]) : o \in DOMAIN buf[u] /\ buf[u][o] = Byte(Key(u), o)}

\* ls_accumulate combines what the record holds.
Fed(u) ==
    pc[u] = "io" /\ call[u].op = "acc" /\ place[u].mem = NULL => ReadFirst(todo[u], Current(u))

LEMMA FedOthers ==
    ASSUME Sound, Sound', NEW t \in Threads, Step(t), DOMAIN buf = Threads, Mirrored(t), Untiered(t),
           NEW u \in Threads \ {t}, Tasks(t), Tasks(u), Reaches(u), Unshared(t, u), Fed(u)
    PROVE  Fed(u)'
<1>0. Safe /\ Pieces
  BY DEF Sound, Safe
<1>1. /\ pc'[u] = pc[u] /\ call'[u] = call[u] /\ todo'[u] = todo[u] /\ place'[u] = place[u]
      /\ buf'[u] = buf[u]
  BY <1>0, OthersStay, OthersHold
<1> SUFFICES ASSUME pc[u] = "io", call[u].op = "acc", place[u].mem = NULL
             PROVE  ReadFirst(todo[u], Current(u)')
  BY <1>1 DEF Fed
<1>2. ASSUME NEW o \in Current(u) PROVE o \in Current(u)'
  <2>1. o \in Covers(call[u]) /\ o \in DOMAIN buf[u] /\ buf[u][o] = Byte(Key(u), o)
    BY DEF Current
  <2>2. Byte(Key(u), o)' = Byte(Key(u), o)
    BY <2>1, OthersKeep DEF Moving
  <2>3. Covers(call[u])' = Covers(call[u])
    BY <1>1 DEF Covers
  <2> QED
    BY <1>1, <2>1, <2>2, <2>3 DEF Current
<1>3. ReadFirst(todo[u], Current(u))
  BY DEF Fed
<1> QED
  BY <1>2, <1>3, ReadFirstMore

LEMMA FedRead ==
    ASSUME Sound, Sound', NEW t \in Threads, Step(t), ReadPiece(t),
           DOMAIN buf = Threads, Mirrored(t), Untiered(t), Tasks(t), Reaches(t), Fed(t)
    PROVE  Fed(t)'
<1>0. Safe /\ Pieces /\ Places /\ Types /\ Control /\ Types' /\ FileSize' /\ DOMAIN todo = Threads
      /\ DOMAIN rc = Threads
  BY DEF Sound, Safe, Types
<1>1. pc[t] = "io" /\ todo[t] # << >> /\ call' = call /\ rec' = rec /\ place' = place
      /\ heap' = heap /\ file' = file
  BY DEF ReadPiece, memory
<1> SUFFICES ASSUME call[t].op = "acc", place[t].mem = NULL
             PROVE  ReadFirst(todo'[t], Current(t)')
  BY <1>1 DEF Fed
<1>2. ReadFirst(todo[t], Current(t)) /\ todo[t] \in Seq(Transfer)
  BY <1>0, <1>1 DEF Fed, Pieces
<1>3. PICK k, x : k = Key(t) /\ x = Head(todo[t])
  OBVIOUS
<1>4. k \in DOMAIN rec /\ rec[k] \in Record /\ x \in Fits(call[t], rec[k]) /\ call[t] \in Call
      /\ x.dir = "read"
  BY <1>0, <1>1, <1>3, PieceLies DEF Control, ReadPiece
<1>5. x = todo[t][1]
  BY <1>1, <1>2, <1>3
<1>6. \A o : Byte(Key(t), o)' = Byte(k, o) /\ Byte(Key(t), o) = Byte(k, o)
  BY <1>1, <1>3 DEF Byte, Key
<1>7. CASE todo'[t] # << >>
  <2>1. Covers(call[t])' = Covers(call[t]) /\ Spanned(x) \subseteq Covers(call[t])
    BY <1>1, <1>4 DEF Covers, Fits
  <2>2. \A o \in Covers(call[t]) : o \in Nat
    BY <1>4, CoversReach
  <2>3. \A o \in Nat :
           /\ o \in Spanned(x) => o \in DOMAIN buf'[t] /\ buf'[t][o] = Byte(k, o)
           /\ o \notin Spanned(x) /\ o \in DOMAIN buf[t] => o \in DOMAIN buf'[t] /\ buf'[t][o] = buf[t][o]
           /\ todo'[t] = Tail(todo[t])
    BY <1>3, <1>4, <1>7, ByteRead
  <2>4. \A o \in Spanned(x) : o \in Current(t)'
    BY <1>6, <2>1, <2>2, <2>3 DEF Current
  <2>5. \A o \in Current(t) : o \in Current(t)'
    <3> TAKE o \in Current(t)
    <3>1. o \in Covers(call[t]) /\ o \in Nat /\ o \in DOMAIN buf[t] /\ buf[t][o] = Byte(k, o)
      BY <1>6, <2>2 DEF Current
    <3>2. CASE o \notin Spanned(x)
      BY <1>6, <2>1, <2>3, <3>1, <3>2 DEF Current
    <3> QED
      BY <2>4, <3>2
  <2>6. todo'[t] = Tail(todo[t])
    <3>1. 0 \in Nat
      OBVIOUS
    <3> QED
      BY <2>3, <3>1
  <2>7. /\ \A o \in Current(t) : todo[t][1].dir = "write" => o \in Spanned(todo[t][1]) \/ o \in Current(t)'
        /\ \A o \in Current(t) : todo[t][1].dir = "read" => o \in Current(t)'
        /\ \A o \in Spanned(todo[t][1]) : todo[t][1].dir = "read" => o \in Current(t)'
    BY <1>4, <1>5, <2>4, <2>5
  <2>8. PICK s, G, H : s = todo[t] /\ G = Current(t) /\ H = Current(t)'
    OBVIOUS
  <2>9. ReadFirst(Tail(s), H)
    BY <1>1, <1>2, <2>7, <2>8, ReadFirstTail
  <2> QED
    BY <2>6, <2>8, <2>9
<1>8. CASE todo'[t] = << >>
  BY <1>8 DEF ReadFirst
<1> QED
  BY <1>7, <1>8

LEMMA FedWrite ==
    ASSUME Sound, Sound', NEW t \in Threads, Step(t), WritePiece(t),
           DOMAIN buf = Threads, Mirrored(t), Untiered(t), Tasks(t), Reaches(t), Fed(t)
    PROVE  Fed(t)'
<1>0. Safe /\ Pieces /\ Places /\ Types /\ Control /\ Types' /\ FileSize' /\ DOMAIN todo = Threads
  BY DEF Sound, Safe, Types
<1>1. /\ pc[t] = "io" /\ todo[t] # << >> /\ call' = call /\ rec' = rec /\ place' = place /\ buf' = buf
      /\ Head(todo[t]).dir = "write" /\ todo'[t] = Tail(todo[t])
  BY <1>0 DEF WritePiece
<1> SUFFICES ASSUME call[t].op = "acc", place[t].mem = NULL
             PROVE  ReadFirst(todo'[t], Current(t)')
  BY <1>1 DEF Fed
<1>2. ReadFirst(todo[t], Current(t)) /\ todo[t] \in Seq(Transfer)
  BY <1>0, <1>1 DEF Fed, Pieces
<1>3. PICK k, x : k = Key(t) /\ x = Head(todo[t])
  OBVIOUS
<1>4. k \in DOMAIN rec /\ rec[k] \in Record /\ call[t] \in Call /\ x.dir = "write"
  BY <1>0, <1>1, <1>3, PieceLies DEF Control
<1>5. x = todo[t][1]
  BY <1>1, <1>2, <1>3
<1>6. \A o : Byte(Key(t), o)' = Byte(k, o)' /\ Byte(Key(t), o) = Byte(k, o)
  BY <1>1, <1>3 DEF Byte, Key
<1>7. \A o \in Current(t) : o \in Spanned(x) \/ o \in Current(t)'
  <2> SUFFICES ASSUME NEW o \in Current(t), o \notin Spanned(x) PROVE o \in Current(t)'
    OBVIOUS
  <2>1. o \in Covers(call[t]) /\ o \in DOMAIN buf[t] /\ buf[t][o] = Byte(k, o)
    BY <1>6 DEF Current
  <2>2. o \in Nat /\ o < Need(t) /\ Need(t) \in Nat
    BY <1>4, <2>1, CoversReach, HighProps DEF Need, Call
  <2>3. Need(t) <= rec[k].size /\ rec[k].size \in Nat
    BY <1>1, <1>3, <1>4, RecordFields DEF Reaches, Moving
  <2>4. o < rec[k].size
    BY <2>2, <2>3
  <2>5. ~Stores(t, k, o)
    BY <1>3 DEF Stores
  <2>6. Byte(k, o)' = Byte(k, o)
    BY <1>0, <1>1, <1>4, <2>2, <2>4, <2>5, ByteKept
  <2>7. Covers(call[t])' = Covers(call[t])
    BY <1>1 DEF Covers
  <2> QED
    BY <1>1, <1>6, <2>1, <2>6, <2>7 DEF Current
<1>8. PICK s, G, H : s = todo[t] /\ G = Current(t) /\ H = Current(t)'
  OBVIOUS
<1>9. s[1].dir # "read"
  BY <1>4, <1>5, <1>8
<1>10. ReadFirst(Tail(s), H)
  BY <1>1, <1>2, <1>5, <1>7, <1>8, <1>9, ReadFirstTail
<1> QED
  BY <1>1, <1>8, <1>10

LEMMA FedOwn ==
    ASSUME Sound, Sound', NEW t \in Threads, Step(t), DOMAIN buf = Threads, Mirrored(t), Untiered(t),
           Tasks(t), Reaches(t), Fed(t)
    PROVE  Fed(t)'
<1>0. Safe /\ Types /\ Control /\ DOMAIN pc = Threads /\ DOMAIN call = Threads
      /\ DOMAIN todo = Threads /\ DOMAIN place = Threads
  BY DEF Sound, Safe, Types
<1>1. ASSUME NEW c \in Calls, c.op = "read", StartRead(t, c) PROVE Fed(t)'
  <2>1. call'[t] = c
    BY <1>0, <1>1 DEF StartRead
  <2> QED
    BY <1>1, <2>1 DEF Fed
<1>2. ASSUME Ready(t) PROVE Fed(t)'
  <2>1. PICK c, r, p : c = call[t] /\ r = rec[Key(t)] /\ p = [mem |-> r.mem, ext |-> r.ext]
    OBVIOUS
  <2>2. pc[t] = "ready" /\ Key(t) \in DOMAIN rec /\ call'[t] = c /\ place'[t] = p
        /\ todo'[t] = Transfers(c, p)
    BY <1>0, <1>2, <2>1, ReadyEffect DEF Ready, Launch
  <2>3. c \in Call /\ r \in Record
    BY <1>0, <2>1, <2>2 DEF Control, Types
  <2>4. p.mem = r.mem /\ p.ext = r.ext /\ p.ext \in Seq(Extent)
    BY <2>1, <2>3, RecordFields
  <2> SUFFICES ASSUME c.op = "acc", p.mem = NULL PROVE ReadFirst(Transfers(c, p), Current(t)')
    BY <2>2 DEF Fed
  <2>5. ReadFirst(Transfers(c, p), {})
    BY <2>3, <2>4, TransfersReadFirst
  <2> QED
    BY <2>5, ReadFirstMore
<1>3. ASSUME MemPiece(t) PROVE Fed(t)'
  BY <1>3 DEF MemPiece, Fed
<1>4. ASSUME ReadPiece(t) PROVE Fed(t)'
  BY <1>4, FedRead
<1>5. ASSUME WritePiece(t) PROVE Fed(t)'
  BY <1>5, FedWrite
<1>6. ASSUME Bounce(t) PROVE Fed(t)'
  <2>1. pc[t] = "io" /\ rec' = rec /\ heap' = heap /\ file' = file /\ call' = call /\ todo' = todo
        /\ buf' = buf /\ place' = place
    BY <1>6 DEF Bounce, memory
  <2>2. Current(t)' = Current(t)
    BY <2>1 DEF Current, Byte, Key, Covers
  <2> QED
    BY <2>1, <2>2 DEF Fed
<1>7. ASSUME PieceFails(t) PROVE Fed(t)'
  <2>1. todo'[t] = << >>
    BY <1>0, <1>7 DEF PieceFails
  <2> QED
    BY <2>1 DEF Fed, ReadFirst
<1>8. ASSUME pc'[t] # "io" PROVE Fed(t)'
  BY <1>8 DEF Fed
<1>g. \A w : Goto(t, w) => pc'[t] = w
  BY <1>0 DEF Goto
<1>9. ASSUME \E c \in Calls : StartGrow(t, Resolve(c)) \/ ls_erase(t, c) PROVE Fed(t)'
  <2>1. pc'[t] \in {"cap", "free"}
    BY <1>0, <1>9 DEF StartGrow, ls_erase
  <2> QED
    BY <1>8, <2>1
<1>10. ASSUME Transferred(t) \/ Leave(t) \/ Cap(t) \/ Evict(t) \/ Fit(t) \/ NoFit(t) \/ Alloc(t)
              \/ Zero(t) \/ ZeroFails(t)
      PROVE  Fed(t)'
  <2>1. pc'[t] # "io"
    BY <1>10, <1>g DEF Transferred, Leave, Cap, Evict, Fit, NoFit, Alloc, Zero, ZeroFails, ToExtents
  <2> QED
    BY <1>8, <2>1
<1>11. ASSUME Spill(t) \/ SpillFails(t) \/ Backed(t) \/ Free(t) \/ Freed(t) \/ Reserved(t)
      PROVE  Fed(t)'
  <2>1. pc'[t] # "io"
    BY <1>0, <1>11, <1>g DEF Spill, SpillFails, Backed, Free, Freed, Reserved, Fail
  <2> QED
    BY <1>8, <2>1
<1> QED
  BY <1>1, <1>2, <1>3, <1>4, <1>5, <1>6, <1>7, <1>9, <1>10, <1>11 DEF Step

\* ls_accumulate leaves the combination of what the record held and its operand.
LEMMA ByteCombined ==
    ASSUME Sound, NEW t \in Threads, Tasks(t), Mirrored(t), Fed(t), NEW k, k = Key(t), NEW o \in Nat,
           Stores(t, k, o), call[t].op = "acc"
    PROVE  Byte(k, o)' = Combine(Byte(k, o), call[t].val)
<1>0. Safe /\ Places /\ Pieces
  BY DEF Sound, Safe
<1>1. PICK x, i, r, old : /\ x = Head(todo[t]) /\ i = o - x.off + 1 /\ r = rec[k]
                          /\ old = IF r.mem # NULL THEN heap[r.mem] ELSE file
  OBVIOUS
<1>2. /\ place[t].mem = r.mem /\ i \in 1 .. x.n /\ Byte(k, o)' = Data(t, x, old)[i]
      /\ x.at \in Nat /\ x.off \in Nat /\ x.n \in Nat /\ (r.mem # NULL => x.at = x.off)
  BY <1>1, ByteStored
<1>3. pc[t] = "io" /\ todo[t] # << >> /\ x.dir = "write" /\ o \in Spanned(x)
  BY <1>1 DEF Stores, MemPiece, WritePiece
<1>4. x.off + i = o + 1 /\ x.off + i - 1 = o
  BY <1>1, <1>2
<1>5. CASE r.mem # NULL
  <2>1. Data(t, x, old)[i] = Combine(old[x.at + i], call[t].val)
    BY <1>2, <1>5 DEF Data
  <2>2. old[x.at + i] = Byte(k, o)
    BY <1>1, <1>2, <1>4, <1>5 DEF Byte
  <2> QED
    BY <1>2, <2>1, <2>2
<1>6. CASE r.mem = NULL
  <2>1. Data(t, x, old)[i] = Combine(buf[t][o], call[t].val)
    BY <1>2, <1>4, <1>6 DEF Data
  <2>2. PICK s, G : s = todo[t] /\ G = Current(t)
    OBVIOUS
  <2>3. ReadFirst(s, G) /\ s \in Seq(Transfer) /\ s # << >>
    BY <1>0, <1>2, <1>3, <1>6, <2>2 DEF Fed, Pieces
  <2>4. 1 \in DOMAIN s /\ s[1] = x
    BY <1>1, <2>2, <2>3
  <2>5. ReadBefore(s, o, 1) \/ o \in G
    BY <1>3, <2>3, <2>4 DEF ReadFirst
  <2>6. ~ReadBefore(s, o, 1)
    <3>1. \A j \in 1 .. (1 - 1) : FALSE
      OBVIOUS
    <3> QED
      BY <3>1 DEF ReadBefore
  <2>7. buf[t][o] = Byte(k, o)
    BY <2>2, <2>5, <2>6 DEF Current
  <2> QED
    BY <1>2, <2>1, <2>7
<1> QED
  BY <1>5, <1>6

\* The end of a call's highest range is the end of a range.
LEMMA HighEnds ==
    ASSUME NEW segs \in Seq(Segment), High(segs) # 0
    PROVE  \E i \in DOMAIN segs : High(segs) = segs[i].off + segs[i].n
<1>1. PICK top : top = High(segs)
  OBVIOUS
<1>2. top \in Nat /\ \A i \in DOMAIN segs : segs[i].off + segs[i].n <= top
  BY <1>1, HighProps
<1>3. \A i \in DOMAIN segs : segs[i].off + segs[i].n \in Nat
  BY SegFields
<1>4. PICK S : S = {0} \cup {segs[i].off + segs[i].n : i \in DOMAIN segs}
  OBVIOUS
<1>5. High(segs) = Max(S)
  BY <1>4 DEF High
<1>6. S \in SUBSET Nat /\ S # {} /\ \A y \in S : y <= top
  BY <1>2, <1>3, <1>4
<1>7. Max(S) \in S
  BY <1>2, <1>6, MaxProps
<1> QED
  BY <1>4, <1>5, <1>7

\* A call that keeps the lock from one step to the next is not a read.
Grows(u) == pc[u] \in Locked => call[u].op # "read"

LEMMA GrowsNext ==
    ASSUME Safe, NEW t \in Threads, Step(t), \A u \in Threads : Grows(u)
    PROVE  \A u \in Threads : Grows(u)'
<1>0. Types /\ Control /\ Holding /\ DOMAIN pc = Threads /\ DOMAIN call = Threads
  BY DEF Safe, Types
<1>1. ASSUME NEW u \in Threads \ {t} PROVE Grows(u)'
  <2>1. pc'[u] = pc[u] /\ call'[u] = call[u]
    BY OthersStay
  <2> QED
    BY <2>1 DEF Grows
<1>2. Grows(t)'
  <2>1. Shape(t)
    BY <1>0, StepShape
  <2>2. CASE Stays \/ \E w \in Locked : Moves(t, w)
    BY <1>0, <2>2 DEF Stays, Moves, Grows
  <2>3. CASE Returns(t) \/ Departs(t) \/ Ends(t) \/ Leaves(t)
    BY <1>0, <2>3 DEF Returns, Departs, Ends, Leaves, Grows, Locked
  <2>4. CASE \E c \in Calls : c.op = "read" /\ StartRead(t, c)
    <3>1. pc'[t] = "io"
      BY <1>0, <2>4 DEF StartRead, Launch
    <3> QED
      BY <3>1 DEF Grows, Locked
  <2>5. CASE \E c \in Calls : c.op \notin {"read", "erase"} /\ StartGrow(t, Resolve(c))
    <3>1. PICK c \in Calls : c.op \notin {"read", "erase"} /\ StartGrow(t, Resolve(c))
      BY <2>5
    <3>2. call'[t] = Resolve(c)
      BY <1>0, <3>1 DEF StartGrow
    <3>3. Resolve(c).op = c.op
      BY <1>0, ResolveProps
    <3> QED
      BY <3>1, <3>2, <3>3 DEF Grows
  <2>6. CASE \E c \in Calls : ls_erase(t, c)
    <3>1. call'[t].op = "erase"
      BY <1>0, <2>6 DEF ls_erase
    <3> QED
      BY <3>1 DEF Grows
  <2>7. CASE pc[t] # "idle"
    <3>1. ~\E c \in Call, w \in {"cap", "free", "io"} : Enters(t, c, w)
      BY <2>7 DEF Enters, Begins
    <3> QED
      BY <2>1, <2>2, <2>3, <3>1 DEF Shape
  <2>8. CASE pc[t] = "idle"
    <3>1. /\ ~MemPiece(t) /\ ~ReadPiece(t) /\ ~Bounce(t) /\ ~WritePiece(t) /\ ~PieceFails(t)
          /\ ~Transferred(t) /\ ~Leave(t) /\ ~Cap(t) /\ ~Evict(t) /\ ~Fit(t) /\ ~NoFit(t)
      BY <2>8 DEF MemPiece, ReadPiece, Bounce, WritePiece, PieceFails, Transferred, Leave, Cap, Evict, Fit, NoFit
    <3>2. /\ ~Alloc(t) /\ ~Zero(t) /\ ~ZeroFails(t) /\ ~Spill(t) /\ ~SpillFails(t) /\ ~Backed(t)
          /\ ~Free(t) /\ ~Freed(t) /\ ~Ready(t) /\ ~Reserved(t)
      BY <2>8 DEF Alloc, Zero, ZeroFails, Spill, SpillFails, Backed, Free, Freed, Ready, Reserved
    <3> QED
      BY <2>4, <2>5, <2>6, <3>1, <3>2 DEF Step
  <2> QED
    BY <2>7, <2>8
<1> QED
  BY <1>1, <1>2
-----------------------------------------------------------------------------
(* Everything the content of records rests on.                             *)

\* ls_open finds zeros in the records of the file.
LEMMA InitBytes ==
    ASSUME Init
    PROVE  \A k \in DOMAIN rec : /\ rec[k].mem = NULL
                                 /\ \A o \in Nat : o < rec[k].ext_total => file[Addr(rec[k].ext, o) + 1] = 0
<1>1. Safe /\ Space /\ Types
  BY InitSound DEF Sound, Safe
<1> TAKE k \in DOMAIN rec
<1>2. PICK l \in DOMAIN Loaded : k = Loaded[l].key
  BY LoadedRecords
<1>3. rec[k].mem = NULL
  <2>1. rec[k] = [size |-> Loaded[l].size, mem |-> NULL, mem_cap |-> 0, busy |-> 0,
                  ext |-> <<Loaded[l].ext>>, ext_total |-> Loaded[l].ext.len]
    BY <1>2, LoadedRecords
  <2> QED
    BY <2>1
<1>4. Loaded # << >>
  BY <1>2
<1>5. ASSUME NEW o \in Nat, o < rec[k].ext_total
      PROVE  file[Addr(rec[k].ext, o) + 1] = 0
  <2>1. PICK a : a = Addr(rec[k].ext, o)
    OBVIOUS
  <2>2. a \in Nat /\ \E i \in DOMAIN rec[k].ext : In(a, rec[k].ext[i])
    BY <1>1, <1>5, <2>1, ByteAddr
  <2>3. PICK e \in Extents : In(a, e)
    BY <2>2, ExtentsAre
  <2>4. e \in Extent /\ LS_SUPER_SIZE <= e.foff /\ End(e) <= file_end /\ file_end \in Nat
    BY <1>1, <2>3, AccountInside DEF Space, Accounted, Owned
  <2>5. e.foff \in Nat /\ e.len \in Nat /\ LS_SUPER_SIZE \in Nat
    BY <2>4, SuperAssumption DEF Extent
  <2>6. LS_SUPER_SIZE <= a /\ a < file_end
    BY <2>2, <2>3, <2>4, <2>5 DEF In, End
  <2>7. PICK n, i : n = file_end + 1 /\ i = a + 1
    OBVIOUS
  <2>8. file = [j \in 1 .. n |-> IF j <= LS_SUPER_SIZE \/ j > file_end THEN Meta ELSE 0]
    BY <1>4, <2>7 DEF Init
  <2>9. i \in 1 .. n /\ ~(i <= LS_SUPER_SIZE) /\ ~(i > file_end)
    BY <2>2, <2>4, <2>5, <2>6, <2>7
  <2> QED
    BY <2>1, <2>7, <2>8, <2>9
<1> QED
  BY <1>3, <1>5

Exact == Effective /\ Blank /\ \A u \in Threads : Fed(u) /\ Grows(u)

LEMMA InitExact ==
    ASSUME Init
    PROVE  Exact
<1>1. Effective
  BY InitEffective
<1>2. Blank
  BY InitBytes DEF Blank, BlankDisk, BlankMem
<1>3. \A u \in Threads : Fed(u) /\ Grows(u)
  BY DEF Init, Fed, Grows, Locked
<1> QED
  BY <1>1, <1>2, <1>3 DEF Exact

LEMMA ExactNext ==
    ASSUME Unmixed, Undirected, Exact, [Next]_vars
    PROVE  Exact'
<1>1. Effective'
  BY EffectiveNext DEF Exact
<1>2. CASE UNCHANGED vars
  <2>1. UNCHANGED <<rec, heap, file, pc, call, place, todo, buf>>
    BY <1>2 DEF vars, memory, thread
  <2>2. Blank'
    BY <2>1 DEF Exact, Blank, BlankDisk, BlankMem
  <2>3. ASSUME NEW u \in Threads PROVE Fed(u)' /\ Grows(u)'
    <3>1. Current(u)' = Current(u)
      BY <2>1 DEF Current, Byte, Key, Covers
    <3> QED
      BY <2>1, <3>1 DEF Exact, Fed, Grows
  <2> QED
    BY <1>1, <2>2, <2>3 DEF Exact
<1>3. CASE Next
  <2>1. /\ Sound /\ Sound' /\ Safe /\ Types /\ DOMAIN buf = Threads /\ Blank
        /\ \A u \in Threads : Untiered(u) /\ Tasks(u) /\ Mirrored(u) /\ Reaches(u) /\ Fed(u) /\ Grows(u)
        /\ \A u, v \in Threads : u # v => Unshared(u, v)
    BY <1>1 DEF Exact, Effective, Sound, Safe
  <2>2. PICK t \in Threads : Step(t)
    BY <1>3, <2>1, NextSteps
  <2>3. Blank'
    BY <2>1, <2>2, BlankNext
  <2>4. Fed(t)'
    BY <2>1, <2>2, FedOwn
  <2>5. ASSUME NEW u \in Threads \ {t} PROVE Fed(u)'
    BY <2>1, <2>2, FedOthers
  <2>6. \A u \in Threads : Grows(u)'
    BY <2>1, <2>2, GrowsNext
  <2> QED
    BY <1>1, <2>3, <2>4, <2>5, <2>6 DEF Exact
<1> QED
  BY <1>2, <1>3
-----------------------------------------------------------------------------
(* The data path implements ByteStore.                                     *)

\* What a record holds, byte by byte.
LEMMA StoredIs ==
    ASSUME Sound, NEW k \in DOMAIN rec
    PROVE  /\ Stored(k) = [i \in 1 .. rec[k].size |-> Byte(k, i - 1)]
           /\ Len(Stored(k)) = rec[k].size /\ rec[k].size \in Nat /\ IsSeq(Stored(k))
<1>0. Safe /\ Buffers /\ Rooms /\ Types
  BY DEF Sound, Safe
<1>1. PICK r, n, s : r = rec[k] /\ n = r.size /\ s = Stored(k)
  OBVIOUS
<1>2. r \in Record /\ Room(r) /\ n \in Nat /\ r.mem_cap \in Nat
  BY <1>0, <1>1, RecordFields DEF Types, Rooms
<1>3. s = [i \in 1 .. n |-> s[i]] /\ DOMAIN s = 1 .. n /\ IsSeq(s) /\ Len(s) = n
  <2>1. CASE r.mem # NULL
    <3>1. PICK h : h = heap[r.mem]
      OBVIOUS
    <3>2. IsSeq(h) /\ Len(h) = r.mem_cap /\ n <= r.mem_cap
      BY <1>0, <1>1, <1>2, <2>1, <3>1 DEF Buffers, Buffer, Resident, Room
    <3>3. s = SubSeq(h, 1, n)
      BY <1>1, <2>1, <3>1 DEF Stored
    <3>4. SubSeq(h, 1, n) = [i \in 1 .. n |-> h[i]]
      BY <1>2, <3>2 DEF IsSeq
    <3> QED
      BY <1>2, <3>3, <3>4 DEF IsSeq
  <2>2. CASE r.mem = NULL
    <3>1. s = [j \in 1 .. n |-> FileByte(Addr(r.ext, j - 1))]
      BY <1>1, <2>2 DEF Stored
    <3> QED
      BY <1>2, <3>1 DEF IsSeq
  <2> QED
    BY <2>1, <2>2
<1>4. ASSUME NEW i \in 1 .. n PROVE s[i] = Byte(k, i - 1)
  <2>1. PICK o : o = i - 1
    OBVIOUS
  <2>2. o \in Nat /\ o < n /\ o + 1 = i
    BY <1>2, <2>1
  <2> QED
    BY <1>1, <2>1, <2>2, StoredByte
<1>5. [i \in 1 .. n |-> s[i]] = [i \in 1 .. n |-> Byte(k, i - 1)]
  BY <1>4
<1> QED
  BY <1>1, <1>2, <1>3, <1>5

\* Every record holds as many bytes as its size says, each where Byte finds it.
Bytewise ==
    \A k \in DOMAIN rec :
        /\ Stored(k) = [i \in 1 .. rec[k].size |-> Byte(k, i - 1)]
        /\ Len(Stored(k)) = rec[k].size /\ rec[k].size \in Nat

LEMMA SoundBytewise == Sound => Bytewise
  BY StoredIs DEF Bytewise

LEMMA SoundBytewiseNext == Sound' => Bytewise'
  BY SoundBytewise, PTL

\* A record that no piece is stored into, and that does not grow, holds what it held.
LEMMA StoredKept ==
    ASSUME Exact, Sound', NEW t \in Threads, Step(t), NEW k \in DOMAIN rec, k \in DOMAIN rec',
           rec'[k].size = rec[k].size, \A o \in Nat : ~Stores(t, k, o)
    PROVE  Stored(k)' = Stored(k)
<1>0. Sound /\ FileSize' /\ Types' /\ Tasks(t) /\ Mirrored(t) /\ Untiered(t)
  BY DEF Exact, Effective, Sound, Safe
<1>1. PICK n : n = rec[k].size
  OBVIOUS
<1>2. Stored(k) = [i \in 1 .. n |-> Byte(k, i - 1)] /\ n \in Nat
  BY <1>0, <1>1, SoundBytewise DEF Bytewise
<1>3. Stored(k)' = [i \in 1 .. n |-> Byte(k, i - 1)']
  BY <1>1, SoundBytewiseNext DEF Bytewise
<1>4. ASSUME NEW i \in 1 .. n PROVE Byte(k, i - 1)' = Byte(k, i - 1)
  <2>1. PICK o : o = i - 1
    OBVIOUS
  <2>2. o \in Nat /\ o < n
    BY <1>2, <2>1
  <2>3. Byte(k, o)' = Byte(k, o)
    BY <1>0, <1>1, <2>2, ByteKept
  <2> QED
    BY <2>1, <2>3
<1> QED
  BY <1>2, <1>3, <1>4

\* A record that grows holds what it held, and zeros.
LEMMA StoredGrown ==
    ASSUME Exact, Sound', NEW t \in Threads, Step(t), Ready(t) \/ Reserved(t), NEW k, k = Key(t),
           NEW n, n = rec'[k].size, n # rec[k].size
    PROVE  /\ k \in DOMAIN rec /\ n = Need(t) /\ n > Len(Stored(k))
           /\ Stored(k)' = Stored(k) \o Zeros(n - Len(Stored(k)))
<1>0. /\ Sound /\ Safe /\ Types /\ Control /\ Holding /\ FileSize' /\ Types' /\ Tasks(t) /\ Mirrored(t) /\ Untiered(t)
      /\ Blank
  BY DEF Exact, Effective, Sound, Safe
<1>1. PICK r, m, h : r = rec[k] /\ m = r.size /\ h = Need(t)
  OBVIOUS
<1>2. pc[t] = "ready" /\ k \in DOMAIN rec /\ k \in DOMAIN rec' /\ r \in Record
      /\ rec'[k].size = NewSize(r, h) /\ rec'[k].mem = r.mem /\ rec'[k].ext = r.ext
  <2>1. CASE Ready(t)
    <3>1. PICK s, b : s = NewSize(r, h) /\ b = r.busy + 1
      OBVIOUS
    <3>2. pc[t] = "ready" /\ k \in DOMAIN rec /\ Sets(k, [r EXCEPT !.size = s, !.busy = b])
      BY <1>0, <1>1, <2>1, <3>1, ReadyEffect
    <3>3. r \in Record
      BY <1>0, <1>1, <3>2 DEF Types
    <3> QED
      BY <3>1, <3>2, <3>3, RecordUpdates DEF Sets
  <2>2. CASE Reserved(t)
    <3>1. PICK s : s = NewSize(r, h)
      OBVIOUS
    <3>2. pc[t] = "ready" /\ k \in DOMAIN rec /\ Sets(k, [r EXCEPT !.size = s])
      BY <1>0, <1>1, <2>2, <3>1, ReservedEffect
    <3>3. r \in Record
      BY <1>0, <1>1, <3>2 DEF Types
    <3> QED
      BY <3>1, <3>2, <3>3, RecordUpdates DEF Sets
  <2> QED
    BY <2>1, <2>2
<1>3. m \in Nat /\ h \in Nat /\ r.ext_total \in Nat /\ r.mem_cap \in Nat
  BY <1>0, <1>1, <1>2, NotErasing, Caught, RecordFields
<1>4. n = h /\ n > m
  <2>1. n = Max({m, h})
    BY <1>1, <1>2 DEF NewSize
  <2>2. Max({m, h}) = IF m >= h THEN m ELSE h
    BY <1>3, MaxOfTwo
  <2>3. n # m
    BY <1>1
  <2> QED
    BY <1>3, <2>1, <2>2, <2>3
<1>5. IF r.mem # NULL THEN h <= r.mem_cap ELSE h <= r.ext_total
  BY <1>0, <1>1, <1>2 DEF Holding
<1>6. heap' = heap /\ file' = file
  BY DEF Ready, Reserved, memory
<1>7. ASSUME NEW o \in Nat, m <= o, o < n PROVE Byte(k, o)' = 0
  <2>1. CASE r.mem # NULL
    <3>1. o < r.mem_cap
      BY <1>3, <1>4, <1>5, <1>7, <2>1
    <3>2. heap[r.mem][o + 1] = 0
      BY <1>0, <1>1, <1>2, <1>7, <2>1, <3>1 DEF Blank, BlankMem
    <3> QED
      BY <1>2, <1>6, <2>1, <3>2 DEF Byte
  <2>2. CASE r.mem = NULL
    <3>1. o < r.ext_total
      BY <1>3, <1>4, <1>5, <1>7, <2>2
    <3>2. file[Addr(r.ext, o) + 1] = 0
      BY <1>0, <1>1, <1>2, <1>7, <3>1 DEF Blank, BlankDisk
    <3> QED
      BY <1>2, <1>6, <2>2, <3>2 DEF Byte
  <2> QED
    BY <2>1, <2>2
<1>8. ASSUME NEW o \in Nat, o < m PROVE Byte(k, o)' = Byte(k, o)
  <2>1. ~Stores(t, k, o)
    BY <1>2 DEF Stores, MemPiece, WritePiece
  <2> QED
    BY <1>0, <1>1, <1>2, <1>8, <2>1, ByteKept
<1>9. PICK s, w, z : s = Stored(k) /\ w = Stored(k)' /\ z = Zeros(n - m)
  OBVIOUS
<1>10. s = [i \in 1 .. m |-> Byte(k, i - 1)] /\ Len(s) = m
  BY <1>0, <1>1, <1>2, <1>9, SoundBytewise DEF Bytewise
<1>11. w = [i \in 1 .. n |-> Byte(k, i - 1)']
  BY <1>2, <1>9, SoundBytewiseNext DEF Bytewise
<1>12. n - m \in Nat /\ n \in Nat /\ m + (n - m) = n
  BY <1>3, <1>4
<1>13. z = [i \in 1 .. (n - m) |-> 0]
  BY <1>9 DEF Zeros
<1>14. s \o z = [i \in 1 .. n |-> IF i <= m THEN s[i] ELSE z[i - m]]
  <2>1. s = [i \in 1 .. m |-> s[i]]
    BY <1>10
  <2> QED
    BY <1>3, <1>4, <1>12, <1>13, <2>1
<1>15. ASSUME NEW i \in 1 .. n
       PROVE  Byte(k, i - 1)' = IF i <= m THEN s[i] ELSE z[i - m]
  <2>1. PICK o : o = i - 1
    OBVIOUS
  <2>2. o \in Nat /\ o < n
    BY <1>12, <2>1
  <2>3. CASE i <= m
    <3>1. i \in 1 .. m /\ o < m
      BY <1>3, <2>1, <2>3
    <3>2. s[i] = Byte(k, o)
      BY <1>10, <2>1, <3>1
    <3> QED
      BY <1>8, <2>1, <2>2, <2>3, <3>1, <3>2
  <2>4. CASE ~(i <= m)
    <3>1. m <= o /\ i - m \in 1 .. (n - m)
      BY <1>3, <1>12, <2>1, <2>4
    <3>2. z[i - m] = 0
      BY <1>13, <3>1
    <3> QED
      BY <1>7, <2>1, <2>2, <2>4, <3>1, <3>2
  <2> QED
    BY <2>3, <2>4
<1>16. w = s \o z
  BY <1>11, <1>14, <1>15
<1> QED
  BY <1>2, <1>1, <1>4, <1>9, <1>10, <1>16

\* A step that leaves what records hold alone is a caller's.
LEMMA CallerStep ==
    ASSUME NEW t \in Threads, \A u \in Threads \ {t} : call'[u] = call[u],
           DOMAIN rec' = DOMAIN rec, \A k \in DOMAIN rec : Stored(k)' = Stored(k)
    PROVE  Abstract!Next
<1> DEFINE C == [j \in DOMAIN rec |-> Stored(j)]
<1>1. C' = C
  OBVIOUS
<1> HIDE DEF C
<1>2. Abstract!Caller(t)
  BY <1>1 DEF Abstract!Caller, C
<1> QED
  BY <1>2 DEF Abstract!Next

LEMMA EraseRefines ==
    ASSUME Exact, Sound', NEW t \in Threads, Step(t), NEW c \in Calls, ls_erase(t, c)
    PROVE  Abstract!Next
<1>0. Sound /\ Safe /\ Types /\ DOMAIN call = Threads
  BY DEF Exact, Effective, Sound, Safe, Types
<1>1. PICK k : k = c.key
  OBVIOUS
<1>2. Drops(k) /\ c.op = "erase" /\ call'[t] = c /\ \A u \in Threads \ {t} : call'[u] = call[u]
  BY <1>0, <1>1, EraseShape, OthersStay DEF ls_erase
<1>3. ASSUME NEW j \in DOMAIN rec \ {k} PROVE Stored(j)' = Stored(j)
  <2>1. j \in DOMAIN rec' /\ rec'[j].size = rec[j].size
    BY <1>2 DEF Drops
  <2>2. \A o \in Nat : ~Stores(t, j, o)
    <3>1. pc[t] = "idle"
      BY DEF ls_erase, Enter
    <3> QED
      BY <3>1 DEF Stores, MemPiece, WritePiece
  <2> QED
    BY <2>1, <2>2, StoredKept
<1> DEFINE C == [j \in DOMAIN rec |-> Stored(j)]
<1>4. C' = [j \in DOMAIN C \ {k} |-> C[j]] /\ k \in DOMAIN C
  BY <1>2, <1>3 DEF Drops
<1>5. call'[t].key = k /\ call'[t].op = "erase"
  BY <1>1, <1>2
<1> HIDE DEF C
<1>6. Abstract!Erase(t)
  BY <1>2, <1>4, <1>5 DEF Abstract!Erase, C
<1> QED
  BY <1>6 DEF Abstract!Next

LEMMA CreateRefines ==
    ASSUME Exact, Sound', NEW t \in Threads, Step(t), NEW k \in DOMAIN rec', k \notin DOMAIN rec
    PROVE  Abstract!Next
<1>0. Sound /\ Safe /\ Types /\ DOMAIN call = Threads
  BY DEF Exact, Effective, Sound, Safe, Types
<1>1. PICK c \in Calls : c.op \notin {"read", "erase"} /\ StartGrow(t, Resolve(c)) /\ c.key = k /\ Sets(k, NewRec)
  BY <1>0, NewKeys
<1>2. /\ call'[t].key = k /\ call'[t].op \in {"write", "append", "acc", "reserve"}
      /\ \A u \in Threads \ {t} : call'[u] = call[u]
  <2>1. call'[t] = Resolve(c)
    BY <1>0, <1>1 DEF StartGrow
  <2>2. Resolve(c) \in Call /\ Resolve(c).op = c.op /\ Resolve(c).key = c.key
    BY <1>0, ResolveProps
  <2>3. c.op \in {"write", "append", "acc", "reserve"}
    BY <1>1, <2>2 DEF Call
  <2> QED
    BY <1>0, <1>1, <2>1, <2>2, <2>3, OthersStay
<1>3. ASSUME NEW j \in DOMAIN rec PROVE Stored(j)' = Stored(j)
  <2>1. j \in DOMAIN rec' /\ rec'[j].size = rec[j].size
    BY <1>1 DEF Sets
  <2>2. \A o \in Nat : ~Stores(t, j, o)
    <3>1. pc[t] = "idle"
      BY <1>1 DEF StartGrow, Enter
    <3> QED
      BY <3>1 DEF Stores, MemPiece, WritePiece
  <2> QED
    BY <2>1, <2>2, StoredKept
<1>4. Stored(k)' = Zeros(0)
  <2>1. rec'[k].size = 0
    BY <1>1 DEF Sets, NewRec
  <2>2. Stored(k)' = [i \in 1 .. 0 |-> Byte(k, i - 1)']
    BY <2>1, SoundBytewiseNext DEF Bytewise
  <2>3. [i \in 1 .. 0 |-> Byte(k, i - 1)'] = Zeros(0)
    BY DEF Zeros
  <2> QED
    BY <2>2, <2>3
<1> DEFINE C == [j \in DOMAIN rec |-> Stored(j)]
<1>5. C' = [j \in DOMAIN C \cup {k} |-> IF j = k THEN Zeros(0) ELSE C[j]] /\ k \notin DOMAIN C
  BY <1>1, <1>3, <1>4 DEF Sets
<1>6. Abstract!Zeros(0) = Zeros(0)
  BY DEF Abstract!Zeros, Zeros
<1> HIDE DEF C
<1>7. \E n \in {0} \cup Abstract!Ends(call'[t]) :
         C' = [j \in DOMAIN C \cup {k} |-> IF j = k THEN Abstract!Zeros(n) ELSE C[j]]
  BY <1>5, <1>6
<1>8. Abstract!Create(t)
  <2>1. call'[t].op \in Abstract!Grow \cup {"attr"}
    BY <1>2 DEF Abstract!Grow
  <2>2. \E n \in {0} \cup Abstract!Ends(call'[t]) :
           C' = [j \in DOMAIN C \cup {call'[t].key} |->
                  IF j = call'[t].key THEN Abstract!Zeros(n) ELSE C[j]]
    BY <1>2, <1>7, Zenon
  <2> QED
    BY <1>2, <1>5, <2>1, <2>2, Zenon DEF Abstract!Create, C
<1> QED
  BY <1>8 DEF Abstract!Next

\* With room for its range, a call can only start its transfer, or return.
LEMMA ReadySteps ==
    ASSUME NEW t \in Threads, Step(t), pc[t] = "ready"
    PROVE  Ready(t) \/ Reserved(t)
<1>1. \A c \in Calls : ~StartRead(t, c) /\ ~StartGrow(t, Resolve(c)) /\ ~ls_erase(t, c)
  BY DEF StartRead, StartGrow, ls_erase, Enter
<1>2. /\ ~MemPiece(t) /\ ~ReadPiece(t) /\ ~Bounce(t) /\ ~WritePiece(t) /\ ~PieceFails(t)
      /\ ~Transferred(t) /\ ~Leave(t) /\ ~Cap(t) /\ ~Evict(t) /\ ~Fit(t) /\ ~NoFit(t)
  BY DEF MemPiece, ReadPiece, Bounce, WritePiece, PieceFails, Transferred, Leave, Cap, Evict, Fit, NoFit
<1>3. /\ ~Alloc(t) /\ ~Zero(t) /\ ~ZeroFails(t) /\ ~Spill(t) /\ ~SpillFails(t) /\ ~Backed(t)
      /\ ~Free(t) /\ ~Freed(t)
  BY DEF Alloc, Zero, ZeroFails, Spill, SpillFails, Backed, Free, Freed
<1> QED
  BY <1>1, <1>2, <1>3 DEF Step

LEMMA ExtendRefines ==
    ASSUME Exact, Sound', NEW t \in Threads, Step(t), NEW k \in DOMAIN rec, k \in DOMAIN rec',
           rec'[k].size # rec[k].size
    PROVE  Abstract!Next
<1>0. Sound /\ Safe /\ Types /\ Control /\ Grows(t)
  BY DEF Exact, Effective, Sound, Safe, Types
<1>1. k = Key(t) /\ pc[t] = "ready" /\ pc'[t] \in {"io", "idle"}
  BY <1>0, SizesGrow
<1>2. Ready(t) \/ Reserved(t)
  BY <1>1, ReadySteps
<1>3. PICK n : n = rec'[k].size
  OBVIOUS
<1>4. /\ n = Need(t) /\ n > Len(Stored(k)) /\ Stored(k)' = Stored(k) \o Zeros(n - Len(Stored(k)))
  BY <1>1, <1>2, <1>3, StoredGrown
<1>5. call[t] \in Call /\ call[t].op \in {"write", "append", "acc", "reserve"}
  <2>1. call[t].op # "read" /\ call[t].op # "erase" /\ call[t] \in Call
    BY <1>0, <1>1 DEF Control, Grows, Locked
  <2> QED
    BY <2>1 DEF Call
<1>6. n \in Abstract!Ends(call[t])
  <2>1. call[t].segs \in Seq(Segment)
    BY <1>5 DEF Call
  <2>2. n # 0
    <3>1. Len(Stored(k)) \in Nat
      BY <1>0, SoundBytewise DEF Bytewise
    <3>2. n \in Nat
      BY <1>3, SoundBytewiseNext DEF Bytewise
    <3> QED
      BY <1>4, <3>1, <3>2
  <2>3. \E i \in DOMAIN call[t].segs : n = call[t].segs[i].off + call[t].segs[i].n
    BY <1>4, <2>1, <2>2, HighEnds DEF Need
  <2> QED
    BY <2>3 DEF Abstract!Ends
<1>7. DOMAIN rec' = DOMAIN rec /\ \A j \in DOMAIN rec \ {k} : rec'[j] = rec[j]
  <2>1. \E q : Sets(k, q)
    BY <1>0, <1>1, <1>2, ReadyEffect, ReservedEffect
  <2> QED
    BY <2>1 DEF Sets
<1>8. ASSUME NEW j \in DOMAIN rec \ {k} PROVE Stored(j)' = Stored(j)
  <2>1. j \in DOMAIN rec' /\ rec'[j].size = rec[j].size
    BY <1>7
  <2>2. \A o \in Nat : ~Stores(t, j, o)
    BY <1>1 DEF Stores, MemPiece, WritePiece
  <2> QED
    BY <2>1, <2>2, StoredKept
<1>9. \A u \in Threads \ {t} : call'[u] = call[u]
  BY <1>0, OthersStay
<1> DEFINE C == [j \in DOMAIN rec |-> Stored(j)]
<1>10. C' = [C EXCEPT ![k] = C[k] \o Zeros(n - Len(C[k]))] /\ k \in DOMAIN C /\ C[k] = Stored(k)
  BY <1>4, <1>7, <1>8
<1>11. Abstract!Zeros(n - Len(C[k])) = Zeros(n - Len(C[k]))
  BY DEF Abstract!Zeros, Zeros
<1>12. n > Len(C[k])
  BY <1>4, <1>10
<1> HIDE DEF C
<1>13. Abstract!Extend(t)
  <2>1. call[t].op \in Abstract!Grow /\ call[t].key = k
    BY <1>1, <1>5 DEF Abstract!Grow, Key
  <2>2. n > Len(C[k]) /\ C' = [C EXCEPT ![k] = C[k] \o Abstract!Zeros(n - Len(C[k]))]
    BY <1>10, <1>11, <1>12
  <2> QED
    BY <1>6, <1>9, <1>10, <2>1, <2>2 DEF Abstract!Extend, C
<1> QED
  BY <1>13 DEF Abstract!Next

\* The bytes of a call are inside one of its ranges.
LEMMA CoversInRange ==
    ASSUME NEW c \in Call, NEW o \in Covers(c)
    PROVE  Abstract!InRange(c, o)
<1>1. c.segs \in Seq(Segment)
  BY DEF Call
<1>2. PICK i \in DOMAIN c.segs : o \in c.segs[i].off .. (c.segs[i].off + c.segs[i].n - 1)
  BY DEF Covers
<1>3. PICK a, n : a = c.segs[i].off /\ n = c.segs[i].n
  OBVIOUS
<1>4. c.segs[i] \in Segment
  BY <1>1
<1>5. a \in Nat /\ n \in Nat
  BY <1>3, <1>4 DEF Segment
<1>6. a <= o /\ o < a + n
  BY <1>2, <1>3, <1>5
<1> QED
  BY <1>3, <1>6 DEF Abstract!InRange

\* A piece changes bytes of its call's ranges only, to what the call stores.
LEMMA PutBytes ==
    ASSUME Exact, Sound', NEW t \in Threads, Step(t), NEW k \in DOMAIN rec, k = Key(t), rec' = rec,
           NEW o \in Nat, o < rec[k].size, Byte(k, o)' # Byte(k, o)
    PROVE  /\ Abstract!InRange(call[t], o)
           /\ Byte(k, o)' = IF call[t].op = "acc" THEN Combine(Byte(k, o), call[t].val) ELSE call[t].val
<1>0. /\ Sound /\ Control /\ FileSize' /\ Types' /\ Tasks(t) /\ Mirrored(t) /\ Untiered(t)
      /\ Reaches(t) /\ Fed(t)
  BY DEF Exact, Effective, Sound, Safe
<1>1. Stores(t, k, o)
  BY <1>0, ByteKept
<1>2. o \in Covers(call[t])
  BY <1>0, <1>1, StoresInside
<1>3. call[t] \in Call
  <2>1. pc[t] = "io"
    BY <1>1 DEF Stores, MemPiece, WritePiece
  <2> QED
    BY <1>0, <2>1 DEF Control
<1>4. Abstract!InRange(call[t], o)
  BY <1>2, <1>3, CoversInRange
<1>5. CASE call[t].op = "acc"
  BY <1>0, <1>1, <1>4, <1>5, ByteCombined
<1>6. CASE call[t].op # "acc"
  BY <1>0, <1>1, <1>4, <1>6, ByteWritten
<1> QED
  BY <1>5, <1>6

LEMMA PutRefines ==
    ASSUME Exact, Sound', NEW t \in Threads, Step(t), MemPiece(t) \/ WritePiece(t),
           Head(todo[t]).dir = "write"
    PROVE  Abstract!Next
<1>0. Sound /\ Safe /\ Places /\ Control /\ Tasks(t)
  BY DEF Exact, Effective, Sound, Safe
<1>1. PICK k, x : k = Key(t) /\ x = Head(todo[t])
  OBVIOUS
<1>2. rec' = rec /\ call' = call /\ pc[t] = "io" /\ todo[t] # << >>
  BY DEF MemPiece, WritePiece
<1>3. k \in DOMAIN rec /\ x \in Fits(call[t], rec[k])
  BY <1>0, <1>1, <1>2, PieceLies
<1>4. call[t].op \in {"write", "append", "acc"}
  <2>1. call[t].op # "read" /\ call[t].op # "reserve" /\ call[t].op # "erase" /\ call[t] \in Call
    BY <1>0, <1>1, <1>2, <1>3 DEF Fits, Tasks, Control
  <2> QED
    BY <2>1 DEF Call
<1>5. ASSUME NEW j \in DOMAIN rec \ {k} PROVE Stored(j)' = Stored(j)
  <2>1. j \in DOMAIN rec' /\ rec'[j].size = rec[j].size
    BY <1>2
  <2>2. \A o \in Nat : ~Stores(t, j, o)
    BY <1>1 DEF Stores
  <2> QED
    BY <2>1, <2>2, StoredKept
<1>6. PICK s, w, n : s = Stored(k) /\ w = Stored(k)' /\ n = rec[k].size
  OBVIOUS
<1>7. s = [i \in 1 .. n |-> Byte(k, i - 1)] /\ Len(s) = n /\ n \in Nat
  BY <1>0, <1>3, <1>6, SoundBytewise DEF Bytewise
<1>8. w = [i \in 1 .. n |-> Byte(k, i - 1)'] /\ Len(w) = n
  BY <1>2, <1>3, <1>6, SoundBytewiseNext DEF Bytewise
<1>9. ASSUME NEW i \in 1 .. n, w[i] # s[i]
      PROVE  /\ Abstract!InRange(call[t], i - 1)
             /\ w[i] = IF call[t].op = "acc" THEN Combine(s[i], call[t].val) ELSE call[t].val
  <2>1. PICK o : o = i - 1
    OBVIOUS
  <2>2. o \in Nat /\ o < n
    BY <1>7, <2>1
  <2>3. s[i] = Byte(k, o) /\ w[i] = Byte(k, o)'
    BY <1>7, <1>8, <2>1
  <2> QED
    BY <1>1, <1>2, <1>3, <1>6, <1>9, <2>1, <2>2, <2>3, PutBytes
<1> DEFINE C == [j \in DOMAIN rec |-> Stored(j)]
<1>10. k \in DOMAIN C /\ C[k] = s /\ C'[k] = w
  BY <1>2, <1>3, <1>6
<1>11. C' = [C EXCEPT ![k] = C'[k]]
  BY <1>2, <1>3, <1>5
<1> HIDE DEF C
<1>12. Abstract!Put(t)
  <2>1. call[t].key = k
    BY <1>1 DEF Key
  <2>2. Len(C'[k]) = Len(C[k])
    BY <1>7, <1>8, <1>10
  <2>3. \A i \in 1 .. Len(C[k]) :
           C'[k][i] # C[k][i] =>
              /\ Abstract!InRange(call[t], i - 1)
              /\ C'[k][i] = IF call[t].op = "acc" THEN Combine(C[k][i], call[t].val) ELSE call[t].val
    BY <1>7, <1>9, <1>10
  <2> QED
    BY <1>2, <1>4, <1>10, <1>11, <2>1, <2>2, <2>3 DEF Abstract!Put, C
<1> QED
  BY <1>12 DEF Abstract!Next

\* What callers see of a step is a step of ByteStore, or nothing.
LEMMA StepRefines ==
    ASSUME Exact, Sound', [Next]_vars
    PROVE  Abstract!Next \/ UNCHANGED Abstract!vars
<1>0. Sound /\ Safe /\ Types
  BY DEF Exact, Effective, Sound, Safe
<1>1. CASE UNCHANGED vars
  <2> DEFINE C == [j \in DOMAIN rec |-> Stored(j)]
  <2>1. UNCHANGED <<rec, heap, file, call>>
    BY <1>1 DEF vars, memory, thread
  <2>2. C' = C
    BY <2>1 DEF Stored, FileByte
  <2> HIDE DEF C
  <2> QED
    BY <2>1, <2>2 DEF Abstract!vars, C
<1>2. CASE Next
  <2>1. PICK t \in Threads : Step(t)
    BY <1>0, <1>2, NextSteps
  <2>2. CASE \E k \in DOMAIN rec : k \notin DOMAIN rec'
    BY <1>0, <2>1, <2>2, LostKeys, EraseRefines
  <2>3. CASE \E k \in DOMAIN rec' : k \notin DOMAIN rec
    BY <2>1, <2>3, CreateRefines
  <2>4. CASE \E k \in DOMAIN rec : k \in DOMAIN rec' /\ rec'[k].size # rec[k].size
    BY <2>1, <2>4, ExtendRefines
  <2>5. CASE \E k, o : Stores(t, k, o)
    <3>1. (MemPiece(t) \/ WritePiece(t)) /\ Head(todo[t]).dir = "write"
      BY <2>5 DEF Stores
    <3> QED
      BY <2>1, <3>1, PutRefines
  <2>6. CASE /\ \A k \in DOMAIN rec : k \in DOMAIN rec' /\ rec'[k].size = rec[k].size
             /\ \A k \in DOMAIN rec' : k \in DOMAIN rec
             /\ \A k, o : ~Stores(t, k, o)
    <3>1. DOMAIN rec' = DOMAIN rec
      BY <2>6
    <3>2. \A k \in DOMAIN rec : Stored(k)' = Stored(k)
      BY <2>1, <2>6, StoredKept
    <3>3. \A u \in Threads \ {t} : call'[u] = call[u]
      BY <1>0, <2>1, OthersStay
    <3> QED
      BY <3>1, <3>2, <3>3, CallerStep
  <2> QED
    BY <2>2, <2>3, <2>4, <2>5, <2>6
<1> QED
  BY <1>1, <1>2

LEMMA InitRefines ==
    ASSUME Init
    PROVE  Abstract!Init
<1>0. Sound
  BY InitSound
<1> DEFINE C == [j \in DOMAIN rec |-> Stored(j)]
           D == [k \in {Loaded[i].key : i \in DOMAIN Loaded} |->
                   Zeros(Loaded[CHOOSE i \in DOMAIN Loaded : Loaded[i].key = k].size)]
<1>1. DOMAIN rec = {Loaded[i].key : i \in DOMAIN Loaded}
  BY LoadedRecords
<1>2. ASSUME NEW k \in DOMAIN rec
      PROVE  Stored(k) = Zeros(Loaded[CHOOSE i \in DOMAIN Loaded : Loaded[i].key = k].size)
  <2>1. PICK l : l = CHOOSE i \in DOMAIN Loaded : Loaded[i].key = k
    OBVIOUS
  <2>2. l \in DOMAIN Loaded /\ Loaded[l].key = k
    BY <1>1, <2>1
  <2>3. PICK n : n = Loaded[l].size
    OBVIOUS
  <2>4. rec[k].size = n
    <3>1. rec[k] = [size |-> Loaded[l].size, mem |-> NULL, mem_cap |-> 0, busy |-> 0,
                    ext |-> <<Loaded[l].ext>>, ext_total |-> Loaded[l].ext.len]
      BY <2>2, LoadedRecords
    <3> QED
      BY <2>3, <3>1
  <2>5. Stored(k) = [i \in 1 .. n |-> Byte(k, i - 1)] /\ n \in Nat
    BY <1>0, <2>4, SoundBytewise DEF Bytewise
  <2>6. ASSUME NEW i \in 1 .. n PROVE Byte(k, i - 1) = 0
    <3>1. PICK o : o = i - 1
      OBVIOUS
    <3>2. o \in Nat /\ o < n
      BY <2>5, <3>1
    <3>3. rec[k].mem = NULL /\ \A p \in Nat : p < rec[k].ext_total => file[Addr(rec[k].ext, p) + 1] = 0
      BY InitBytes
    <3>4. rec[k].mem = NULL => n <= rec[k].ext_total /\ rec[k].ext_total \in Nat
      BY <1>0, <2>4, RecordFields DEF Sound, Safe, Rooms, Room, Types
    <3>5. o < rec[k].ext_total
      BY <2>5, <3>2, <3>3, <3>4
    <3> QED
      BY <3>1, <3>2, <3>3, <3>5 DEF Byte
  <2>7. Stored(k) = Zeros(n)
    BY <2>5, <2>6 DEF Zeros
  <2> QED
    BY <2>1, <2>3, <2>7
<1>3. C = D
  BY <1>1, <1>2
<1>4. \A t \in Threads : call[t].op = "none"
  BY DEF Init, NoCall
<1> HIDE DEF C, D
<1> QED
  BY <1>3, <1>4 DEF Abstract!Init, C, D

\* What callers see is ByteStore, for any threads and calls, settings and faults:
\* records move between tiers and extents, and are evicted and spilled by other
\* threads' calls, without a byte a caller stored changing.  A step changes only
\* bytes in the range of a call in progress, to what that call stores or, for
\* ls_accumulate, to the combination with what was there; extends a record with
\* zeros, whichever holes its extents were made from; or erases it.  The
\* hypotheses are those of StoreEffective.
THEOREM StoreStoresBytes ==
    ASSUME Unmixed, Undirected
    PROVE  Spec => StoresBytes
<1>1. Init => Exact /\ Abstract!Init
  BY InitExact, InitRefines
<1>2. Exact /\ [Next]_vars => Exact'
  BY ExactNext
<1>3. Exact /\ Exact' /\ [Next]_vars => [Abstract!Next]_(Abstract!vars)
  <2>1. Exact' => Sound'
    BY DEF Exact, Effective
  <2> QED
    BY <2>1, StepRefines
<1> QED
  BY <1>1, <1>2, <1>3, PTL DEF Spec, StoresBytes, Abstract!Spec
=============================================================================
