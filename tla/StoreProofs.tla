---------------------------- MODULE StoreProofs ----------------------------
(***************************************************************************)
(* Proofs about the data path.                                             *)
(*                                                                         *)
(* The invariant has a part for each thing the threads share: the lock and *)
(* what its holder is doing, the space in the file, the memory tier, the   *)
(* counts of calls in progress, the appends, and the places threads took   *)
(* from a record and use after they have dropped the lock.  The last part  *)
(* is about the allocator, which the data path uses as ExtentAlloc says.   *)
(***************************************************************************)
EXTENDS Store, CommonProofs

Locked == {"cap", "evict", "fit", "extents", "zero", "free", "ready"}
Moving == {"io", "fin"}
Where == {"idle"} \cup Locked \cup Moving

\* A piece that a thread has to transfer.
Transfer == [dir : {"read", "write"}, at : Nat, off : Nat, n : Nat]

\* A sequence, whatever it holds.
IsSeq(s) == Len(s) \in Nat /\ DOMAIN s = 1 .. Len(s)

-----------------------------------------------------------------------------
Types ==
    /\ setting \in DOMAIN Settings
    /\ DOMAIN rec \subseteq Keys
    /\ IsFiniteSet(DOMAIN rec)
    /\ \A k \in DOMAIN rec : rec[k] \in Record
    /\ lk \in Threads \cup {NoThread}
    /\ vic \in Keys \cup {NoKey}
    /\ pc \in [Threads -> Where]
    /\ rc \in [Threads -> {"LS_OK", "EIO"}]
    /\ DOMAIN call = Threads
    /\ DOMAIN place = Threads
    /\ DOMAIN todo = Threads

\* What a thread in a call can rely on.
Control ==
    /\ \A t \in Threads : pc[t] \in Locked <=> lk = t
    /\ \A t \in Threads : IF pc[t] = "idle" THEN call[t] = NoCall
                                            ELSE call[t] \in Call
    /\ \A t \in Threads : call[t].op = "append" => Len(call[t].segs) = 1
    /\ \A t \in Threads : call[t].op = "erase" => pc[t] = "free"
    /\ \A t \in Threads : Active(t) /\ call[t].op # "erase" => Key(t) \in DOMAIN rec
    /\ \A t, u \in Threads : t # u /\ Active(t) /\ Key(t) = Key(u) => SameKey

Spills == {"extents", "zero", "free"}

\* The call is growing the record's buffer.
Growing(t) ==
    /\ Budget > 0
    /\ rec[Key(t)].size <= Need(t)
    /\ rec[Key(t)].mem_cap <= Need(t)

\* What the holder of the lock relies on between two steps.
Holding ==
    /\ vic # NoKey =>
          /\ lk \in Threads /\ pc[lk] \in Spills /\ call[lk].op # "erase"
          /\ vic \in DOMAIN rec /\ rec[vic].mem # NULL
          /\ vic # Key(lk) => rec[vic].busy = 0 /\ Growing(lk)
    /\ \A t \in Threads :
          /\ pc[t] \in Spills /\ vic = NoKey /\ call[t].op # "erase" => rec[Key(t)].mem = NULL
          /\ pc[t] \in {"evict", "fit"} => Growing(t)
          /\ pc[t] = "ready" =>
                IF rec[Key(t)].mem # NULL THEN Need(t) <= rec[Key(t)].mem_cap
                                          ELSE Need(t) <= rec[Key(t)].ext_total
          /\ pc[t] = "zero" <=> fresh # << >> /\ lk = t
    /\ fresh # << >> => lk \in Threads
    /\ dying # << >> => lk \in Threads /\ pc[lk] = "free"

\* Every extent has one owner, and the books balance.
Owned == Extents \cup Range(fresh) \cup Range(dying) \cup lost

Space ==
    /\ Accounted(fl, Owned, file_end)
    /\ fresh \in Seq(Extent) /\ Len(fresh) <= 1
    /\ dying \in Seq(Extent)
    /\ \A k, l \in DOMAIN rec : \A i \in DOMAIN rec[k].ext, j \in DOMAIN rec[l].ext :
          rec[k].ext[i] = rec[l].ext[j] => k = l /\ i = j
    /\ \A i, j \in DOMAIN dying : dying[i] = dying[j] => i = j
    /\ Extents \cap Range(dying) = {}
    /\ Extents \cap Range(fresh) = {}
    /\ lost \cap (Extents \cup Range(fresh) \cup Range(dying)) = {}
    /\ flcap \in Nat

\* Records are backed, as far as their own fields say.
Room(r) ==
    /\ r.mem = NULL => r.size <= r.ext_total /\ r.mem_cap = 0
    /\ r.mem # NULL => r.size <= r.mem_cap
    /\ r.ext_total = Base(r.ext, Len(r.ext) + 1)

Rooms == \A k \in DOMAIN rec : Room(rec[k])

Resident == {k \in DOMAIN rec : rec[k].mem # NULL}

Memory ==
    /\ DOMAIN heap = {rec[k].mem : k \in Resident}
    /\ \A k, l \in Resident : rec[k].mem = rec[l].mem => k = l
    /\ resident = Total([k \in DOMAIN rec |-> rec[k].mem_cap], DOMAIN rec)
    /\ resident <= Budget
    /\ Resident # {} => Budget > 0
    /\ lru \in Seq(Keys)
    /\ Range(lru) = Resident
    /\ IsInjective(lru)

Movers(k) == {t \in Threads : pc[t] \in Moving /\ Key(t) = k}

Counts == \A k \in DOMAIN rec : rec[k].busy = Cardinality(Movers(k))

Appends ==
    /\ AppendsDisjoint
    /\ \A t \in Threads : call[t].op = "append" =>
          /\ pc[t] \in Locked => call[t].segs[1].off = rec[Key(t)].size
          /\ pc[t] \in Moving =>
                call[t].segs[1].off + call[t].segs[1].n <= rec[Key(t)].size

\* The file reaches to the end of every record.
FileSize ==
    /\ IsSeq(file)
    /\ \A e \in Extents : End(e) <= Len(file)

\* What threads have still to transfer.
Pieces ==
    /\ DOMAIN bounce = Threads
    /\ \A t \in Threads : todo[t] \in Seq(Transfer) /\ IsSeq(bounce[t])

\* A buffer is as long as its record says.
Buffer(b, n) == IsSeq(heap[b]) /\ Len(heap[b]) = n

Buffers == \A k \in Resident : Buffer(rec[k].mem, rec[k].mem_cap)

\* The place a thread took from its record is still the record's, and its pieces
\* lie inside the buffer.
Places ==
    /\ PlaceCurrent
    /\ \A t \in Threads : pc[t] = "io" => place[t].ext \in Seq(Extent)
    /\ \A t \in Threads : pc[t] = "io" /\ place[t].mem # NULL =>
          \A i \in DOMAIN todo[t] : todo[t][i].at + todo[t][i].n <= rec[Key(t)].size

-----------------------------------------------------------------------------
(* Ranges.                                                                 *)

LEMMA SegFields ==
    ASSUME NEW segs \in Seq(Segment)
    PROVE  /\ Len(segs) \in Nat /\ DOMAIN segs = 1 .. Len(segs)
           /\ \A i \in 1 .. Len(segs) : segs[i].off \in Nat /\ segs[i].n \in Nat
<1>1. \A x \in Segment : x.off \in Nat /\ x.n \in Nat
  BY DEF Segment
<1> QED
  BY <1>1

\* The end of a call's highest range.
LEMMA HighProps ==
    ASSUME NEW segs \in Seq(Segment)
    PROVE  /\ High(segs) \in Nat
           /\ \A i \in DOMAIN segs : segs[i].off + segs[i].n <= High(segs)
<1> DEFINE n == Len(segs)
           E(i) == segs[i].off + segs[i].n
           P == {m \in Nat : \E top \in Nat : \A i \in 1 .. m : i <= n => E(i) <= top}
<1>1. /\ n \in Nat /\ DOMAIN segs = 1 .. n
      /\ \A i \in 1 .. n : E(i) \in Nat
  BY SegFields
<1> HIDE DEF n, E
<1>2. 0 \in P
  <2>1. \A i \in 1 .. 0 : i <= n => E(i) <= 0
    OBVIOUS
  <2> QED
    BY <2>1
<1>3. ASSUME NEW m \in P
      PROVE  m + 1 \in P
  <2>1. m \in Nat
    OBVIOUS
  <2>2. PICK top \in Nat : \A i \in 1 .. m : i <= n => E(i) <= top
    OBVIOUS
  <2>3. CASE m + 1 <= n
    <3>1. E(m + 1) \in Nat
      BY <1>1, <2>1, <2>3
    <3>2. PICK e \in Nat : e = E(m + 1)
      BY <3>1
    <3>3. \A i \in 1 .. (m + 1) : i <= n => E(i) <= top + e
      <4> SUFFICES ASSUME NEW i \in 1 .. (m + 1), i <= n
                   PROVE  E(i) <= top + e
        OBVIOUS
      <4>1. E(i) \in Nat
        BY <1>1, <2>1
      <4>2. CASE i = m + 1
        BY <3>2, <4>1, <4>2
      <4>3. CASE i # m + 1
        <5>1. i \in 1 .. m
          BY <2>1, <4>3
        <5> QED
          BY <2>2, <4>1, <5>1
      <4> QED
        BY <4>2, <4>3
    <3>4. top + e \in Nat /\ m + 1 \in Nat
      BY <2>1
    <3> HIDE DEF E
    <3> QED
      BY <3>3, <3>4
  <2>4. CASE ~(m + 1 <= n)
    <3>1. \A i \in 1 .. (m + 1) : i <= n => i \in 1 .. m
      BY <1>1, <2>1, <2>4
    <3>2. \A i \in 1 .. (m + 1) : i <= n => E(i) <= top
      BY <2>2, <3>1
    <3> QED
      BY <2>1, <3>2
  <2> QED
    BY <2>3, <2>4
<1>4. P = Nat
  <2>1. P \in SUBSET Nat
    OBVIOUS
  <2> HIDE DEF P
  <2> QED
    BY <1>2, <1>3, <2>1, NatSet
<1>5. PICK top \in Nat : \A i \in 1 .. n : E(i) <= top
  <2>1. n \in P
    <3> HIDE DEF P
    <3> QED
      BY <1>1, <1>4
  <2>2. PICK top \in Nat : \A i \in 1 .. n : i <= n => E(i) <= top
    BY <2>1
  <2>3. \A i \in 1 .. n : i <= n
    BY <1>1
  <2> QED
    BY <2>2, <2>3
<1> DEFINE S == {0} \cup {E(i) : i \in 1 .. n}
<1>6. High(segs) = Max(S)
  BY <1>1 DEF High, E
<1>7. S \in SUBSET Nat /\ S # {} /\ \A y \in S : y <= top
  BY <1>1, <1>5
<1>8. Max(S) \in S /\ \A y \in S : y <= Max(S)
  <2> HIDE DEF S
  <2> QED
    BY <1>7, MaxProps
<1>9. \A i \in 1 .. n : E(i) <= Max(S)
  <2>1. \A i \in 1 .. n : E(i) \in S
    OBVIOUS
  <2> HIDE DEF S
  <2> QED
    BY <1>8, <2>1
<1>10. Max(S) \in Nat
  <2> HIDE DEF S
  <2> QED
    BY <1>7, <1>8
<1> HIDE DEF S
<1> QED
  BY <1>1, <1>6, <1>9, <1>10 DEF E

-----------------------------------------------------------------------------
(* Extents of a record.                                                    *)

LEMMA BaseIsRun ==
    ASSUME NEW ext \in Seq(Extent), NEW i \in 1 .. (Len(ext) + 1)
    PROVE  \E f : RunRec(ext, i, f) /\ Base(ext, i) = f[i] /\ \A j \in 1 .. i : f[j] \in Nat
<1> DEFINE R(f) == f = [j \in 1 .. i |-> IF j = 1 THEN 0 ELSE f[j - 1] + ext[j - 1].len]
           g == CHOOSE f : R(f)
<1>1. Base(ext, i) = g[i]
  BY DEF Base
<1>2. i \in Nat /\ \A j \in 1 .. (i - 1) : ext[j].len \in Nat
  <2>1. Len(ext) \in Nat /\ \A j \in 1 .. Len(ext) : ext[j].len \in Nat
    BY HoleFields
  <2>2. i \in Nat /\ \A j \in 1 .. (i - 1) : j \in 1 .. Len(ext)
    BY <2>1
  <2> QED
    BY <2>1, <2>2
<1>3. PICK f : RunRec(ext, i, f) /\ \A j \in 1 .. i : f[j] \in Nat
  BY <1>2, RunExists
<1>4. R(f)
  BY <1>3 DEF RunRec
<1>5. R(g)
  <2> HIDE DEF R
  <2> QED
    BY <1>4
<1> HIDE DEF g
<1>6. RunRec(ext, i, g)
  BY <1>5 DEF RunRec
<1>7. \A j \in 1 .. i : f[j] = g[j]
  BY <1>2, <1>3, <1>6, RunsAgree
<1> QED
  BY <1>1, <1>3, <1>6, <1>7

LEMMA BaseProps ==
    ASSUME NEW ext \in Seq(Extent)
    PROVE  /\ Base(ext, 1) = 0
           /\ \A i \in 1 .. (Len(ext) + 1) : Base(ext, i) \in Nat
           /\ \A i \in 1 .. Len(ext) : Base(ext, i + 1) = Base(ext, i) + ext[i].len
<1>0. Len(ext) \in Nat
  BY HoleFields
<1>1. \A i \in 1 .. (Len(ext) + 1) : Base(ext, i) \in Nat
  <2> TAKE i \in 1 .. (Len(ext) + 1)
  <2>1. PICK f : Base(ext, i) = f[i] /\ \A j \in 1 .. i : f[j] \in Nat
    BY BaseIsRun
  <2> QED
    BY <1>0, <2>1
<1>2. Base(ext, 1) = 0
  <2>1. 1 \in 1 .. (Len(ext) + 1)
    BY <1>0
  <2>2. PICK f : RunRec(ext, 1, f) /\ Base(ext, 1) = f[1]
    BY <2>1, BaseIsRun
  <2> QED
    BY <2>2 DEF RunRec
<1>3. ASSUME NEW i \in 1 .. Len(ext)
      PROVE  Base(ext, i + 1) = Base(ext, i) + ext[i].len
  <2>1. PICK m : m = i + 1
    OBVIOUS
  <2>2. /\ i \in 1 .. (Len(ext) + 1) /\ m \in 1 .. (Len(ext) + 1) /\ i \in Nat /\ m \in Nat
        /\ i <= m /\ m # 1 /\ m - 1 = i /\ m \in 1 .. m /\ i \in 1 .. i
    BY <1>0, <2>1
  <2>3. PICK f : RunRec(ext, i, f) /\ Base(ext, i) = f[i]
    BY <2>2, BaseIsRun
  <2>4. PICK g : RunRec(ext, m, g) /\ Base(ext, m) = g[m]
    BY <2>2, BaseIsRun
  <2>5. f[i] = g[i]
    <3>1. \A j \in 1 .. (i - 1) : ext[j].len = ext[j].len
      OBVIOUS
    <3>2. \A j \in 1 .. i : f[j] = g[j]
      BY <2>2, <2>3, <2>4, <3>1, RunsAgree
    <3> QED
      BY <2>2, <3>2
  <2>6. g[m] = g[m - 1] + ext[m - 1].len
    BY <2>2, <2>4 DEF RunRec
  <2>7. Base(ext, m) = Base(ext, i) + ext[i].len
    BY <2>2, <2>3, <2>4, <2>5, <2>6
  <2> QED
    BY <2>1, <2>7
<1> QED
  BY <1>1, <1>2, <1>3

\* One more extent leaves the others where they are.
LEMMA BaseAppend ==
    ASSUME NEW ext \in Seq(Extent), NEW e \in Extent
    PROVE  /\ \A i \in 1 .. (Len(ext) + 1) : Base(Append(ext, e), i) = Base(ext, i)
           /\ Base(Append(ext, e), Len(ext) + 2) = Base(ext, Len(ext) + 1) + e.len
<1>0. Len(ext) \in Nat
  BY HoleFields
<1>1. PICK x : x = Append(ext, e)
  OBVIOUS
<1>2. /\ x \in Seq(Extent) /\ Len(x) = Len(ext) + 1
      /\ \A i \in 1 .. Len(ext) : x[i] = ext[i]
      /\ x[Len(ext) + 1] = e
  BY <1>1
<1>3. ASSUME NEW i \in 1 .. (Len(ext) + 1)
      PROVE  Base(x, i) = Base(ext, i)
  <2>1. i \in 1 .. (Len(x) + 1) /\ i \in Nat /\ i <= i /\ i \in 1 .. i
    BY <1>0, <1>2
  <2>2. PICK f : RunRec(ext, i, f) /\ Base(ext, i) = f[i]
    BY BaseIsRun
  <2>3. PICK g : RunRec(x, i, g) /\ Base(x, i) = g[i]
    BY <1>2, <2>1, BaseIsRun
  <2>4. \A j \in 1 .. (i - 1) : ext[j].len = x[j].len
    <3>1. \A j \in 1 .. (i - 1) : j \in 1 .. Len(ext)
      BY <1>0
    <3> QED
      BY <1>2, <3>1
  <2>5. i \in Nat /\ i <= i /\ RunRec(ext, i, f) /\ RunRec(x, i, g)
    BY <2>1, <2>2, <2>3
  <2>6. \A j \in 1 .. i : f[j] = g[j]
    BY ONLY <2>4, <2>5, RunsAgree
  <2> QED
    BY <2>1, <2>2, <2>3, <2>6
<1>4. PICK m : m = Len(ext) + 1
  OBVIOUS
<1>5. m \in 1 .. Len(x) /\ m \in 1 .. (Len(ext) + 1) /\ m + 1 = Len(ext) + 2
  BY <1>0, <1>2, <1>4
<1>6. Base(x, m + 1) = Base(x, m) + x[m].len
  BY <1>2, <1>5, BaseProps
<1> QED
  BY <1>1, <1>2, <1>3, <1>4, <1>5, <1>6

-----------------------------------------------------------------------------
(* Bytes.                                                                  *)

LEMMA ZerosLen == ASSUME NEW n \in Nat PROVE IsSeq(Zeros(n)) /\ Len(Zeros(n)) = n
  BY DEF IsSeq, Zeros

\* pwrite never shortens, and inside it changes no length.
LEMMA OverwriteLen ==
    ASSUME NEW f, IsSeq(f), NEW at \in Nat, NEW bytes, Len(bytes) \in Nat
    PROVE  /\ IsSeq(Overwrite(f, at, bytes))
           /\ Len(Overwrite(f, at, bytes)) >= Len(f)
           /\ Len(Overwrite(f, at, bytes)) >= at + Len(bytes)
           /\ at + Len(bytes) <= Len(f) => Len(Overwrite(f, at, bytes)) = Len(f)
<1>1. PICK a, b : a = Len(f) /\ b = at + Len(bytes)
  OBVIOUS
<1>2. a \in Nat /\ b \in Nat
  BY <1>1 DEF IsSeq
<1>3. PICK m : m = Max({a, b})
  OBVIOUS
<1>4. m = IF a >= b THEN a ELSE b
  BY <1>2, <1>3, MaxOfTwo
<1>5. m \in Nat /\ m >= a /\ m >= b /\ (b <= a => m = a)
  BY <1>2, <1>4
<1>6. DOMAIN Overwrite(f, at, bytes) = 1 .. m /\ Len(Overwrite(f, at, bytes)) = m
  BY <1>1, <1>3, <1>5 DEF Overwrite
<1> QED
  BY <1>1, <1>5, <1>6 DEF IsSeq

LEMMA TruncateLen ==
    ASSUME NEW f, NEW n \in Nat
    PROVE  IsSeq(ftruncate(f, n)) /\ Len(ftruncate(f, n)) = n
  BY DEF IsSeq, ftruncate

\* Every byte that the extents hold is in one of them.
LEMMA CoveringExtent ==
    ASSUME NEW ext \in Seq(Extent), NEW o \in Nat, o < Base(ext, Len(ext) + 1)
    PROVE  \E j \in DOMAIN ext : Base(ext, j) <= o /\ o < Base(ext, j) + ext[j].len
<1>0. /\ Len(ext) \in Nat /\ DOMAIN ext = 1 .. Len(ext)
      /\ \A i \in 1 .. Len(ext) : ext[i].len \in Nat
  BY HoleFields
<1>1. /\ Base(ext, 1) = 0
      /\ \A i \in 1 .. (Len(ext) + 1) : Base(ext, i) \in Nat
      /\ \A i \in 1 .. Len(ext) : Base(ext, i + 1) = Base(ext, i) + ext[i].len
  BY BaseProps
<1> DEFINE S == {i \in 1 .. (Len(ext) + 1) : o < Base(ext, i)}
<1>2. Len(ext) + 1 \in S /\ S \in SUBSET Nat
  BY <1>0
<1>3. PICK m \in S : \A y \in S : m <= y
  <2> HIDE DEF S
  <2> QED
    BY <1>2, MinProps
<1>4. m \in 1 .. (Len(ext) + 1) /\ o < Base(ext, m)
  OBVIOUS
<1>5. PICK j : j = m - 1
  OBVIOUS
<1>6. m # 1
  BY <1>1, <1>4
<1>7. j \in 1 .. Len(ext) /\ j \in 1 .. (Len(ext) + 1) /\ j + 1 = m /\ ~(m <= j)
  BY <1>0, <1>4, <1>5, <1>6
<1>8. j \notin S
  <2> HIDE DEF S
  <2> QED
    BY <1>3, <1>7
<1>9. ~(o < Base(ext, j))
  BY <1>7, <1>8
<1>10. Base(ext, j) \in Nat /\ Base(ext, m) = Base(ext, j) + ext[j].len
  BY <1>1, <1>7
<1>11. Base(ext, j) <= o /\ o < Base(ext, j) + ext[j].len
  BY <1>4, <1>9, <1>10
<1> QED
  BY <1>0, <1>7, <1>11

LEMMA AddrProps ==
    ASSUME NEW ext \in Seq(Extent), NEW o \in Nat, o < Base(ext, Len(ext) + 1)
    PROVE  \E j \in DOMAIN ext :
             /\ Base(ext, j) <= o /\ o < Base(ext, j) + ext[j].len
             /\ Addr(ext, o) = ext[j].foff + (o - Base(ext, j))
             /\ Addr(ext, o) \in Nat /\ Addr(ext, o) < End(ext[j])
<1>1. PICK j : j = CHOOSE i \in DOMAIN ext : Base(ext, i) <= o /\ o < Base(ext, i) + ext[i].len
  OBVIOUS
<1>2. j \in DOMAIN ext /\ Base(ext, j) <= o /\ o < Base(ext, j) + ext[j].len
  BY <1>1, CoveringExtent
<1>3. Addr(ext, o) = ext[j].foff + (o - Base(ext, j))
  BY <1>1 DEF Addr
<1>4. Base(ext, j) \in Nat /\ ext[j].foff \in Nat /\ ext[j].len \in Nat
  <2>1. Len(ext) \in Nat /\ j \in 1 .. Len(ext) /\ ext[j].foff \in Nat /\ ext[j].len \in Nat
    BY <1>2, HoleFields
  <2>2. j \in 1 .. (Len(ext) + 1)
    BY <2>1
  <2> QED
    BY <2>1, <2>2, BaseProps
<1>5. Addr(ext, o) \in Nat /\ Addr(ext, o) < End(ext[j])
  BY <1>2, <1>3, <1>4 DEF End
<1> QED
  BY <1>2, <1>3, <1>5

\* A spill writes inside the file.
LEMMA WriteOutLen ==
    ASSUME NEW f, IsSeq(f), NEW ext \in Seq(Extent), NEW bytes, NEW size \in Nat,
           \A j \in DOMAIN ext : End(ext[j]) <= Len(f)
    PROVE  IsSeq(WriteOut(f, ext, bytes, size)) /\ Len(WriteOut(f, ext, bytes, size)) = Len(f)
<1> DEFINE b == Base(ext, Len(ext) + 1)
           n == Min({size, b})
           at == [o \in 1 .. n |-> Addr(ext, o - 1) + 1]
           S == {Len(f)} \cup Range(at)
<1>1. b \in Nat
  <2>1. Len(ext) \in Nat /\ Len(ext) + 1 \in 1 .. (Len(ext) + 1)
    BY HoleFields
  <2> QED
    BY <2>1, BaseProps
<1>2. n \in Nat /\ n <= b
  <2> HIDE DEF b
  <2>1. n = IF size <= b THEN size ELSE b
    BY <1>1, MinOfTwo
  <2> HIDE DEF n
  <2> QED
    BY <1>1, <2>1
<1>3. Len(f) \in Nat
  BY DEF IsSeq
<1>4. ASSUME NEW o \in 1 .. n
      PROVE  Addr(ext, o - 1) + 1 \in Nat /\ Addr(ext, o - 1) + 1 <= Len(f)
  <2>1. PICK p : p = o - 1
    OBVIOUS
  <2>2. p \in Nat /\ p < b
    <3> HIDE DEF n, b
    <3> QED
      BY <1>1, <1>2, <2>1
  <2>3. PICK j \in DOMAIN ext : Addr(ext, p) \in Nat /\ Addr(ext, p) < End(ext[j])
    BY <2>2, AddrProps
  <2>4. End(ext[j]) <= Len(f) /\ End(ext[j]) \in Nat
    <3>1. ext[j].foff \in Nat /\ ext[j].len \in Nat
      BY HoleFields
    <3> QED
      BY <3>1 DEF End
  <2> QED
    BY <1>3, <2>1, <2>3, <2>4
<1>5. Range(at) \subseteq Nat /\ \A y \in Range(at) : y <= Len(f)
  <2> HIDE DEF n
  <2> QED
    BY <1>4 DEF Range
<1>6. S \in SUBSET Nat /\ Len(f) \in S /\ \A y \in S : y <= Len(f)
  <2> HIDE DEF at
  <2> QED
    BY <1>3, <1>5
<1>7. Max(S) \in S /\ \A y \in S : y <= Max(S)
  <2> HIDE DEF S
  <2>1. S # {}
    BY <1>6
  <2> QED
    BY <1>3, <1>6, <2>1, MaxProps
<1>8. Max(S) = Len(f)
  <2> HIDE DEF S
  <2>1. Max(S) \in Nat /\ Max(S) <= Len(f) /\ Len(f) <= Max(S)
    BY <1>6, <1>7
  <2> QED
    BY <1>3, <2>1
<1>9. WriteOut(f, ext, bytes, size) =
         [i \in 1 .. Max(S) |->
            IF i \in Range(at) THEN bytes[CHOOSE o \in DOMAIN at : at[o] = i]
            ELSE IF i <= Len(f) THEN f[i] ELSE 0]
  BY DEF WriteOut
<1> HIDE DEF S, at
<1>10. PICK m : m = Len(f)
  OBVIOUS
<1>11. PICK w : w = WriteOut(f, ext, bytes, size)
  OBVIOUS
<1>12. w = [i \in 1 .. m |->
            IF i \in Range(at) THEN bytes[CHOOSE o \in DOMAIN at : at[o] = i]
            ELSE IF i <= Len(f) THEN f[i] ELSE 0]
  BY <1>8, <1>9, <1>10, <1>11
<1>13. DOMAIN w = 1 .. m /\ Len(w) = m
  BY <1>3, <1>10, <1>12
<1> QED
  BY <1>3, <1>10, <1>11, <1>13 DEF IsSeq

-----------------------------------------------------------------------------
(* The pieces of a call.                                                   *)

Span == [at : Nat, off : Nat, n : Nat]

LEMMA SeqBy ==
    ASSUME NEW T, NEW n \in Nat, NEW f, \A i \in 1 .. n : f[i] \in T
    PROVE  [i \in 1 .. n |-> f[i]] \in Seq(T)
  OBVIOUS

LEMMA PieceProps ==
    ASSUME NEW ext \in Seq(Extent), NEW i \in DOMAIN ext, NEW off \in Nat, NEW n \in Int,
           Piece(ext, i, off, n).n > 0
    PROVE  Piece(ext, i, off, n) \in Span
<1>1. PICK b, l, f : b = Base(ext, i) /\ l = ext[i].len /\ f = ext[i].foff
  OBVIOUS
<1>2. b \in Nat /\ l \in Nat /\ f \in Nat
  <2>1. Len(ext) \in Nat /\ i \in 1 .. Len(ext) /\ ext[i].foff \in Nat /\ ext[i].len \in Nat
    BY HoleFields
  <2>2. i \in 1 .. (Len(ext) + 1)
    BY <2>1
  <2> QED
    BY <1>1, <2>1, <2>2, BaseProps
<1>3. PICK lo, hi : lo = Max({off, b}) /\ hi = Min({off + n, b + l})
  OBVIOUS
<1>4. lo = IF off >= b THEN off ELSE b
  BY <1>2, <1>3, MaxOfTwo
<1>5. hi = IF off + n <= b + l THEN off + n ELSE b + l
  <2>1. PICK p, q : p = off + n /\ q = b + l
    OBVIOUS
  <2>2. p \in Int /\ q \in Int
    BY <1>2, <2>1
  <2>3. Min({p, q}) = IF p <= q THEN p ELSE q
    BY <2>2, MinOfTwo
  <2> QED
    BY <1>3, <2>1, <2>3
<1>6. Piece(ext, i, off, n) = [at |-> f + (lo - b), off |-> lo, n |-> hi - lo]
  BY <1>1, <1>3 DEF Piece
<1>7. lo \in Nat /\ lo - b \in Nat /\ hi \in Int /\ hi - lo > 0
  <2>1. hi - lo > 0
    BY <1>6
  <2> QED
    BY <1>2, <1>4, <1>5, <2>1
<1> QED
  BY <1>2, <1>6, <1>7 DEF Span

LEMMA ScatterTyped ==
    ASSUME NEW p, p.mem = NULL, p.ext \in Seq(Extent), NEW off \in Nat, NEW n \in Int
    PROVE  ls_scatter(p, off, n) \in Seq(Span)
<1> DEFINE ss == [i \in DOMAIN p.ext |->
                    IF Piece(p.ext, i, off, n).n > 0 THEN <<Piece(p.ext, i, off, n)>>
                                                     ELSE << >>]
<1>1. ls_scatter(p, off, n) = FlattenSeq(ss)
  BY DEF ls_scatter
<1>2. ASSUME NEW i \in DOMAIN p.ext
      PROVE  ss[i] \in Seq(Span)
  <2>1. CASE Piece(p.ext, i, off, n).n > 0
    <3>1. Piece(p.ext, i, off, n) \in Span
      BY <2>1, PieceProps
    <3> QED
      BY <2>1, <3>1
  <2>2. CASE ~(Piece(p.ext, i, off, n).n > 0)
    <3>1. << >> \in Seq(Span)
      OBVIOUS
    <3> QED
      BY <2>2, <3>1
  <2> QED
    BY <2>1, <2>2
<1>3. Len(p.ext) \in Nat /\ DOMAIN p.ext = 1 .. Len(p.ext) /\ DOMAIN ss = 1 .. Len(p.ext)
  BY HoleFields
<1>4. ss \in Seq(Seq(Span))
  <2> HIDE DEF ss
  <2>1. \A i \in 1 .. Len(p.ext) : ss[i] \in Seq(Span)
    BY <1>2, <1>3
  <2>2. ss = [i \in 1 .. Len(p.ext) |-> ss[i]]
    BY <1>3 DEF ss
  <2>3. [i \in 1 .. Len(p.ext) |-> ss[i]] \in Seq(Seq(Span))
    BY <1>3, <2>1, SeqBy
  <2> QED
    BY <2>2, <2>3
<1> HIDE DEF ss
<1> QED
  BY <1>1, <1>4, FlattenTyped

LEMMA ScatterMem ==
    ASSUME NEW p, p.mem # NULL, NEW off \in Nat, NEW n \in Nat, NEW h \in Nat, off + n <= h
    PROVE  ls_scatter(p, off, n) \in Seq({x \in Span : x.at + x.n <= h})
  BY DEF ls_scatter, Span

\* A piece with its direction.
Directed(d, pieces) ==
    [i \in DOMAIN pieces |-> [dir |-> d, at |-> pieces[i].at,
                              off |-> pieces[i].off, n |-> pieces[i].n]]

LEMMA DirectedTyped ==
    ASSUME NEW d \in {"read", "write"}, NEW s \in Seq(Span)
    PROVE  Directed(d, s) \in Seq(Transfer)
<1>1. Len(s) \in Nat /\ DOMAIN s = 1 .. Len(s) /\ \A i \in 1 .. Len(s) : s[i] \in Span
  OBVIOUS
<1>2. \A x \in Span : [dir |-> d, at |-> x.at, off |-> x.off, n |-> x.n] \in Transfer
  BY DEF Span, Transfer
<1>3. \A i \in 1 .. Len(s) :
         [dir |-> d, at |-> s[i].at, off |-> s[i].off, n |-> s[i].n] \in Transfer
  BY <1>1, <1>2
<1> QED
  BY <1>1, <1>3 DEF Directed

LEMMA DirectedMem ==
    ASSUME NEW d \in {"read", "write"}, NEW h \in Nat,
           NEW s \in Seq({x \in Span : x.at + x.n <= h})
    PROVE  Directed(d, s) \in Seq({x \in Transfer : x.at + x.n <= h})
<1>1. /\ Len(s) \in Nat /\ DOMAIN s = 1 .. Len(s)
      /\ \A i \in 1 .. Len(s) : s[i] \in Span /\ s[i].at + s[i].n <= h
  OBVIOUS
<1>2. \A x \in Span : [dir |-> d, at |-> x.at, off |-> x.off, n |-> x.n] \in Transfer
  BY DEF Span, Transfer
<1>3. \A i \in 1 .. Len(s) :
         /\ [dir |-> d, at |-> s[i].at, off |-> s[i].off, n |-> s[i].n] \in Transfer
         /\ s[i].at + s[i].n <= h
  BY <1>1, <1>2
<1> QED
  BY <1>1, <1>3 DEF Directed

\* What a call has to transfer: well-formed pieces, which in a buffer end where
\* the call's ranges end.
LEMMA TransfersTyped ==
    ASSUME NEW c \in Call, NEW p, p.ext \in Seq(Extent)
    PROVE  /\ Transfers(c, p) \in Seq(Transfer)
           /\ p.mem # NULL => Transfers(c, p) \in Seq({x \in Transfer : x.at + x.n <= High(c.segs)})
<1>0. c.segs \in Seq(Segment)
  BY DEF Call
<1>1. /\ Len(c.segs) \in Nat /\ DOMAIN c.segs = 1 .. Len(c.segs)
      /\ \A i \in 1 .. Len(c.segs) : c.segs[i].off \in Nat /\ c.segs[i].n \in Nat
  BY <1>0, SegFields
<1>h. High(c.segs) \in Nat /\ \A i \in DOMAIN c.segs : c.segs[i].off + c.segs[i].n <= High(c.segs)
  BY <1>0, HighProps
<1> DEFINE Chunks(off, n) == [i \in 1 .. ((n + CHUNK - 1) \div CHUNK) |->
                                [off |-> off + (i - 1) * CHUNK,
                                 n   |-> Min({CHUNK, n - (i - 1) * CHUNK})]]
           Seg(s) == ls_scatter(p, s.off, s.n)
           Part(s, i) == Directed("read", Seg(Chunks(s.off, s.n)[i]))
                           \o Directed("write", Seg(Chunks(s.off, s.n)[i]))
           Accumulate(s) == FlattenSeq([i \in DOMAIN Chunks(s.off, s.n) |-> Part(s, i)])
           All == [i \in DOMAIN c.segs |->
                     CASE c.op = "read" -> Directed("read", Seg(c.segs[i]))
                       [] c.op = "acc" /\ p.mem = NULL -> Accumulate(c.segs[i])
                       [] OTHER -> Directed("write", Seg(c.segs[i]))]
<1>2. Transfers(c, p) = FlattenSeq(All)
  BY DEF Transfers, Directed
<1>3. CASE p.mem # NULL
  <2>1. ASSUME NEW i \in DOMAIN c.segs
        PROVE  All[i] \in Seq({x \in Transfer : x.at + x.n <= High(c.segs)})
    <3>1. Seg(c.segs[i]) \in Seq({x \in Span : x.at + x.n <= High(c.segs)})
      BY <1>1, <1>h, <1>3, ScatterMem
    <3> HIDE DEF Seg
    <3>2. /\ Directed("read", Seg(c.segs[i])) \in Seq({x \in Transfer : x.at + x.n <= High(c.segs)})
          /\ Directed("write", Seg(c.segs[i])) \in Seq({x \in Transfer : x.at + x.n <= High(c.segs)})
      BY <1>h, <3>1, DirectedMem
    <3>3. \/ All[i] = Directed("read", Seg(c.segs[i]))
          \/ All[i] = Directed("write", Seg(c.segs[i]))
      BY <1>3
    <3> HIDE DEF All
    <3> QED
      BY <3>2, <3>3
  <2>2. DOMAIN All = 1 .. Len(c.segs) /\ All = [i \in 1 .. Len(c.segs) |-> All[i]]
    BY <1>1
  <2> HIDE DEF All
  <2>3. PICK B : B = {x \in Transfer : x.at + x.n <= High(c.segs)}
    OBVIOUS
  <2>4. \A i \in 1 .. Len(c.segs) : All[i] \in Seq(B)
    BY <1>1, <2>1, <2>3
  <2>5. All \in Seq(Seq(B))
    <3>1. [i \in 1 .. Len(c.segs) |-> All[i]] \in Seq(Seq(B))
      BY <1>1, <2>4, SeqBy
    <3> QED
      BY <2>2, <3>1
  <2>6. Transfers(c, p) \in Seq(B)
    BY <1>2, <2>5, FlattenTyped
  <2>7. B \subseteq Transfer
    BY <2>3
  <2>8. Transfers(c, p) \in Seq(Transfer)
    BY <2>6, <2>7
  <2> QED
    BY <2>3, <2>6, <2>8
<1>4. CASE p.mem = NULL
  <2>1. ASSUME NEW s, s.off \in Nat, s.n \in Nat
        PROVE  Accumulate(s) \in Seq(Transfer)
    <3> DEFINE D == 1 .. ((s.n + CHUNK - 1) \div CHUNK)
               parts == [i \in D |-> Part(s, i)]
    <3>0. CHUNK \in Nat \ {0} /\ D = 1 .. ((s.n + CHUNK - 1) \div CHUNK)
      BY StoreAssumption
    <3>1. PICK m \in Nat : m = (s.n + CHUNK - 1) \div CHUNK
      <4>1. PICK a : a = s.n + CHUNK - 1
        OBVIOUS
      <4>2. a \in Nat
        BY <2>1, <3>0, <4>1
      <4>3. a \div CHUNK \in Nat
        BY <3>0, <4>2
      <4> QED
        BY <4>1, <4>3
    <3>2. ASSUME NEW i \in D
          PROVE  Part(s, i) \in Seq(Transfer)
      <4>1. PICK x, y : x = s.off + (i - 1) * CHUNK /\ y = Min({CHUNK, s.n - (i - 1) * CHUNK})
        OBVIOUS
      <4>2. PICK z : z = (i - 1) * CHUNK
        OBVIOUS
      <4>3. z \in Nat
        <5>1. i - 1 \in Nat
          BY <3>0, <3>1
        <5> QED
          BY <3>0, <4>2, <5>1
      <4>4. x \in Nat
        BY <2>1, <4>1, <4>2, <4>3
      <4>5. y \in Int
        <5>1. PICK q : q = s.n - z
          OBVIOUS
        <5>2. q \in Int /\ CHUNK \in Int
          BY <2>1, <3>0, <4>3, <5>1
        <5>3. Min({CHUNK, q}) = IF CHUNK <= q THEN CHUNK ELSE q
          BY <5>2, MinOfTwo
        <5> QED
          BY <4>1, <4>2, <5>1, <5>2, <5>3
      <4>6. Chunks(s.off, s.n)[i] = [off |-> x, n |-> y]
        BY <4>1
      <4>7. PICK u : u = Seg(Chunks(s.off, s.n)[i])
        OBVIOUS
      <4>8. u = ls_scatter(p, x, y)
        BY <4>6, <4>7
      <4>9. u \in Seq(Span)
        BY <1>4, <4>4, <4>5, <4>8, ScatterTyped
      <4>10. Directed("read", u) \in Seq(Transfer) /\ Directed("write", u) \in Seq(Transfer)
        BY <4>9, DirectedTyped
      <4>11. Part(s, i) = Directed("read", u) \o Directed("write", u)
        <5> HIDE DEF Seg, Chunks
        <5> QED
          BY <4>7
      <4> HIDE DEF Part
      <4> QED
        BY <4>10, <4>11
    <3>3. Accumulate(s) = FlattenSeq(parts)
      <4>1. DOMAIN Chunks(s.off, s.n) = D
        OBVIOUS
      <4> HIDE DEF Part, Chunks, D
      <4> QED
        BY <4>1
    <3>4. parts = [i \in 1 .. m |-> Part(s, i)] /\ D = 1 .. m
      BY <3>1
    <3> HIDE DEF Part, parts, D, Accumulate
    <3>5. \A i \in 1 .. m : Part(s, i) \in Seq(Transfer)
      BY <3>2, <3>4
    <3>6. parts \in Seq(Seq(Transfer))
      BY <3>4, <3>5
    <3> QED
      BY <3>3, <3>6, FlattenTyped
  <2>2. ASSUME NEW i \in DOMAIN c.segs
        PROVE  All[i] \in Seq(Transfer)
    <3>0. c.segs[i].off \in Nat /\ c.segs[i].n \in Nat
      BY <1>1
    <3>1. Seg(c.segs[i]) \in Seq(Span)
      <4>1. PICK a, b : a = c.segs[i].off /\ b = c.segs[i].n
        OBVIOUS
      <4>2. a \in Nat /\ b \in Int
        BY <3>0, <4>1
      <4>3. ls_scatter(p, a, b) \in Seq(Span)
        BY <1>4, <4>2, ScatterTyped
      <4> QED
        BY <4>1, <4>3
    <3> HIDE DEF Seg
    <3>2. /\ Directed("read", Seg(c.segs[i])) \in Seq(Transfer)
          /\ Directed("write", Seg(c.segs[i])) \in Seq(Transfer)
      BY <3>1, DirectedTyped
    <3>3. Accumulate(c.segs[i]) \in Seq(Transfer)
      BY <2>1, <3>0
    <3> HIDE DEF Accumulate
    <3>4. \/ All[i] = Directed("read", Seg(c.segs[i]))
          \/ All[i] = Accumulate(c.segs[i])
          \/ All[i] = Directed("write", Seg(c.segs[i]))
      OBVIOUS
    <3> HIDE DEF All
    <3> QED
      BY <3>2, <3>3, <3>4
  <2>3. All = [i \in 1 .. Len(c.segs) |-> All[i]]
    <3> HIDE DEF Seg, Accumulate
    <3> QED
      BY <1>1
  <2> HIDE DEF All
  <2>4. \A i \in 1 .. Len(c.segs) : All[i] \in Seq(Transfer)
    BY <1>1, <2>2
  <2>5. All \in Seq(Seq(Transfer))
    <3>1. [i \in 1 .. Len(c.segs) |-> All[i]] \in Seq(Seq(Transfer))
      BY <1>1, <2>4, SeqBy
    <3> QED
      BY <2>3, <3>1
  <2> QED
    BY <1>2, <1>4, <2>5, FlattenTyped
<1> QED
  BY <1>3, <1>4

-----------------------------------------------------------------------------
(* How a step moves a thread.  What else it does is another matter.        *)

\* It goes on where it is, or to the next step of ensure_cap.
Stays == UNCHANGED <<pc, call, lk>>

Moves(t, w) ==
    /\ pc[t] \in Locked /\ w \in Locked
    /\ pc' = [pc EXCEPT ![t] = w]
    /\ UNCHANGED <<call, lk>>

\* It returns from a call that has the lock.
Returns(t) ==
    /\ pc[t] \in Locked
    /\ pc' = [pc EXCEPT ![t] = "idle"]
    /\ call' = [call EXCEPT ![t] = NoCall]
    /\ lk' = NoThread

\* It enters a call: to w.
Begins(t, c, w) ==
    /\ lk = NoThread /\ pc[t] = "idle"
    /\ c \in Call /\ (c.op = "append" => Len(c.segs) = 1)
    /\ Permitted(t, c)
    /\ pc' = [pc EXCEPT ![t] = w]
    /\ call' = [call EXCEPT ![t] = c]
    /\ lk' = IF w \in Locked THEN t ELSE NoThread

\* It drops the lock to transfer, has transferred, and leaves.
Departs(t) ==
    /\ pc[t] = "ready"
    /\ pc' = [pc EXCEPT ![t] = "io"]
    /\ lk' = NoThread
    /\ UNCHANGED call

Ends(t) ==
    /\ pc[t] = "io"
    /\ pc' = [pc EXCEPT ![t] = "fin"]
    /\ UNCHANGED <<call, lk>>

Leaves(t) ==
    /\ pc[t] = "fin" /\ lk = NoThread
    /\ pc' = [pc EXCEPT ![t] = "idle"]
    /\ call' = [call EXCEPT ![t] = NoCall]
    /\ UNCHANGED lk

LEMMA NotInCall == NoCall.op \notin {"read", "write", "append", "acc", "reserve", "erase"}
  BY DEF NoCall

LEMMA CallFields ==
    ASSUME NEW c \in Call
    PROVE  /\ c.op \in {"read", "write", "append", "acc", "reserve", "erase"}
           /\ c.key \in Keys /\ c.segs \in Seq(Segment)
  BY DEF Call

\* The control part of the invariant, whatever happens to the records a call is
\* about as long as they stay, and stay while they are used.
LEMMA ControlStep ==
    ASSUME Types, Control, UNCHANGED setting, NEW t \in Threads,
           \/ Stays
           \/ \E w \in Locked : Moves(t, w) /\ (call[t].op = "erase" => w = "free")
           \/ Returns(t) \/ Departs(t) \/ Ends(t) \/ Leaves(t)
           \/ \E c \in Call, w \in {"cap", "free", "io"} :
                /\ Begins(t, c, w)
                /\ IF c.op = "erase" THEN w = "free" ELSE c.key \in DOMAIN rec',
           \A k \in DOMAIN rec : k \notin DOMAIN rec' =>
                \A u \in Threads : Active(u) => call[u].key # k
    PROVE  Control'
<1>0. /\ pc \in [Threads -> Where] /\ DOMAIN call = Threads /\ NoThread \notin Threads
      /\ SameKey' = SameKey /\ lk \in Threads \cup {NoThread}
  BY StoreAssumption DEF Types, SameKey
<1> DEFINE C1 == \A u \in Threads : pc[u] \in Locked <=> lk = u
           C2 == \A u \in Threads : IF pc[u] = "idle" THEN call[u] = NoCall
                                                      ELSE call[u] \in Call
           C3 == \A u \in Threads : call[u].op = "append" => Len(call[u].segs) = 1
           C4 == \A u \in Threads : call[u].op = "erase" => pc[u] = "free"
           C5 == \A u \in Threads : Active(u) /\ call[u].op # "erase" => Key(u) \in DOMAIN rec
           C6 == \A u, v \in Threads : u # v /\ Active(u) /\ Key(u) = Key(v) => SameKey
<1>1. C1 /\ C2 /\ C3 /\ C4 /\ C5 /\ C6
  BY DEF Control
<1>n. NoCall.op = "none" /\ NoCall.key = NoKey /\ NoKey \notin Keys
  BY StoreAssumption DEF NoCall
<1>k. \A u \in Threads : Active(u) => Key(u) \in Keys
  BY <1>1, CallFields DEF Active, Key
<1> SUFFICES C1' /\ C2' /\ C3' /\ C4' /\ C5' /\ C6'
  BY DEF Control
<1>2. CASE Stays
  <2>1. pc' = pc /\ call' = call /\ lk' = lk
    BY <1>2 DEF Stays
  <2>2. C1' /\ C2' /\ C3' /\ C4' /\ C6'
    BY <1>0, <1>1, <2>1 DEF Active, Key
  <2>3. C5'
    BY <1>0, <1>1, <2>1 DEF Active, Key
  <2> QED
    BY <2>2, <2>3
<1>3. CASE \E w \in Locked : Moves(t, w) /\ (call[t].op = "erase" => w = "free")
  <2>1. PICK w \in Locked : Moves(t, w) /\ (call[t].op = "erase" => w = "free")
    BY <1>3
  <2>2. pc' = [pc EXCEPT ![t] = w] /\ call' = call /\ lk' = lk /\ w # "idle"
        /\ pc[t] \in Locked /\ pc[t] # "idle"
    BY <2>1 DEF Moves, Locked
  <2>3. C1' /\ C2' /\ C3' /\ C4'
    BY <1>0, <1>1, <2>1, <2>2
  <2>4. C5' /\ C6'
    BY <1>0, <1>1, <2>1, <2>2 DEF Active, Key
  <2> QED
    BY <2>3, <2>4
<1>4. CASE Returns(t)
  <2>1. /\ pc' = [pc EXCEPT ![t] = "idle"] /\ call' = [call EXCEPT ![t] = NoCall]
        /\ lk' = NoThread /\ lk = t /\ "idle" \notin Locked
    BY <1>1, <1>4 DEF Returns, Locked
  <2>2. C1' /\ C2' /\ C3' /\ C4'
    BY <1>0, <1>1, <1>n, <2>1
  <2>3. C5'
    BY <1>0, <1>1, <2>1 DEF Active, Key
  <2>4. C6'
    <3>1. \A u \in Threads : Active(u)' => Active(u) /\ Key(u)' = Key(u) /\ u # t
      BY <1>0, <2>1 DEF Active, Key
    <3>2. Key(t)' = NoKey /\ \A v \in Threads : v # t => Key(v)' = Key(v)
      BY <1>0, <1>n, <2>1 DEF Key
    <3> QED
      BY <1>0, <1>1, <1>n, <1>k, <3>1, <3>2
  <2> QED
    BY <2>2, <2>3, <2>4
<1>5. CASE Departs(t)
  <2>1. /\ pc' = [pc EXCEPT ![t] = "io"] /\ call' = call
        /\ lk' = NoThread /\ lk = t /\ "io" \notin Locked /\ pc[t] = "ready"
    BY <1>1, <1>5 DEF Departs, Locked
  <2>2. C1' /\ C2' /\ C3' /\ C4'
    BY <1>0, <1>1, <1>n, <2>1
  <2>3. C5' /\ C6'
    BY <1>0, <1>1, <2>1 DEF Active, Key
  <2> QED
    BY <2>2, <2>3
<1>6. CASE Ends(t)
  <2>1. /\ pc' = [pc EXCEPT ![t] = "fin"] /\ call' = call /\ pc[t] = "io"
        /\ lk' = lk /\ "fin" \notin Locked /\ "io" \notin Locked
    BY <1>1, <1>6 DEF Ends, Locked
  <2>2. C1' /\ C2' /\ C3' /\ C4'
    BY <1>0, <1>1, <1>n, <2>1
  <2>3. C5' /\ C6'
    BY <1>0, <1>1, <2>1 DEF Active, Key
  <2> QED
    BY <2>2, <2>3
<1>7. CASE Leaves(t)
  <2>1. /\ pc' = [pc EXCEPT ![t] = "idle"] /\ call' = [call EXCEPT ![t] = NoCall]
        /\ lk' = lk /\ "idle" \notin Locked /\ "fin" \notin Locked /\ pc[t] = "fin"
    BY <1>1, <1>7 DEF Leaves, Locked
  <2>2. C1' /\ C2' /\ C3' /\ C4'
    BY <1>0, <1>1, <1>n, <2>1
  <2>3. C5'
    BY <1>0, <1>1, <2>1 DEF Active, Key
  <2>4. C6'
    <3>1. \A u \in Threads : Active(u)' => Active(u) /\ Key(u)' = Key(u) /\ u # t
      BY <1>0, <2>1 DEF Active, Key
    <3>2. Key(t)' = NoKey /\ \A v \in Threads : v # t => Key(v)' = Key(v)
      BY <1>0, <1>n, <2>1 DEF Key
    <3> QED
      BY <1>0, <1>1, <1>n, <1>k, <3>1, <3>2
  <2> QED
    BY <2>2, <2>3, <2>4
<1>8. CASE \E c \in Call, w \in {"cap", "free", "io"} :
                /\ Begins(t, c, w)
                /\ IF c.op = "erase" THEN w = "free" ELSE c.key \in DOMAIN rec'
  <2>1. PICK c \in Call, w \in {"cap", "free", "io"} :
                /\ Begins(t, c, w)
                /\ IF c.op = "erase" THEN w = "free" ELSE c.key \in DOMAIN rec'
    BY <1>8
  <2>2. /\ pc' = [pc EXCEPT ![t] = w] /\ call' = [call EXCEPT ![t] = c]
        /\ lk = NoThread /\ pc[t] = "idle" /\ w # "idle"
        /\ lk' = (IF w \in Locked THEN t ELSE NoThread)
        /\ (c.op = "append" => Len(c.segs) = 1)
    BY <2>1 DEF Begins
  <2>3. C1' /\ C2' /\ C3' /\ C4'
    BY <1>0, <1>1, <2>1, <2>2
  <2>4. C5'
    BY <1>0, <1>1, <2>1, <2>2 DEF Active, Key
  <2>5. C6'
    <3>1. \A u \in Threads \ {t} : Active(u) /\ Key(u) = c.key => SameKey
      BY <2>1 DEF Begins, Permitted, Compatible, Key
    <3>2. \A u \in Threads \ {t} : Active(u)' = Active(u) /\ Key(u)' = Key(u)
      BY <1>0, <2>2 DEF Active, Key
    <3>3. Key(t)' = c.key /\ c.key \in Keys
      BY <1>0, <2>2, CallFields DEF Key
    <3>4. \A u \in Threads \ {t} : Key(u) = c.key => Active(u)
      BY <1>0, <1>1, <1>n, <3>3 DEF Active, Key
    <3> QED
      BY <1>0, <1>1, <3>1, <3>2, <3>3, <3>4
  <2> QED
    BY <2>3, <2>4, <2>5
<1> QED
  BY <1>2, <1>3, <1>4, <1>5, <1>6, <1>7, <1>8

-----------------------------------------------------------------------------
(* What a step does to the table of contents.                              *)

\* The record of k is now r; the others are what they were.
Sets(k, r) ==
    /\ k \in Keys
    /\ DOMAIN rec' = DOMAIN rec \cup {k}
    /\ rec'[k] = r
    /\ \A j \in DOMAIN rec \ {k} : rec'[j] = rec[j]

Drops(k) ==
    /\ k \in DOMAIN rec
    /\ DOMAIN rec' = DOMAIN rec \ {k}
    /\ \A j \in DOMAIN rec \ {k} : rec'[j] = rec[j]

LEMMA SetsExcept ==
    ASSUME NEW k \in DOMAIN rec, DOMAIN rec \subseteq Keys, NEW r,
           rec' = [rec EXCEPT ![k] = r]
    PROVE  Sets(k, r)
  BY DEF Sets

LEMMA SetsBind ==
    ASSUME NEW k \in Keys, NEW r, rec' = Bind(rec, k, r)
    PROVE  Sets(k, r)
  BY DEF Sets, Bind

\* The calls as they begin: an append goes to the end of its record.
LEMMA ResolveProps ==
    ASSUME Types, NEW c \in Calls
    PROVE  /\ c \in Call /\ Resolve(c) \in Call
           /\ Resolve(c).op = c.op /\ Resolve(c).key = c.key
           /\ c.op = "append" => Len(Resolve(c).segs) = 1
           /\ c.op = "append" => Resolve(c).segs[1].off = Size(c.key)
           /\ c.op # "append" => Resolve(c) = c
<1>1. c \in Call /\ (c.op = "append" => Len(c.segs) = 1)
  BY CallsAssumption DEF Types, Calls
<1>2. Size(c.key) \in Nat
  BY DEF Size, Types, Record
<1>3. CASE c.op # "append"
  BY <1>1, <1>3 DEF Resolve
<1>4. CASE c.op = "append"
  <2>1. PICK s : s = c.segs
    OBVIOUS
  <2>2. s \in Seq(Segment) /\ Len(s) = 1 /\ s[1] \in Segment
    BY <1>1, <1>4, <2>1 DEF Call
  <2>3. PICK x : x = [s[1] EXCEPT !.off = Size(c.key)]
    OBVIOUS
  <2>4. x \in Segment /\ x.off = Size(c.key)
    BY <1>2, <2>2, <2>3 DEF Segment
  <2>5. PICK z : z = [s EXCEPT ![1] = x]
    OBVIOUS
  <2>6. z \in Seq(Segment) /\ Len(z) = 1 /\ z[1] = x
    BY <2>2, <2>4, <2>5
  <2>7. Resolve(c) = [c EXCEPT !.segs = z]
    BY <1>4, <2>1, <2>3, <2>5 DEF Resolve
  <2>8. [c EXCEPT !.segs = z] \in Call /\ [c EXCEPT !.segs = z].op = c.op
        /\ [c EXCEPT !.segs = z].key = c.key /\ [c EXCEPT !.segs = z].segs = z
    BY <1>1, <2>6 DEF Call
  <2> QED
    BY <1>1, <1>4, <2>4, <2>6, <2>7, <2>8
<1> QED
  BY <1>3, <1>4

\* Entering a call, with what there is to know of it.
Enters(t, c, w) ==
    /\ Begins(t, c, w)
    /\ IF c.op = "erase" THEN w = "free" ELSE c.key \in DOMAIN rec'
    /\ c.op = "append" => w = "cap" /\ c.segs[1].off = Size(c.key)

LEMMA StartReadShape ==
    ASSUME Types, NEW t \in Threads, NEW c \in Calls, StartRead(t, c), c.op = "read"
    PROVE  /\ Enters(t, c, "io")
           /\ c.key \in DOMAIN rec
           /\ Sets(c.key, [rec[c.key] EXCEPT !.busy = @ + 1])
<1>1. c \in Call /\ c.key \in DOMAIN rec /\ DOMAIN rec \subseteq Keys
  BY CallsAssumption DEF StartRead, Types, Calls
<1>2. PICK r : r = rec[c.key]
  OBVIOUS
<1>3. r \in Record
  BY <1>1, <1>2 DEF Types
<1>4. PICK q : q = [[r EXCEPT !.size = r.size] EXCEPT !.busy = r.busy + 1]
  OBVIOUS
<1>5. q = [r EXCEPT !.busy = @ + 1]
  BY <1>3, <1>4 DEF Record
<1>6. rec' = [rec EXCEPT ![c.key] = q]
  BY <1>2, <1>4 DEF StartRead, Launch
<1>7. Sets(c.key, q)
  BY <1>1, <1>6, SetsExcept
<1>8. Begins(t, c, "io")
  BY <1>1 DEF StartRead, Launch, Enter, Begins, Locked
<1> QED
  BY <1>1, <1>2, <1>5, <1>7, <1>8 DEF Enters, Sets

LEMMA StartGrowShape ==
    ASSUME Types, NEW t \in Threads, NEW c \in Calls, c.op # "erase", StartGrow(t, Resolve(c))
    PROVE  /\ Enters(t, Resolve(c), "cap")
           /\ IF c.key \in DOMAIN rec THEN UNCHANGED rec ELSE Sets(c.key, NewRec)
<1>1. /\ Resolve(c) \in Call /\ Resolve(c).op = c.op /\ Resolve(c).key = c.key
      /\ c.op = "append" => Len(Resolve(c).segs) = 1
      /\ c.op = "append" => Resolve(c).segs[1].off = Size(c.key)
      /\ c.key \in Keys
  BY ResolveProps, CallFields
<1>2. PICK d : d = Resolve(c)
  OBVIOUS
<1>3. Begins(t, d, "cap")
  BY <1>1, <1>2 DEF StartGrow, Enter, Begins, Locked
<1>4. rec' = IF c.key \in DOMAIN rec THEN rec ELSE Bind(rec, c.key, NewRec)
  BY <1>1 DEF StartGrow, FoundOrNew
<1>5. IF c.key \in DOMAIN rec THEN UNCHANGED rec ELSE Sets(c.key, NewRec)
  BY <1>1, <1>4, SetsBind
<1>6. c.key \in DOMAIN rec'
  BY <1>5 DEF Sets
<1> QED
  BY <1>1, <1>2, <1>3, <1>5, <1>6 DEF Enters

LEMMA EraseShape ==
    ASSUME Types, NEW t \in Threads, NEW c \in Calls, ls_erase(t, c)
    PROVE  /\ Enters(t, c, "free") /\ c.op = "erase"
           /\ Drops(c.key)
           /\ \A u \in Threads : Active(u) => call[u].key # c.key
<1>1. c \in Call /\ c.op = "erase" /\ c.key \in DOMAIN rec
  BY CallsAssumption DEF ls_erase, Types, Calls
<1>2. Begins(t, c, "free")
  BY <1>1 DEF ls_erase, Enter, Begins, Locked
<1>3. Drops(c.key)
  BY <1>1 DEF ls_erase, ls_toc_unlink, Without, Drops
<1>4. pc[t] = "idle" /\ Permitted(t, c)
  BY <1>2 DEF Begins
<1>5. \A u \in Threads : Active(u) => call[u].key # c.key
  BY <1>1, <1>4 DEF Permitted, Compatible, Active
<1> QED
  BY <1>1, <1>2, <1>3, <1>5 DEF Enters

\* The steps there are.
Step(t) ==
    \/ \E c \in Calls : c.op = "read" /\ StartRead(t, c)
    \/ \E c \in Calls : c.op \notin {"read", "erase"} /\ StartGrow(t, Resolve(c))
    \/ \E c \in Calls : ls_erase(t, c)
    \/ MemPiece(t) \/ ReadPiece(t) \/ Bounce(t) \/ WritePiece(t) \/ PieceFails(t)
    \/ Transferred(t) \/ Leave(t)
    \/ Cap(t) \/ Evict(t) \/ Fit(t) \/ NoFit(t)
    \/ Alloc(t) \/ Zero(t) \/ ZeroFails(t)
    \/ Spill(t) \/ SpillFails(t) \/ Backed(t)
    \/ Free(t) \/ Freed(t)
    \/ Ready(t) \/ Reserved(t)

LEMMA NextSteps ==
    ASSUME Types, Next
    PROVE  UNCHANGED setting /\ \E t \in Threads : Step(t)
<1>1. PICK t \in Threads : Caller(t) \/ Holder(t)
  BY DEF Next
<1>2. UNCHANGED setting
  BY <1>1 DEF Caller, Holder
<1>3. CASE Holder(t)
  <2>1. Step(t)
    BY <1>3 DEF Holder, Step
  <2> QED
    BY <1>2, <2>1
<1>4. CASE Caller(t)
  <2>1. ASSUME NEW c \in Calls,
               \/ ls_read(t, c) \/ ls_readv(t, c)
               \/ ls_write(t, c) \/ ls_writev(t, c)
               \/ ls_append(t, c) \/ ls_accumulate(t, c)
               \/ ls_reserve(t, c) \/ ls_erase(t, c)
        PROVE  Step(t)
    <3>0. c.op # "append" => Resolve(c) = c
      BY ResolveProps
    <3>1. CASE ls_read(t, c) \/ ls_readv(t, c)
      BY <3>1 DEF ls_read, ls_readv, Step
    <3>2. CASE ls_write(t, c) \/ ls_writev(t, c) \/ ls_append(t, c) \/ ls_accumulate(t, c)
               \/ ls_reserve(t, c)
      <4>1. c.op \notin {"read", "erase"} /\ StartGrow(t, Resolve(c))
        BY <3>0, <3>2 DEF ls_write, ls_writev, ls_append, ls_accumulate, ls_reserve
      <4> QED
        BY <4>1 DEF Step
    <3>3. CASE ls_erase(t, c)
      BY <3>3 DEF Step
    <3> QED
      BY <2>1, <3>1, <3>2, <3>3
  <2>2. Step(t)
    BY <1>4, <2>1 DEF Caller, Step
  <2> QED
    BY <1>2, <2>2
<1> QED
  BY <1>1, <1>3, <1>4

\* How the holder of the lock moves.
LEMMA FailShape ==
    ASSUME Types, Control, Holding, NEW t \in Threads, pc[t] \in Spills, Fail(t)
    PROVE  /\ vic' = NoKey
           /\ \/ vic # NoKey /\ vic # Key(t) /\ Moves(t, "fit") /\ call[t].op # "erase"
              \/ (vic = NoKey \/ vic = Key(t)) /\ Returns(t)
<1>1. pc[t] \in Locked /\ lk = t
  BY DEF Control, Spills, Locked
<1>2. CASE vic # NoKey /\ vic # Key(t)
  BY <1>1, <1>2 DEF Fail, Goto, Moves, Locked, Holding
<1>3. CASE ~(vic # NoKey /\ vic # Key(t))
  BY <1>1, <1>3 DEF Fail, Goto, Returns
<1> QED
  BY <1>2, <1>3 DEF Fail

LEMMA HolderShape ==
    ASSUME Types, Control, Holding, NEW t \in Threads,
           \/ Cap(t) \/ Evict(t) \/ Fit(t) \/ NoFit(t)
           \/ Alloc(t) \/ Zero(t) \/ ZeroFails(t)
           \/ Spill(t) \/ SpillFails(t) \/ Backed(t)
           \/ Free(t) \/ Freed(t)
           \/ Ready(t) \/ Reserved(t)
    PROVE  /\ lk = t
           /\ \/ Stays
              \/ \E w \in Locked : Moves(t, w) /\ (call[t].op = "erase" => w = "free")
              \/ Returns(t) \/ Departs(t)
<1>0. pc[t] \in Locked => lk = t
  BY DEF Control
<1>e. call[t].op = "erase" => pc[t] = "free"
  BY DEF Control
<1>1. CASE Cap(t)
  <2>1. pc[t] = "cap" /\ UNCHANGED <<call, lk>>
    BY <1>1 DEF Cap, thread
  <2>2. PICK w \in {"ready", "evict", "extents"} : pc' = [pc EXCEPT ![t] = w]
    BY <1>1 DEF Cap, Goto, ToExtents
  <2> QED
    BY <1>0, <1>e, <2>1, <2>2 DEF Moves, Locked
<1>2. CASE Evict(t)
  <2>1. pc[t] = "evict" /\ UNCHANGED <<call, lk>>
    BY <1>2 DEF Evict, thread
  <2>2. PICK w \in {"fit", "extents"} : pc' = [pc EXCEPT ![t] = w]
    BY <1>2 DEF Evict, Goto
  <2> QED
    BY <1>0, <1>e, <2>1, <2>2 DEF Moves, Locked
<1>3. CASE Fit(t)
  BY <1>0, <1>e, <1>3 DEF Fit, Goto, Moves, Locked, lock, thread
<1>4. CASE NoFit(t)
  BY <1>0, <1>e, <1>4 DEF NoFit, ToExtents, Goto, Moves, Locked, thread
<1>5. CASE Alloc(t)
  BY <1>0, <1>e, <1>5 DEF Alloc, Goto, Moves, Locked, thread
<1>6. CASE Zero(t)
  BY <1>0, <1>e, <1>6 DEF Zero, Goto, Moves, Locked, thread
<1>7. CASE ZeroFails(t)
  BY <1>0, <1>e, <1>7 DEF ZeroFails, Goto, Moves, Locked, thread
<1>8. CASE Spill(t)
  <2>1. pc[t] = "extents" /\ UNCHANGED <<call, lk>>
    BY <1>8 DEF Spill, thread
  <2>2. PICK w \in {"evict", "extents"} : pc' = [pc EXCEPT ![t] = w]
    BY <1>8 DEF Spill, Goto
  <2> QED
    BY <1>0, <1>e, <2>1, <2>2 DEF Moves, Locked
<1>9. CASE SpillFails(t)
  <2>1. pc[t] \in Spills /\ pc[t] \in Locked /\ Fail(t)
    BY <1>9 DEF SpillFails, Spills, Locked
  <2> QED
    BY <1>0, <2>1, FailShape DEF Locked
<1>10. CASE Backed(t)
  BY <1>0, <1>e, <1>10 DEF Backed, Goto, Moves, Locked, lock, thread
<1>11. CASE Free(t)
  BY <1>0, <1>11 DEF Free, Stays, Locked, thread
<1>12. CASE Freed(t)
  <2>1. pc[t] \in Spills /\ pc[t] \in Locked /\ Fail(t)
    BY <1>12 DEF Freed, Spills, Locked
  <2> QED
    BY <1>0, <2>1, FailShape DEF Locked
<1>13. CASE Ready(t)
  BY <1>0, <1>13 DEF Ready, Launch, Departs, Locked
<1>14. CASE Reserved(t)
  BY <1>0, <1>14 DEF Reserved, Goto, Returns, Locked
<1> QED
  BY <1>1, <1>2, <1>3, <1>4, <1>5, <1>6, <1>7, <1>8, <1>9, <1>10, <1>11, <1>12, <1>13, <1>14

\* How a thread without the lock moves.
LEMMA MoverShape ==
    ASSUME Types, Control, NEW t \in Threads
    PROVE  /\ MemPiece(t) \/ ReadPiece(t) \/ Bounce(t) \/ WritePiece(t) \/ PieceFails(t)
                => Stays /\ pc[t] = "io"
           /\ Transferred(t) => Ends(t)
           /\ Leave(t) => Leaves(t)
<1>1. MemPiece(t) => Stays /\ pc[t] = "io"
  BY DEF MemPiece, Stays, lock
<1>2. ReadPiece(t) => Stays /\ pc[t] = "io"
  BY DEF ReadPiece, Stays, lock
<1>3. Bounce(t) => Stays /\ pc[t] = "io"
  BY DEF Bounce, Stays, lock
<1>4. WritePiece(t) => Stays /\ pc[t] = "io"
  BY DEF WritePiece, Stays, lock
<1>5. PieceFails(t) => Stays /\ pc[t] = "io"
  BY DEF PieceFails, Stays, lock
<1>6. Transferred(t) => Ends(t)
  BY DEF Transferred, Goto, Ends, lock, thread
<1>7. Leave(t) => Leaves(t)
  BY DEF Leave, Goto, Leaves, lock
<1> QED
  BY <1>1, <1>2, <1>3, <1>4, <1>5, <1>6, <1>7

-----------------------------------------------------------------------------
(* What a step does to the records.                                        *)

LEMMA RecordFields ==
    ASSUME NEW r \in Record
    PROVE  /\ r.size \in Nat /\ r.mem \in Nat /\ r.mem_cap \in Nat /\ r.busy \in Nat
           /\ r.ext \in Seq(Extent) /\ r.ext_total \in Nat
  BY DEF Record

\* Where a thread is, and the record its call is about.
LEMMA Caught ==
    ASSUME Types, Control, NEW t \in Threads, pc[t] # "idle", call[t].op # "erase"
    PROVE  /\ call[t] \in Call /\ Key(t) \in DOMAIN rec /\ Key(t) \in Keys
           /\ rec[Key(t)] \in Record /\ Need(t) \in Nat
<1>1. call[t] \in Call /\ Key(t) \in DOMAIN rec
  BY DEF Control, Active
<1>2. call[t].segs \in Seq(Segment)
  BY <1>1, CallFields
<1>3. Need(t) \in Nat
  BY <1>2, HighProps DEF Need
<1> QED
  BY <1>1, <1>3 DEF Types

\* A thread at any step of ensure_cap, or moving bytes, is not erasing.
LEMMA NotErasing ==
    ASSUME Control, NEW t \in Threads, pc[t] # "free"
    PROVE  call[t].op # "erase"
  BY DEF Control

\* The steps that leave the records, the tier's accounts and the space alone.
Quiet ==
    /\ UNCHANGED <<rec, lru, resident, fl, flcap, file_end, lost, fresh, dying>>
    /\ DOMAIN heap' = DOMAIN heap

QuietStep(t) ==
    \/ MemPiece(t) \/ ReadPiece(t) \/ Bounce(t) \/ WritePiece(t) \/ PieceFails(t)
    \/ Transferred(t)
    \/ Cap(t) \/ Evict(t) \/ NoFit(t) \/ SpillFails(t) \/ Backed(t) \/ Freed(t)

LEMMA QuietSteps ==
    ASSUME NEW t \in Threads, QuietStep(t)
    PROVE  Quiet
<1>1. CASE MemPiece(t)
  <2>1. UNCHANGED <<rec, lru, resident, fl, flcap, file_end, lost, fresh, dying>>
    BY <1>1 DEF MemPiece, space, lock
  <2>2. heap' = heap \/ \E x : heap' = [heap EXCEPT ![place[t].mem] = x]
    BY <1>1 DEF MemPiece
  <2> QED
    BY <2>1, <2>2 DEF Quiet
<1>2. CASE ReadPiece(t)
  BY <1>2 DEF ReadPiece, Quiet, memory, space, lock
<1>3. CASE Bounce(t)
  BY <1>3 DEF Bounce, Quiet, memory, space, lock
<1>4. CASE WritePiece(t)
  BY <1>4 DEF WritePiece, Quiet, memory, space, lock
<1>5. CASE PieceFails(t)
  BY <1>5 DEF PieceFails, Quiet, memory, space, lock
<1>6. CASE Transferred(t)
  BY <1>6 DEF Transferred, Quiet, memory, space, lock
<1>7. CASE Cap(t)
  BY <1>7 DEF Cap, Quiet, memory, space
<1>8. CASE Evict(t)
  BY <1>8 DEF Evict, Quiet, memory, space
<1>9. CASE NoFit(t)
  BY <1>9 DEF NoFit, Quiet, memory, space
<1>10. CASE SpillFails(t)
  BY <1>10 DEF SpillFails, Quiet, memory, space
<1>11. CASE Backed(t)
  BY <1>11 DEF Backed, Quiet, memory, space, lock
<1>12. CASE Freed(t)
  BY <1>12 DEF Freed, Quiet, memory, space
<1> QED
  BY <1>1, <1>2, <1>3, <1>4, <1>5, <1>6, <1>7, <1>8, <1>9, <1>10, <1>11, <1>12 DEF QuietStep

\* The buffer realloc returns is the record's, or nobody's.
LEMMA FreshBufferProps ==
    ASSUME IsFiniteSet(DOMAIN heap)
    PROVE  FreshBuffer \in Nat \ {0} /\ FreshBuffer \notin DOMAIN heap
<1> DEFINE n == Cardinality(DOMAIN heap)
           S == {b \in 1 .. (n + 1) : b \notin DOMAIN heap}
<1>1. n \in Nat
  BY FS_CardinalityType
<1>2. S # {}
  BY FreshExists
<1> HIDE DEF n
<1>3. S \in SUBSET Nat
  BY <1>1
<1>4. Min(S) \in S
  <2> HIDE DEF S
  <2> QED
    BY <1>2, <1>3, MinProps
<1>5. FreshBuffer = Min(S)
  BY DEF FreshBuffer, n
<1>6. \A b \in S : b \in Nat \ {0} /\ b \notin DOMAIN heap
  BY <1>1
<1> HIDE DEF S
<1> QED
  BY <1>4, <1>5, <1>6

LEMMA HeapFinite ==
    ASSUME Types, Memory
    PROVE  IsFiniteSet(DOMAIN heap)
<1>1. IsFiniteSet(Resident)
  BY FS_Subset DEF Types, Resident
<1> DEFINE f == [k \in Resident |-> rec[k].mem]
<1>2. DOMAIN heap = {f[k] : k \in Resident}
  BY DEF Memory
<1>3. f \in Surjection(Resident, DOMAIN heap)
  BY <1>2, Zenon DEF Surjection
<1> QED
  BY <1>1, <1>3, FS_Surjection

LEMMA FitEffect ==
    ASSUME Types, Control, Memory, NEW t \in Threads, Fit(t)
    PROVE  /\ pc[t] = "fit" /\ Key(t) \in DOMAIN rec
           /\ \E b \in Nat \ {0} :
                /\ b \notin DOMAIN heap \/ b = rec[Key(t)].mem
                /\ Sets(Key(t), [rec[Key(t)] EXCEPT !.mem = b, !.mem_cap = Need(t)])
                /\ LET old == IF rec[Key(t)].mem # NULL THEN heap[rec[Key(t)].mem] ELSE << >>
                   IN  heap' = Bind(Without(heap, rec[Key(t)].mem), b,
                                    old \o Zeros(Need(t) - Len(old)))
<1>0. pc[t] = "fit" /\ pc[t] # "idle" /\ pc[t] # "free"
  BY DEF Fit
<1>1. PICK k, r, n : k = Key(t) /\ r = rec[k] /\ n = Need(t)
  OBVIOUS
<1>2. k \in DOMAIN rec /\ r \in Record /\ n \in Nat /\ DOMAIN rec \subseteq Keys
  BY <1>0, <1>1, NotErasing, Caught DEF Types
<1>3. PICK old : old = IF r.mem # NULL THEN heap[r.mem] ELSE << >>
  OBVIOUS
<1>4. PICK b \in {FreshBuffer} \cup ({r.mem} \ {NULL}) :
             /\ heap' = Bind(Without(heap, r.mem), b, old \o Zeros(n - Len(old)))
             /\ rec' = [rec EXCEPT ![k].mem = b, ![k].mem_cap = n]
  BY <1>1, <1>3 DEF Fit
<1>5. FreshBuffer \in Nat \ {0} /\ FreshBuffer \notin DOMAIN heap
  BY HeapFinite, FreshBufferProps
<1>6. b \in Nat \ {0} /\ (b \notin DOMAIN heap \/ b = r.mem)
  BY <1>2, <1>4, <1>5, RecordFields DEF NULL
<1>7. PICK q : q = [r EXCEPT !.mem = b, !.mem_cap = n]
  OBVIOUS
<1>8. rec' = [rec EXCEPT ![k] = q]
  BY <1>1, <1>2, <1>4, <1>7
<1>9. Sets(k, q)
  BY <1>2, <1>8, SetsExcept
<1> QED
  BY <1>0, <1>1, <1>2, <1>3, <1>4, <1>6, <1>7, <1>9

LEMMA ZeroEffect ==
    ASSUME Types, Control, Holding, Space, NEW t \in Threads, Zero(t)
    PROVE  /\ pc[t] = "zero" /\ call[t].op # "erase"
           /\ Grown(t) \in DOMAIN rec /\ fresh[1] \in Extent /\ Len(fresh) = 1
           /\ LET r == rec[Grown(t)]
              IN  Sets(Grown(t), [r EXCEPT !.ext = Append(r.ext, fresh[1]),
                                           !.ext_total = r.ext_total + fresh[1].len])
<1>0. pc[t] = "zero" /\ pc[t] # "idle" /\ pc[t] # "free"
  BY DEF Zero
<1>1. call[t].op # "erase" /\ Key(t) \in DOMAIN rec
  BY <1>0, NotErasing, Caught
<1>2. Grown(t) \in DOMAIN rec
  BY <1>1 DEF Grown, Holding
<1>3. fresh # << >> /\ fresh \in Seq(Extent) /\ Len(fresh) <= 1
  BY <1>0 DEF Holding, Space
<1>4. fresh[1] \in Extent /\ Len(fresh) = 1
  <2>1. PICK n : n = Len(fresh)
    OBVIOUS
  <2>2. n \in Nat /\ n # 0
    BY <1>3, <2>1, EmptySeq
  <2>3. n <= 1
    BY <1>3, <2>1
  <2>4. n = 1
    BY ONLY <2>2, <2>3
  <2> QED
    BY <1>3, <2>1, <2>4
<1>5. PICK k, r, e : k = Grown(t) /\ r = rec[k] /\ e = fresh[1]
  OBVIOUS
<1>6. rec' = [rec EXCEPT ![k].ext = Append(@, e), ![k].ext_total = @ + e.len]
  BY <1>5 DEF Zero
<1>7. k \in DOMAIN rec /\ r \in Record /\ DOMAIN rec \subseteq Keys
  BY <1>2, <1>5 DEF Types
<1>8. PICK q : q = [r EXCEPT !.ext = Append(r.ext, e), !.ext_total = r.ext_total + e.len]
  OBVIOUS
<1>9. rec' = [rec EXCEPT ![k] = q]
  <2>1. rec' = [[rec EXCEPT ![k] = [rec[k] EXCEPT !.ext = Append(rec[k].ext, e)]]
                  EXCEPT ![k].ext_total = @ + e.len]
    BY <1>6
  <2>2. PICK x, y : x = Append(r.ext, e) /\ y = [r EXCEPT !.ext = x]
    OBVIOUS
  <2>3. rec' = [[rec EXCEPT ![k] = y] EXCEPT ![k] = [y EXCEPT !.ext_total = y.ext_total + e.len]]
    BY <1>5, <1>7, <2>1, <2>2
  <2>4. y.ext_total = r.ext_total
    BY <1>7, <2>2 DEF Record
  <2>5. q = [y EXCEPT !.ext_total = y.ext_total + e.len]
    BY <1>7, <1>8, <2>2, <2>4 DEF Record
  <2> QED
    BY <1>7, <2>3, <2>5
<1>10. Sets(k, q)
  BY <1>7, <1>9, SetsExcept
<1> QED
  BY <1>0, <1>1, <1>2, <1>4, <1>5, <1>8, <1>10

LEMMA SpillEffect ==
    ASSUME Types, Control, Holding, NEW t \in Threads, Spill(t)
    PROVE  /\ pc[t] = "extents" /\ call[t].op # "erase" /\ lk = t
           /\ vic \in DOMAIN rec /\ rec[vic].mem # NULL
           /\ rec[vic].size <= rec[vic].ext_total
           /\ Sets(vic, [rec[vic] EXCEPT !.mem = NULL, !.mem_cap = 0])
<1>0. pc[t] = "extents" /\ pc[t] # "idle" /\ pc[t] # "free" /\ vic # NoKey /\ Deficit(t) <= 0
  BY DEF Spill
<1>1. call[t].op # "erase"
  BY <1>0, NotErasing
<1>2. vic \in DOMAIN rec /\ rec[vic].mem # NULL
  BY <1>0 DEF Holding
<1>3. rec' = [rec EXCEPT ![vic] = Spilled(rec[vic])]
  BY DEF Spill
<1>4. Sets(vic, Spilled(rec[vic]))
  BY <1>2, <1>3, SetsExcept DEF Types
<1>5. rec[vic].size <= rec[vic].ext_total
  BY <1>0, <1>2, RecordFields DEF Deficit, Wanted, Grown, Types
<1>6. lk = t
  BY <1>0 DEF Control, Locked
<1> QED
  BY <1>0, <1>1, <1>2, <1>4, <1>5, <1>6 DEF Spilled

LEMMA NewSizeProps ==
    ASSUME NEW r \in Record, NEW n \in Nat
    PROVE  NewSize(r, n) \in Nat /\ NewSize(r, n) >= r.size /\ NewSize(r, n) >= n
           /\ NewSize(r, n) \in {r.size, n}
<1>1. PICK s : s = r.size
  OBVIOUS
<1>2. s \in Nat
  BY <1>1, RecordFields
<1>3. Max({s, n}) = IF s >= n THEN s ELSE n
  BY <1>2, MaxOfTwo
<1> QED
  BY <1>1, <1>2, <1>3 DEF NewSize

LEMMA ReadyEffect ==
    ASSUME Types, Control, NEW t \in Threads, Ready(t)
    PROVE  /\ pc[t] = "ready" /\ Key(t) \in DOMAIN rec
           /\ LET r == rec[Key(t)]
              IN  Sets(Key(t), [r EXCEPT !.size = NewSize(r, Need(t)), !.busy = r.busy + 1])
<1>0. pc[t] = "ready" /\ pc[t] # "idle" /\ pc[t] # "free"
  BY DEF Ready
<1>1. PICK k, r, n : k = Key(t) /\ r = rec[k] /\ n = NewSize(r, Need(t))
  OBVIOUS
<1>2. k \in DOMAIN rec /\ r \in Record /\ DOMAIN rec \subseteq Keys
  BY <1>0, <1>1, NotErasing, Caught DEF Types
<1>3. rec' = [rec EXCEPT ![k] = [r EXCEPT !.size = n, !.busy = @ + 1]]
  BY <1>1 DEF Ready, Launch, Key
<1>4. PICK q : q = [r EXCEPT !.size = n, !.busy = r.busy + 1]
  OBVIOUS
<1>5. rec' = [rec EXCEPT ![k] = q]
  BY <1>2, <1>3, <1>4 DEF Record
<1>6. Sets(k, q)
  BY <1>2, <1>5, SetsExcept
<1> QED
  BY <1>0, <1>1, <1>2, <1>4, <1>6

LEMMA ReservedEffect ==
    ASSUME Types, Control, NEW t \in Threads, Reserved(t)
    PROVE  /\ pc[t] = "ready" /\ Key(t) \in DOMAIN rec
           /\ LET r == rec[Key(t)]
              IN  Sets(Key(t), [r EXCEPT !.size = NewSize(r, Need(t))])
<1>0. pc[t] = "ready" /\ pc[t] # "idle" /\ pc[t] # "free"
  BY DEF Reserved
<1>1. PICK k, r, n : k = Key(t) /\ r = rec[k] /\ n = NewSize(r, Need(t))
  OBVIOUS
<1>2. k \in DOMAIN rec /\ r \in Record /\ DOMAIN rec \subseteq Keys
  BY <1>0, <1>1, NotErasing, Caught DEF Types
<1>3. rec' = [rec EXCEPT ![k].size = n]
  BY <1>1 DEF Reserved
<1>4. PICK q : q = [r EXCEPT !.size = n]
  OBVIOUS
<1>5. rec' = [rec EXCEPT ![k] = q]
  BY <1>1, <1>2, <1>3, <1>4
<1>6. Sets(k, q)
  BY <1>2, <1>5, SetsExcept
<1> QED
  BY <1>0, <1>1, <1>2, <1>4, <1>6

\* A thread that leaves is one of those that were counted.
LEMMA LeaveEffect ==
    ASSUME Types, Control, Counts, NEW t \in Threads, Leave(t)
    PROVE  /\ pc[t] = "fin" /\ Key(t) \in DOMAIN rec /\ rec[Key(t)].busy \in Nat \ {0}
           /\ LET r == rec[Key(t)]
              IN  Sets(Key(t), [r EXCEPT !.busy = r.busy - 1])
<1>0. pc[t] = "fin" /\ pc[t] # "idle" /\ pc[t] # "free"
  BY DEF Leave
<1>1. PICK k, r : k = Key(t) /\ r = rec[k]
  OBVIOUS
<1>2. k \in DOMAIN rec /\ r \in Record /\ DOMAIN rec \subseteq Keys
  BY <1>0, <1>1, NotErasing, Caught DEF Types
<1>3. rec' = [rec EXCEPT ![k].busy = r.busy - 1]
  BY <1>1 DEF Leave
<1>4. PICK q : q = [r EXCEPT !.busy = r.busy - 1]
  OBVIOUS
<1>5. rec' = [rec EXCEPT ![k] = q]
  BY <1>1, <1>2, <1>3, <1>4
<1>6. Sets(k, q)
  BY <1>2, <1>5, SetsExcept
<1>7. r.busy \in Nat \ {0}
  <2>1. Movers(k) \in SUBSET Threads /\ t \in Movers(k)
    BY <1>0, <1>1 DEF Movers, Moving
  <2>2. IsFiniteSet(Movers(k))
    BY <2>1, CallsAssumption, FS_Subset
  <2>3. Cardinality(Movers(k)) # 0
    BY <2>1, <2>2, FS_EmptySet
  <2> QED
    BY <1>1, <1>2, <2>3, RecordFields DEF Counts
<1> QED
  BY <1>0, <1>1, <1>2, <1>4, <1>6, <1>7

-----------------------------------------------------------------------------
(* Every part of the invariant, one step on.                               *)

Safe == Types /\ Control /\ Holding /\ Space /\ Rooms /\ Memory /\ Counts /\ Appends

\* The steps again, by what they do.
LEMMA StepCases ==
    ASSUME NEW t \in Threads, Step(t)
    PROVE  \/ \E c \in Calls : c.op = "read" /\ StartRead(t, c)
           \/ \E c \in Calls : c.op \notin {"read", "erase"} /\ StartGrow(t, Resolve(c))
           \/ \E c \in Calls : ls_erase(t, c)
           \/ QuietStep(t) \/ Leave(t) \/ Fit(t) \/ Alloc(t) \/ Zero(t) \/ ZeroFails(t)
           \/ Spill(t) \/ Free(t) \/ Ready(t) \/ Reserved(t)
  BY DEF Step, QuietStep

LEMMA RecSame ==
    ASSUME NEW t \in Threads, QuietStep(t) \/ Alloc(t) \/ ZeroFails(t) \/ Free(t)
    PROVE  rec' = rec
<1>1. CASE QuietStep(t)
  BY <1>1, QuietSteps DEF Quiet
<1>2. CASE Alloc(t)
  BY <1>2 DEF Alloc
<1>3. CASE ZeroFails(t)
  BY <1>3 DEF ZeroFails
<1>4. CASE Free(t)
  BY <1>4 DEF Free
<1> QED
  BY <1>1, <1>2, <1>3, <1>4

RecTypes ==
    /\ DOMAIN rec \subseteq Keys
    /\ IsFiniteSet(DOMAIN rec)
    /\ \A k \in DOMAIN rec : rec[k] \in Record

LEMMA SetsTyped ==
    ASSUME RecTypes, NEW k, NEW r \in Record, Sets(k, r)
    PROVE  RecTypes'
<1>1. IsFiniteSet(DOMAIN rec \cup {k})
  BY FS_AddElement DEF RecTypes
<1> QED
  BY <1>1 DEF RecTypes, Sets

LEMMA DropsTyped ==
    ASSUME RecTypes, NEW k, Drops(k)
    PROVE  RecTypes'
<1>1. IsFiniteSet(DOMAIN rec \ {k})
  BY FS_RemoveElement DEF RecTypes
<1> QED
  BY <1>1 DEF RecTypes, Drops

LEMMA RecTypesStep ==
    ASSUME Safe, NEW t \in Threads, Step(t)
    PROVE  RecTypes'
<1>0. Types /\ Control /\ Holding /\ Space /\ Memory /\ Counts /\ RecTypes
  BY DEF Safe, Types, RecTypes
<1>r. \A k \in DOMAIN rec : rec[k] \in Record
  BY <1>0 DEF RecTypes
<1>1. ASSUME NEW c \in Calls, c.op = "read", StartRead(t, c)
      PROVE  RecTypes'
  <2>1. c.key \in DOMAIN rec /\ Sets(c.key, [rec[c.key] EXCEPT !.busy = @ + 1])
    BY <1>0, <1>1, StartReadShape
  <2>2. [rec[c.key] EXCEPT !.busy = @ + 1] \in Record
    BY <1>r, <2>1 DEF Record
  <2> QED
    BY <1>0, <2>1, <2>2, SetsTyped
<1>2. ASSUME NEW c \in Calls, c.op \notin {"read", "erase"}, StartGrow(t, Resolve(c))
      PROVE  RecTypes'
  <2>1. IF c.key \in DOMAIN rec THEN UNCHANGED rec ELSE Sets(c.key, NewRec)
    BY <1>0, <1>2, StartGrowShape
  <2>2. NewRec \in Record
    BY DEF NewRec, Record, NULL
  <2> QED
    BY <1>0, <2>1, <2>2, SetsTyped DEF RecTypes
<1>3. ASSUME NEW c \in Calls, ls_erase(t, c)
      PROVE  RecTypes'
  BY <1>0, <1>3, EraseShape, DropsTyped
<1>4. CASE QuietStep(t) \/ Alloc(t) \/ ZeroFails(t) \/ Free(t)
  BY <1>0, <1>4, RecSame DEF RecTypes
<1>5. CASE Leave(t)
  <2>1. PICK k, r : k = Key(t) /\ r = rec[k]
    OBVIOUS
  <2>2. k \in DOMAIN rec /\ r.busy \in Nat \ {0} /\ Sets(k, [r EXCEPT !.busy = r.busy - 1])
    BY <1>0, <1>5, <2>1, LeaveEffect
  <2>3. [r EXCEPT !.busy = r.busy - 1] \in Record
    BY <1>r, <2>1, <2>2 DEF Record
  <2> QED
    BY <1>0, <2>2, <2>3, SetsTyped
<1>6. CASE Fit(t)
  <2>1. PICK k, r, n : k = Key(t) /\ r = rec[k] /\ n = Need(t)
    OBVIOUS
  <2>2. pc[t] = "fit" /\ k \in DOMAIN rec /\ n \in Nat
    BY <1>0, <1>6, <2>1, NotErasing, Caught DEF Fit
  <2>3. PICK b \in Nat \ {0} : Sets(k, [r EXCEPT !.mem = b, !.mem_cap = n])
    BY <1>0, <1>6, <2>1, FitEffect
  <2>4. [r EXCEPT !.mem = b, !.mem_cap = n] \in Record
    BY <1>r, <2>1, <2>2 DEF Record
  <2> QED
    BY <1>0, <2>3, <2>4, SetsTyped
<1>7. CASE Zero(t)
  <2>1. PICK k, r, e : k = Grown(t) /\ r = rec[k] /\ e = fresh[1]
    OBVIOUS
  <2>2. k \in DOMAIN rec /\ e \in Extent
        /\ Sets(k, [r EXCEPT !.ext = Append(r.ext, e), !.ext_total = r.ext_total + e.len])
    BY <1>0, <1>7, <2>1, ZeroEffect
  <2>3. r \in Record /\ Append(r.ext, e) \in Seq(Extent) /\ r.ext_total + e.len \in Nat
    BY <1>r, <2>1, <2>2, RecordFields DEF Extent
  <2>4. [r EXCEPT !.ext = Append(r.ext, e), !.ext_total = r.ext_total + e.len] \in Record
    BY <2>3 DEF Record
  <2> QED
    BY <1>0, <2>2, <2>4, SetsTyped
<1>8. CASE Spill(t)
  <2>1. PICK k, r : k = vic /\ r = rec[k]
    OBVIOUS
  <2>2. k \in DOMAIN rec /\ Sets(k, [r EXCEPT !.mem = NULL, !.mem_cap = 0])
    BY <1>0, <1>8, <2>1, SpillEffect
  <2>3. [r EXCEPT !.mem = NULL, !.mem_cap = 0] \in Record
    BY <1>r, <2>1, <2>2 DEF Record, NULL
  <2> QED
    BY <1>0, <2>2, <2>3, SetsTyped
<1>9. CASE Ready(t)
  <2>1. PICK k, r, n : k = Key(t) /\ r = rec[k] /\ n = NewSize(r, Need(t))
    OBVIOUS
  <2>2. k \in DOMAIN rec /\ Sets(k, [r EXCEPT !.size = n, !.busy = r.busy + 1])
    BY <1>0, <1>9, <2>1, ReadyEffect
  <2>3. r \in Record /\ n \in Nat
    BY <1>0, <1>9, <2>1, NotErasing, Caught, NewSizeProps DEF Ready
  <2>4. [r EXCEPT !.size = n, !.busy = r.busy + 1] \in Record
    <3>1. PICK m : m = r.busy + 1
      OBVIOUS
    <3>2. m \in Nat
      BY <2>3, <3>1, RecordFields
    <3>3. [r EXCEPT !.size = n, !.busy = m] \in Record
      BY <2>3, <3>2 DEF Record
    <3> QED
      BY <3>1, <3>3
  <2> QED
    BY <1>0, <2>2, <2>4, SetsTyped
<1>10. CASE Reserved(t)
  <2>1. PICK k, r, n : k = Key(t) /\ r = rec[k] /\ n = NewSize(r, Need(t))
    OBVIOUS
  <2>2. k \in DOMAIN rec /\ Sets(k, [r EXCEPT !.size = n])
    BY <1>0, <1>10, <2>1, ReservedEffect
  <2>3. r \in Record /\ n \in Nat
    BY <1>0, <1>10, <2>1, NotErasing, Caught, NewSizeProps DEF Reserved
  <2>4. [r EXCEPT !.size = n] \in Record
    BY <2>3 DEF Record
  <2> QED
    BY <1>0, <2>2, <2>4, SetsTyped
<1> QED
  BY <1>1, <1>2, <1>3, <1>4, <1>5, <1>6, <1>7, <1>8, <1>9, <1>10, StepCases

\* A step that is not the beginning of a call moves its thread one way or
\* another; the beginning of a call puts it where the call starts.
Shape(t) ==
    \/ Stays
    \/ \E w \in Locked : Moves(t, w) /\ (call[t].op = "erase" => w = "free")
    \/ Returns(t) \/ Departs(t) \/ Ends(t) \/ Leaves(t)
    \/ \E c \in Call, w \in {"cap", "free", "io"} : Enters(t, c, w)

LEMMA StepShape ==
    ASSUME Types, Control, Holding, NEW t \in Threads, Step(t)
    PROVE  Shape(t)
<1>1. ASSUME NEW c \in Calls, c.op = "read", StartRead(t, c)
      PROVE  Shape(t)
  <2>1. Enters(t, c, "io") /\ c \in Call
    BY <1>1, StartReadShape, ResolveProps
  <2> QED
    BY <2>1 DEF Shape
<1>2. ASSUME NEW c \in Calls, c.op \notin {"read", "erase"}, StartGrow(t, Resolve(c))
      PROVE  Shape(t)
  <2>1. Enters(t, Resolve(c), "cap") /\ Resolve(c) \in Call
    BY <1>2, StartGrowShape, ResolveProps
  <2> QED
    BY <2>1 DEF Shape
<1>3. ASSUME NEW c \in Calls, ls_erase(t, c)
      PROVE  Shape(t)
  <2>1. Enters(t, c, "free") /\ c \in Call
    BY <1>3, EraseShape, ResolveProps
  <2> QED
    BY <2>1 DEF Shape
<1>4. CASE \/ Cap(t) \/ Evict(t) \/ Fit(t) \/ NoFit(t)
           \/ Alloc(t) \/ Zero(t) \/ ZeroFails(t)
           \/ Spill(t) \/ SpillFails(t) \/ Backed(t)
           \/ Free(t) \/ Freed(t)
           \/ Ready(t) \/ Reserved(t)
  BY <1>4, HolderShape DEF Shape
<1>5. CASE \/ MemPiece(t) \/ ReadPiece(t) \/ Bounce(t) \/ WritePiece(t) \/ PieceFails(t)
           \/ Transferred(t) \/ Leave(t)
  BY <1>5, MoverShape DEF Shape
<1> QED
  BY <1>1, <1>2, <1>3, <1>4, <1>5 DEF Step

\* Records come, and only an erase takes one away.
LEMMA StepRecords ==
    ASSUME Safe, NEW t \in Threads, Step(t)
    PROVE  \A k \in DOMAIN rec : k \notin DOMAIN rec' =>
               \A u \in Threads : Active(u) => call[u].key # k
<1>0. Types /\ Control /\ Holding /\ Space /\ Memory /\ Counts
  BY DEF Safe
<1> DEFINE Stay == DOMAIN rec \subseteq DOMAIN rec'
<1>1. ASSUME NEW c \in Calls, c.op = "read", StartRead(t, c)
      PROVE  Stay
  BY <1>0, <1>1, StartReadShape DEF Sets
<1>2. ASSUME NEW c \in Calls, c.op \notin {"read", "erase"}, StartGrow(t, Resolve(c))
      PROVE  Stay
  <2>1. IF c.key \in DOMAIN rec THEN UNCHANGED rec ELSE Sets(c.key, NewRec)
    BY <1>0, <1>2, StartGrowShape
  <2> QED
    BY <2>1 DEF Sets
<1>3. ASSUME NEW c \in Calls, ls_erase(t, c)
      PROVE  \A k \in DOMAIN rec : k \notin DOMAIN rec' =>
                 \A u \in Threads : Active(u) => call[u].key # k
  BY <1>0, <1>3, EraseShape DEF Drops
<1>4. CASE QuietStep(t) \/ Alloc(t) \/ ZeroFails(t) \/ Free(t)
  BY <1>4, RecSame
<1>5. CASE Leave(t)
  BY <1>0, <1>5, LeaveEffect DEF Sets
<1>6. CASE Fit(t)
  BY <1>0, <1>6, FitEffect DEF Sets
<1>7. CASE Zero(t)
  BY <1>0, <1>7, ZeroEffect DEF Sets
<1>8. CASE Spill(t)
  BY <1>0, <1>8, SpillEffect DEF Sets
<1>9. CASE Ready(t)
  BY <1>0, <1>9, ReadyEffect DEF Sets
<1>10. CASE Reserved(t)
  BY <1>0, <1>10, ReservedEffect DEF Sets
<1> QED
  BY <1>1, <1>2, <1>3, <1>4, <1>5, <1>6, <1>7, <1>8, <1>9, <1>10, StepCases

LEMMA ControlNext ==
    ASSUME Safe, NEW t \in Threads, Step(t), UNCHANGED setting
    PROVE  Control'
<1>0. Types /\ Control /\ Holding
  BY DEF Safe
<1>1. Shape(t)
  BY <1>0, StepShape
<1>2. \/ Stays
      \/ \E w \in Locked : Moves(t, w) /\ (call[t].op = "erase" => w = "free")
      \/ Returns(t) \/ Departs(t) \/ Ends(t) \/ Leaves(t)
      \/ \E c \in Call, w \in {"cap", "free", "io"} :
                /\ Begins(t, c, w)
                /\ IF c.op = "erase" THEN w = "free" ELSE c.key \in DOMAIN rec'
  BY <1>1 DEF Shape, Enters
<1> QED
  BY <1>0, <1>2, ControlStep, StepRecords

\* What is left of the types.
LEMMA VicStep ==
    ASSUME Types, Control, Holding, Memory, NEW t \in Threads, Step(t)
    PROVE  vic' \in Keys \cup {NoKey}
<1>0. vic \in Keys \cup {NoKey}
  BY DEF Types
<1>1. CASE Cap(t) \/ NoFit(t)
  <2>1. pc[t] \in {"cap", "fit"} /\ Key(t) \in Keys
    BY <1>1, NotErasing, Caught DEF Cap, NoFit
  <2>2. vic' \in {vic, Key(t), NoKey}
    BY <1>1 DEF Cap, NoFit, ToExtents
  <2> QED
    BY <1>0, <2>1, <2>2
<1>2. CASE Evict(t)
  <2>1. CASE vic' = NoKey
    BY <2>1
  <2>2. CASE Victims(Key(t)) # {} /\ vic' = lru[Max(Victims(Key(t)))]
    <3>1. lru \in Seq(Keys)
      BY DEF Memory
    <3>2. Victims(Key(t)) \in SUBSET (1 .. Len(lru)) /\ Len(lru) \in Nat
      BY <3>1 DEF Victims
    <3>3. PICK S : S = Victims(Key(t))
      OBVIOUS
    <3>4. S \in SUBSET Nat /\ S # {} /\ \A y \in S : y <= Len(lru)
      BY <2>2, <3>2, <3>3
    <3>5. Max(S) \in S
      BY <3>2, <3>4, MaxProps
    <3>6. Max(S) \in 1 .. Len(lru)
      BY <3>2, <3>3, <3>5
    <3> QED
      BY <2>2, <3>1, <3>3, <3>6
  <2> QED
    BY <1>2, <2>1, <2>2 DEF Evict
<1>3. CASE SpillFails(t) \/ Freed(t)
  BY <1>3 DEF SpillFails, Freed, Fail
<1>4. CASE Spill(t)
  BY <1>4 DEF Spill
<1>5. CASE UNCHANGED vic
  BY <1>0, <1>5
<1>6. ASSUME ~(Cap(t) \/ NoFit(t) \/ Evict(t) \/ SpillFails(t) \/ Freed(t) \/ Spill(t))
      PROVE  UNCHANGED vic
  <2>1. CASE \E c \in Calls : StartRead(t, c) \/ StartGrow(t, Resolve(c)) \/ ls_erase(t, c)
    BY <2>1 DEF StartRead, StartGrow, ls_erase
  <2>2. CASE MemPiece(t) \/ ReadPiece(t) \/ Bounce(t) \/ WritePiece(t) \/ PieceFails(t)
    BY <2>2 DEF MemPiece, ReadPiece, Bounce, WritePiece, PieceFails, lock
  <2>3. CASE Transferred(t) \/ Leave(t) \/ Fit(t) \/ Alloc(t) \/ Zero(t) \/ ZeroFails(t)
             \/ Backed(t) \/ Free(t)
    BY <2>3 DEF Transferred, Leave, Fit, Alloc, Zero, ZeroFails, Backed, Free, lock
  <2>4. CASE Ready(t) \/ Reserved(t)
    BY <2>4 DEF Ready, Reserved
  <2> QED
    BY <1>6, <2>1, <2>2, <2>3, <2>4 DEF Step
<1> QED
  BY <1>1, <1>2, <1>3, <1>4, <1>5, <1>6

LEMMA ThreadStep ==
    ASSUME Types, NEW t \in Threads, Step(t)
    PROVE  /\ rc' \in [Threads -> {"LS_OK", "EIO"}]
           /\ DOMAIN place' = Threads /\ DOMAIN todo' = Threads
<1>0. rc \in [Threads -> {"LS_OK", "EIO"}] /\ DOMAIN place = Threads /\ DOMAIN todo = Threads
  BY DEF Types
<1>1. CASE \E c \in Calls : StartRead(t, c) \/ StartGrow(t, Resolve(c)) \/ ls_erase(t, c)
  BY <1>0, <1>1 DEF StartRead, StartGrow, ls_erase, Launch
<1>2. CASE MemPiece(t) \/ Bounce(t) \/ WritePiece(t) \/ PieceFails(t)
  BY <1>0, <1>2 DEF MemPiece, Bounce, WritePiece, PieceFails
<1>3. CASE ReadPiece(t)
  <2>1. UNCHANGED place
    BY <1>3 DEF ReadPiece
  <2>2. /\ rc' = rc \/ rc' = [rc EXCEPT ![t] = "EIO"]
        /\ todo' = [todo EXCEPT ![t] = Tail(@)] \/ todo' = [todo EXCEPT ![t] = << >>]
    BY <1>3 DEF ReadPiece
  <2> QED
    BY <1>0, <2>1, <2>2
<1>4. CASE Transferred(t) \/ Leave(t) \/ Fit(t) \/ Alloc(t) \/ Zero(t) \/ ZeroFails(t)
           \/ Backed(t) \/ Free(t) \/ Cap(t) \/ Evict(t) \/ NoFit(t) \/ Spill(t)
  BY <1>0, <1>4 DEF Transferred, Leave, Fit, Alloc, Zero, ZeroFails, Backed, Free,
                    Cap, Evict, NoFit, Spill, thread
<1>5. CASE Ready(t) \/ Reserved(t) \/ SpillFails(t) \/ Freed(t)
  BY <1>0, <1>5 DEF Ready, Reserved, SpillFails, Freed, Launch
<1> QED
  BY <1>1, <1>2, <1>3, <1>4, <1>5 DEF Step

LEMMA TypesNext ==
    ASSUME Safe, NEW t \in Threads, Step(t), UNCHANGED setting
    PROVE  Types'
<1>0. Types /\ Control /\ Holding /\ Memory
  BY DEF Safe
<1>1. RecTypes' /\ vic' \in Keys \cup {NoKey}
      /\ rc' \in [Threads -> {"LS_OK", "EIO"}]
      /\ DOMAIN place' = Threads /\ DOMAIN todo' = Threads
  BY <1>0, RecTypesStep, VicStep, ThreadStep
<1>2. Shape(t) /\ pc \in [Threads -> Where] /\ DOMAIN call = Threads
      /\ lk \in Threads \cup {NoThread} /\ setting' \in DOMAIN Settings
  BY <1>0, StepShape DEF Types
<1>3. Locked \subseteq Where /\ {"idle", "io", "fin", "cap", "free"} \subseteq Where
  BY DEF Where, Locked, Moving
<1>4. pc' \in [Threads -> Where] /\ DOMAIN call' = Threads /\ lk' \in Threads \cup {NoThread}
  <2>1. CASE Stays
    BY <1>2, <2>1 DEF Stays
  <2>2. CASE \E w \in Locked : Moves(t, w)
    BY <1>2, <1>3, <2>2 DEF Moves
  <2>3. CASE Returns(t) \/ Departs(t) \/ Ends(t) \/ Leaves(t)
    BY <1>2, <1>3, <2>3 DEF Returns, Departs, Ends, Leaves
  <2>4. CASE \E c \in Call, w \in {"cap", "free", "io"} : Enters(t, c, w)
    BY <1>2, <1>3, <2>4 DEF Enters, Begins
  <2> QED
    BY <1>2, <2>1, <2>2, <2>3, <2>4 DEF Shape
<1> QED
  BY <1>1, <1>2, <1>4 DEF Types, RecTypes

-----------------------------------------------------------------------------
(* busy counts the calls that are moving bytes.                            *)

LEMMA MoversFinite ==
    ASSUME NEW k
    PROVE  IsFiniteSet(Movers(k)) /\ Cardinality(Movers(k)) \in Nat
<1>1. Movers(k) \in SUBSET Threads
  BY DEF Movers
<1>2. IsFiniteSet(Movers(k))
  BY <1>1, CallsAssumption, FS_Subset
<1> QED
  BY <1>2, FS_CardinalityType

LEMMA MoversSame ==
    ASSUME Types, Control, NEW t \in Threads,
           \/ Stays
           \/ \E w \in Locked : Moves(t, w)
           \/ Returns(t) \/ Ends(t)
           \/ \E c \in Call, w \in {"cap", "free"} : Enters(t, c, w)
    PROVE  \A k : Movers(k)' = Movers(k)
<1>0. pc \in [Threads -> Where] /\ DOMAIN call = Threads
  BY DEF Types
<1>1. \A w \in Locked : w \notin Moving
  BY DEF Locked, Moving
<1> SUFFICES ASSUME NEW u \in Threads
             PROVE  /\ pc'[u] \in Moving <=> pc[u] \in Moving
                    /\ pc[u] \in Moving => call'[u] = call[u]
  BY DEF Movers, Key
<1>2. CASE Stays
  BY <1>2 DEF Stays
<1>3. CASE \E w \in Locked : Moves(t, w)
  BY <1>0, <1>1, <1>3 DEF Moves
<1>4. CASE Returns(t)
  BY <1>0, <1>1, <1>4 DEF Returns, Moving
<1>5. CASE Ends(t)
  BY <1>0, <1>5 DEF Ends, Moving
<1>6. CASE \E c \in Call, w \in {"cap", "free"} : Enters(t, c, w)
  BY <1>0, <1>6 DEF Enters, Begins, Moving
<1> QED
  BY <1>2, <1>3, <1>4, <1>5, <1>6

\* One more call on k, and one fewer.
LEMMA MoversJoin ==
    ASSUME Types, NEW t \in Threads, NEW k, pc[t] \notin Moving,
           pc' = [pc EXCEPT ![t] = "io"], DOMAIN call' = Threads, call'[t].key = k,
           \A u \in Threads \ {t} : call'[u] = call[u]
    PROVE  /\ Cardinality(Movers(k)') = Cardinality(Movers(k)) + 1
           /\ \A j : j # k => Movers(j)' = Movers(j)
<1>0. pc \in [Threads -> Where]
  BY DEF Types
<1>1. t \notin Movers(k) /\ Movers(k)' = Movers(k) \cup {t}
  BY <1>0 DEF Movers, Key, Moving
<1>2. \A j : j # k => Movers(j)' = Movers(j)
  BY <1>0 DEF Movers, Key, Moving
<1>3. Cardinality(Movers(k) \cup {t}) = Cardinality(Movers(k)) + 1
  BY <1>1, MoversFinite, FS_AddElement
<1> QED
  BY <1>1, <1>2, <1>3

LEMMA MoversPart ==
    ASSUME Types, NEW t \in Threads, NEW k, pc[t] \in Moving, Key(t) = k,
           pc' = [pc EXCEPT ![t] = "idle"],
           \A u \in Threads \ {t} : call'[u] = call[u]
    PROVE  /\ Cardinality(Movers(k)') = Cardinality(Movers(k)) - 1
           /\ \A j : j # k => Movers(j)' = Movers(j)
<1>0. pc \in [Threads -> Where]
  BY DEF Types
<1>1. t \in Movers(k) /\ Movers(k)' = Movers(k) \ {t}
  BY <1>0 DEF Movers, Key, Moving
<1>2. \A j : j # k => Movers(j)' = Movers(j)
  BY <1>0 DEF Movers, Key, Moving
<1>3. Cardinality(Movers(k) \ {t}) = Cardinality(Movers(k)) - 1
  BY <1>1, MoversFinite, FS_RemoveElement
<1> QED
  BY <1>1, <1>2, <1>3

LEMMA CountsKept ==
    ASSUME Counts, \A k : Movers(k)' = Movers(k), NEW k, NEW r,
           \/ UNCHANGED rec
           \/ Drops(k)
           \/ Sets(k, r) /\ r.busy = Cardinality(Movers(k))
    PROVE  Counts'
<1>1. CASE UNCHANGED rec
  BY <1>1 DEF Counts
<1>2. CASE Drops(k)
  BY <1>2 DEF Counts, Drops
<1>3. CASE Sets(k, r) /\ r.busy = Cardinality(Movers(k))
  BY <1>3 DEF Counts, Sets
<1> QED
  BY <1>1, <1>2, <1>3

LEMMA CountsNext ==
    ASSUME Safe, NEW t \in Threads, Step(t), UNCHANGED setting
    PROVE  Counts'
<1>0. Types /\ Control /\ Holding /\ Space /\ Memory /\ Counts
  BY DEF Safe
<1>t. pc \in [Threads -> Where] /\ DOMAIN call = Threads
  BY <1>0 DEF Types
<1>1. ASSUME NEW c \in Calls, c.op = "read", StartRead(t, c)
      PROVE  Counts'
  <2>1. PICK k, r : k = c.key /\ r = rec[k]
    OBVIOUS
  <2>2. Enters(t, c, "io") /\ k \in DOMAIN rec /\ Sets(k, [r EXCEPT !.busy = @ + 1])
    BY <1>0, <1>1, <2>1, StartReadShape
  <2>3. /\ pc[t] \notin Moving /\ pc' = [pc EXCEPT ![t] = "io"]
        /\ call' = [call EXCEPT ![t] = c]
    BY <2>2 DEF Enters, Begins, Moving
  <2>4. Cardinality(Movers(k)') = Cardinality(Movers(k)) + 1 /\ \A j : j # k => Movers(j)' = Movers(j)
    BY <1>0, <1>t, <2>1, <2>3, MoversJoin
  <2>5. r \in Record /\ r.busy = Cardinality(Movers(k))
    BY <1>0, <2>1, <2>2 DEF Types, Counts
  <2>6. [r EXCEPT !.busy = @ + 1].busy = r.busy + 1
    BY <2>5 DEF Record
  <2> QED
    BY <1>0, <2>2, <2>4, <2>5, <2>6 DEF Sets, Counts
<1>2. ASSUME NEW c \in Calls, c.op \notin {"read", "erase"}, StartGrow(t, Resolve(c))
      PROVE  Counts'
  <2>1. Enters(t, Resolve(c), "cap") /\ Resolve(c) \in Call
        /\ IF c.key \in DOMAIN rec THEN UNCHANGED rec ELSE Sets(c.key, NewRec)
    BY <1>0, <1>2, StartGrowShape, ResolveProps
  <2>2. \A k : Movers(k)' = Movers(k)
    BY <1>0, <2>1, MoversSame
  <2>3. CASE c.key \in DOMAIN rec
    BY <1>0, <2>1, <2>2, <2>3, CountsKept
  <2>4. CASE c.key \notin DOMAIN rec
    <3>1. Movers(c.key) = {}
      BY <1>0, <2>4, NotErasing DEF Movers, Moving, Control, Active
    <3>2. NewRec.busy = Cardinality(Movers(c.key))
      BY <3>1, FS_EmptySet DEF NewRec
    <3> QED
      BY <1>0, <2>1, <2>2, <2>4, <3>2, CountsKept
  <2> QED
    BY <2>3, <2>4
<1>3. ASSUME NEW c \in Calls, ls_erase(t, c)
      PROVE  Counts'
  <2>1. Enters(t, c, "free") /\ c \in Call /\ Drops(c.key)
    BY <1>0, <1>3, EraseShape, ResolveProps
  <2>2. \A k : Movers(k)' = Movers(k)
    BY <1>0, <2>1, MoversSame
  <2> QED
    BY <1>0, <2>1, <2>2, CountsKept
<1>4. CASE QuietStep(t) \/ Alloc(t) \/ ZeroFails(t) \/ Free(t)
  <2>1. Stays \/ (\E w \in Locked : Moves(t, w)) \/ Returns(t) \/ Departs(t) \/ Ends(t)
    BY <1>0, <1>4, HolderShape, MoverShape DEF QuietStep
  <2>2. ~Departs(t)
    <3>1. CASE MemPiece(t) \/ ReadPiece(t) \/ Bounce(t) \/ WritePiece(t) \/ PieceFails(t)
               \/ Transferred(t)
      BY <3>1 DEF MemPiece, ReadPiece, Bounce, WritePiece, PieceFails, Transferred, Departs
    <3>2. CASE Cap(t) \/ Evict(t) \/ NoFit(t) \/ SpillFails(t) \/ Backed(t) \/ Freed(t)
               \/ Alloc(t) \/ ZeroFails(t) \/ Free(t)
      BY <3>2 DEF Cap, Evict, NoFit, SpillFails, Backed, Freed, Alloc, ZeroFails, Free, Departs
    <3> QED
      BY <1>4, <3>1, <3>2 DEF QuietStep
  <2>3. \A k : Movers(k)' = Movers(k)
    BY <1>0, <2>1, <2>2, MoversSame
  <2> QED
    BY <1>0, <1>4, <2>3, RecSame, CountsKept
<1>5. CASE Leave(t)
  <2>1. PICK k, r : k = Key(t) /\ r = rec[k]
    OBVIOUS
  <2>2. /\ k \in DOMAIN rec /\ r.busy \in Nat \ {0} /\ Sets(k, [r EXCEPT !.busy = r.busy - 1])
        /\ pc[t] \in Moving
    BY <1>0, <1>5, <2>1, LeaveEffect DEF Moving
  <2>3. pc' = [pc EXCEPT ![t] = "idle"] /\ \A u \in Threads \ {t} : call'[u] = call[u]
    BY <1>5, <1>t DEF Leave, Goto
  <2>4. Cardinality(Movers(k)') = Cardinality(Movers(k)) - 1 /\ \A j : j # k => Movers(j)' = Movers(j)
    BY <1>0, <2>1, <2>2, <2>3, MoversPart
  <2>5. r \in Record /\ r.busy = Cardinality(Movers(k))
    BY <1>0, <2>1, <2>2 DEF Types, Counts
  <2>6. [r EXCEPT !.busy = r.busy - 1].busy = r.busy - 1
    BY <2>5 DEF Record
  <2> QED
    BY <1>0, <2>2, <2>4, <2>5, <2>6 DEF Sets, Counts
<1>6. CASE Ready(t)
  <2>1. PICK k, r, n : k = Key(t) /\ r = rec[k] /\ n = NewSize(r, Need(t))
    OBVIOUS
  <2>2. k \in DOMAIN rec /\ Sets(k, [r EXCEPT !.size = n, !.busy = r.busy + 1])
        /\ pc[t] \notin Moving
    BY <1>0, <1>6, <2>1, ReadyEffect DEF Moving
  <2>3. pc' = [pc EXCEPT ![t] = "io"] /\ call' = call
    BY <1>6 DEF Ready, Launch
  <2>4. Cardinality(Movers(k)') = Cardinality(Movers(k)) + 1 /\ \A j : j # k => Movers(j)' = Movers(j)
    BY <1>0, <1>t, <2>1, <2>2, <2>3, MoversJoin DEF Key
  <2>5. r \in Record /\ r.busy = Cardinality(Movers(k))
    BY <1>0, <2>1, <2>2 DEF Types, Counts
  <2>6. [r EXCEPT !.size = n, !.busy = r.busy + 1].busy = r.busy + 1
    BY <2>5 DEF Record
  <2> QED
    BY <1>0, <2>2, <2>4, <2>5, <2>6 DEF Sets, Counts
<1>7. CASE Fit(t) \/ Zero(t) \/ Spill(t) \/ Reserved(t)
  <2>1. Stays \/ (\E w \in Locked : Moves(t, w)) \/ Returns(t) \/ Departs(t)
    BY <1>0, <1>7, HolderShape
  <2>2. ~Departs(t)
    <3>1. CASE Fit(t) \/ Zero(t) \/ Spill(t)
      BY <3>1 DEF Fit, Zero, Spill, Departs
    <3>2. CASE Reserved(t)
      BY <1>t, <3>2 DEF Reserved, Departs, Goto
    <3> QED
      BY <1>7, <3>1, <3>2
  <2>3. \A k : Movers(k)' = Movers(k)
    BY <1>0, <2>1, <2>2, MoversSame
  <2>4. ASSUME NEW k \in DOMAIN rec, NEW r, Sets(k, r), r.busy = rec[k].busy
        PROVE  Counts'
    BY <1>0, <2>3, <2>4, CountsKept DEF Counts
  <2>r. \A k \in DOMAIN rec : rec[k] \in Record
    BY <1>0 DEF Types
  <2>5. CASE Fit(t)
    <3>1. PICK k, r, n : k = Key(t) /\ r = rec[k] /\ n = Need(t)
      OBVIOUS
    <3>2. PICK b \in Nat \ {0} : Sets(k, [r EXCEPT !.mem = b, !.mem_cap = n]) /\ k \in DOMAIN rec
      BY <1>0, <2>5, <3>1, FitEffect
    <3>3. [r EXCEPT !.mem = b, !.mem_cap = n].busy = r.busy
      BY <2>r, <3>1, <3>2 DEF Record
    <3> QED
      BY <2>4, <3>1, <3>2, <3>3
  <2>6. CASE Zero(t)
    <3>1. PICK k, r, x, y : k = Grown(t) /\ r = rec[k] /\ x = Append(r.ext, fresh[1])
                          /\ y = r.ext_total + fresh[1].len
      OBVIOUS
    <3>2. k \in DOMAIN rec /\ Sets(k, [r EXCEPT !.ext = x, !.ext_total = y])
      BY <1>0, <2>6, <3>1, ZeroEffect
    <3>3. [r EXCEPT !.ext = x, !.ext_total = y].busy = r.busy
      BY <2>r, <3>1, <3>2 DEF Record
    <3> QED
      BY <2>4, <3>1, <3>2, <3>3
  <2>7. CASE Spill(t)
    <3>1. PICK k, r : k = vic /\ r = rec[k]
      OBVIOUS
    <3>2. k \in DOMAIN rec /\ Sets(k, [r EXCEPT !.mem = NULL, !.mem_cap = 0])
      BY <1>0, <2>7, <3>1, SpillEffect
    <3>3. [r EXCEPT !.mem = NULL, !.mem_cap = 0].busy = r.busy
      BY <2>r, <3>1, <3>2 DEF Record
    <3> QED
      BY <2>4, <3>1, <3>2, <3>3
  <2>8. CASE Reserved(t)
    <3>1. PICK k, r, n : k = Key(t) /\ r = rec[k] /\ n = NewSize(r, Need(t))
      OBVIOUS
    <3>2. k \in DOMAIN rec /\ Sets(k, [r EXCEPT !.size = n])
      BY <1>0, <2>8, <3>1, ReservedEffect
    <3>3. [r EXCEPT !.size = n].busy = r.busy
      BY <2>r, <3>1, <3>2 DEF Record
    <3> QED
      BY <2>4, <3>1, <3>2, <3>3
  <2> QED
    BY <1>7, <2>5, <2>6, <2>7, <2>8
<1> QED
  BY <1>1, <1>2, <1>3, <1>4, <1>5, <1>6, <1>7, StepCases

-----------------------------------------------------------------------------
(* Records have room for what they hold.                                   *)

LEMMA RecordUpdates ==
    ASSUME NEW r \in Record, NEW a, NEW b
    PROVE  /\ LET q == [r EXCEPT !.mem = a, !.mem_cap = b]
              IN  /\ q.mem = a /\ q.mem_cap = b /\ q.size = r.size /\ q.busy = r.busy
                  /\ q.ext = r.ext /\ q.ext_total = r.ext_total
           /\ LET q == [r EXCEPT !.ext = a, !.ext_total = b]
              IN  /\ q.ext = a /\ q.ext_total = b /\ q.size = r.size /\ q.busy = r.busy
                  /\ q.mem = r.mem /\ q.mem_cap = r.mem_cap
           /\ LET q == [r EXCEPT !.size = a, !.busy = b]
              IN  /\ q.size = a /\ q.busy = b /\ q.mem = r.mem /\ q.mem_cap = r.mem_cap
                  /\ q.ext = r.ext /\ q.ext_total = r.ext_total
           /\ LET q == [r EXCEPT !.size = a]
              IN  /\ q.size = a /\ q.busy = r.busy /\ q.mem = r.mem /\ q.mem_cap = r.mem_cap
                  /\ q.ext = r.ext /\ q.ext_total = r.ext_total
           /\ LET q == [r EXCEPT !.busy = a]
              IN  /\ q.size = r.size /\ q.busy = a /\ q.mem = r.mem /\ q.mem_cap = r.mem_cap
                  /\ q.ext = r.ext /\ q.ext_total = r.ext_total
  BY DEF Record

LEMMA SetsRooms ==
    ASSUME Rooms, NEW k, NEW r, Sets(k, r), Room(r)
    PROVE  Rooms'
  BY DEF Rooms, Sets

LEMMA RoomsNext ==
    ASSUME Safe, NEW t \in Threads, Step(t), UNCHANGED setting
    PROVE  Rooms'
<1>0. Types /\ Control /\ Holding /\ Space /\ Memory /\ Counts /\ Rooms
  BY DEF Safe
<1>r. \A k \in DOMAIN rec : rec[k] \in Record /\ Room(rec[k])
  BY <1>0 DEF Types, Rooms
<1>1. ASSUME NEW c \in Calls, c.op = "read", StartRead(t, c)
      PROVE  Rooms'
  <2>1. PICK k, r, b : k = c.key /\ r = rec[k] /\ b = r.busy + 1
    OBVIOUS
  <2>2. k \in DOMAIN rec /\ Sets(k, [r EXCEPT !.busy = b])
    BY <1>0, <1>1, <2>1, StartReadShape
  <2>3. Room([r EXCEPT !.busy = b])
    BY <1>r, <2>1, <2>2, RecordUpdates DEF Room
  <2> QED
    BY <1>0, <2>2, <2>3, SetsRooms
<1>2. ASSUME NEW c \in Calls, c.op \notin {"read", "erase"}, StartGrow(t, Resolve(c))
      PROVE  Rooms'
  <2>1. IF c.key \in DOMAIN rec THEN UNCHANGED rec ELSE Sets(c.key, NewRec)
    BY <1>0, <1>2, StartGrowShape
  <2>2. Room(NewRec)
    <3>1. << >> \in Seq(Extent) /\ Len(<< >>) + 1 = 1
      OBVIOUS
    <3>2. Base(<< >>, 1) = 0
      BY <3>1, BaseProps
    <3> QED
      BY <3>1, <3>2 DEF NewRec, Room, NULL
  <2>3. UNCHANGED rec => Rooms'
    BY <1>0 DEF Rooms
  <2> QED
    BY <1>0, <2>1, <2>2, <2>3, SetsRooms
<1>3. ASSUME NEW c \in Calls, ls_erase(t, c)
      PROVE  Rooms'
  BY <1>0, <1>3, EraseShape DEF Drops, Rooms
<1>4. CASE QuietStep(t) \/ Alloc(t) \/ ZeroFails(t) \/ Free(t)
  BY <1>0, <1>4, RecSame DEF Rooms
<1>5. CASE Leave(t)
  <2>1. PICK k, r, b : k = Key(t) /\ r = rec[k] /\ b = r.busy - 1
    OBVIOUS
  <2>2. k \in DOMAIN rec /\ Sets(k, [r EXCEPT !.busy = b])
    BY <1>0, <1>5, <2>1, LeaveEffect
  <2>3. Room([r EXCEPT !.busy = b])
    BY <1>r, <2>1, <2>2, RecordUpdates DEF Room
  <2> QED
    BY <1>0, <2>2, <2>3, SetsRooms
<1>6. CASE Fit(t)
  <2>1. PICK k, r, n : k = Key(t) /\ r = rec[k] /\ n = Need(t)
    OBVIOUS
  <2>2. pc[t] = "fit" /\ k \in DOMAIN rec /\ r.size <= n
    BY <1>0, <1>6, <2>1, FitEffect DEF Holding, Growing
  <2>3. PICK b \in Nat \ {0} : Sets(k, [r EXCEPT !.mem = b, !.mem_cap = n])
    BY <1>0, <1>6, <2>1, FitEffect
  <2>4. Room([r EXCEPT !.mem = b, !.mem_cap = n])
    BY <1>r, <2>1, <2>2, RecordUpdates DEF Room, NULL
  <2> QED
    BY <1>0, <2>3, <2>4, SetsRooms
<1>7. CASE Zero(t)
  <2>1. PICK k, r, e, x, y : k = Grown(t) /\ r = rec[k] /\ e = fresh[1]
                          /\ x = Append(r.ext, e) /\ y = r.ext_total + e.len
    OBVIOUS
  <2>2. k \in DOMAIN rec /\ e \in Extent /\ Sets(k, [r EXCEPT !.ext = x, !.ext_total = y])
    BY <1>0, <1>7, <2>1, ZeroEffect
  <2>3. r \in Record /\ Room(r)
    BY <1>r, <2>1, <2>2
  <2>4. /\ r.ext \in Seq(Extent) /\ r.ext_total \in Nat /\ e.len \in Nat /\ r.size \in Nat
        /\ Len(r.ext) \in Nat
    BY <2>2, <2>3, RecordFields, HoleFields DEF Extent
  <2>5. Len(x) + 1 = Len(r.ext) + 2
    BY <2>1, <2>2, <2>4
  <2>6. Base(x, Len(r.ext) + 2) = Base(r.ext, Len(r.ext) + 1) + e.len
    BY <2>1, <2>2, <2>4, BaseAppend
  <2>7. y = Base(x, Len(x) + 1)
    BY <2>1, <2>3, <2>5, <2>6 DEF Room
  <2>8. r.size <= r.ext_total => r.size <= y
    BY <2>1, <2>4
  <2>9. Room([r EXCEPT !.ext = x, !.ext_total = y])
    BY <2>3, <2>7, <2>8, RecordUpdates DEF Room
  <2> QED
    BY <1>0, <2>2, <2>9, SetsRooms
<1>8. CASE Spill(t)
  <2>1. PICK k, r : k = vic /\ r = rec[k]
    OBVIOUS
  <2>2. k \in DOMAIN rec /\ Sets(k, [r EXCEPT !.mem = NULL, !.mem_cap = 0])
        /\ r.size <= r.ext_total
    BY <1>0, <1>8, <2>1, SpillEffect
  <2>3. Room([r EXCEPT !.mem = NULL, !.mem_cap = 0])
    BY <1>r, <2>1, <2>2, RecordUpdates DEF Room
  <2> QED
    BY <1>0, <2>2, <2>3, SetsRooms
<1>9. CASE Ready(t) \/ Reserved(t)
  <2>1. PICK k, r, n, b : k = Key(t) /\ r = rec[k] /\ n = NewSize(r, Need(t)) /\ b = r.busy + 1
    OBVIOUS
  <2>2. /\ pc[t] = "ready" /\ k \in DOMAIN rec
        /\ Sets(k, [r EXCEPT !.size = n, !.busy = b]) \/ Sets(k, [r EXCEPT !.size = n])
    BY <1>0, <1>9, <2>1, ReadyEffect, ReservedEffect
  <2>3. r \in Record /\ Room(r) /\ Need(t) \in Nat
    BY <1>0, <1>r, <2>1, <2>2, NotErasing, Caught
  <2>4. n \in {r.size, Need(t)}
    BY <2>1, <2>3, NewSizeProps
  <2>5. IF r.mem # NULL THEN Need(t) <= r.mem_cap ELSE Need(t) <= r.ext_total
    BY <1>0, <2>1, <2>2 DEF Holding
  <2>6. IF r.mem # NULL THEN n <= r.mem_cap ELSE n <= r.ext_total
    BY <2>3, <2>4, <2>5 DEF Room
  <2>7. Room([r EXCEPT !.size = n, !.busy = b]) /\ Room([r EXCEPT !.size = n])
    BY <2>3, <2>6, RecordUpdates DEF Room
  <2> QED
    BY <1>0, <2>2, <2>7, SetsRooms
<1> QED
  BY <1>1, <1>2, <1>3, <1>4, <1>5, <1>6, <1>7, <1>8, <1>9, StepCases

-----------------------------------------------------------------------------
(* Appends get ranges of their own.                                        *)

\* A record never shrinks, and grows only when its call has made the room.
LEMMA SizesGrow ==
    ASSUME Safe, NEW t \in Threads, Step(t)
    PROVE  \A k \in DOMAIN rec : k \in DOMAIN rec' =>
               /\ rec[k].size \in Nat /\ rec'[k].size \in Nat /\ rec'[k].size >= rec[k].size
               /\ rec'[k].size # rec[k].size =>
                    pc[t] = "ready" /\ pc'[t] \in {"io", "idle"} /\ k = Key(t)
<1>0. Types /\ Control /\ Holding /\ Space /\ Memory /\ Counts /\ Rooms
  BY DEF Safe
<1>r. \A k \in DOMAIN rec : rec[k] \in Record /\ rec[k].size \in Nat
  BY <1>0, RecordFields DEF Types
<1> DEFINE Same == \A k \in DOMAIN rec : k \in DOMAIN rec' => rec'[k].size = rec[k].size
<1>s. ASSUME NEW k \in DOMAIN rec, NEW r, Sets(k, r), r.size = rec[k].size
      PROVE  Same
  BY <1>s DEF Sets
<1>1. ASSUME NEW c \in Calls, c.op = "read", StartRead(t, c)
      PROVE  Same
  <2>1. PICK k, r, b : k = c.key /\ r = rec[k] /\ b = r.busy + 1
    OBVIOUS
  <2>2. k \in DOMAIN rec /\ Sets(k, [r EXCEPT !.busy = b])
    BY <1>0, <1>1, <2>1, StartReadShape
  <2>3. [r EXCEPT !.busy = b].size = rec[k].size
    BY <1>r, <2>1, <2>2, RecordUpdates
  <2> QED
    BY <1>s, <2>2, <2>3
<1>2. ASSUME NEW c \in Calls, c.op \notin {"read", "erase"}, StartGrow(t, Resolve(c))
      PROVE  Same
  <2>1. IF c.key \in DOMAIN rec THEN UNCHANGED rec ELSE Sets(c.key, NewRec)
    BY <1>0, <1>2, StartGrowShape
  <2> QED
    BY <2>1 DEF Sets
<1>3. ASSUME NEW c \in Calls, ls_erase(t, c)
      PROVE  Same
  BY <1>0, <1>3, EraseShape DEF Drops
<1>4.ASSUME QuietStep(t) \/ Alloc(t) \/ ZeroFails(t) \/ Free(t)
      PROVE  Same
  BY <1>r, <1>4, RecSame
<1>5.ASSUME Leave(t)
      PROVE  Same
  <2>1. PICK k, r, b : k = Key(t) /\ r = rec[k] /\ b = r.busy - 1
    OBVIOUS
  <2>2. k \in DOMAIN rec /\ Sets(k, [r EXCEPT !.busy = b])
    BY <1>0, <1>5, <2>1, LeaveEffect
  <2>3. [r EXCEPT !.busy = b].size = rec[k].size
    BY <1>r, <2>1, <2>2, RecordUpdates
  <2> QED
    BY <1>r, <1>s, <2>2, <2>3
<1>6.ASSUME Fit(t)
      PROVE  Same
  <2>1. PICK k, r, n : k = Key(t) /\ r = rec[k] /\ n = Need(t)
    OBVIOUS
  <2>2. k \in DOMAIN rec
    BY <1>0, <1>6, <2>1, FitEffect
  <2>3. PICK b \in Nat \ {0} : Sets(k, [r EXCEPT !.mem = b, !.mem_cap = n])
    BY <1>0, <1>6, <2>1, FitEffect
  <2>4. [r EXCEPT !.mem = b, !.mem_cap = n].size = rec[k].size
    BY <1>r, <2>1, <2>2, RecordUpdates
  <2> QED
    BY <1>r, <1>s, <2>2, <2>3, <2>4
<1>7.ASSUME Zero(t)
      PROVE  Same
  <2>1. PICK k, r, e, x, y : k = Grown(t) /\ r = rec[k] /\ e = fresh[1]
                          /\ x = Append(r.ext, e) /\ y = r.ext_total + e.len
    OBVIOUS
  <2>2. k \in DOMAIN rec /\ Sets(k, [r EXCEPT !.ext = x, !.ext_total = y])
    BY <1>0, <1>7, <2>1, ZeroEffect
  <2>3. [r EXCEPT !.ext = x, !.ext_total = y].size = rec[k].size
    BY <1>r, <2>1, <2>2, RecordUpdates
  <2> QED
    BY <1>r, <1>s, <2>2, <2>3
<1>8.ASSUME Spill(t)
      PROVE  Same
  <2>1. PICK k, r : k = vic /\ r = rec[k]
    OBVIOUS
  <2>2. k \in DOMAIN rec /\ Sets(k, [r EXCEPT !.mem = NULL, !.mem_cap = 0])
    BY <1>0, <1>8, <2>1, SpillEffect
  <2>3. [r EXCEPT !.mem = NULL, !.mem_cap = 0].size = rec[k].size
    BY <1>r, <2>1, <2>2, RecordUpdates
  <2> QED
    BY <1>r, <1>s, <2>2, <2>3
<1>9. CASE Ready(t) \/ Reserved(t)
  <2>1. PICK k, r, n, b : k = Key(t) /\ r = rec[k] /\ n = NewSize(r, Need(t)) /\ b = r.busy + 1
    OBVIOUS
  <2>2. PICK q \in {[r EXCEPT !.size = n, !.busy = b], [r EXCEPT !.size = n]} :
           pc[t] = "ready" /\ k \in DOMAIN rec /\ Sets(k, q)
    BY <1>0, <1>9, <2>1, ReadyEffect, ReservedEffect
  <2>3. r \in Record /\ Need(t) \in Nat
    BY <1>0, <1>r, <2>1, <2>2, NotErasing, Caught
  <2>4. n \in Nat /\ n >= r.size
    BY <2>1, <2>3, NewSizeProps
  <2>5. q.size = n
    <3>1. [r EXCEPT !.size = n, !.busy = b].size = n /\ [r EXCEPT !.size = n].size = n
      BY <2>3, RecordUpdates
    <3> QED
      BY ONLY <3>1, <2>2
  <2>6. rec'[k].size = n /\ \A j \in DOMAIN rec : j # k => rec'[j] = rec[j]
    BY <2>2, <2>5 DEF Sets
  <2>7. pc'[t] \in {"io", "idle"}
    BY <1>0, <1>9 DEF Ready, Reserved, Launch, Goto, Types
  <2>8. rec'[k].size \in Nat /\ rec'[k].size >= rec[k].size
    BY <2>1, <2>4, <2>6
  <2>9. \A j \in DOMAIN rec : j # k => rec'[j].size = rec[j].size
    BY <2>6
  <2> HIDE DEF Same
  <2> QED
    BY <1>r, <2>1, <2>2, <2>7, <2>8, <2>9
<1>10. Same => \A k \in DOMAIN rec : k \in DOMAIN rec' =>
               /\ rec[k].size \in Nat /\ rec'[k].size \in Nat /\ rec'[k].size >= rec[k].size
               /\ rec'[k].size # rec[k].size =>
                    pc[t] = "ready" /\ pc'[t] \in {"io", "idle"} /\ k = Key(t)
  BY <1>r
<1> HIDE DEF Same
<1> QED
  BY <1>1, <1>2, <1>3, <1>4, <1>5, <1>6, <1>7, <1>8, <1>9, <1>10, StepCases

\* The range of an append, as the offsets it covers.
LEMMA AppendCovers ==
    ASSUME NEW c \in Call, c.op = "append", Len(c.segs) = 1
    PROVE  /\ Covers(c) = c.segs[1].off .. (c.segs[1].off + c.segs[1].n - 1)
           /\ c.segs[1].off \in Nat /\ c.segs[1].n \in Nat
<1>1. c.segs \in Seq(Segment)
  BY CallFields
<1>2. DOMAIN c.segs = {1} /\ c.segs[1].off \in Nat /\ c.segs[1].n \in Nat
  BY <1>1, SegFields
<1>3. Covers(c) = UNION {c.segs[i].off .. (c.segs[i].off + c.segs[i].n - 1) : i \in {1}}
  BY <1>2 DEF Covers
<1>4. PICK A : A = c.segs[1].off .. (c.segs[1].off + c.segs[1].n - 1)
  OBVIOUS
<1>5. {c.segs[i].off .. (c.segs[i].off + c.segs[i].n - 1) : i \in {1}} = {A}
  BY <1>4
<1> QED
  BY <1>2, <1>3, <1>4, <1>5

\* Appends that go on, while their records do not shrink.
LEMMA AppendsKept ==
    ASSUME Types, Control, Appends,
           NEW t \in Threads,
           \A u \in Threads : call'[u].op = "append" =>
               /\ call'[u] = call[u]
               /\ pc'[u] \in Locked => pc[u] \in Locked
               /\ pc'[u] \in Moving => pc[u] \in Moving \/ u = t
               /\ rec[Key(u)].size \in Nat /\ rec'[Key(u)].size \in Nat
               /\ rec'[Key(u)].size >= rec[Key(u)].size
               /\ pc'[u] \in Locked => rec'[Key(u)].size = rec[Key(u)].size,
           call'[t].op = "append" /\ pc'[t] \in Moving /\ pc[t] \notin Moving =>
               call[t].segs[1].off + call[t].segs[1].n <= rec'[Key(t)].size
    PROVE  Appends'
<1>1. AppendsDisjoint'
  BY DEF Appends, AppendsDisjoint, Key, Covers
<1>2. ASSUME NEW u \in Threads, call'[u].op = "append"
      PROVE  /\ pc'[u] \in Locked => call'[u].segs[1].off = rec'[Key(u)'].size
             /\ pc'[u] \in Moving =>
                   call'[u].segs[1].off + call'[u].segs[1].n <= rec'[Key(u)'].size
  <2>1. Key(u)' = Key(u) /\ call'[u] = call[u] /\ call[u].op = "append"
    BY <1>2 DEF Key
  <2>2. pc'[u] \in Locked => call[u].segs[1].off = rec'[Key(u)].size
    BY <1>2, <2>1 DEF Appends
  <2>3. pc'[u] \in Moving => call[u].segs[1].off + call[u].segs[1].n <= rec'[Key(u)].size
    <3>1. CASE pc[u] \in Moving
      <4>1. call[u] \in Call /\ Len(call[u].segs) = 1
        BY <2>1, <3>1 DEF Control, Moving
      <4>2. call[u].segs[1].off \in Nat /\ call[u].segs[1].n \in Nat
        BY <2>1, <4>1, AppendCovers
      <4>3. call[u].segs[1].off + call[u].segs[1].n <= rec[Key(u)].size
        BY <2>1, <3>1 DEF Appends
      <4> QED
        BY <1>2, <4>2, <4>3
    <3>2. CASE pc[u] \notin Moving
      BY <1>2, <2>1, <3>2
    <3> QED
      BY <3>1, <3>2
  <2> QED
    BY <2>1, <2>2, <2>3
<1> QED
  BY <1>1, <1>2 DEF Appends

LEMMA OnlyReadyDeparts ==
    ASSUME Types, NEW t \in Threads, Step(t), Departs(t)
    PROVE  Ready(t)
<1>1. pc[t] = "ready" /\ pc'[t] = "io"
  BY DEF Types, Departs
<1>2. \A c \in Calls : ~StartRead(t, c) /\ ~StartGrow(t, Resolve(c)) /\ ~ls_erase(t, c)
  BY <1>1 DEF StartRead, StartGrow, ls_erase, Enter
<1>3. ~(MemPiece(t) \/ ReadPiece(t) \/ Bounce(t) \/ WritePiece(t) \/ PieceFails(t)
        \/ Transferred(t) \/ Leave(t))
  BY <1>1 DEF MemPiece, ReadPiece, Bounce, WritePiece, PieceFails, Transferred, Leave
<1>4. ~(Cap(t) \/ Evict(t) \/ Fit(t) \/ NoFit(t) \/ Alloc(t) \/ Zero(t) \/ ZeroFails(t)
        \/ Spill(t) \/ SpillFails(t) \/ Backed(t) \/ Free(t) \/ Freed(t))
  BY <1>1 DEF Cap, Evict, Fit, NoFit, Alloc, Zero, ZeroFails, Spill, SpillFails, Backed,
              Free, Freed
<1>5. ~Reserved(t)
  BY <1>1 DEF Reserved, Goto, Types
<1> QED
  BY <1>2, <1>3, <1>4, <1>5 DEF Step

LEMMA AppendsNext ==
    ASSUME Safe, NEW t \in Threads, Step(t), UNCHANGED setting
    PROVE  Appends'
<1>0. Types /\ Control /\ Holding /\ Appends
  BY DEF Safe
<1>t. pc \in [Threads -> Where] /\ DOMAIN call = Threads /\ NoCall.op # "append"
      /\ (\A w \in Locked : w \notin Moving /\ w # "idle") /\ Moving = {"io", "fin"}
      /\ "idle" \notin Moving /\ "ready" \in Locked
  BY <1>0 DEF Types, NoCall, Locked, Moving
<1>1. ASSUME NEW u \in Threads, call[u].op = "append"
      PROVE  /\ pc[u] # "idle" /\ call[u] \in Call /\ Len(call[u].segs) = 1
             /\ Key(u) \in DOMAIN rec /\ Key(u) \in DOMAIN rec'
             /\ rec[Key(u)].size \in Nat /\ rec'[Key(u)].size \in Nat
             /\ rec'[Key(u)].size >= rec[Key(u)].size
             /\ u # t /\ pc[u] \in Locked => rec'[Key(u)].size = rec[Key(u)].size
             /\ pc'[t] \notin {"io", "idle"} => rec'[Key(u)].size = rec[Key(u)].size
  <2>1. pc[u] # "idle" /\ call[u] \in Call /\ Len(call[u].segs) = 1
    BY <1>0, <1>1, <1>t DEF Control
  <2>2. Key(u) \in DOMAIN rec
    BY <1>0, <1>1, <2>1 DEF Control, Active
  <2>3. Key(u) \in DOMAIN rec'
    BY <2>1, <2>2, StepRecords DEF Active, Key
  <2>4. /\ rec[Key(u)].size \in Nat /\ rec'[Key(u)].size \in Nat
        /\ rec'[Key(u)].size >= rec[Key(u)].size
        /\ rec'[Key(u)].size # rec[Key(u)].size => pc[t] = "ready" /\ pc'[t] \in {"io", "idle"}
    BY <2>2, <2>3, SizesGrow
  <2>5. ASSUME u # t, pc[u] \in Locked
        PROVE  rec'[Key(u)].size = rec[Key(u)].size
    BY <1>0, <1>t, <2>4, <2>5 DEF Control
  <2> QED
    BY <2>1, <2>2, <2>3, <2>4, <2>5
<1>2. CASE \/ Stays
           \/ \E w \in Locked : Moves(t, w)
           \/ Returns(t) \/ Departs(t) \/ Ends(t) \/ Leaves(t)
  <2>1. \A u \in Threads : call'[u].op = "append" => call'[u] = call[u]
    BY <1>t, <1>2 DEF Stays, Moves, Returns, Departs, Ends, Leaves
  <2>2. \A u \in Threads : /\ pc'[u] \in Locked => pc[u] \in Locked
                           /\ pc'[u] \in Moving => pc[u] \in Moving \/ u = t
                           /\ pc'[u] \in Locked /\ u = t => pc'[t] \notin {"io", "idle"}
    <3>1. CASE Stays
      BY <1>t, <3>1 DEF Stays
    <3>2. CASE \E w \in Locked : Moves(t, w)
      BY <1>t, <3>2 DEF Moves
    <3>3. CASE Returns(t) \/ Departs(t) \/ Ends(t) \/ Leaves(t)
      BY <1>t, <3>3 DEF Returns, Departs, Ends, Leaves
    <3> QED
      BY <1>2, <3>1, <3>2, <3>3
  <2>3. ASSUME call'[t].op = "append", pc'[t] \in Moving, pc[t] \notin Moving
        PROVE  call[t].segs[1].off + call[t].segs[1].n <= rec'[Key(t)].size
    <3>1. Departs(t)
      <4>1. ~Stays
        BY <2>3 DEF Stays
      <4>2. \A w \in Locked : ~Moves(t, w)
        BY <1>t, <2>3 DEF Moves
      <4>3. ~Returns(t) /\ ~Leaves(t) /\ ~Ends(t)
        BY <1>t, <2>3 DEF Returns, Leaves, Ends
      <4> QED
        BY <1>2, <4>1, <4>2, <4>3
    <3>2. Ready(t)
      BY <1>0, <3>1, OnlyReadyDeparts
    <3>3. PICK k, r, n, b : k = Key(t) /\ r = rec[k] /\ n = NewSize(r, Need(t)) /\ b = r.busy + 1
      OBVIOUS
    <3>4. pc[t] = "ready" /\ k \in DOMAIN rec /\ Sets(k, [r EXCEPT !.size = n, !.busy = b])
      BY <1>0, <3>2, <3>3, ReadyEffect
    <3>5. r \in Record /\ Need(t) \in Nat /\ call[t] \in Call
      BY <1>0, <3>3, <3>4, NotErasing, Caught
    <3>6. rec'[k].size = n /\ n >= Need(t) /\ n \in Nat
      <4>1. n >= Need(t) /\ n \in Nat
        BY <3>3, <3>5, NewSizeProps
      <4>2. [r EXCEPT !.size = n, !.busy = b].size = n
        BY <3>5, RecordUpdates
      <4> QED
        BY <3>4, <4>1, <4>2 DEF Sets
    <3>7. call[t].op = "append" /\ Len(call[t].segs) = 1
      BY <1>1, <2>1, <2>3
    <3>8. call[t].segs \in Seq(Segment) /\ 1 \in DOMAIN call[t].segs
      BY <3>5, <3>7, CallFields
    <3>9. call[t].segs[1].off + call[t].segs[1].n <= Need(t)
      BY <3>8, HighProps DEF Need
    <3>10. call[t].segs[1].off \in Nat /\ call[t].segs[1].n \in Nat
      BY <3>5, <3>7, AppendCovers
    <3> QED
      BY <3>3, <3>5, <3>6, <3>9, <3>10
  <2>4. \A u \in Threads : call'[u].op = "append" =>
               /\ call'[u] = call[u]
               /\ pc'[u] \in Locked => pc[u] \in Locked
               /\ pc'[u] \in Moving => pc[u] \in Moving \/ u = t
               /\ rec[Key(u)].size \in Nat /\ rec'[Key(u)].size \in Nat
               /\ rec'[Key(u)].size >= rec[Key(u)].size
               /\ pc'[u] \in Locked => rec'[Key(u)].size = rec[Key(u)].size
    BY <1>1, <2>1, <2>2
  <2> QED
    BY <1>0, <2>3, <2>4, AppendsKept
<1>3. CASE \E c \in Call, w \in {"cap", "free", "io"} : Enters(t, c, w)
  <2>1. PICK c \in Call, w \in {"cap", "free", "io"} : Enters(t, c, w)
    BY <1>3
  <2>2. /\ lk = NoThread /\ pc[t] = "idle" /\ pc' = [pc EXCEPT ![t] = w]
        /\ call' = [call EXCEPT ![t] = c]
        /\ (c.op = "append" => w = "cap" /\ c.segs[1].off = Size(c.key) /\ Len(c.segs) = 1)
    BY <2>1 DEF Enters, Begins
  <2>3. \A u \in Threads \ {t} : call'[u] = call[u] /\ pc'[u] = pc[u] /\ pc[u] \notin Locked
    BY <1>0, <1>t, <2>2, StoreAssumption DEF Control
  <2>4. CASE c.op # "append"
    <3>1. call'[t].op # "append"
      BY <1>t, <2>2, <2>4
    <3>2. \A u \in Threads : call'[u].op = "append" =>
               /\ call'[u] = call[u]
               /\ pc'[u] \in Locked => pc[u] \in Locked
               /\ pc'[u] \in Moving => pc[u] \in Moving \/ u = t
               /\ rec[Key(u)].size \in Nat /\ rec'[Key(u)].size \in Nat
               /\ rec'[Key(u)].size >= rec[Key(u)].size
               /\ pc'[u] \in Locked => rec'[Key(u)].size = rec[Key(u)].size
      BY <1>1, <2>3, <3>1
    <3> QED
      BY <1>0, <3>1, <3>2, AppendsKept
  <2>5. CASE c.op = "append"
    <3>1. /\ call'[t] = c /\ pc'[t] = "cap" /\ pc'[t] \in Locked /\ Key(t)' = c.key
          /\ c.segs[1].off = Size(c.key) /\ Len(c.segs) = 1
      BY <1>t, <2>2, <2>5 DEF Locked, Key
    <3>2. c.key \in DOMAIN rec'
      BY <2>1, <2>5 DEF Enters
    <3>3. rec'[c.key].size = Size(c.key)
      <4>1. CASE c.key \in DOMAIN rec
        <5>1. rec'[c.key].size = rec[c.key].size
          BY <3>1, <3>2, <4>1, SizesGrow
        <5> QED
          BY <4>1, <5>1 DEF Size
      <4>2. CASE c.key \notin DOMAIN rec
        <5>1. PICK d \in Calls : d.op \notin {"read", "erase"} /\ StartGrow(t, Resolve(d))
          <6>1. pc[t] = "idle" /\ call'[t].op = "append"
            BY <2>2, <2>5, <3>1
          <6>2. \A d \in Calls : StartRead(t, d) => call'[t] = d
            BY <1>t DEF StartRead
          <6>3. \A d \in Calls : ls_erase(t, d) => call'[t].op = "erase"
            BY <1>t DEF ls_erase
          <6>4. ~(MemPiece(t) \/ ReadPiece(t) \/ Bounce(t) \/ WritePiece(t) \/ PieceFails(t)
                  \/ Transferred(t) \/ Leave(t))
            BY <6>1 DEF MemPiece, ReadPiece, Bounce, WritePiece, PieceFails, Transferred, Leave
          <6>5. ~(Cap(t) \/ Evict(t) \/ Fit(t) \/ NoFit(t) \/ Alloc(t) \/ Zero(t) \/ ZeroFails(t)
                  \/ Spill(t) \/ SpillFails(t) \/ Backed(t) \/ Free(t) \/ Freed(t)
                  \/ Ready(t) \/ Reserved(t))
            BY <6>1 DEF Cap, Evict, Fit, NoFit, Alloc, Zero, ZeroFails, Spill, SpillFails,
                        Backed, Free, Freed, Ready, Reserved
          <6> QED
            BY <6>1, <6>2, <6>3, <6>4, <6>5 DEF Step
        <5>2. call'[t] = Resolve(d) /\ Resolve(d).key = d.key
          BY <1>0, <1>t, <5>1, ResolveProps DEF StartGrow
        <5>3. Sets(c.key, NewRec)
          BY <1>0, <3>1, <4>2, <5>1, <5>2, StartGrowShape
        <5> QED
          BY <4>2, <5>3 DEF Sets, Size, NewRec
      <4> QED
        BY <4>1, <4>2
    <3>4. ASSUME NEW u \in Threads \ {t}, call[u].op = "append"
          PROVE  /\ pc[u] \notin Locked
                 /\ pc[u] \in Moving =>
                      call[u].segs[1].off + call[u].segs[1].n <= rec'[Key(u)].size
                 /\ Key(u) = c.key => Covers(call[u]) \cap Covers(c) = {}
      <4>1. pc[u] \notin Locked /\ pc[u] \in Moving
        BY <1>1, <1>t, <2>3, <3>4 DEF Where
      <4>2. call[u].segs[1].off + call[u].segs[1].n <= rec[Key(u)].size
        BY <1>0, <3>4, <4>1 DEF Appends
      <4>3. Covers(call[u]) = call[u].segs[1].off .. (call[u].segs[1].off + call[u].segs[1].n - 1)
            /\ call[u].segs[1].off \in Nat /\ call[u].segs[1].n \in Nat
        BY <1>1, <3>4, AppendCovers
      <4>4. call[u].segs[1].off + call[u].segs[1].n <= rec'[Key(u)].size
        BY <1>1, <3>4, <4>2, <4>3
      <4>5. ASSUME Key(u) = c.key
            PROVE  Covers(call[u]) \cap Covers(c) = {}
        <5>1. Covers(c) = c.segs[1].off .. (c.segs[1].off + c.segs[1].n - 1)
              /\ c.segs[1].off \in Nat /\ c.segs[1].n \in Nat
          BY <2>1, <2>5, <3>1, AppendCovers
        <5>2. call[u].segs[1].off + call[u].segs[1].n <= c.segs[1].off
          BY <3>1, <3>3, <4>4, <4>5
        <5>3. PICK a, m, b, n : /\ a = call[u].segs[1].off /\ m = call[u].segs[1].n
                                /\ b = c.segs[1].off /\ n = c.segs[1].n
          OBVIOUS
        <5>4. a \in Nat /\ m \in Nat /\ b \in Nat /\ n \in Nat /\ a + m <= b
          BY <4>3, <5>1, <5>2, <5>3
        <5>5. (a .. (a + m - 1)) \cap (b .. (b + n - 1)) = {}
          BY ONLY <5>4
        <5> QED
          BY <4>3, <5>1, <5>3, <5>5
      <4> QED
        BY <4>1, <4>4, <4>5
    <3>5. AppendsDisjoint'
      <4> SUFFICES ASSUME NEW u \in Threads, NEW v \in Threads, u # v, Key(u)' = Key(v)',
                          call'[u].op = "append", call'[v].op = "append"
                   PROVE  Covers(call'[u]) \cap Covers(call'[v]) = {}
        BY DEF AppendsDisjoint, Covers
      <4>1. CASE u # t /\ v # t
        <5>1. call'[u] = call[u] /\ call'[v] = call[v] /\ Key(u) = Key(v)
          BY <2>3, <4>1 DEF Key
        <5> QED
          BY <1>0, <5>1 DEF Appends, AppendsDisjoint
      <4>2. CASE u = t /\ v # t
        <5>1. call'[u] = c /\ call'[v] = call[v] /\ Key(v) = c.key
          BY <2>3, <3>1, <4>2 DEF Key
        <5> QED
          BY <3>4, <4>2, <5>1
      <4>3. CASE u # t /\ v = t
        <5>1. call'[v] = c /\ call'[u] = call[u] /\ Key(u) = c.key
          BY <2>3, <3>1, <4>3 DEF Key
        <5> QED
          BY <3>4, <4>3, <5>1
      <4> QED
        BY <4>1, <4>2, <4>3
    <3>6. ASSUME NEW u \in Threads, call'[u].op = "append"
          PROVE  /\ pc'[u] \in Locked => call'[u].segs[1].off = rec'[Key(u)'].size
                 /\ pc'[u] \in Moving =>
                       call'[u].segs[1].off + call'[u].segs[1].n <= rec'[Key(u)'].size
      <4>1. CASE u = t
        BY <1>t, <3>1, <3>3, <4>1
      <4>2. CASE u # t
        <5>1. call'[u] = call[u] /\ pc'[u] = pc[u] /\ Key(u)' = Key(u)
          BY <2>3, <4>2 DEF Key
        <5> QED
          BY <3>4, <3>6, <4>2, <5>1
      <4> QED
        BY <4>1, <4>2
    <3> QED
      BY <3>5, <3>6 DEF Appends
  <2> QED
    BY <2>4, <2>5
<1> QED
  BY <1>0, <1>2, <1>3, StepShape DEF Shape

-----------------------------------------------------------------------------
(* The space in the file.                                                  *)

LEMMA ExtentsAre ==
    /\ \A e : e \in Extents <=> \E k \in DOMAIN rec : \E i \in DOMAIN rec[k].ext : e = rec[k].ext[i]
    /\ \A e : e \in Extents' <=>
          \E k \in DOMAIN rec' : \E i \in DOMAIN rec'[k].ext : e = rec'[k].ext[i]
  BY DEF Extents, Range

\* Records may come and go as long as they take no extent along.
LEMMA SpaceKept ==
    ASSUME Space, UNCHANGED <<fl, flcap, file_end, lost, fresh, dying>>, DOMAIN rec \subseteq DOMAIN rec',
           \A k \in DOMAIN rec' : IF k \in DOMAIN rec THEN rec'[k].ext = rec[k].ext
                                                      ELSE rec'[k].ext = << >>
    PROVE  Space'
<1>1. \A k \in DOMAIN rec' : \A i \in DOMAIN rec'[k].ext :
         k \in DOMAIN rec /\ rec'[k].ext = rec[k].ext
  OBVIOUS
<1>2. Extents' = Extents
  <2>1. ASSUME NEW e \in Extents PROVE e \in Extents'
    <3>1. PICK k \in DOMAIN rec : \E i \in DOMAIN rec[k].ext : e = rec[k].ext[i]
      BY ExtentsAre
    <3>2. k \in DOMAIN rec' /\ rec'[k].ext = rec[k].ext
      OBVIOUS
    <3> QED
      BY <3>1, <3>2, ExtentsAre
  <2>2. ASSUME NEW e \in Extents' PROVE e \in Extents
    <3>1. PICK k \in DOMAIN rec' : \E i \in DOMAIN rec'[k].ext : e = rec'[k].ext[i]
      BY ExtentsAre
    <3>2. k \in DOMAIN rec /\ rec'[k].ext = rec[k].ext
      BY <1>1, <3>1
    <3> QED
      BY <3>1, <3>2, ExtentsAre
  <2> QED
    BY <2>1, <2>2
<1>3. \A k, l \in DOMAIN rec' : \A i \in DOMAIN rec'[k].ext, j \in DOMAIN rec'[l].ext :
          rec'[k].ext[i] = rec'[l].ext[j] => k = l /\ i = j
  BY <1>1 DEF Space
<1> QED
  BY <1>2, <1>3 DEF Space, Owned

LEMMA SetsSpace ==
    ASSUME Space, UNCHANGED <<fl, flcap, file_end, lost, fresh, dying>>, NEW k, NEW r, Sets(k, r),
           IF k \in DOMAIN rec THEN r.ext = rec[k].ext ELSE r.ext = << >>
    PROVE  Space'
<1>1. DOMAIN rec \subseteq DOMAIN rec'
  BY DEF Sets
<1>2. \A j \in DOMAIN rec' : IF j \in DOMAIN rec THEN rec'[j].ext = rec[j].ext
                                                 ELSE rec'[j].ext = << >>
  BY DEF Sets
<1> QED
  BY <1>1, <1>2, SpaceKept

\* The lock holder has at most one thing on its hands.
LEMMA Hands ==
    ASSUME Types, Control, Holding, Space
    PROVE  /\ lk = NoThread => fresh = << >> /\ dying = << >>
           /\ \A t \in Threads : lk = t /\ pc[t] # "zero" => fresh = << >>
           /\ \A t \in Threads : lk = t /\ pc[t] # "free" => dying = << >>
<1>1. NoThread \notin Threads
  BY StoreAssumption
<1> QED
  BY <1>1 DEF Holding

LEMMA EraseSpace ==
    ASSUME Types, Control, Holding, Space, NEW t \in Threads, NEW c \in Calls, ls_erase(t, c)
    PROVE  Space'
<1>1. PICK k, x : k = c.key /\ x = rec[k].ext
  OBVIOUS
<1>2. Drops(k) /\ k \in DOMAIN rec
  BY <1>1, EraseShape DEF Drops
<1>3. lk = NoThread /\ dying' = x /\ UNCHANGED <<fl, flcap, file_end, lost, fresh>>
  BY <1>1 DEF ls_erase, ls_rec_free, Enter, space
<1>4. fresh = << >> /\ dying = << >> /\ fresh' = << >>
  BY <1>3, Hands
<1>5. x \in Seq(Extent) /\ IsSeq(x)
  <2>1. x \in Seq(Extent)
    BY <1>1, <1>2, RecordFields DEF Types
  <2> QED
    BY <2>1 DEF IsSeq
<1>6. Range(dying) = {} /\ Range(fresh) = {} /\ Range(fresh') = {}
  BY <1>4 DEF Range
<1>7. \A j \in DOMAIN rec' : j \in DOMAIN rec /\ j # k /\ rec'[j].ext = rec[j].ext
  BY <1>2 DEF Drops
<1>8. \A j \in DOMAIN rec : j # k => j \in DOMAIN rec' /\ rec'[j].ext = rec[j].ext
  BY <1>2 DEF Drops
<1>9. \A e : e \in Range(dying') <=> \E i \in DOMAIN rec[k].ext : e = rec[k].ext[i]
  BY <1>1, <1>3 DEF Range
<1>10. \A e : e \in Extents <=> e \in Extents' \/ e \in Range(dying')
  <2>1. ASSUME NEW e \in Extents
        PROVE  e \in Extents' \/ e \in Range(dying')
    <3>1. PICK j \in DOMAIN rec : \E i \in DOMAIN rec[j].ext : e = rec[j].ext[i]
      BY ExtentsAre
    <3>2. CASE j = k
      BY <1>9, <3>1, <3>2
    <3>3. CASE j # k
      BY <1>8, <3>1, <3>3, ExtentsAre
    <3> QED
      BY <3>2, <3>3
  <2>2. ASSUME NEW e \in Extents'
        PROVE  e \in Extents
    BY <1>7, ExtentsAre
  <2>3. ASSUME NEW e \in Range(dying')
        PROVE  e \in Extents
    BY <1>2, <1>9, ExtentsAre
  <2> QED
    BY <2>1, <2>2, <2>3
<1>11. Owned' = Owned
  BY <1>3, <1>6, <1>10 DEF Owned
<1>12. \A j, l \in DOMAIN rec : \A i \in DOMAIN rec[j].ext, m \in DOMAIN rec[l].ext :
          rec[j].ext[i] = rec[l].ext[m] => j = l /\ i = m
  BY DEF Space
<1>13. Extents' \cap Range(dying') = {}
  <2> SUFFICES ASSUME NEW e, e \in Extents', e \in Range(dying')
               PROVE  FALSE
    OBVIOUS
  <2>1. PICK j \in DOMAIN rec' : \E i \in DOMAIN rec'[j].ext : e = rec'[j].ext[i]
    BY ExtentsAre
  <2>2. PICK m \in DOMAIN rec[k].ext : e = rec[k].ext[m]
    BY <1>9
  <2>3. j \in DOMAIN rec /\ j # k /\ \E i \in DOMAIN rec[j].ext : e = rec[j].ext[i]
    BY <1>7, <2>1
  <2> QED
    BY <1>2, <1>12, <2>2, <2>3
<1>14. \A i, j \in DOMAIN dying' : dying'[i] = dying'[j] => i = j
  BY <1>1, <1>2, <1>3, <1>12
<1>15. \A j, l \in DOMAIN rec' : \A i \in DOMAIN rec'[j].ext, m \in DOMAIN rec'[l].ext :
          rec'[j].ext[i] = rec'[l].ext[m] => j = l /\ i = m
  BY <1>7, <1>12
<1>16. Accounted(fl', Owned', file_end')
  BY <1>3, <1>11 DEF Space
<1>17. fresh' \in Seq(Extent) /\ Len(fresh') <= 1 /\ Extents' \cap Range(fresh') = {}
       /\ dying' \in Seq(Extent)
  <2>1. fresh \in Seq(Extent) /\ Len(fresh) <= 1 /\ fresh' = fresh
    BY <1>3 DEF Space
  <2> QED
    BY <1>3, <1>5, <1>6, <2>1
<1>18. lost' \cap (Extents' \cup Range(fresh') \cup Range(dying')) = {} /\ flcap' \in Nat
  <2>1. lost \cap Extents = {} /\ flcap \in Nat
    BY DEF Space
  <2> QED
    BY <1>3, <1>6, <1>10, <2>1
<1> QED
  BY <1>13, <1>14, <1>15, <1>16, <1>17, <1>18 DEF Space

LEMMA AllocEffect ==
    ASSUME Types, Control, Holding, Space, NEW t \in Threads, Alloc(t)
    PROVE  \E e \in Extent : fresh' = <<e>> /\ e \notin Owned
                             /\ Accounted(fl', Owned \cup {e}, file_end')
<1>1. pc[t] = "extents" /\ Deficit(t) > 0
  BY DEF Alloc
<1>2. Key(t) \in DOMAIN rec /\ Need(t) \in Nat
  BY <1>1, NotErasing, Caught
<1>3. Grown(t) \in DOMAIN rec
  BY <1>2 DEF Grown, Holding
<1>4. Wanted(t) \in Nat /\ rec[Grown(t)].ext_total \in Nat
  <2>1. \A k \in DOMAIN rec : rec[k].size \in Nat /\ rec[k].ext_total \in Nat
    BY RecordFields DEF Types
  <2>2. vic # NoKey => vic \in DOMAIN rec
    BY DEF Holding
  <2> QED
    BY <1>2, <1>3, <2>1, <2>2 DEF Wanted
<1>5. Deficit(t) \in Nat \ {0}
  BY <1>1, <1>4 DEF Deficit
<1>6. PICK need : need = Request(t)
  OBVIOUS
<1>7. need \in Nat \ {0}
  BY <1>5, <1>6, RoundUpProps DEF Request
<1>8. Accounted(fl, Owned, file_end)
  BY DEF Space
<1>9. CASE Fitting(fl, need) # {}
  <2>1. PICK e, g : e = [foff |-> fl[BestFit(fl, need)].foff, len |-> need]
                    /\ g = TakeFront(fl, BestFit(fl, need), need)
    OBVIOUS
  <2>2. fresh' = <<e>> /\ fl' = g /\ file_end' = file_end
    BY <1>6, <1>9, <2>1 DEF Alloc
  <2>3. e \in Extent /\ e \notin Owned /\ Accounted(g, Owned \cup {e}, file_end)
    BY <1>7, <1>8, <1>9, <2>1, AccountBest
  <2> QED
    BY <2>2, <2>3
<1>10. CASE /\ Fitting(fl, need) = {}
            /\ fl # << >> /\ fresh' = <<fl[Largest(fl)]>>
            /\ fl' = RemoveAt(fl, Largest(fl)) /\ UNCHANGED file_end
  <2>1. PICK e, g : e = fl[Largest(fl)] /\ g = RemoveAt(fl, Largest(fl))
    OBVIOUS
  <2>2. fresh' = <<e>> /\ fl' = g /\ file_end' = file_end
    BY <1>10, <2>1
  <2>3. e \in Extent /\ e \notin Owned /\ Accounted(g, Owned \cup {e}, file_end)
    BY <1>8, <1>10, <2>1, AccountLargest
  <2> QED
    BY <2>2, <2>3
<1>11. CASE /\ fresh' = <<[foff |-> file_end, len |-> need]>>
            /\ file_end' = file_end + need /\ UNCHANGED fl
  <2>1. PICK e : e = [foff |-> file_end, len |-> need]
    OBVIOUS
  <2>2. e \in Extent /\ e \notin Owned /\ Accounted(fl, Owned \cup {e}, file_end + need)
    BY <1>7, <1>8, <2>1, AccountTail
  <2> QED
    BY <1>11, <2>1, <2>2
<1> QED
  BY <1>6, <1>9, <1>10, <1>11 DEF Alloc

LEMMA AllocSpace ==
    ASSUME Types, Control, Holding, Space, NEW t \in Threads, Alloc(t)
    PROVE  Space'
<1>1. PICK e \in Extent : fresh' = <<e>> /\ e \notin Owned
                          /\ Accounted(fl', Owned \cup {e}, file_end')
  BY AllocEffect
<1>2. pc[t] = "extents" /\ UNCHANGED <<rec, flcap, lost, dying>>
  BY DEF Alloc
<1>3. lk = t
  BY <1>2 DEF Control, Locked
<1>4. fresh = << >> /\ dying = << >>
  BY <1>2, <1>3, Hands
<1>5. Range(fresh) = {} /\ Range(fresh') = {e} /\ Extents' = Extents /\ Range(dying') = Range(dying)
  <2>1. Range(<< >>) = {}
    BY DEF Range
  <2>2. Range(<<e>>) = {e}
    BY DEF Range
  <2> QED
    BY <1>1, <1>2, <1>4, <2>1, <2>2 DEF Extents, Range
<1>6. Owned' = Owned \cup {e}
  BY <1>2, <1>5 DEF Owned
<1>7. Extents' \cap Range(fresh') = {}
  BY <1>1, <1>5 DEF Owned
<1>8. fresh' \in Seq(Extent) /\ Len(fresh') <= 1
  BY <1>1
<1>9. Accounted(fl', Owned', file_end')
  BY <1>1, <1>6
<1>10. lost' \cap (Extents' \cup Range(fresh') \cup Range(dying')) = {} /\ flcap' \in Nat
  <2>1. lost \cap (Extents \cup Range(fresh) \cup Range(dying)) = {} /\ e \notin lost /\ flcap \in Nat
    BY <1>1 DEF Space, Owned
  <2> QED
    BY <1>2, <1>5, <2>1
<1> QED
  BY <1>2, <1>5, <1>7, <1>8, <1>9, <1>10 DEF Space

LEMMA ZeroFailsSpace ==
    ASSUME Types, Control, Holding, Space, NEW t \in Threads, ZeroFails(t)
    PROVE  Space'
<1>1. pc[t] = "zero" /\ UNCHANGED <<rec, fl, flcap, file_end, lost>> /\ dying' = fresh /\ fresh' = << >>
  BY DEF ZeroFails, space
<1>2. lk = t
  BY <1>1 DEF Control, Locked
<1>3. dying = << >>
  BY <1>1, <1>2, Hands
<1>4. Range(<< >>) = {}
  BY DEF Range
<1>5. Extents' = Extents /\ Range(dying) = {} /\ Range(fresh') = {} /\ Range(dying') = Range(fresh)
  BY <1>1, <1>3, <1>4 DEF Extents
<1>6. Owned' = Owned
  BY <1>1, <1>5 DEF Owned
<1>7. fresh \in Seq(Extent) /\ Len(fresh) <= 1
  BY DEF Space
<1>8. \A i, j \in DOMAIN dying' : dying'[i] = dying'[j] => i = j
  <2>1. DOMAIN fresh = 1 .. Len(fresh) /\ Len(fresh) \in Nat
    BY <1>7
  <2>2. \A i, j \in 1 .. Len(fresh) : i = j
    BY <1>7, <2>1
  <2> QED
    BY <1>1, <2>1, <2>2
<1>9. fresh' \in Seq(Extent) /\ Len(fresh') <= 1 /\ dying' \in Seq(Extent)
  <2>1. << >> \in Seq(Extent) /\ Len(<< >>) = 0
    BY EmptySeq
  <2> QED
    BY <1>1, <1>7, <2>1
<1>10. Accounted(fl', Owned', file_end')
  BY <1>1, <1>6 DEF Space
<1>11. Extents' \cap Range(dying') = {} /\ Extents' \cap Range(fresh') = {}
  BY <1>5 DEF Space
<1>12. lost' \cap (Extents' \cup Range(fresh') \cup Range(dying')) = {} /\ flcap' \in Nat
  <2>1. lost \cap (Extents \cup Range(fresh) \cup Range(dying)) = {} /\ flcap \in Nat
    BY DEF Space
  <2> QED
    BY <1>1, <1>5, <2>1
<1> QED
  BY <1>1, <1>12, <1>8, <1>9, <1>10, <1>11 DEF Space

LEMMA FreeSpace ==
    ASSUME Types, Control, Holding, Space, NEW t \in Threads, Free(t)
    PROVE  /\ Space' /\ file_end' <= file_end
           /\ \A e \in Extents' : End(e) <= file_end'
<1>1. PICK e, r : e = Head(dying) /\ r = fl_insert(fl, file_end, e)
  OBVIOUS
<1>2. pc[t] = "free" /\ dying # << >> /\ dying' = Tail(dying) /\ UNCHANGED <<rec, fresh>>
  BY DEF Free
<1>f. \/ fl' = r.fl /\ file_end' = r.file_end /\ lost' = lost
      \/ fl' = fl /\ file_end' = file_end /\ lost' = lost \cup {e}
  BY <1>1 DEF Free, Inserted, Dropped
<1>c. flcap' \in Nat
  BY StoreAssumption DEF Free, Inserted, Dropped, Space
<1>3. lk = t
  BY <1>2 DEF Control, Locked
<1>4. fresh = << >> /\ Range(fresh) = {}
  BY <1>2, <1>3, Hands DEF Range
<1>5. dying \in Seq(Extent) /\ Len(dying) \in Nat \ {0} /\ DOMAIN dying = 1 .. Len(dying)
  BY <1>2, EmptySeq DEF Space
<1>6. e = dying[1] /\ e \in Range(dying)
  BY <1>1, <1>5 DEF Range
<1>7. /\ dying' \in Seq(Extent) /\ Len(dying') = Len(dying) - 1
      /\ DOMAIN dying' = 1 .. (Len(dying) - 1)
      /\ \A i \in 1 .. (Len(dying) - 1) : dying'[i] = dying[i + 1]
  <2>1. Tail(dying) \in Seq(Extent) /\ Len(Tail(dying)) = Len(dying) - 1
        /\ \A i \in 1 .. (Len(dying) - 1) : Tail(dying)[i] = dying[i + 1]
    BY <1>2, <1>5
  <2> QED
    BY <1>2, <2>1
<1>8. \A i, j \in DOMAIN dying : dying[i] = dying[j] => i = j
  BY DEF Space
<1>9. Range(dying') = Range(dying) \ {e}
  BY <1>1, <1>2, <1>5, <1>8, TailRange
<1>10. Extents' = Extents /\ Range(fresh') = {}
  BY <1>2, <1>4 DEF Extents
<1>11. Extents \cap Range(dying) = {}
  BY DEF Space
<1>l. lost \cap (Extents \cup Range(fresh) \cup Range(dying)) = {}
  BY DEF Space
<1>12. e \in Owned /\ (lost' = lost => Owned' = Owned \ {e})
       /\ (lost' = lost \cup {e} => Owned' = Owned)
  <2>1. e \in Owned
    BY <1>6 DEF Owned
  <2>2. ASSUME lost' = lost PROVE Owned' = Owned \ {e}
    BY <1>4, <1>6, <1>9, <1>10, <1>11, <1>l, <2>2 DEF Owned
  <2>3. ASSUME lost' = lost \cup {e} PROVE Owned' = Owned
    BY <1>4, <1>6, <1>9, <1>10, <2>3 DEF Owned
  <2> QED
    BY <2>1, <2>2, <2>3
<1>13. /\ Accounted(r.fl, Owned \ {e}, r.file_end) /\ r.file_end <= file_end
       /\ \A d \in Owned \ {e} : End(d) <= r.file_end
  BY <1>1, <1>12, AccountGivenBack DEF Space
<1>14. Accounted(fl', Owned', file_end') /\ file_end' <= file_end
       /\ \A d \in Owned' : End(d) <= file_end'
  <2>1. CASE fl' = r.fl /\ file_end' = r.file_end /\ lost' = lost
    BY <1>12, <1>13, <2>1
  <2>2. CASE fl' = fl /\ file_end' = file_end /\ lost' = lost \cup {e}
    <3>1. Accounted(fl, Owned, file_end) /\ file_end \in Nat
      BY DEF Space, Accounted
    <3>2. \A d \in Owned : End(d) <= file_end
      BY <3>1, AccountInside
    <3> QED
      BY <1>12, <2>2, <3>1, <3>2
  <2> QED
    BY <1>f, <2>1, <2>2
<1>15. \A i, j \in DOMAIN dying' : dying'[i] = dying'[j] => i = j
  <2> SUFFICES ASSUME NEW i \in 1 .. (Len(dying) - 1), NEW j \in 1 .. (Len(dying) - 1),
                      dying[i + 1] = dying[j + 1]
               PROVE  i = j
    BY <1>7
  <2>1. i + 1 \in DOMAIN dying /\ j + 1 \in DOMAIN dying
    BY <1>5
  <2>2. i + 1 = j + 1
    BY <1>8, <2>1
  <2> QED
    BY <1>5, <2>2
<1>16. Extents' \cap Range(dying') = {} /\ Extents' \cap Range(fresh') = {}
  BY <1>9, <1>10, <1>11
<1>m. lost' \cap (Extents' \cup Range(fresh') \cup Range(dying')) = {}
  BY <1>4, <1>6, <1>9, <1>10, <1>11, <1>f, <1>l
<1>17. fresh' \in Seq(Extent) /\ Len(fresh') <= 1
  BY <1>2 DEF Space
<1>18. Space'
  BY <1>2, <1>7, <1>14, <1>15, <1>16, <1>17, <1>c, <1>m DEF Space
<1>19. Extents' \subseteq Owned'
  BY <1>10 DEF Owned, Extents
<1> QED
  BY <1>14, <1>18, <1>19

LEMMA ZeroSpace ==
    ASSUME Types, Control, Holding, Space, NEW t \in Threads, Zero(t)
    PROVE  Space'
<1>1. PICK k, r, e, x, y : k = Grown(t) /\ r = rec[k] /\ e = fresh[1]
                           /\ x = Append(r.ext, e) /\ y = r.ext_total + e.len
  OBVIOUS
<1>2. /\ pc[t] = "zero" /\ k \in DOMAIN rec /\ e \in Extent /\ Len(fresh) = 1
      /\ Sets(k, [r EXCEPT !.ext = x, !.ext_total = y])
  BY <1>1, ZeroEffect
<1>3. UNCHANGED <<fl, flcap, file_end, lost, dying>> /\ fresh' = << >>
  BY DEF Zero, space
<1>4. r \in Record /\ r.ext \in Seq(Extent) /\ Len(r.ext) \in Nat /\ DOMAIN r.ext = 1 .. Len(r.ext)
  BY <1>1, <1>2, RecordFields, HoleFields DEF Types
<1>5. /\ DOMAIN rec' = DOMAIN rec /\ rec'[k].ext = x
      /\ \A j \in DOMAIN rec \ {k} : rec'[j] = rec[j]
  <2>1. [r EXCEPT !.ext = x, !.ext_total = y].ext = x
    BY <1>4, RecordUpdates
  <2> QED
    BY <1>2, <2>1 DEF Sets
<1>6. /\ x \in Seq(Extent) /\ DOMAIN x = 1 .. (Len(r.ext) + 1)
      /\ (\A i \in 1 .. Len(r.ext) : x[i] = r.ext[i]) /\ x[Len(r.ext) + 1] = e
  BY <1>1, <1>2, <1>4
<1>7. Range(fresh) = {e} /\ Range(fresh') = {}
  <2>1. fresh \in Seq(Extent)
    BY DEF Space
  <2>2. DOMAIN fresh = {1}
    BY <1>2, <2>1
  <2> QED
    BY <1>1, <1>3, <2>2 DEF Range
<1>8. e \notin Extents
  BY <1>7 DEF Space
<1>9. \A d : d \in Extents' <=> d \in Extents \/ d = e
  <2>1. ASSUME NEW d \in Extents'
        PROVE  d \in Extents \/ d = e
    <3>1. PICK j \in DOMAIN rec' : \E i \in DOMAIN rec'[j].ext : d = rec'[j].ext[i]
      BY ExtentsAre
    <3>2. CASE j # k
      <4>1. j \in DOMAIN rec /\ \E i \in DOMAIN rec[j].ext : d = rec[j].ext[i]
        BY <1>5, <3>1, <3>2
      <4> QED
        BY <4>1, ExtentsAre
    <3>3. CASE j = k
      <4>1. PICK i \in DOMAIN x : d = x[i]
        BY <1>5, <3>1, <3>3
      <4>2. CASE i = Len(r.ext) + 1
        BY <1>6, <4>1, <4>2
      <4>3. CASE i # Len(r.ext) + 1
        <5>1. i \in 1 .. Len(r.ext)
          BY <1>4, <1>6, <4>3
        <5>2. i \in DOMAIN rec[k].ext /\ d = rec[k].ext[i]
          BY <1>1, <1>4, <1>6, <4>1, <5>1
        <5> QED
          BY <1>2, <5>2, ExtentsAre
      <4> QED
        BY <4>2, <4>3
    <3> QED
      BY <3>2, <3>3
  <2>2. ASSUME NEW d \in Extents
        PROVE  d \in Extents'
    <3>1. PICK j \in DOMAIN rec : \E i \in DOMAIN rec[j].ext : d = rec[j].ext[i]
      BY ExtentsAre
    <3>2. CASE j # k
      <4>1. j \in DOMAIN rec' /\ \E i \in DOMAIN rec'[j].ext : d = rec'[j].ext[i]
        BY <1>5, <3>1, <3>2
      <4> QED
        BY <4>1, ExtentsAre
    <3>3. CASE j = k
      <4>1. PICK i \in DOMAIN r.ext : d = r.ext[i]
        BY <1>1, <3>1, <3>3
      <4>2. i \in DOMAIN x /\ d = x[i]
        BY <1>4, <1>6, <4>1
      <4> QED
        BY <1>2, <1>5, <4>2, ExtentsAre
    <3> QED
      BY <3>2, <3>3
  <2>3. e \in Extents'
    <3>1. Len(r.ext) + 1 \in DOMAIN x
      BY <1>4, <1>6
    <3> QED
      BY <1>2, <1>5, <1>6, <3>1, ExtentsAre
  <2> QED
    BY <2>1, <2>2, <2>3
<1>10. Owned' = Owned
  <2>1. Range(dying') = Range(dying) /\ lost' = lost
    BY <1>3
  <2> QED
    BY <1>7, <1>9, <2>1 DEF Owned
<1>11. \A j, l \in DOMAIN rec : \A i \in DOMAIN rec[j].ext, m \in DOMAIN rec[l].ext :
          rec[j].ext[i] = rec[l].ext[m] => j = l /\ i = m
  BY DEF Space
<1>12. \A j \in DOMAIN rec' : \A i \in DOMAIN rec'[j].ext :
          \/ i \in DOMAIN rec[j].ext /\ rec'[j].ext[i] = rec[j].ext[i] /\ rec[j].ext[i] # e
          \/ j = k /\ i = Len(r.ext) + 1 /\ rec'[j].ext[i] = e
  <2> SUFFICES ASSUME NEW j \in DOMAIN rec', NEW i \in DOMAIN rec'[j].ext
               PROVE  \/ /\ i \in DOMAIN rec[j].ext /\ rec'[j].ext[i] = rec[j].ext[i]
                         /\ rec[j].ext[i] # e
                      \/ j = k /\ i = Len(r.ext) + 1 /\ rec'[j].ext[i] = e
    OBVIOUS
  <2>1. \A l \in DOMAIN rec : \A m \in DOMAIN rec[l].ext : rec[l].ext[m] # e
    BY <1>8, ExtentsAre
  <2>2. CASE j # k
    BY <1>5, <2>1, <2>2
  <2>3. CASE j = k
    <3>1. i \in 1 .. (Len(r.ext) + 1) /\ rec'[j].ext[i] = x[i]
      BY <1>5, <1>6, <2>3
    <3>2. CASE i = Len(r.ext) + 1
      BY <1>6, <2>3, <3>1, <3>2
    <3>3. CASE i # Len(r.ext) + 1
      <4>1. i \in 1 .. Len(r.ext)
        BY <1>4, <3>1, <3>3
      <4> QED
        BY <1>1, <1>2, <1>4, <1>6, <2>1, <2>3, <3>1, <4>1
    <3> QED
      BY <3>2, <3>3
  <2> QED
    BY <2>2, <2>3
<1>13. \A j, l \in DOMAIN rec' : \A i \in DOMAIN rec'[j].ext, m \in DOMAIN rec'[l].ext :
          rec'[j].ext[i] = rec'[l].ext[m] => j = l /\ i = m
  <2> SUFFICES ASSUME NEW j \in DOMAIN rec', NEW l \in DOMAIN rec',
                      NEW i \in DOMAIN rec'[j].ext, NEW m \in DOMAIN rec'[l].ext,
                      rec'[j].ext[i] = rec'[l].ext[m]
               PROVE  j = l /\ i = m
    OBVIOUS
  <2> QED
    BY <1>5, <1>11, <1>12
<1>14. Extents' \cap Range(dying') = {} /\ Extents' \cap Range(fresh') = {}
  <2>1. e \notin Range(dying)
    <3>1. lk = t
      BY <1>2 DEF Control, Locked
    <3>2. dying = << >>
      BY <1>2, <3>1, Hands
    <3> QED
      BY <3>2 DEF Range
  <2>2. Range(dying') = Range(dying) /\ Extents \cap Range(dying) = {}
    BY <1>3 DEF Space
  <2> QED
    BY <1>7, <1>9, <2>1, <2>2
<1>15. fresh' \in Seq(Extent) /\ Len(fresh') <= 1
  <2>1. << >> \in Seq(Extent) /\ Len(<< >>) = 0
    BY EmptySeq
  <2> QED
    BY <1>3, <2>1
<1>16. Accounted(fl', Owned', file_end')
  BY <1>3, <1>10 DEF Space
<1>17. lost' \cap (Extents' \cup Range(fresh') \cup Range(dying')) = {} /\ flcap' \in Nat
  <2>1. lost \cap (Extents \cup Range(fresh) \cup Range(dying)) = {} /\ flcap \in Nat
    BY DEF Space
  <2>2. Range(dying') = Range(dying)
    BY <1>3
  <2> QED
    BY <1>3, <1>7, <1>9, <2>1, <2>2
<1> QED
  BY <1>3, <1>17, <1>13, <1>14, <1>15, <1>16 DEF Space

LEMMA SpaceNext ==
    ASSUME Safe, NEW t \in Threads, Step(t), UNCHANGED setting
    PROVE  Space'
<1>0. Types /\ Control /\ Holding /\ Space /\ Memory /\ Counts
  BY DEF Safe
<1>r. \A k \in DOMAIN rec : rec[k] \in Record
  BY <1>0 DEF Types
<1>1. ASSUME NEW c \in Calls, c.op = "read", StartRead(t, c)
      PROVE  Space'
  <2>1. PICK k, r, b : k = c.key /\ r = rec[k] /\ b = r.busy + 1
    OBVIOUS
  <2>2. k \in DOMAIN rec /\ Sets(k, [r EXCEPT !.busy = b])
    BY <1>0, <1>1, <2>1, StartReadShape
  <2>3. [r EXCEPT !.busy = b].ext = rec[k].ext
    BY <1>r, <2>1, <2>2, RecordUpdates
  <2>4. UNCHANGED <<fl, flcap, file_end, lost, fresh, dying>>
    BY <1>1 DEF StartRead, space
  <2> QED
    BY <1>0, <2>2, <2>3, <2>4, SetsSpace
<1>2. ASSUME NEW c \in Calls, c.op \notin {"read", "erase"}, StartGrow(t, Resolve(c))
      PROVE  Space'
  <2>1. IF c.key \in DOMAIN rec THEN UNCHANGED rec ELSE Sets(c.key, NewRec)
    BY <1>0, <1>2, StartGrowShape
  <2>2. UNCHANGED <<fl, flcap, file_end, lost, fresh, dying>>
    BY <1>2 DEF StartGrow, space
  <2>3. NewRec.ext = << >>
    BY DEF NewRec
  <2>4. CASE c.key \in DOMAIN rec
    <3>1. UNCHANGED rec
      BY <2>1, <2>4
    <3> QED
      BY <1>0, <2>2, <3>1, SpaceKept
  <2>5. CASE c.key \notin DOMAIN rec
    BY <1>0, <2>1, <2>2, <2>3, <2>5, SetsSpace
  <2> QED
    BY <2>4, <2>5
<1>3. ASSUME NEW c \in Calls, ls_erase(t, c)
      PROVE  Space'
  BY <1>0, <1>3, EraseSpace
<1>4. CASE QuietStep(t)
  <2>1. UNCHANGED <<rec, fl, flcap, file_end, lost, fresh, dying>>
    BY <1>4, QuietSteps DEF Quiet
  <2> QED
    BY <1>0, <2>1, SpaceKept
<1>5. CASE Leave(t)
  <2>1. PICK k, r, b : k = Key(t) /\ r = rec[k] /\ b = r.busy - 1
    OBVIOUS
  <2>2. k \in DOMAIN rec /\ Sets(k, [r EXCEPT !.busy = b])
    BY <1>0, <1>5, <2>1, LeaveEffect
  <2>3. [r EXCEPT !.busy = b].ext = rec[k].ext
    BY <1>r, <2>1, <2>2, RecordUpdates
  <2>4. UNCHANGED <<fl, flcap, file_end, lost, fresh, dying>>
    BY <1>5 DEF Leave, space, lock
  <2> QED
    BY <1>0, <2>2, <2>3, <2>4, SetsSpace
<1>6. CASE Fit(t)
  <2>1. PICK k, r, n : k = Key(t) /\ r = rec[k] /\ n = Need(t)
    OBVIOUS
  <2>2. k \in DOMAIN rec
    BY <1>0, <1>6, <2>1, FitEffect
  <2>3. PICK b \in Nat \ {0} : Sets(k, [r EXCEPT !.mem = b, !.mem_cap = n])
    BY <1>0, <1>6, <2>1, FitEffect
  <2>4. [r EXCEPT !.mem = b, !.mem_cap = n].ext = rec[k].ext
    BY <1>r, <2>1, <2>2, RecordUpdates
  <2>5. UNCHANGED <<fl, flcap, file_end, lost, fresh, dying>>
    BY <1>6 DEF Fit, space, lock
  <2> QED
    BY <1>0, <2>2, <2>3, <2>4, <2>5, SetsSpace
<1>7. CASE Spill(t)
  <2>1. PICK k, r : k = vic /\ r = rec[k]
    OBVIOUS
  <2>2. k \in DOMAIN rec /\ Sets(k, [r EXCEPT !.mem = NULL, !.mem_cap = 0])
    BY <1>0, <1>7, <2>1, SpillEffect
  <2>3. [r EXCEPT !.mem = NULL, !.mem_cap = 0].ext = rec[k].ext
    BY <1>r, <2>1, <2>2, RecordUpdates
  <2>4. UNCHANGED <<fl, flcap, file_end, lost, fresh, dying>>
    BY <1>7 DEF Spill, space
  <2> QED
    BY <1>0, <2>2, <2>3, <2>4, SetsSpace
<1>8. CASE Ready(t) \/ Reserved(t)
  <2>1. PICK k, r, n, b : k = Key(t) /\ r = rec[k] /\ n = NewSize(r, Need(t)) /\ b = r.busy + 1
    OBVIOUS
  <2>2. /\ k \in DOMAIN rec
        /\ Sets(k, [r EXCEPT !.size = n, !.busy = b]) \/ Sets(k, [r EXCEPT !.size = n])
    BY <1>0, <1>8, <2>1, ReadyEffect, ReservedEffect
  <2>3. [r EXCEPT !.size = n, !.busy = b].ext = rec[k].ext /\ [r EXCEPT !.size = n].ext = rec[k].ext
    BY <1>r, <2>1, <2>2, RecordUpdates
  <2>4. UNCHANGED <<fl, flcap, file_end, lost, fresh, dying>>
    BY <1>8 DEF Ready, Reserved, space
  <2> QED
    BY <1>0, <2>2, <2>3, <2>4, SetsSpace
<1>9. CASE Alloc(t) \/ Zero(t) \/ ZeroFails(t) \/ Free(t)
  BY <1>0, <1>9, AllocSpace, ZeroSpace, ZeroFailsSpace, FreeSpace
<1> QED
  BY <1>1, <1>2, <1>3, <1>4, <1>5, <1>6, <1>7, <1>8, <1>9, StepCases

-----------------------------------------------------------------------------
(* The memory tier.                                                        *)

\* ls_lru_drop takes a record off the list, ls_lru_touch puts it in front.
LEMMA LruDrop ==
    ASSUME NEW l \in Seq(Keys), IsInjective(l), NEW k
    PROVE  /\ ls_lru_drop(l, k) \in Seq(Keys)
           /\ IsInjective(ls_lru_drop(l, k))
           /\ Range(ls_lru_drop(l, k)) = Range(l) \ {k}
<1>0. Len(l) \in Nat /\ DOMAIN l = 1 .. Len(l)
  OBVIOUS
<1>i. \A a, b \in 1 .. Len(l) : l[a] = l[b] => a = b
  BY <1>0 DEF IsInjective
<1>1. CASE k \notin Range(l)
  BY <1>1 DEF ls_lru_drop
<1>2. CASE k \in Range(l)
  <2>1. PICK i : i = CHOOSE j \in DOMAIN l : l[j] = k
    OBVIOUS
  <2>2. i \in 1 .. Len(l) /\ l[i] = k
    <3>1. \E j \in DOMAIN l : l[j] = k
      BY <1>2 DEF Range
    <3> QED
      BY <1>0, <2>1, <3>1
  <2>3. PICK m : m = RemoveAt(l, i)
    OBVIOUS
  <2>4. m = ls_lru_drop(l, k)
    BY <1>2, <2>1, <2>3 DEF ls_lru_drop
  <2>5. /\ m \in Seq(Keys) /\ Len(m) = Len(l) - 1
        /\ \A j \in 1 .. (Len(l) - 1) : m[j] = IF j < i THEN l[j] ELSE l[j + 1]
    BY <2>2, <2>3, RemoveAtProps
  <2>6. DOMAIN m = 1 .. (Len(l) - 1)
    BY <2>5
  <2>7. IsInjective(m)
    <3> SUFFICES ASSUME NEW a \in 1 .. (Len(l) - 1), NEW b \in 1 .. (Len(l) - 1), m[a] = m[b]
                 PROVE  a = b
      BY <2>6 DEF IsInjective
    <3>1. PICK x, y : x = (IF a < i THEN a ELSE a + 1) /\ y = (IF b < i THEN b ELSE b + 1)
      OBVIOUS
    <3>2. x \in 1 .. Len(l) /\ y \in 1 .. Len(l)
      BY <1>0, <3>1
    <3>3. m[a] = l[x] /\ m[b] = l[y]
      BY <2>5, <3>1
    <3>4. x = y
      BY <1>i, <3>2, <3>3
    <3> QED
      BY <1>0, <2>2, <3>1, <3>4
  <2>8. Range(m) = Range(l) \ {k}
    <3>1. ASSUME NEW z \in Range(m)
          PROVE  z \in Range(l) /\ z # k
      <4>1. PICK a \in 1 .. (Len(l) - 1) : z = m[a]
        BY <2>6 DEF Range
      <4>2. PICK x : x = (IF a < i THEN a ELSE a + 1)
        OBVIOUS
      <4>3. x \in 1 .. Len(l) /\ x # i /\ z = l[x]
        BY <1>0, <2>2, <2>5, <4>1, <4>2
      <4> QED
        BY <1>0, <1>i, <2>2, <4>3 DEF Range
    <3>2. ASSUME NEW z \in Range(l), z # k
          PROVE  z \in Range(m)
      <4>1. PICK x \in 1 .. Len(l) : z = l[x]
        BY <1>0 DEF Range
      <4>2. x # i
        BY <2>2, <3>2, <4>1
      <4>3. PICK a : a = (IF x < i THEN x ELSE x - 1)
        OBVIOUS
      <4>4. a \in 1 .. (Len(l) - 1) /\ (IF a < i THEN a ELSE a + 1) = x
        BY <1>0, <2>2, <4>2, <4>3
      <4>5. m[a] = z /\ a \in DOMAIN m
        BY <2>5, <2>6, <4>1, <4>4
      <4> QED
        BY <4>5 DEF Range
    <3> QED
      BY <3>1, <3>2
  <2> QED
    BY <2>4, <2>5, <2>7, <2>8
<1> QED
  BY <1>1, <1>2

LEMMA LruTouch ==
    ASSUME NEW l \in Seq(Keys), IsInjective(l), NEW k \in Keys
    PROVE  /\ ls_lru_touch(l, k) \in Seq(Keys)
           /\ IsInjective(ls_lru_touch(l, k))
           /\ Range(ls_lru_touch(l, k)) = Range(l) \cup {k}
<1>1. PICK d, m : d = ls_lru_drop(l, k) /\ m = <<k>> \o d
  OBVIOUS
<1>2. d \in Seq(Keys) /\ IsInjective(d) /\ Range(d) = Range(l) \ {k}
  BY <1>1, LruDrop
<1>3. ls_lru_touch(l, k) = m
  BY <1>1 DEF ls_lru_touch
<1>4. Len(d) \in Nat /\ DOMAIN d = 1 .. Len(d)
  BY <1>2
<1>5. /\ m \in Seq(Keys) /\ Len(m) = Len(d) + 1 /\ m[1] = k
      /\ \A i \in 2 .. (Len(d) + 1) : m[i] = d[i - 1]
  <2>1. <<k>> \in Seq(Keys) /\ Len(<<k>>) = 1 /\ <<k>>[1] = k
    OBVIOUS
  <2>2. /\ <<k>> \o d \in Seq(Keys) /\ Len(<<k>> \o d) = Len(<<k>>) + Len(d)
        /\ \A i \in 1 .. (Len(<<k>>) + Len(d)) :
             (<<k>> \o d)[i] = IF i <= Len(<<k>>) THEN <<k>>[i] ELSE d[i - Len(<<k>>)]
    BY <1>2, <2>1, ConcatProperties
  <2> QED
    BY <1>1, <1>4, <2>1, <2>2
<1>6. DOMAIN m = 1 .. (Len(d) + 1)
  BY <1>5
<1>7. \A i \in 2 .. (Len(d) + 1) : i - 1 \in DOMAIN d /\ m[i] \in Range(d) /\ m[i] # k
  <2> TAKE i \in 2 .. (Len(d) + 1)
  <2>1. i - 1 \in DOMAIN d
    BY <1>4
  <2>2. m[i] \in Range(d)
    BY <1>5, <2>1 DEF Range
  <2> QED
    BY <1>2, <2>1, <2>2
<1>8. IsInjective(m)
  <2> SUFFICES ASSUME NEW a \in 1 .. (Len(d) + 1), NEW b \in 1 .. (Len(d) + 1), m[a] = m[b]
               PROVE  a = b
    BY <1>6 DEF IsInjective
  <2>1. CASE a = 1 \/ b = 1
    BY <1>4, <1>5, <1>7, <2>1
  <2>2. CASE a # 1 /\ b # 1
    <3>1. a \in 2 .. (Len(d) + 1) /\ b \in 2 .. (Len(d) + 1)
      BY <1>4, <2>2
    <3>2. d[a - 1] = d[b - 1] /\ a - 1 \in DOMAIN d /\ b - 1 \in DOMAIN d
      BY <1>5, <1>7, <3>1
    <3>3. a - 1 = b - 1
      BY <1>2, <3>2 DEF IsInjective
    <3> QED
      BY <3>1, <3>3
  <2> QED
    BY <2>1, <2>2
<1>9. Range(m) = Range(l) \cup {k}
  <2>1. ASSUME NEW z \in Range(m)
        PROVE  z \in Range(l) \cup {k}
    <3>1. PICK i \in 1 .. (Len(d) + 1) : z = m[i]
      BY <1>6 DEF Range
    <3>2. i = 1 \/ i \in 2 .. (Len(d) + 1)
      BY <1>4
    <3> QED
      BY <1>2, <1>5, <1>7, <3>1, <3>2
  <2>2. k \in Range(m)
    <3>1. 1 \in DOMAIN m
      BY <1>4, <1>6
    <3> QED
      BY <1>5, <3>1 DEF Range
  <2>3. ASSUME NEW z \in Range(d)
        PROVE  z \in Range(m)
    <3>1. PICK i \in 1 .. Len(d) : z = d[i]
      BY <1>4 DEF Range
    <3>2. PICK j : j = i + 1
      OBVIOUS
    <3>3. j \in 2 .. (Len(d) + 1) /\ j \in DOMAIN m /\ j - 1 = i
      BY <1>4, <1>6, <3>2
    <3>4. m[j] = z
      BY <1>5, <3>1, <3>3
    <3> QED
      BY <3>3, <3>4 DEF Range
  <2> QED
    BY <1>2, <2>1, <2>2, <2>3
<1> QED
  BY <1>3, <1>5, <1>8, <1>9

\* The capacities, when one record changes.
Caps(r) == Total([k \in DOMAIN r |-> r[k].mem_cap], DOMAIN r)

LEMMA CapsSplit ==
    ASSUME NEW f, IsFiniteSet(DOMAIN f), \A j \in DOMAIN f : f[j].mem_cap \in Nat,
           NEW g, NEW k, k \in DOMAIN g, DOMAIN g = DOMAIN f \cup {k}, g[k].mem_cap \in Nat,
           \A j \in DOMAIN f \ {k} : g[j] = f[j]
    PROVE  \E m \in Nat : /\ Caps(f) = (IF k \in DOMAIN f THEN f[k].mem_cap ELSE 0) + m
                          /\ Caps(g) = g[k].mem_cap + m
<1> DEFINE D == DOMAIN f \ {k}
           v == [j \in DOMAIN f |-> f[j].mem_cap]
           w == [j \in DOMAIN g |-> g[j].mem_cap]
           m == Total(v, D)
<1>1. IsFiniteSet(D) /\ IsFiniteSet(DOMAIN g) /\ D \subseteq DOMAIN f
  BY FS_RemoveElement, FS_AddElement
<1>2. (\A j \in DOMAIN f : v[j] \in Nat) /\ (\A j \in DOMAIN g : w[j] \in Nat)
      /\ \A j \in D : w[j] = v[j] /\ v[j] \in Nat
  OBVIOUS
<1>3. Caps(f) = Total(v, DOMAIN f) /\ Caps(g) = Total(w, DOMAIN g)
  BY DEF Caps
<1>4. DOMAIN g \ {k} = D /\ w[k] = g[k].mem_cap
  OBVIOUS
<1> HIDE DEF v, w
<1>5. Total(w, D) = Total(v, D) /\ Total(v, D) \in Nat
  <2> HIDE DEF D
  <2> QED
    BY <1>1, <1>2, TotalSame, TotalProps
<1>6. Total(w, DOMAIN g) = w[k] + Total(w, DOMAIN g \ {k})
  BY <1>1, <1>2, TotalProps
<1>7. CASE k \in DOMAIN f
  <2>1. Total(v, DOMAIN f) = v[k] + Total(v, DOMAIN f \ {k})
    BY <1>2, <1>7, TotalProps
  <2>2. v[k] = f[k].mem_cap
    BY <1>7 DEF v
  <2> QED
    BY <1>3, <1>4, <1>5, <1>6, <1>7, <2>1, <2>2
<1>8. CASE k \notin DOMAIN f
  <2>1. D = DOMAIN f
    BY <1>8
  <2>2. PICK x, y, z : x = Caps(f) /\ y = Caps(g) /\ z = g[k].mem_cap
    OBVIOUS
  <2>3. x = m /\ m \in Nat /\ y = z + m
    BY <1>3, <1>4, <1>5, <1>6, <2>1, <2>2
  <2> HIDE DEF m
  <2>4. x = 0 + m /\ y = z + m
    BY <2>3
  <2> QED
    BY <1>8, <2>2, <2>3, <2>4
<1> QED
  BY <1>7, <1>8

LEMMA ResidentSets ==
    ASSUME NEW k, NEW r, Sets(k, r)
    PROVE  Resident' = IF r.mem # NULL THEN Resident \cup {k} ELSE Resident \ {k}
  BY DEF Resident, Sets

\* One record's buffer comes, goes or is replaced, and the accounts follow.
LEMMA SetsMemory ==
    ASSUME Types, Memory, UNCHANGED setting, NEW k, NEW r, r.mem_cap \in Nat, Sets(k, r),
           NEW old, NEW cap,
           IF k \in DOMAIN rec THEN old = rec[k].mem /\ cap = rec[k].mem_cap
                               ELSE old = NULL /\ cap = 0,
           DOMAIN heap' = (DOMAIN heap \ {old}) \cup ({r.mem} \ {NULL}),
           r.mem = NULL \/ r.mem = old \/ r.mem \notin DOMAIN heap,
           resident' = resident - cap + r.mem_cap,
           resident' <= Budget,
           r.mem # NULL => Budget > 0,
           lru' \in Seq(Keys), IsInjective(lru'),
           Range(lru') = IF r.mem # NULL THEN Range(lru) \cup {k} ELSE Range(lru) \ {k}
    PROVE  Memory'
<1>1. /\ DOMAIN heap = {rec[j].mem : j \in Resident}
      /\ \A j, l \in Resident : rec[j].mem = rec[l].mem => j = l
      /\ resident = Caps(rec)
      /\ Resident # {} => Budget > 0
      /\ Range(lru) = Resident
  BY DEF Memory, Caps
<1>2. \A j \in Resident : j \in DOMAIN rec /\ rec[j].mem # NULL /\ rec[j].mem \in DOMAIN heap
  BY <1>1 DEF Resident
<1>3. \A j \in Resident \ {k} : rec'[j] = rec[j] /\ rec[j].mem # old
  BY <1>1, <1>2 DEF Sets, Resident
<1>4. rec'[k] = r /\ k \in DOMAIN rec'
  BY DEF Sets
<1>5. Resident' = IF r.mem # NULL THEN Resident \cup {k} ELSE Resident \ {k}
  BY ResidentSets
<1>6. Range(lru') = Resident' /\ Budget' = Budget
  BY <1>1, <1>5 DEF Budget
<1>7. \A b : b \in DOMAIN heap' <=> \E j \in Resident' : b = rec'[j].mem
  <2>1. ASSUME NEW b \in DOMAIN heap'
        PROVE  \E j \in Resident' : b = rec'[j].mem
    <3>1. CASE b = r.mem /\ r.mem # NULL
      BY <1>4, <1>5, <3>1
    <3>2. CASE b \in DOMAIN heap /\ b # old
      <4>1. PICK j \in Resident : b = rec[j].mem
        BY <1>1, <3>2
      <4>2. j # k
        BY <1>2, <3>2, <4>1
      <4> QED
        BY <1>3, <1>5, <4>1, <4>2
    <3> QED
      BY <3>1, <3>2
  <2>2. ASSUME NEW j \in Resident'
        PROVE  rec'[j].mem \in DOMAIN heap'
    <3>1. CASE j = k
      <4>1. r.mem # NULL
        BY <1>5, <3>1
      <4> QED
        BY <1>4, <3>1, <4>1
    <3>2. CASE j # k
      BY <1>2, <1>3, <1>5, <3>2
    <3> QED
      BY <3>1, <3>2
  <2> QED
    BY <2>1, <2>2
<1>8. \A j, l \in Resident' : rec'[j].mem = rec'[l].mem => j = l
  <2> SUFFICES ASSUME NEW j \in Resident', NEW l \in Resident', rec'[j].mem = rec'[l].mem
               PROVE  j = l
    OBVIOUS
  <2>1. ASSUME NEW i \in Resident', i # k
        PROVE  i \in Resident /\ rec'[i].mem = rec[i].mem /\ rec[i].mem # r.mem
    <3>1. i \in Resident \ {k}
      BY <1>5, <2>1
    <3> QED
      BY <1>2, <1>3, <3>1
  <2>2. CASE j = k \/ l = k
    BY <1>4, <2>1, <2>2
  <2>3. CASE j # k /\ l # k
    BY <1>1, <2>1, <2>3
  <2> QED
    BY <2>2, <2>3
<1>9. resident' = Caps(rec')
  <2>1. PICK f, g : f = rec /\ g = rec'
    OBVIOUS
  <2>2. IsFiniteSet(DOMAIN f) /\ (\A j \in DOMAIN f : f[j].mem_cap \in Nat)
    BY <2>1, RecordFields DEF Types
  <2>3. k \in DOMAIN g /\ DOMAIN g = DOMAIN f \cup {k} /\ g[k] = r
        /\ \A j \in DOMAIN f \ {k} : g[j] = f[j]
    BY <2>1 DEF Sets
  <2>4. g[k].mem_cap \in Nat
    BY <2>3
  <2>5. PICK m \in Nat : /\ Caps(f) = (IF k \in DOMAIN f THEN f[k].mem_cap ELSE 0) + m
                         /\ Caps(g) = g[k].mem_cap + m
    BY <2>2, <2>3, <2>4, CapsSplit
  <2>6. PICK a : a = Caps(f)
    OBVIOUS
  <2>7. a = cap + m /\ cap \in Nat /\ resident = a /\ r.mem_cap \in Nat
    BY <1>1, <2>1, <2>2, <2>3, <2>4, <2>5, <2>6
  <2>8. resident' = r.mem_cap + m
    BY <2>7
  <2> QED
    BY <2>1, <2>3, <2>5, <2>8
<1>10. DOMAIN heap' = {rec'[j].mem : j \in Resident'}
  BY <1>7
<1>11. Resident' # {} => Budget' > 0
  BY <1>1, <1>5, <1>6
<1>12. resident' = Total([j \in DOMAIN rec' |-> rec'[j].mem_cap], DOMAIN rec')
  BY <1>9 DEF Caps
<1> QED
  BY <1>6, <1>8, <1>10, <1>11, <1>12 DEF Memory

\* A record goes, and its buffer with it.
LEMMA DropsMemory ==
    ASSUME Types, Rooms, Memory, UNCHANGED setting, NEW k \in DOMAIN rec, Drops(k),
           heap' = Without(heap, rec[k].mem),
           resident' = IF rec[k].mem # NULL /\ resident >= rec[k].mem_cap
                       THEN resident - rec[k].mem_cap ELSE resident,
           lru' = ls_lru_drop(lru, k)
    PROVE  Memory'
<1>1. /\ DOMAIN heap = {rec[j].mem : j \in Resident}
      /\ \A j, l \in Resident : rec[j].mem = rec[l].mem => j = l
      /\ resident = Caps(rec) /\ resident <= Budget
      /\ Resident # {} => Budget > 0
      /\ lru \in Seq(Keys) /\ IsInjective(lru)
      /\ Range(lru) = Resident
  BY DEF Memory, Caps
<1>2. DOMAIN heap' = DOMAIN heap \ {rec[k].mem}
  BY DEF Without
<1>3. Resident' = Resident \ {k} /\ \A j \in Resident \ {k} : rec'[j] = rec[j]
  BY DEF Resident, Drops
<1>4. lru' \in Seq(Keys) /\ IsInjective(lru') /\ Range(lru') = Resident'
  BY <1>1, <1>3, LruDrop
<1>5. Budget' = Budget
  BY DEF Budget
<1>6. DOMAIN heap' = {rec'[j].mem : j \in Resident'}
  <2>1. ASSUME NEW b \in DOMAIN heap'
        PROVE  \E j \in Resident' : b = rec'[j].mem
    <3>1. PICK j \in Resident : b = rec[j].mem
      BY <1>1, <1>2
    <3>2. j # k
      BY <1>2, <3>1
    <3> QED
      BY <1>3, <3>1, <3>2
  <2>2. ASSUME NEW j \in Resident'
        PROVE  rec'[j].mem \in DOMAIN heap'
    <3>1. j \in Resident \ {k} /\ rec'[j].mem = rec[j].mem
      BY <1>3
    <3>2. rec[j].mem # rec[k].mem
      <4>1. CASE k \in Resident
        BY <1>1, <3>1, <4>1
      <4>2. CASE k \notin Resident
        BY <3>1, <4>2 DEF Resident
      <4> QED
        BY <4>1, <4>2
    <3> QED
      BY <1>1, <1>2, <3>1, <3>2
  <2> QED
    BY <2>1, <2>2
<1>7. \A j, l \in Resident' : rec'[j].mem = rec'[l].mem => j = l
  BY <1>1, <1>3
<1>8. resident' = Caps(rec') /\ resident' <= resident /\ resident \in Nat /\ resident' \in Nat
  <2>1. PICK f, g : f = rec /\ g = rec'
    OBVIOUS
  <2>2. (\A j \in DOMAIN f : f[j].mem_cap \in Nat) /\ IsFiniteSet(DOMAIN f)
    BY <2>1, RecordFields DEF Types
  <2>3. k \in DOMAIN f /\ DOMAIN g = DOMAIN f \ {k} /\ DOMAIN f = DOMAIN g \cup {k}
        /\ k \notin DOMAIN g
        /\ \A j \in DOMAIN g \ {k} : f[j] = g[j]
    BY <2>1 DEF Drops
  <2>4. IsFiniteSet(DOMAIN g) /\ \A j \in DOMAIN g : g[j].mem_cap \in Nat
    BY <2>2, <2>3, FS_RemoveElement
  <2>5. PICK m \in Nat : /\ Caps(g) = (IF k \in DOMAIN g THEN g[k].mem_cap ELSE 0) + m
                         /\ Caps(f) = f[k].mem_cap + m
    <3>1. k \in DOMAIN f /\ DOMAIN f = DOMAIN g \cup {k} /\ \A j \in DOMAIN g \ {k} : f[j] = g[j]
      BY <2>3
    <3>2. f[k].mem_cap \in Nat
      BY <2>2, <2>3
    <3> QED
      BY ONLY <2>4, <3>1, <3>2, CapsSplit
  <2>6. PICK a, b, c : a = Caps(g) /\ b = Caps(f) /\ c = rec[k].mem_cap
    OBVIOUS
  <2>7. a = m /\ b = c + m /\ c \in Nat /\ resident = b
    BY <1>1, <2>1, <2>2, <2>3, <2>5, <2>6
  <2>8. rec[k].mem = NULL => c = 0
    BY <2>6 DEF Rooms, Room
  <2>9. resident' = m
    BY <2>6, <2>7, <2>8
  <2> QED
    BY <2>1, <2>6, <2>7, <2>9
<1>9. resident' <= Budget' /\ (Resident' # {} => Budget' > 0)
  <2>1. Budget \in Nat
    BY StoreAssumption DEF Budget, Types
  <2> QED
    BY <1>1, <1>3, <1>5, <1>8, <2>1
<1>10. resident' = Total([j \in DOMAIN rec' |-> rec'[j].mem_cap], DOMAIN rec')
  BY <1>8 DEF Caps
<1> QED
  BY <1>4, <1>6, <1>7, <1>9, <1>10 DEF Memory

\* The buffers stay; a record may come without one, or to the front of the list.
LEMMA SetsTouch ==
    ASSUME Types, Rooms, Memory, UNCHANGED <<setting, resident>>, DOMAIN heap' = DOMAIN heap,
           NEW k, NEW r, Sets(k, r),
           IF k \in DOMAIN rec THEN r.mem = rec[k].mem /\ r.mem_cap = rec[k].mem_cap
                               ELSE r.mem = NULL /\ r.mem_cap = 0,
           lru' = lru \/ (r.mem # NULL /\ lru' = ls_lru_touch(lru, k))
    PROVE  Memory'
<1>1. k \in Keys
  BY DEF Sets
<1>2. PICK old, cap : old = r.mem /\ cap = r.mem_cap
  OBVIOUS
<1>3. IF k \in DOMAIN rec THEN old = rec[k].mem /\ cap = rec[k].mem_cap
                          ELSE old = NULL /\ cap = 0
  BY <1>2
<1>4. cap \in Nat
  BY <1>3, RecordFields DEF Types
<1>5. DOMAIN heap = {rec[j].mem : j \in Resident} /\ lru \in Seq(Keys) /\ IsInjective(lru)
      /\ Range(lru) = Resident /\ resident <= Budget /\ (Resident # {} => Budget > 0)
      /\ resident = Caps(rec)
  BY DEF Memory, Caps
<1>6. old # NULL => k \in Resident /\ old \in DOMAIN heap
  BY <1>3, <1>5 DEF Resident
<1>7. old = NULL => old \notin DOMAIN heap /\ k \notin Resident
  BY <1>3, <1>5 DEF Resident
<1>8. DOMAIN heap' = (DOMAIN heap \ {old}) \cup ({r.mem} \ {NULL})
  BY <1>2, <1>6, <1>7
<1>9. resident \in Nat
  <2>1. PICK w, D : D = DOMAIN rec /\ w = [j \in DOMAIN rec |-> rec[j].mem_cap]
    OBVIOUS
  <2>2. IsFiniteSet(D) /\ \A j \in D : w[j] \in Nat
    BY <2>1, RecordFields DEF Types
  <2> QED
    BY <1>5, <2>1, <2>2, TotalProps DEF Caps
<1>10. resident' = resident - cap + r.mem_cap
  BY <1>2, <1>4, <1>9
<1>11. lru' \in Seq(Keys) /\ IsInjective(lru')
       /\ Range(lru') = IF r.mem # NULL THEN Range(lru) \cup {k} ELSE Range(lru) \ {k}
  <2>1. CASE r.mem # NULL
    BY <1>1, <1>2, <1>5, <1>6, <2>1, LruTouch
  <2>2. CASE r.mem = NULL
    BY <1>2, <1>5, <1>7, <2>2
  <2> QED
    BY <2>1, <2>2
<1>12. r.mem_cap \in Nat /\ resident' <= Budget /\ (r.mem # NULL => Budget > 0)
       /\ (r.mem = NULL \/ r.mem = old \/ r.mem \notin DOMAIN heap)
  BY <1>2, <1>4, <1>5, <1>6
<1> QED
  BY <1>3, <1>8, <1>10, <1>11, <1>12, SetsMemory

LEMMA ResidentNat ==
    ASSUME Types, Memory
    PROVE  resident \in Nat /\ \A k \in DOMAIN rec : rec[k].mem_cap <= resident
<1>1. resident = Total([j \in DOMAIN rec |-> rec[j].mem_cap], DOMAIN rec)
  BY DEF Memory
<1>2. PICK w, D : D = DOMAIN rec /\ w = [j \in DOMAIN rec |-> rec[j].mem_cap]
  OBVIOUS
<1>3. IsFiniteSet(D) /\ \A j \in D : w[j] \in Nat
  BY <1>2, RecordFields DEF Types
<1>4. Total(w, D) \in Nat
  BY <1>3, TotalProps
<1>5. ASSUME NEW k \in D
      PROVE  w[k] <= Total(w, D)
  <2>1. Total(w, D) = w[k] + Total(w, D \ {k})
    BY <1>3, TotalProps
  <2>2. IsFiniteSet(D \ {k}) /\ \A j \in D \ {k} : w[j] \in Nat
    BY <1>3, FS_RemoveElement
  <2>3. Total(w, D \ {k}) \in Nat
    BY <2>2, TotalProps
  <2> QED
    BY <1>3, <1>4, <2>1, <2>3
<1> QED
  BY <1>1, <1>2, <1>4, <1>5

LEMMA MemoryNext ==
    ASSUME Safe, NEW t \in Threads, Step(t), UNCHANGED setting
    PROVE  Memory'
<1>0. Types /\ Control /\ Holding /\ Space /\ Memory /\ Counts /\ Rooms
  BY DEF Safe
<1>r. \A k \in DOMAIN rec : rec[k] \in Record /\ Room(rec[k])
  BY <1>0 DEF Types, Rooms
<1>m. DOMAIN heap = {rec[j].mem : j \in Resident} /\ lru \in Seq(Keys) /\ IsInjective(lru)
      /\ Range(lru) = Resident
  BY <1>0 DEF Memory
<1>1. ASSUME NEW c \in Calls, c.op = "read", StartRead(t, c)
      PROVE  Memory'
  <2>1. PICK k, r, b : k = c.key /\ r = rec[k] /\ b = r.busy + 1
    OBVIOUS
  <2>2. k \in DOMAIN rec /\ Sets(k, [r EXCEPT !.busy = b])
    BY <1>0, <1>1, <2>1, StartReadShape
  <2>3. PICK q : q = [r EXCEPT !.busy = b]
    OBVIOUS
  <2>4. q.mem = rec[k].mem /\ q.mem_cap = rec[k].mem_cap
    BY <1>r, <2>1, <2>2, <2>3, RecordUpdates
  <2>5. UNCHANGED <<heap, resident>> /\ lru' = IF r.mem # NULL THEN ls_lru_touch(lru, k) ELSE lru
    BY <1>1, <2>1 DEF StartRead, Launch
  <2> QED
    BY <1>0, <2>1, <2>2, <2>3, <2>4, <2>5, SetsTouch
<1>2. ASSUME NEW c \in Calls, c.op \notin {"read", "erase"}, StartGrow(t, Resolve(c))
      PROVE  Memory'
  <2>1. IF c.key \in DOMAIN rec THEN UNCHANGED rec ELSE Sets(c.key, NewRec)
    BY <1>0, <1>2, StartGrowShape
  <2>2. UNCHANGED <<heap, lru, resident>>
    BY <1>2 DEF StartGrow, memory
  <2>3. NewRec.mem = NULL /\ NewRec.mem_cap = 0
    BY DEF NewRec
  <2>4. CASE c.key \in DOMAIN rec
    BY <1>0, <2>1, <2>2, <2>4 DEF Memory, Resident, Budget
  <2>5. CASE c.key \notin DOMAIN rec
    BY <1>0, <2>1, <2>2, <2>3, <2>5, SetsTouch
  <2> QED
    BY <2>4, <2>5
<1>3. ASSUME NEW c \in Calls, ls_erase(t, c)
      PROVE  Memory'
  <2>1. PICK k : k = c.key
    OBVIOUS
  <2>2. Drops(k) /\ k \in DOMAIN rec
    BY <1>0, <1>3, <2>1, EraseShape DEF Drops
  <2>3. /\ heap' = Without(heap, rec[k].mem)
        /\ resident' = (IF rec[k].mem # NULL /\ resident >= rec[k].mem_cap
                        THEN resident - rec[k].mem_cap ELSE resident)
        /\ lru' = ls_lru_drop(lru, k)
    BY <1>3, <2>1 DEF ls_erase, ls_rec_free
  <2> QED
    BY <1>0, <2>2, <2>3, DropsMemory
<1>4. CASE QuietStep(t) \/ Alloc(t) \/ ZeroFails(t) \/ Free(t)
  <2>1. UNCHANGED <<rec, lru, resident>> /\ DOMAIN heap' = DOMAIN heap
    <3>1. CASE QuietStep(t)
      BY <3>1, QuietSteps DEF Quiet
    <3>2. CASE Alloc(t) \/ ZeroFails(t) \/ Free(t)
      BY <3>2 DEF Alloc, ZeroFails, Free, memory
    <3> QED
      BY <1>4, <3>1, <3>2
  <2> QED
    BY <1>0, <2>1 DEF Memory, Resident, Budget
<1>5. CASE Leave(t)
  <2>1. PICK k, r, b : k = Key(t) /\ r = rec[k] /\ b = r.busy - 1
    OBVIOUS
  <2>2. k \in DOMAIN rec /\ Sets(k, [r EXCEPT !.busy = b])
    BY <1>0, <1>5, <2>1, LeaveEffect
  <2>3. PICK q : q = [r EXCEPT !.busy = b]
    OBVIOUS
  <2>4. q.mem = rec[k].mem /\ q.mem_cap = rec[k].mem_cap
    BY <1>r, <2>1, <2>2, <2>3, RecordUpdates
  <2>5. UNCHANGED <<heap, resident, lru>>
    BY <1>5 DEF Leave, memory
  <2> QED
    BY <1>0, <2>2, <2>3, <2>4, <2>5, SetsTouch
<1>6. CASE Fit(t)
  <2>1. PICK k, r, n : k = Key(t) /\ r = rec[k] /\ n = Need(t)
    OBVIOUS
  <2>2. k \in DOMAIN rec /\ pc[t] = "fit"
    BY <1>0, <1>6, <2>1, FitEffect
  <2>3. PICK b \in Nat \ {0} :
           /\ b \notin DOMAIN heap \/ b = r.mem
           /\ Sets(k, [r EXCEPT !.mem = b, !.mem_cap = n])
           /\ \E x : heap' = Bind(Without(heap, r.mem), b, x)
    BY <1>0, <1>6, <2>1, FitEffect
  <2>4. PICK q : q = [r EXCEPT !.mem = b, !.mem_cap = n]
    OBVIOUS
  <2>5. q.mem = b /\ q.mem_cap = n
    BY <1>r, <2>1, <2>2, <2>4, RecordUpdates
  <2>6. r \in Record /\ Room(r) /\ r.mem_cap \in Nat /\ n \in Nat
    BY <1>0, <1>r, <2>1, <2>2, RecordFields, NotErasing, Caught
  <2>7. DOMAIN heap' = (DOMAIN heap \ {r.mem}) \cup ({q.mem} \ {NULL})
    BY <2>3, <2>5 DEF Bind, Without, NULL
  <2>8. Have(r) = r.mem_cap
    BY <2>6 DEF Have, Room
  <2>9. resident' = resident - r.mem_cap + n /\ lru' = ls_lru_touch(lru, k)
        /\ resident - r.mem_cap + n <= Budget
    BY <1>6, <2>1, <2>8 DEF Fit
  <2>10. k \in Keys /\ q.mem # NULL
    BY <1>0, <2>2, <2>5 DEF Types, NULL
  <2>11. lru' \in Seq(Keys) /\ IsInjective(lru') /\ Range(lru') = Range(lru) \cup {k}
    BY <1>m, <2>9, <2>10, LruTouch
  <2>12. Budget > 0
    BY <1>0, <2>2 DEF Holding, Growing
  <2>13. PICK old, cap : old = r.mem /\ cap = r.mem_cap
    OBVIOUS
  <2>14. /\ IF k \in DOMAIN rec THEN old = rec[k].mem /\ cap = rec[k].mem_cap
                                ELSE old = NULL /\ cap = 0
         /\ DOMAIN heap' = (DOMAIN heap \ {old}) \cup ({q.mem} \ {NULL})
         /\ q.mem = NULL \/ q.mem = old \/ q.mem \notin DOMAIN heap
         /\ resident' = resident - cap + q.mem_cap
         /\ resident' <= Budget /\ q.mem_cap \in Nat
         /\ Sets(k, q)
    BY <2>1, <2>2, <2>3, <2>4, <2>5, <2>6, <2>7, <2>9, <2>13
  <2> QED
    BY <1>0, <2>10, <2>11, <2>12, <2>14, SetsMemory
<1>7. CASE Zero(t)
  <2>1. PICK k, r, x, y : k = Grown(t) /\ r = rec[k] /\ x = Append(r.ext, fresh[1])
                          /\ y = r.ext_total + fresh[1].len
    OBVIOUS
  <2>2. k \in DOMAIN rec /\ Sets(k, [r EXCEPT !.ext = x, !.ext_total = y])
    BY <1>0, <1>7, <2>1, ZeroEffect
  <2>3. PICK q : q = [r EXCEPT !.ext = x, !.ext_total = y]
    OBVIOUS
  <2>4. q.mem = rec[k].mem /\ q.mem_cap = rec[k].mem_cap
    BY <1>r, <2>1, <2>2, <2>3, RecordUpdates
  <2>5. UNCHANGED <<heap, resident, lru>>
    BY <1>7 DEF Zero, memory
  <2> QED
    BY <1>0, <2>2, <2>3, <2>4, <2>5, SetsTouch
<1>8. CASE Spill(t)
  <2>1. PICK k, r : k = vic /\ r = rec[k]
    OBVIOUS
  <2>2. k \in DOMAIN rec /\ Sets(k, [r EXCEPT !.mem = NULL, !.mem_cap = 0]) /\ r.mem # NULL
    BY <1>0, <1>8, <2>1, SpillEffect
  <2>3. PICK q : q = [r EXCEPT !.mem = NULL, !.mem_cap = 0]
    OBVIOUS
  <2>4. q.mem = NULL /\ q.mem_cap = 0
    BY <1>r, <2>1, <2>2, <2>3, RecordUpdates
  <2>5. r.mem_cap \in Nat /\ resident \in Nat /\ r.mem_cap <= resident
    BY <1>0, <1>r, <2>1, <2>2, RecordFields, ResidentNat
  <2>6. heap' = Without(heap, r.mem) /\ lru' = ls_lru_drop(lru, k)
        /\ resident' = IF resident >= r.mem_cap THEN resident - r.mem_cap ELSE resident
    BY <1>8, <2>1 DEF Spill
  <2>7. resident' = resident - r.mem_cap + q.mem_cap /\ resident' <= resident
        /\ resident' \in Nat
    BY <2>4, <2>5, <2>6
  <2>8. DOMAIN heap' = (DOMAIN heap \ {r.mem}) \cup ({q.mem} \ {NULL})
    BY <2>4, <2>6 DEF Without
  <2>9. lru' \in Seq(Keys) /\ IsInjective(lru') /\ Range(lru') = Range(lru) \ {k}
    BY <1>m, <2>6, LruDrop
  <2>10. resident' <= Budget
    <3>1. Budget \in Nat /\ resident <= Budget
      BY <1>0, StoreAssumption DEF Budget, Types, Memory
    <3> QED
      BY <2>5, <2>7, <3>1
  <2>11. PICK old, cap : old = r.mem /\ cap = r.mem_cap
    OBVIOUS
  <2>12. /\ IF k \in DOMAIN rec THEN old = rec[k].mem /\ cap = rec[k].mem_cap
                                ELSE old = NULL /\ cap = 0
         /\ DOMAIN heap' = (DOMAIN heap \ {old}) \cup ({q.mem} \ {NULL})
         /\ resident' = resident - cap + q.mem_cap /\ q.mem_cap \in Nat
         /\ Sets(k, q)
    BY <2>1, <2>2, <2>3, <2>4, <2>7, <2>8, <2>11
  <2> QED
    BY <1>0, <2>4, <2>9, <2>10, <2>12, SetsMemory
<1>9. CASE Ready(t)
  <2>1. PICK k, r, n, b : k = Key(t) /\ r = rec[k] /\ n = NewSize(r, Need(t)) /\ b = r.busy + 1
    OBVIOUS
  <2>2. k \in DOMAIN rec /\ Sets(k, [r EXCEPT !.size = n, !.busy = b])
    BY <1>0, <1>9, <2>1, ReadyEffect
  <2>3. PICK q : q = [r EXCEPT !.size = n, !.busy = b]
    OBVIOUS
  <2>4. q.mem = rec[k].mem /\ q.mem_cap = rec[k].mem_cap
    BY <1>r, <2>1, <2>2, <2>3, RecordUpdates
  <2>5. UNCHANGED <<heap, resident>> /\ lru' = IF r.mem # NULL THEN ls_lru_touch(lru, k) ELSE lru
    BY <1>9, <2>1 DEF Ready, Launch, Key
  <2> QED
    BY <1>0, <2>1, <2>2, <2>3, <2>4, <2>5, SetsTouch
<1>10. CASE Reserved(t)
  <2>1. PICK k, r, n : k = Key(t) /\ r = rec[k] /\ n = NewSize(r, Need(t))
    OBVIOUS
  <2>2. k \in DOMAIN rec /\ Sets(k, [r EXCEPT !.size = n])
    BY <1>0, <1>10, <2>1, ReservedEffect
  <2>3. PICK q : q = [r EXCEPT !.size = n]
    OBVIOUS
  <2>4. q.mem = rec[k].mem /\ q.mem_cap = rec[k].mem_cap
    BY <1>r, <2>1, <2>2, <2>3, RecordUpdates
  <2>5. UNCHANGED <<heap, resident, lru>>
    BY <1>10 DEF Reserved, memory
  <2> QED
    BY <1>0, <2>2, <2>3, <2>4, <2>5, SetsTouch
<1> QED
  BY <1>1, <1>2, <1>3, <1>4, <1>5, <1>6, <1>7, <1>8, <1>9, <1>10, StepCases

-----------------------------------------------------------------------------
(* What the holder of the lock relies on, one step on.                     *)

\* Holding, as the thread that has the lock sees it.
Hold(u) ==
    /\ vic # NoKey =>
          /\ pc[u] \in Spills /\ call[u].op # "erase"
          /\ vic \in DOMAIN rec /\ rec[vic].mem # NULL
          /\ vic # Key(u) => rec[vic].busy = 0 /\ Growing(u)
    /\ pc[u] \in Spills /\ vic = NoKey /\ call[u].op # "erase" => rec[Key(u)].mem = NULL
    /\ pc[u] \in {"evict", "fit"} => Growing(u)
    /\ pc[u] = "ready" =>
          IF rec[Key(u)].mem # NULL THEN Need(u) <= rec[Key(u)].mem_cap
                                    ELSE Need(u) <= rec[Key(u)].ext_total
    /\ pc[u] = "zero" <=> fresh # << >>
    /\ dying # << >> => pc[u] = "free"

Unheld == vic = NoKey /\ fresh = << >> /\ dying = << >>

LEMMA HoldingSplit ==
    ASSUME Types, Holding
    PROVE  /\ lk = NoThread => Unheld
           /\ \A u \in Threads : lk = u => Hold(u)
<1>1. NoThread \notin Threads
  BY StoreAssumption
<1>2. lk = NoThread => Unheld
  BY <1>1 DEF Holding, Unheld
<1>3. ASSUME NEW u \in Threads, lk = u
      PROVE  Hold(u)
  BY <1>3 DEF Holding, Hold
<1> QED
  BY <1>2, <1>3

LEMMA HoldingJoined ==
    ASSUME Types', Control', lk' = NoThread => Unheld',
           \A u \in Threads : lk' = u => Hold(u)'
    PROVE  Holding'
<1>1. lk' \in Threads \cup {NoThread} /\ \A u \in Threads : pc'[u] \in Locked <=> lk' = u
  BY DEF Types, Control
<1>2. \A u \in Threads : pc'[u] \in Spills \cup {"evict", "fit", "ready", "zero"} => lk' = u
  BY <1>1 DEF Spills, Locked
<1>3. (vic # NoKey =>
          /\ lk \in Threads /\ pc[lk] \in Spills /\ call[lk].op # "erase"
          /\ vic \in DOMAIN rec /\ rec[vic].mem # NULL
          /\ vic # Key(lk) => rec[vic].busy = 0 /\ Growing(lk))'
  BY <1>1 DEF Hold, Unheld
<1>4. (\A u \in Threads : pc[u] \in Spills /\ vic = NoKey /\ call[u].op # "erase"
                              => rec[Key(u)].mem = NULL)'
  BY <1>2 DEF Hold
<1>5. (\A u \in Threads : pc[u] \in {"evict", "fit"} => Growing(u))'
  BY <1>2 DEF Hold
<1>6. (\A u \in Threads : pc[u] = "ready" =>
          IF rec[Key(u)].mem # NULL THEN Need(u) <= rec[Key(u)].mem_cap
                                    ELSE Need(u) <= rec[Key(u)].ext_total)'
  BY <1>2 DEF Hold
<1>7. (\A u \in Threads : pc[u] = "zero" <=> fresh # << >> /\ lk = u)'
  BY <1>2 DEF Hold
<1>8. (fresh # << >> => lk \in Threads)' /\ (dying # << >> => lk \in Threads /\ pc[lk] = "free")'
  BY <1>1 DEF Hold, Unheld
<1> QED
  BY <1>3, <1>4, <1>5, <1>6, <1>7, <1>8 DEF Holding

LEMMA HoldKept ==
    ASSUME NEW u, Hold(u), UNCHANGED <<setting, rec, vic, fresh, dying>>,
           pc'[u] = pc[u], call'[u] = call[u]
    PROVE  Hold(u)'
<1>1. Key(u)' = Key(u) /\ Need(u)' = Need(u) /\ Budget' = Budget
  BY DEF Key, Need, Budget
<1>2. Growing(u)' = Growing(u)
  BY <1>1 DEF Growing
<1> QED
  BY <1>1, <1>2 DEF Hold

LEMMA HoldingCap ==
    ASSUME Safe, NEW t \in Threads, lk = t, Hold(t), Cap(t), UNCHANGED setting
    PROVE  Hold(t)'
<1>0. /\ pc[t] = "cap" /\ UNCHANGED <<rec, fresh, dying, call>>
      /\ vic = NoKey /\ fresh = << >> /\ dying = << >>
  BY DEF Cap, Hold, Spills, thread
<1>1. /\ Key(t) \in DOMAIN rec /\ Key(t) \in Keys /\ rec[Key(t)] \in Record
      /\ Need(t) \in Nat /\ Room(rec[Key(t)]) /\ pc \in [Threads -> Where]
      /\ NoKey \notin Keys /\ call[t].op # "erase"
  BY <1>0, NotErasing, Caught, StoreAssumption DEF Safe, Rooms, Types
<1>2. Key(t)' = Key(t) /\ Need(t)' = Need(t) /\ Budget' = Budget
  BY <1>0 DEF Key, Need, Budget
<1>3. PICK k, r, n : k = Key(t) /\ r = rec[k] /\ n = Need(t)
  OBVIOUS
<1>4. CASE /\ IF r.mem # NULL THEN n <= r.mem_cap ELSE n <= r.ext_total
           /\ pc'[t] = "ready" /\ vic' = vic
  BY <1>0, <1>1, <1>2, <1>3, <1>4 DEF Hold, Spills
<1>5. CASE /\ IF r.mem # NULL THEN n > r.mem_cap ELSE n > r.ext_total
           /\ Budget > 0 /\ pc'[t] = "evict" /\ vic' = vic
  <2>1. r.size <= n /\ r.mem_cap <= n
    BY <1>1, <1>3, <1>5, RecordFields DEF Room
  <2>2. Growing(t)'
    BY <1>0, <1>2, <1>3, <1>5, <2>1 DEF Growing
  <2> QED
    BY <1>0, <1>2, <1>5, <2>2 DEF Hold, Spills
<1>6. CASE pc'[t] = "extents" /\ vic' = IF r.mem # NULL THEN k ELSE NoKey
  BY <1>0, <1>1, <1>2, <1>3, <1>6 DEF Hold, Spills
<1>7. \A w : Goto(t, w) => pc'[t] = w
  BY <1>1 DEF Goto
<1> QED
  BY <1>3, <1>4, <1>5, <1>6, <1>7 DEF Cap, ToExtents

\* The victim is a resident record that nobody is using, and not the caller's.
LEMMA Victim ==
    ASSUME Types, Memory, NEW keep, Victims(keep) # {}
    PROVE  LET v == lru[Max(Victims(keep))]
           IN  v \in Resident /\ v \in Keys /\ v # keep /\ rec[v].busy = 0
<1>1. lru \in Seq(Keys) /\ Range(lru) = Resident
  BY DEF Memory
<1>2. PICK S : S = Victims(keep)
  OBVIOUS
<1>3. S \in SUBSET Nat /\ S # {} /\ (\A y \in S : y <= Len(lru)) /\ Len(lru) \in Nat
  BY <1>1, <1>2 DEF Victims
<1>4. PICK m : m = Max(S)
  OBVIOUS
<1>5. m \in S
  BY <1>3, <1>4, MaxProps
<1>6. m \in DOMAIN lru /\ lru[m] # keep /\ rec[lru[m]].busy = 0
  BY <1>2, <1>5 DEF Victims
<1>7. lru[m] \in Resident
  BY <1>1, <1>6 DEF Range
<1> QED
  BY <1>2, <1>4, <1>6, <1>7 DEF Resident, Types

LEMMA HoldingEvict ==
    ASSUME Safe, NEW t \in Threads, lk = t, Hold(t), Evict(t), UNCHANGED setting
    PROVE  Hold(t)'
<1>0. /\ pc[t] = "evict" /\ UNCHANGED <<rec, fresh, dying, call>>
      /\ vic = NoKey /\ fresh = << >> /\ dying = << >> /\ Growing(t)
  BY DEF Evict, Hold, Spills, thread
<1>1. pc \in [Threads -> Where] /\ NoKey \notin Keys /\ call[t].op # "erase"
      /\ Types /\ Memory
  BY <1>0, NotErasing, StoreAssumption DEF Safe, Types
<1>2. Key(t)' = Key(t) /\ Need(t)' = Need(t) /\ Budget' = Budget
  BY <1>0 DEF Key, Need, Budget
<1>3. Growing(t)'
  BY <1>0, <1>2 DEF Growing
<1>4. CASE Victims(Key(t)) # {} /\ vic' = lru[Max(Victims(Key(t)))] /\ pc'[t] = "extents"
  <2>1. vic' \in Resident /\ vic' \in Keys /\ vic' # Key(t) /\ rec[vic'].busy = 0
    BY <1>1, <1>4, Victim
  <2> QED
    BY <1>0, <1>1, <1>2, <1>3, <1>4, <2>1 DEF Hold, Spills, Resident
<1>5. CASE vic' = NoKey /\ pc'[t] = "fit"
  BY <1>0, <1>2, <1>3, <1>5 DEF Hold, Spills
<1>6. \A w : Goto(t, w) => pc'[t] = w
  BY <1>1 DEF Goto
<1> QED
  BY <1>4, <1>5, <1>6 DEF Evict

LEMMA HoldingFit ==
    ASSUME Safe, NEW t \in Threads, lk = t, Hold(t), Fit(t) \/ NoFit(t), UNCHANGED setting
    PROVE  Hold(t)'
<1>0. /\ pc[t] = "fit" /\ UNCHANGED <<fresh, dying, call>>
      /\ vic = NoKey /\ fresh = << >> /\ dying = << >>
  BY DEF Fit, NoFit, Hold, Spills, thread, lock
<1>1. /\ Key(t) \in DOMAIN rec /\ Key(t) \in Keys /\ rec[Key(t)] \in Record
      /\ Need(t) \in Nat /\ pc \in [Threads -> Where]
      /\ NoKey \notin Keys /\ call[t].op # "erase" /\ Types /\ Control /\ Memory
  BY <1>0, NotErasing, Caught, StoreAssumption DEF Safe, Types
<1>2. Key(t)' = Key(t) /\ Need(t)' = Need(t)
  BY <1>0 DEF Key, Need
<1>3. CASE Fit(t)
  <2>1. PICK k, r, n : k = Key(t) /\ r = rec[k] /\ n = Need(t)
    OBVIOUS
  <2>2. PICK b \in Nat \ {0} : Sets(k, [r EXCEPT !.mem = b, !.mem_cap = n])
    BY <1>1, <1>3, <2>1, FitEffect
  <2>3. PICK q : q = [r EXCEPT !.mem = b, !.mem_cap = n]
    OBVIOUS
  <2>4. q.mem_cap = n /\ q.mem # NULL
    BY <1>1, <2>1, <2>3, RecordUpdates DEF NULL
  <2>5. rec'[k] = q
    BY <2>2, <2>3 DEF Sets
  <2>6. pc'[t] = "ready" /\ vic' = NoKey
    BY <1>0, <1>1, <1>3 DEF Fit, Goto, lock
  <2> QED
    BY <1>0, <1>1, <1>2, <2>1, <2>4, <2>5, <2>6 DEF Hold, Spills
<1>4. CASE NoFit(t)
  <2>1. pc'[t] = "extents" /\ vic' = (IF rec[Key(t)].mem # NULL THEN Key(t) ELSE NoKey) /\ rec' = rec
    BY <1>1, <1>4 DEF NoFit, ToExtents, Goto
  <2> QED
    BY <1>0, <1>1, <1>2, <2>1 DEF Hold, Spills
<1> QED
  BY <1>3, <1>4
\* The steps of ensure_extents leave alone what the tier says of a record.
LEMMA HoldingZero ==
    ASSUME Safe, NEW t \in Threads, lk = t, Hold(t),
           Alloc(t) \/ Zero(t) \/ ZeroFails(t), UNCHANGED setting
    PROVE  Hold(t)'
<1>0. /\ pc[t] \in {"extents", "zero"} /\ pc[t] # "free" /\ pc[t] # "idle"
      /\ UNCHANGED <<vic, call>> /\ dying = << >>
  BY DEF Alloc, Zero, ZeroFails, Hold, Spills, thread
<1>1. /\ Key(t) \in DOMAIN rec /\ pc \in [Threads -> Where]
      /\ call[t].op # "erase" /\ Types /\ Control /\ Holding /\ Space
  BY <1>0, NotErasing, Caught DEF Safe, Types
<1>2. Key(t)' = Key(t) /\ Need(t)' = Need(t) /\ Budget' = Budget
  BY <1>0 DEF Key, Need, Budget
<1>3. \A k \in DOMAIN rec : /\ k \in DOMAIN rec'
                            /\ rec'[k].mem = rec[k].mem /\ rec'[k].mem_cap = rec[k].mem_cap
                            /\ rec'[k].size = rec[k].size /\ rec'[k].busy = rec[k].busy
  <2>1. CASE Alloc(t) \/ ZeroFails(t)
    BY <2>1, RecSame
  <2>2. CASE Zero(t)
    <3>1. PICK k, r, x, y : /\ k = Grown(t) /\ r = rec[k] /\ x = Append(r.ext, fresh[1])
                            /\ y = r.ext_total + fresh[1].len
      OBVIOUS
    <3>2. k \in DOMAIN rec /\ Sets(k, [r EXCEPT !.ext = x, !.ext_total = y])
      BY <1>1, <2>2, <3>1, ZeroEffect
    <3>3. PICK q : q = [r EXCEPT !.ext = x, !.ext_total = y]
      OBVIOUS
    <3>4. q.mem = r.mem /\ q.mem_cap = r.mem_cap /\ q.size = r.size /\ q.busy = r.busy
      BY <1>1, <3>1, <3>2, <3>3, RecordUpdates DEF Types
    <3> QED
      BY <3>1, <3>2, <3>3, <3>4 DEF Sets
  <2> QED
    BY <2>1, <2>2
<1>4. Growing(t)' = Growing(t)
  BY <1>1, <1>2, <1>3 DEF Growing
<1>5. /\ pc'[t] \in {"extents", "zero", "free"}
      /\ pc'[t] = "zero" <=> fresh' # << >>
      /\ dying' # << >> => pc'[t] = "free"
  <2>1. CASE Alloc(t)
    <3>1. \E e : fresh' = <<e>>
      BY <2>1 DEF Alloc
    <3>2. pc'[t] = "zero" /\ dying' = dying
      BY <1>1, <2>1 DEF Alloc, Goto
    <3> QED
      BY <1>0, <3>1, <3>2
  <2>2. CASE Zero(t)
    BY <1>0, <1>1, <2>2 DEF Zero, Goto
  <2>3. CASE ZeroFails(t)
    BY <1>1, <2>3 DEF ZeroFails, Goto
  <2> QED
    BY <2>1, <2>2, <2>3
<1>6. pc[t] \in Spills /\ pc'[t] \in Spills /\ pc'[t] \notin {"evict", "fit", "ready"}
  BY <1>0, <1>5 DEF Spills
<1> QED
  BY <1>0, <1>1, <1>2, <1>3, <1>4, <1>5, <1>6 DEF Hold

LEMMA HoldingSpill ==
    ASSUME Safe, NEW t \in Threads, lk = t, Hold(t), Spill(t), UNCHANGED setting
    PROVE  Hold(t)'
<1>0. /\ pc[t] = "extents" /\ UNCHANGED <<fresh, dying, call>>
      /\ vic # NoKey /\ vic' = NoKey /\ fresh = << >> /\ dying = << >>
  BY DEF Spill, Hold, Spills, thread
<1>1. /\ Key(t) \in DOMAIN rec /\ pc \in [Threads -> Where]
      /\ call[t].op # "erase" /\ Types /\ Control /\ Holding
  BY <1>0, NotErasing, Caught DEF Safe, Types
<1>2. Key(t)' = Key(t) /\ Need(t)' = Need(t) /\ Budget' = Budget
  BY <1>0 DEF Key, Need, Budget
<1>3. PICK r, n, z : r = rec[vic] /\ n = NULL /\ z = 0
  OBVIOUS
<1>4. vic \in DOMAIN rec /\ Sets(vic, [r EXCEPT !.mem = n, !.mem_cap = z])
  BY <1>1, <1>3, SpillEffect
<1>5. PICK q : q = [r EXCEPT !.mem = n, !.mem_cap = z]
  OBVIOUS
<1>6. rec'[vic] = q /\ q.mem = NULL /\ \A j \in DOMAIN rec \ {vic} : rec'[j] = rec[j]
  BY <1>1, <1>3, <1>4, <1>5, RecordUpdates DEF Types, Sets
<1>7. CASE vic = Key(t)
  <2>1. pc'[t] = "extents"
    BY <1>1, <1>7 DEF Spill, Goto
  <2> QED
    BY <1>0, <1>2, <1>6, <1>7, <2>1 DEF Hold, Spills
<1>8. CASE vic # Key(t)
  <2>1. pc'[t] = "evict"
    BY <1>1, <1>8 DEF Spill, Goto
  <2>2. Growing(t)'
    BY <1>0, <1>1, <1>2, <1>6, <1>8 DEF Hold, Growing
  <2> QED
    BY <1>0, <1>2, <2>1, <2>2 DEF Hold, Spills
<1> QED
  BY <1>7, <1>8

LEMMA HoldingFail ==
    ASSUME Safe, NEW t \in Threads, lk = t, Hold(t), SpillFails(t) \/ Freed(t), UNCHANGED setting
    PROVE  (lk' = NoThread /\ Unheld') \/ (lk' = t /\ Hold(t)')
<1>0. /\ pc[t] \in Spills /\ pc[t] # "zero" /\ pc[t] \in Locked /\ UNCHANGED <<rec, fresh, dying>> /\ Fail(t)
      /\ fresh = << >> /\ dying = << >>
  <2>1. CASE SpillFails(t)
    BY <2>1 DEF SpillFails, Hold, Spills, Locked
  <2>2. CASE Freed(t)
    BY <2>2 DEF Freed, Hold, Spills, Locked
  <2> QED
    BY <2>1, <2>2
<1>1. Types /\ Control /\ Holding /\ pc \in [Threads -> Where]
  BY DEF Safe, Types
<1>2. CASE vic' = NoKey /\ vic # NoKey /\ vic # Key(t) /\ Moves(t, "fit")
  <2>1. pc'[t] = "fit" /\ lk' = t /\ call' = call
    BY <1>1, <1>2 DEF Moves
  <2>2. Key(t)' = Key(t) /\ Need(t)' = Need(t) /\ Budget' = Budget
    BY <2>1 DEF Key, Need, Budget
  <2>3. Growing(t)'
    BY <1>0, <1>2, <2>2 DEF Hold, Growing
  <2>4. Hold(t)'
    BY <1>0, <1>2, <2>1, <2>2, <2>3 DEF Hold, Spills
  <2> QED
    BY <2>1, <2>4
<1>3. CASE vic' = NoKey /\ Returns(t)
  BY <1>0, <1>3 DEF Returns, Unheld
<1> QED
  BY <1>0, <1>1, <1>2, <1>3, FailShape

LEMMA HoldingBacked ==
    ASSUME Safe, NEW t \in Threads, lk = t, Hold(t), Backed(t), UNCHANGED setting
    PROVE  Hold(t)'
<1>0. /\ pc[t] = "extents" /\ UNCHANGED <<rec, vic, fresh, dying, call>>
      /\ vic = NoKey /\ fresh = << >> /\ dying = << >> /\ Deficit(t) <= 0
  BY DEF Backed, Hold, Spills, thread, lock
<1>1. /\ rec[Key(t)] \in Record /\ Need(t) \in Nat /\ pc \in [Threads -> Where]
      /\ call[t].op # "erase"
  BY <1>0, NotErasing, Caught DEF Safe, Types
<1>2. Key(t)' = Key(t) /\ Need(t)' = Need(t)
  BY <1>0 DEF Key, Need
<1>3. rec[Key(t)].mem = NULL
  BY <1>0, <1>1 DEF Hold, Spills
<1>4. Need(t) <= rec[Key(t)].ext_total
  BY <1>0, <1>1, RecordFields DEF Deficit, Wanted, Grown
<1>5. pc'[t] = "ready"
  BY <1>1 DEF Backed, Goto
<1> QED
  BY <1>0, <1>2, <1>3, <1>4, <1>5 DEF Hold, Spills

LEMMA HoldingFree ==
    ASSUME NEW t \in Threads, Hold(t), Free(t), UNCHANGED setting
    PROVE  Hold(t)'
<1>0. pc[t] = "free" /\ UNCHANGED <<rec, vic, fresh, pc, call>>
  BY DEF Free, thread
<1>2. Key(t)' = Key(t) /\ Need(t)' = Need(t) /\ Budget' = Budget
  BY <1>0 DEF Key, Need, Budget
<1>3. Growing(t)' = Growing(t)
  BY <1>0, <1>2 DEF Growing
<1> QED
  BY <1>0, <1>2, <1>3 DEF Hold

LEMMA HoldingNext ==
    ASSUME Safe, NEW t \in Threads, Step(t), UNCHANGED setting
    PROVE  Holding'
<1>0. Types /\ Control /\ Holding /\ Types' /\ Control' /\ pc \in [Threads -> Where]
      /\ DOMAIN call = Threads /\ NoThread \notin Threads
  BY TypesNext, ControlNext, StoreAssumption DEF Safe, Types
<1>1. (lk = NoThread => Unheld) /\ \A u \in Threads : lk = u => Hold(u)
  BY <1>0, HoldingSplit
<1> DEFINE Goal == (lk' = NoThread => Unheld') /\ \A u \in Threads : lk' = u => Hold(u)'
<1>2. CASE \/ Cap(t) \/ Evict(t) \/ Fit(t) \/ NoFit(t)
           \/ Alloc(t) \/ Zero(t) \/ ZeroFails(t)
           \/ Spill(t) \/ SpillFails(t) \/ Backed(t)
           \/ Free(t) \/ Freed(t)
           \/ Ready(t) \/ Reserved(t)
  <2>1. lk = t /\ Hold(t)
    BY <1>0, <1>1, <1>2, HolderShape
  <2>2. CASE Cap(t) \/ Evict(t) \/ Fit(t) \/ NoFit(t) \/ Alloc(t) \/ Zero(t) \/ ZeroFails(t)
             \/ Spill(t) \/ Backed(t) \/ Free(t)
    <3>1. lk' = lk
      BY <2>2 DEF Cap, Evict, Fit, NoFit, Alloc, Zero, ZeroFails, Spill, Backed, Free, lock
    <3>2. Hold(t)'
      BY <2>1, <2>2, HoldingCap, HoldingEvict, HoldingFit, HoldingZero, HoldingSpill,
         HoldingBacked, HoldingFree
    <3>3. Goal
      BY <1>0, <2>1, <3>1, <3>2
    <3> QED
      BY <1>0, <3>3, HoldingJoined
  <2>3. CASE SpillFails(t) \/ Freed(t)
    <3>1. Goal
      BY <1>0, <2>1, <2>3, HoldingFail
    <3> QED
      BY <1>0, <3>1, HoldingJoined
  <2>4. CASE Ready(t) \/ Reserved(t)
    <3>1. pc[t] = "ready" /\ lk' = NoThread /\ UNCHANGED <<vic, fresh, dying>>
      BY <2>4 DEF Ready, Reserved, Launch
    <3>2. Unheld'
      BY <2>1, <3>1 DEF Hold, Unheld, Spills
    <3>3. Goal
      BY <1>0, <3>1, <3>2
    <3> QED
      BY <1>0, <3>3, HoldingJoined
  <2> QED
    BY <1>2, <2>2, <2>3, <2>4
<1>3. CASE \/ MemPiece(t) \/ ReadPiece(t) \/ Bounce(t) \/ WritePiece(t) \/ PieceFails(t)
           \/ Transferred(t)
  <2>1. UNCHANGED <<rec, fresh, dying>>
    BY <1>3, QuietSteps DEF QuietStep, Quiet
  <2>2. UNCHANGED <<vic, lk, call>> /\ pc[t] = "io" /\ \A u \in Threads \ {t} : pc'[u] = pc[u]
    BY <1>0, <1>3 DEF MemPiece, ReadPiece, Bounce, WritePiece, PieceFails, Transferred, Goto,
                      lock, thread
  <2>3. lk # t
    BY <1>0, <2>2 DEF Control, Locked
  <2>4. \A u \in Threads : lk' = u => Hold(u)'
    BY <1>1, <2>1, <2>2, <2>3, HoldKept
  <2>5. lk' = NoThread => Unheld'
    BY <1>1, <2>1, <2>2 DEF Unheld
  <2> QED
    BY <1>0, <2>4, <2>5, HoldingJoined
<1>4. CASE Leave(t)
  <2>1. lk = NoThread /\ UNCHANGED <<lk, vic, fresh, dying>>
    BY <1>4 DEF Leave, lock
  <2>2. Goal
    BY <1>0, <1>1, <2>1 DEF Unheld
  <2> QED
    BY <1>0, <2>2, HoldingJoined
<1>5. ASSUME NEW c \in Calls, c.op = "read", StartRead(t, c)
      PROVE  Holding'
  <2>1. lk = NoThread /\ lk' = NoThread /\ UNCHANGED <<vic, fresh, dying>>
    BY <1>5 DEF StartRead, Enter, Launch
  <2>2. Goal
    BY <1>0, <1>1, <2>1 DEF Unheld
  <2> QED
    BY <1>0, <2>2, HoldingJoined
<1>6. ASSUME NEW c \in Calls, c.op \notin {"read", "erase"}, StartGrow(t, Resolve(c))
      PROVE  Holding'
  <2>1. lk = NoThread /\ lk' = t /\ UNCHANGED <<vic, fresh, dying>> /\ pc'[t] = "cap"
    BY <1>0, <1>6 DEF StartGrow, Enter
  <2>2. Hold(t)'
    BY <1>1, <2>1 DEF Unheld, Hold, Spills
  <2>3. Goal
    BY <1>0, <2>1, <2>2
  <2> QED
    BY <1>0, <2>3, HoldingJoined
<1>7. ASSUME NEW c \in Calls, ls_erase(t, c)
      PROVE  Holding'
  <2>1. lk = NoThread /\ lk' = t /\ UNCHANGED <<vic, fresh>> /\ pc'[t] = "free"
        /\ call'[t].op = "erase"
    BY <1>0, <1>7 DEF ls_erase, Enter
  <2>2. Hold(t)'
    BY <1>1, <2>1 DEF Unheld, Hold, Spills
  <2>3. Goal
    BY <1>0, <2>1, <2>2
  <2> QED
    BY <1>0, <2>3, HoldingJoined
<1> QED
  BY <1>2, <1>3, <1>4, <1>5, <1>6, <1>7 DEF Step

-----------------------------------------------------------------------------
(* The invariant holds when a store is opened, whatever was loaded.        *)

LEMMA TotalOfNothing ==
    ASSUME NEW S, IsFiniteSet(S), NEW w, \A x \in S : w[x] = 0
    PROVE  Total(w, S) = 0
<1> DEFINE f == [s \in SUBSET S |-> 0]
           c == AnyOf(S)
<1>1. Picks(c, S)
  BY AnyPicks
<1>2. \A s \in SUBSET S : s # {} => c[s] \in S /\ s \ {c[s]} \in SUBSET S
  BY <1>1 DEF Picks
<1> HIDE DEF c
<1>3. \A s \in SUBSET S : f[s] = IF s = {} THEN 0 ELSE w[c[s]] + f[s \ {c[s]}]
  BY <1>2
<1>4. SumRec(w, c, S, f)
  BY <1>3 DEF SumRec
<1>5. f[S] = 0
  OBVIOUS
<1>6. f[S] = Total(w, S)
  BY <1>1, <1>4, TotalIs DEF c
<1> QED
  BY <1>5, <1>6

LEMMA LoadedFields ==
    /\ Len(Loaded) \in Nat /\ DOMAIN Loaded = 1 .. Len(Loaded)
    /\ \A i \in DOMAIN Loaded : /\ Loaded[i].key \in Keys /\ Loaded[i].size \in Nat \ {0}
                                /\ Loaded[i].ext \in Extent
                                /\ Loaded[i].ext.len = round_up(Loaded[i].size)
<1>1. PICK E : E = [key : Keys, size : Nat \ {0}, ext : Extent]
  OBVIOUS
<1>2. Loaded \in Seq(E)
  BY <1>1, LoadedAssumption
<1>3. Len(Loaded) \in Nat /\ DOMAIN Loaded = 1 .. Len(Loaded) /\ \A i \in DOMAIN Loaded : Loaded[i] \in E
  BY <1>2
<1>4. \A x \in E : x.key \in Keys /\ x.size \in Nat \ {0} /\ x.ext \in Extent
  BY <1>1
<1>5. \A i \in DOMAIN Loaded : Loaded[i].ext.len = round_up(Loaded[i].size)
  BY LoadedAssumption
<1> QED
  BY <1>3, <1>4, <1>5

\* The records that ls_close left share out the file.
LoadedTo(n) == {Loaded[i].ext : i \in 1 .. n}
LoadedEnd(n) == IF n = 0 THEN LS_SUPER_SIZE ELSE End(Loaded[n].ext)

LEMMA LoadedAccounted ==
    /\ Accounted(<< >>, LoadedTo(Len(Loaded)), LoadedEnd(Len(Loaded)))
    /\ \A i, j \in DOMAIN Loaded : Loaded[i].ext = Loaded[j].ext => i = j
<1>0. Len(Loaded) \in Nat /\ DOMAIN Loaded = 1 .. Len(Loaded)
      /\ \A i \in DOMAIN Loaded : Loaded[i].ext \in Extent
  BY LoadedFields
<1>1. PICK len : len = Len(Loaded)
  OBVIOUS
<1> DEFINE A(n) == /\ Accounted(<< >>, LoadedTo(n), LoadedEnd(n))
                   /\ \A i, j \in 1 .. n : Loaded[i].ext = Loaded[j].ext => i = j
           P == {n \in Nat : n <= len => A(n)}
<1>2. 0 \in P
  <2>1. LoadedTo(0) = {} /\ LoadedEnd(0) = LS_SUPER_SIZE
    BY DEF LoadedTo, LoadedEnd
  <2>2. A(0)
    BY <2>1, AccountEmpty
  <2> HIDE DEF A
  <2> QED
    BY <2>2
<1>3. ASSUME NEW n \in P
      PROVE  n + 1 \in P
  <2> SUFFICES ASSUME n + 1 <= len
               PROVE  A(n + 1)
    OBVIOUS
  <2>1. n \in Nat /\ A(n) /\ n + 1 \in DOMAIN Loaded /\ (n + 1 = 1 <=> n = 0) /\ (n + 1) - 1 = n
    BY <1>0, <1>1
  <2> HIDE DEF A
  <2>2. PICK m, e : m = n + 1 /\ e = Loaded[m].ext
    OBVIOUS
  <2>3. e \in Extent /\ e.foff = LoadedEnd(n)
    BY <1>0, <2>1, <2>2, LoadedAssumption DEF LoadedEnd
  <2>4. e = [foff |-> LoadedEnd(n), len |-> e.len] /\ e.len \in Nat \ {0}
    BY <2>3 DEF Extent
  <2>5. e \notin LoadedTo(n) /\ Accounted(<< >>, LoadedTo(n) \cup {e}, LoadedEnd(n) + e.len)
    BY <2>1, <2>4, AccountTail DEF A
  <2>6. \A i : i \in 1 .. m <=> i \in 1 .. n \/ i = m
    BY <2>1, <2>2
  <2>7. LoadedTo(m) = LoadedTo(n) \cup {e}
    BY <2>2, <2>6 DEF LoadedTo
  <2>8. LoadedEnd(m) = LoadedEnd(n) + e.len
    BY <2>1, <2>2, <2>3 DEF LoadedEnd, End
  <2>9. \A i \in 1 .. n : Loaded[i].ext # e
    BY <2>5 DEF LoadedTo
  <2>10. \A i, j \in 1 .. m : Loaded[i].ext = Loaded[j].ext => i = j
    BY <2>1, <2>2, <2>6, <2>9 DEF A
  <2> QED
    BY <2>2, <2>5, <2>7, <2>8, <2>10 DEF A
<1>4. P = Nat
  <2> HIDE DEF P
  <2>1. P \in SUBSET Nat
    BY DEF P
  <2> QED
    BY <1>2, <1>3, <2>1, NatSet
<1>5. len \in P
  BY <1>0, <1>1, <1>4
<1>6. A(len)
  BY <1>0, <1>1, <1>5
<1> QED
  BY <1>0, <1>1, <1>6

\* The record a loaded entry becomes.
LEMMA LoadedRecords ==
    ASSUME Init
    PROVE  /\ DOMAIN rec = {Loaded[i].key : i \in DOMAIN Loaded}
           /\ \A i \in DOMAIN Loaded :
                 rec[Loaded[i].key] =
                    [size |-> Loaded[i].size, mem |-> NULL, mem_cap |-> 0, busy |-> 0,
                     ext |-> <<Loaded[i].ext>>, ext_total |-> Loaded[i].ext.len]
<1>1. rec = [k \in {Loaded[i].key : i \in DOMAIN Loaded} |->
                    LET i == CHOOSE j \in DOMAIN Loaded : Loaded[j].key = k
                    IN  [NewRec EXCEPT !.size = Loaded[i].size,
                                       !.ext = <<Loaded[i].ext>>,
                                       !.ext_total = Loaded[i].ext.len]]
  BY DEF Init
<1>2. ASSUME NEW i \in DOMAIN Loaded
      PROVE  rec[Loaded[i].key] =
                    [size |-> Loaded[i].size, mem |-> NULL, mem_cap |-> 0, busy |-> 0,
                     ext |-> <<Loaded[i].ext>>, ext_total |-> Loaded[i].ext.len]
  <2>1. PICK k, j : k = Loaded[i].key /\ j = CHOOSE l \in DOMAIN Loaded : Loaded[l].key = k
    OBVIOUS
  <2>2. j \in DOMAIN Loaded /\ Loaded[j].key = k
    BY <2>1
  <2>3. j = i
    BY <2>1, <2>2, LoadedAssumption
  <2>4. rec[k] = [NewRec EXCEPT !.size = Loaded[i].size, !.ext = <<Loaded[i].ext>>,
                                !.ext_total = Loaded[i].ext.len]
    BY <1>1, <2>1, <2>3
  <2> QED
    BY <2>1, <2>4 DEF NewRec
<1> QED
  BY <1>1, <1>2

LEMMA InitRecords ==
    ASSUME Init
    PROVE  /\ RecTypes /\ Rooms
           /\ \A k \in DOMAIN rec : rec[k].mem = NULL /\ rec[k].mem_cap = 0 /\ rec[k].busy = 0
<1>1. /\ DOMAIN rec = {Loaded[i].key : i \in DOMAIN Loaded}
      /\ \A i \in DOMAIN Loaded :
                 rec[Loaded[i].key] =
                    [size |-> Loaded[i].size, mem |-> NULL, mem_cap |-> 0, busy |-> 0,
                     ext |-> <<Loaded[i].ext>>, ext_total |-> Loaded[i].ext.len]
  BY LoadedRecords
<1>2. /\ Len(Loaded) \in Nat /\ DOMAIN Loaded = 1 .. Len(Loaded)
      /\ \A i \in DOMAIN Loaded : /\ Loaded[i].key \in Keys /\ Loaded[i].size \in Nat \ {0}
                                  /\ Loaded[i].ext \in Extent
                                  /\ Loaded[i].ext.len = round_up(Loaded[i].size)
  BY LoadedFields
<1>3. IsFiniteSet(DOMAIN rec)
  <2> DEFINE f == [i \in DOMAIN Loaded |-> Loaded[i].key]
  <2>1. IsFiniteSet(DOMAIN Loaded)
    BY <1>2, FS_Interval
  <2>2. f \in Surjection(DOMAIN Loaded, DOMAIN rec)
    BY <1>1, Zenon DEF Surjection
  <2> QED
    BY <2>1, <2>2, FS_Surjection
<1>4. ASSUME NEW i \in DOMAIN Loaded
      PROVE  /\ rec[Loaded[i].key] \in Record
             /\ Room(rec[Loaded[i].key])
             /\ rec[Loaded[i].key].mem = NULL /\ rec[Loaded[i].key].mem_cap = 0
             /\ rec[Loaded[i].key].busy = 0
  <2>1. PICK r, e, s : r = rec[Loaded[i].key] /\ e = Loaded[i].ext /\ s = Loaded[i].size
    OBVIOUS
  <2>2. /\ r = [size |-> s, mem |-> NULL, mem_cap |-> 0, busy |-> 0,
                ext |-> <<e>>, ext_total |-> e.len]
        /\ e \in Extent /\ s \in Nat \ {0} /\ e.len = round_up(s)
    BY <1>1, <1>2, <2>1
  <2>3. e.len \in Nat /\ e.len >= s
    BY <2>2, RoundUpProps
  <2>4. <<e>> \in Seq(Extent) /\ Len(<<e>>) = 1 /\ <<e>>[1] = e
    BY <2>2
  <2>5. r \in Record
    BY <2>2, <2>3, <2>4 DEF Record, NULL
  <2>6. Base(<<e>>, 2) = e.len
    <3>1. PICK x : x = <<e>>
      OBVIOUS
    <3>2. x \in Seq(Extent) /\ 1 \in 1 .. Len(x)
      BY <2>4, <3>1
    <3>3. Base(x, 1) = 0 /\ Base(x, 1 + 1) = Base(x, 1) + x[1].len
      BY <3>2, BaseProps
    <3> QED
      BY <2>3, <2>4, <3>1, <3>3
  <2>7. Room(r)
    <3>1. r.ext = <<e>> /\ r.ext_total = e.len /\ r.mem = NULL /\ r.mem_cap = 0 /\ r.size = s
      BY <2>2
    <3>2. Len(r.ext) + 1 = 2
      BY <2>4, <3>1
    <3> QED
      BY <2>2, <2>3, <2>6, <3>1, <3>2 DEF Room
  <2> QED
    BY <2>1, <2>2, <2>5, <2>7
<1> QED
  BY <1>1, <1>2, <1>3, <1>4 DEF RecTypes, Rooms

LEMMA InitSpace ==
    ASSUME Init
    PROVE  Space
<1>1. /\ DOMAIN rec = {Loaded[i].key : i \in DOMAIN Loaded}
      /\ \A i \in DOMAIN Loaded : rec[Loaded[i].key].ext = <<Loaded[i].ext>>
  <2>1. DOMAIN rec = {Loaded[i].key : i \in DOMAIN Loaded}
    BY LoadedRecords
  <2>2. ASSUME NEW i \in DOMAIN Loaded
        PROVE  rec[Loaded[i].key].ext = <<Loaded[i].ext>>
    <3>1. rec[Loaded[i].key] =
                    [size |-> Loaded[i].size, mem |-> NULL, mem_cap |-> 0, busy |-> 0,
                     ext |-> <<Loaded[i].ext>>, ext_total |-> Loaded[i].ext.len]
      BY LoadedRecords
    <3> QED
      BY <3>1
  <2> QED
    BY <2>1, <2>2
<1>2. Len(Loaded) \in Nat /\ DOMAIN Loaded = 1 .. Len(Loaded)
  BY LoadedFields
<1>3. fl = << >> /\ flcap = 0 /\ lost = {} /\ fresh = << >> /\ dying = << >>
  BY DEF Init
<1>4. file_end = LoadedEnd(Len(Loaded))
  <2>1. Loaded = << >> <=> Len(Loaded) = 0
    BY LoadedAssumption, EmptySeq
  <2> QED
    BY <2>1 DEF Init, LoadedEnd
<1>5. Range(fresh) = {} /\ Range(dying) = {}
  BY <1>3 DEF Range
<1>6. Extents = LoadedTo(Len(Loaded))
  <2>1. \A k \in DOMAIN rec : Range(rec[k].ext) \subseteq LoadedTo(Len(Loaded))
    BY <1>1, <1>2 DEF Range, LoadedTo
  <2>2. \A i \in 1 .. Len(Loaded) : Loaded[i].ext \in Range(rec[Loaded[i].key].ext)
    BY <1>1, <1>2 DEF Range
  <2>3. Extents \subseteq LoadedTo(Len(Loaded))
    BY <2>1 DEF Extents
  <2>4. \A i \in 1 .. Len(Loaded) : Loaded[i].ext \in Extents
    BY <1>1, <1>2, <2>2 DEF Extents
  <2>5. LoadedTo(Len(Loaded)) \subseteq Extents
    BY <2>4 DEF LoadedTo
  <2> QED
    BY <2>3, <2>5
<1>7. Owned = LoadedTo(Len(Loaded))
  BY <1>3, <1>5, <1>6 DEF Owned
<1>8. Accounted(fl, Owned, file_end)
  BY <1>3, <1>4, <1>7, LoadedAccounted
<1>9. \A k, l \in DOMAIN rec : \A i \in DOMAIN rec[k].ext, j \in DOMAIN rec[l].ext :
          rec[k].ext[i] = rec[l].ext[j] => k = l /\ i = j
  <2> SUFFICES ASSUME NEW k \in DOMAIN rec, NEW l \in DOMAIN rec,
                      NEW i \in DOMAIN rec[k].ext, NEW j \in DOMAIN rec[l].ext,
                      rec[k].ext[i] = rec[l].ext[j]
               PROVE  k = l /\ i = j
    OBVIOUS
  <2>1. PICK a \in DOMAIN Loaded : k = Loaded[a].key
    BY <1>1
  <2>2. PICK b \in DOMAIN Loaded : l = Loaded[b].key
    BY <1>1
  <2>3. rec[k].ext = <<Loaded[a].ext>> /\ rec[l].ext = <<Loaded[b].ext>>
    BY <1>1, <2>1, <2>2
  <2>4. i = 1 /\ j = 1
    BY <2>3
  <2>5. Loaded[a].ext = Loaded[b].ext
    BY <2>3, <2>4
  <2>6. a = b
    BY <2>5, LoadedAccounted
  <2> QED
    BY <2>1, <2>2, <2>4, <2>6
<1> QED
  BY <1>3, <1>5, <1>8, <1>9 DEF Space

LEMMA InitSafe ==
    ASSUME Init
    PROVE  Safe
<1>1. RecTypes /\ Rooms
      /\ \A k \in DOMAIN rec : rec[k].mem = NULL /\ rec[k].mem_cap = 0 /\ rec[k].busy = 0
  BY InitRecords
<1>2. /\ \A t \in Threads : pc[t] = "idle" /\ call[t] = NoCall
      /\ lk = NoThread /\ vic = NoKey /\ fresh = << >> /\ dying = << >>
      /\ NoThread \notin Threads
  BY StoreAssumption DEF Init
<1>3. Types
  BY <1>1 DEF Init, Types, RecTypes, Where
<1>4. NoCall.op = "none" /\ NoCall.key = NoKey /\ "idle" \notin Locked /\ "idle" \notin Moving
      /\ "idle" \notin Spills
  BY DEF NoCall, Locked, Moving, Spills
<1>5. Control
  BY <1>2, <1>4 DEF Control, Active
<1>6. Holding
  BY <1>2, <1>4 DEF Holding
<1>7. Memory
  <2>1. Resident = {}
    BY <1>1 DEF Resident
  <2>2. heap = << >> /\ lru = << >> /\ resident = 0
    BY DEF Init
  <2>3. Total([k \in DOMAIN rec |-> rec[k].mem_cap], DOMAIN rec) = 0
    BY <1>1, TotalOfNothing DEF RecTypes
  <2>4. Budget \in Nat
    BY <1>3, StoreAssumption DEF Types, Budget
  <2>5. DOMAIN heap = {} /\ Range(lru) = {} /\ lru \in Seq(Keys) /\ IsInjective(lru)
    BY <2>2 DEF Range, IsInjective
  <2> QED
    BY <2>1, <2>2, <2>3, <2>4, <2>5 DEF Memory
<1>8. Counts
  <2>1. \A k : Movers(k) = {}
    BY <1>2, <1>4 DEF Movers
  <2> QED
    BY <1>1, <2>1, FS_EmptySet DEF Counts
<1>9. Appends
  BY <1>2, <1>4 DEF Appends, AppendsDisjoint
<1> QED
  BY <1>1, <1>3, <1>5, <1>6, <1>7, <1>8, <1>9, InitSpace DEF Safe

-----------------------------------------------------------------------------
(* The theorems.                                                           *)

LEMMA SafeStutter ==
    ASSUME Safe, UNCHANGED vars
    PROVE  Safe'
<1>0. /\ UNCHANGED <<setting, rec, heap, lru, resident, fl, flcap, file_end, lost, lk, vic, fresh, dying>>
      /\ UNCHANGED <<pc, call, place, todo, rc>>
  BY DEF vars, memory, space, lock, thread
<1>1. Types' /\ Control'
  BY <1>0 DEF Safe, Types, Control, Active, Key, SameKey
<1>2. Holding'
  BY <1>0 DEF Safe, Holding, Growing, Need, Key, Budget
<1>3. Space'
  <2>1. Owned' = Owned /\ Extents' = Extents
    BY <1>0 DEF Owned, Extents
  <2>2. Space
    BY DEF Safe
  <2> QED
    BY <1>0, <2>1, <2>2 DEF Space
<1>4. Rooms' /\ Memory'
  BY <1>0 DEF Safe, Rooms, Memory, Resident, Budget
<1>5. Counts' /\ Appends'
  BY <1>0 DEF Safe, Counts, Movers, Key, Appends, AppendsDisjoint
<1> QED
  BY <1>1, <1>2, <1>3, <1>4, <1>5 DEF Safe

LEMMA SafeNext == Safe /\ [Next]_vars => Safe'
<1> SUFFICES ASSUME Safe, [Next]_vars
             PROVE  Safe'
  OBVIOUS
<1>1. CASE UNCHANGED vars
  BY <1>1, SafeStutter
<1>2. CASE Next
  <2>1. UNCHANGED setting /\ \E t \in Threads : Step(t)
    BY <1>2, NextSteps DEF Safe
  <2>2. PICK t \in Threads : Step(t)
    BY <2>1
  <2>3. Types' /\ Control' /\ Holding' /\ Space'
    BY <2>1, <2>2, TypesNext, ControlNext, HoldingNext, SpaceNext
  <2>4. Rooms' /\ Memory' /\ Counts' /\ Appends'
    BY <2>1, <2>2, RoomsNext, MemoryNext, CountsNext, AppendsNext
  <2> QED
    BY <2>3, <2>4 DEF Safe
<1> QED
  BY <1>1, <1>2

\* The parts of the invariant hold together, for any threads, keys, calls,
\* budget and file, and whatever fails: what the holder of toc_lk has half
\* done, the space in the file, the memory tier, busy, and the appends.
THEOREM StoreInvariant == Spec => []Safe
<1>1. Init => Safe
  BY InitSafe
<1> QED
  BY <1>1, SafeNext, PTL DEF Spec

\* The table, the lists and the lock are what they are meant to be, and a
\* record that says it is resident has a buffer.
THEOREM StoreTypeCorrect == Spec => []TypeOK
<1>1. Safe => TypeOK
  <2> SUFFICES ASSUME Safe
               PROVE  TypeOK
    OBVIOUS
  <2>1. \A k \in DOMAIN rec : rec[k].mem # NULL => rec[k].mem \in DOMAIN heap
    BY DEF Safe, Memory, Resident
  <2>2. resident \in Nat
    BY ResidentNat DEF Safe
  <2>3. Range(lru) \subseteq Keys
    BY DEF Safe, Memory, Resident, Types
  <2>4. fl \in Seq(Extent) /\ flcap \in Nat /\ file_end \in Nat /\ lost \subseteq Extent
    BY DEF Safe, Space, Accounted, Owned
  <2> QED
    BY <2>1, <2>2, <2>3, <2>4 DEF Safe, Types, Space, TypeOK, Where, Locked, Moving
<1> QED
  BY <1>1, StoreInvariant, PTL

\* Any number of appends to one key may be in progress: the size a record gets
\* before the lock is dropped keeps their ranges apart.
THEOREM StoreAppends == Spec => []AppendsDisjoint
<1>1. Safe => AppendsDisjoint
  BY DEF Safe, Appends
<1> QED
  BY <1>1, StoreInvariant, PTL

\* The memory tier never goes over memory_budget, for any budget, and
\* s->resident, the LRU list and the buffers tell the same story, whatever is
\* evicted, spilled, erased or fails half-way.
THEOREM StoreMemory == Spec => []MemoryAccounted
<1>1. Safe => MemoryAccounted
  <2> SUFFICES ASSUME Safe
               PROVE  MemoryAccounted
    OBVIOUS
  <2>0. Types /\ Memory
    BY DEF Safe
  <2>1. resident = Total([k \in DOMAIN rec |-> rec[k].mem_cap], DOMAIN rec) /\ resident <= Budget
        /\ Range(lru) = Resident /\ IsInjective(lru) /\ lru \in Seq(Keys)
    BY <2>0 DEF Memory
  <2>2. IsFiniteSet(DOMAIN rec) /\ \A k \in DOMAIN rec : rec[k].mem_cap \in Nat
    BY <2>0, RecordFields DEF Types
  <2>3. SumCapacities(rec, DOMAIN rec) = resident
    BY <2>1, <2>2, SumOfCapacities
  <2>4. MapThenSumSet(LAMBDA k : rec[k].mem_cap, DOMAIN rec) = SumCapacities(rec, DOMAIN rec)
    BY Zenon DEF SumCapacities
  <2>5. Cardinality(DOMAIN heap) = Len(lru)
    <3>1. Len(lru) \in Nat /\ DOMAIN lru = 1 .. Len(lru)
      BY <2>1
    <3>n. PICK n : n = Len(lru)
      OBVIOUS
    <3>m. n \in Nat /\ 1 \in Int /\ n \in Int /\ (1 > n => n = 0) /\ n - 1 + 1 = n
      BY <3>1, <3>n
    <3>2. IsFiniteSet(DOMAIN lru) /\ Cardinality(DOMAIN lru) = Len(lru)
      BY <3>1, <3>n, <3>m, FS_Interval
    <3> DEFINE f == [i \in DOMAIN lru |-> rec[lru[i]].mem]
    <3>3. \A i \in DOMAIN lru : lru[i] \in Resident
      BY <2>1 DEF Range
    <3>4. f \in [DOMAIN lru -> DOMAIN heap]
      BY <2>0, <3>3 DEF Memory
    <3>5. IsInjective(f)
      BY <2>0, <2>1, <3>3 DEF Memory, IsInjective
    <3>6. \A b \in DOMAIN heap : \E i \in DOMAIN lru : f[i] = b
      <4> SUFFICES ASSUME NEW b \in DOMAIN heap
                   PROVE  \E i \in DOMAIN lru : f[i] = b
        OBVIOUS
      <4>1. PICK k \in Resident : b = rec[k].mem
        BY <2>0 DEF Memory
      <4>2. PICK i \in DOMAIN lru : lru[i] = k
        BY <2>1 DEF Range
      <4> QED
        BY <4>1, <4>2
    <3> HIDE DEF f
    <3>7. f \in Bijection(DOMAIN lru, DOMAIN heap)
      BY <3>4, <3>5, <3>6 DEF Bijection, Injection, Surjection
    <3>8. ExistsBijection(DOMAIN lru, DOMAIN heap)
      BY <3>7 DEF ExistsBijection
    <3> QED
      BY <3>2, <3>8, FS_Bijection
  <2>6. resident = MapThenSumSet(LAMBDA k : rec[k].mem_cap, DOMAIN rec)
    BY <2>3, <2>4, Zenon
  <2> QED
    BY <2>1, <2>5, <2>6, Zenon DEF MemoryAccounted, Resident
<1> QED
  BY <1>1, StoreInvariant, PTL

\* However calls interleave and fail, no byte of the file is handed out twice, and
\* none disappears but what fl_insert has no slot for: the extents of the records,
\* the one being zeroed, the ones being given back and the ones lost so share out
\* with the holes all that is between the superblock and the end, and
\* ls_alloc_live is what they hold.
THEOREM StoreSpace == Spec => []SpaceAccounted
<1>1. Safe => SpaceAccounted
  <2> SUFFICES ASSUME Safe
               PROVE  SpaceAccounted
    OBVIOUS
  <2>1. /\ Accounted(fl, Owned, file_end)
        /\ Extents \cap Range(dying) = {}
        /\ lost \cap (Extents \cup Range(fresh) \cup Range(dying)) = {}
        /\ fresh # << >> => dying = << >>
    BY DEF Safe, Space, Holding
  <2>2. fl \in Seq(Extent) /\ Owned \in SUBSET Extent /\ file_end \in Nat
        /\ Partitioned(fl, Owned, file_end) /\ LS_SUPER_SIZE <= file_end /\ Apart(Owned)
    BY <2>1 DEF Accounted
  <2>3. Allocator!Owned = Owned
    BY DEF Allocator!Owned, Owned
  <2>4. \A e : Allocator!Bytes(e) = Bytes(e)
    BY DEF Allocator!Bytes, Bytes, Allocator!End, End
  <2>5. Allocator!HoleBytes(fl) = HoleBytes(fl)
    BY <2>4 DEF Allocator!HoleBytes, HoleBytes
  <2>6. Allocator!SpacePartitioned
    <3>1. /\ HoleBytes(fl) \cup UNION {Bytes(e) : e \in Owned} = LS_SUPER_SIZE .. (file_end - 1)
          /\ HoleBytes(fl) \cap UNION {Bytes(e) : e \in Owned} = {}
      BY <2>2, PartitionByBytes
    <3>2. UNION {Allocator!Bytes(e) : e \in Allocator!Owned} = UNION {Bytes(e) : e \in Owned}
      BY <2>3, <2>4
    <3> QED
      BY <2>2, <2>5, <3>1, <3>2, Zenon DEF Allocator!SpacePartitioned
  <2>7. Allocator!OwnersDisjoint
    <3>1. (Extents \cup Range(fresh)) \cap Range(dying) = {}
      BY <2>1 DEF Range
    <3>2. \A d, e \in Owned : d # e => Bytes(d) \cap Bytes(e) = {}
      BY <2>2, ApartByBytes
    <3>3. (Extents \cup Range(fresh)) \cap lost = {} /\ Range(dying) \cap lost = {}
      BY <2>1
    <3> QED
      BY <2>3, <2>4, <3>1, <3>2, <3>3 DEF Allocator!OwnersDisjoint
  <2>8. Allocator!LiveIsOwned
    <3>1. file_end - LS_SUPER_SIZE - FoldLengths(fl) = SumLengths(Owned)
      BY <2>1, AccountLive
    <3>2. Allocator!ls_alloc_live = file_end - LS_SUPER_SIZE - FoldLengths(fl)
      BY Zenon DEF Allocator!ls_alloc_live, FoldLengths, Allocator!FoldLeft, FoldLeft,
                   Allocator!MapThenFoldSet, MapThenFoldSet, Allocator!Max, Max
    <3>3. Allocator!LiveIsOwned <=> Allocator!ls_alloc_live = SumLengths(Owned)
      BY <2>3, Zenon DEF Allocator!LiveIsOwned, SumLengths, Allocator!MapThenSumSet, MapThenSumSet,
                         Allocator!MapThenFoldSet, MapThenFoldSet
    <3> QED
      BY <3>1, <3>2, <3>3
  <2> QED
    BY <2>6, <2>7, <2>8 DEF SpaceAccounted
<1> QED
  BY <1>1, StoreInvariant, PTL

-----------------------------------------------------------------------------
(* The file.                                                               *)

\* What a call is to transfer.
LEMMA LaunchPieces ==
    ASSUME Types, Space, NEW c \in Call, NEW r, r \in Record
    PROVE  Transfers(c, [mem |-> r.mem, ext |-> r.ext]) \in Seq(Transfer)
<1>1. PICK p : p = [mem |-> r.mem, ext |-> r.ext]
  OBVIOUS
<1>2. p.ext \in Seq(Extent)
  BY <1>1, RecordFields
<1> QED
  BY <1>1, <1>2, TransfersTyped

LEMMA RoundUpGrows ==
    ASSUME NEW n \in Nat
    PROVE  round_up(n) \in Nat /\ round_up(n) >= n
<1>1. LS_ALIGN \in Nat /\ LS_ALIGN > 0
  BY AlignAssumption
<1> DEFINE x == n + (LS_ALIGN - 1)
<1>2. x \in Nat
  BY <1>1
<1>3. x % LS_ALIGN \in 0 .. (LS_ALIGN - 1)
  BY <1>1, <1>2
<1> QED
  BY <1>1, <1>2, <1>3 DEF round_up

LEMMA BlockProps ==
    ASSUME NEW at \in Nat, NEW n \in Nat
    PROVE  /\ BlockStart(at) \in Nat /\ BlockStart(at) <= at
           /\ round_up(at + n) - BlockStart(at) \in Nat
<1>1. LS_ALIGN \in Nat /\ LS_ALIGN > 0
  BY AlignAssumption
<1>2. PICK m : m = at % LS_ALIGN
  OBVIOUS
<1>3. m \in Nat /\ m <= at
  <2>1. m \in 0 .. (LS_ALIGN - 1)
    BY <1>1, <1>2
  <2>2. at = LS_ALIGN * (at \div LS_ALIGN) + m /\ at \div LS_ALIGN \in Nat
    BY <1>1, <1>2
  <2>3. PICK q \in Nat : at = LS_ALIGN * q + m
    BY <2>2
  <2>4. LS_ALIGN * q \in Nat
    BY <1>1
  <2> QED
    BY <1>1, <2>1, <2>3, <2>4
<1>4. BlockStart(at) = at - m
  BY <1>2 DEF BlockStart
<1>5. round_up(at + n) \in Nat /\ round_up(at + n) >= at + n
  BY RoundUpGrows
<1> QED
  BY <1>3, <1>4, <1>5

LEMMA NextPiece ==
    ASSUME Pieces, NEW t \in Threads, todo[t] # << >>
    PROVE  Head(todo[t]) \in Transfer /\ Tail(todo[t]) \in Seq(Transfer)
  BY DEF Pieces

LEMMA PieceFields ==
    ASSUME NEW x \in Transfer
    PROVE  x.at \in Nat /\ x.off \in Nat /\ x.n \in Nat
  BY DEF Transfer

LEMMA PiecesNext ==
    ASSUME Safe, Pieces, NEW t \in Threads, Step(t), UNCHANGED setting
    PROVE  Pieces'
<1>0. Types /\ Control /\ Space /\ DOMAIN todo = Threads /\ DOMAIN bounce = Threads
      /\ \A u \in Threads : todo[u] \in Seq(Transfer) /\ IsSeq(bounce[u])
  BY DEF Safe, Types, Pieces
<1>e. IsSeq(<< >>) /\ << >> \in Seq(Transfer)
  BY DEF IsSeq
<1>1. ASSUME NEW c \in Calls, c.op = "read", StartRead(t, c)
      PROVE  Pieces'
  <2>1. c \in Call /\ c.key \in DOMAIN rec /\ rec[c.key] \in Record
    BY <1>0, <1>1, CallsAssumption DEF StartRead, Types, Calls
  <2>2. PICK x : x = Transfers(c, [mem |-> rec[c.key].mem, ext |-> rec[c.key].ext])
    OBVIOUS
  <2>3. x \in Seq(Transfer)
    BY <1>0, <2>1, <2>2, LaunchPieces
  <2>4. todo' = [todo EXCEPT ![t] = x] /\ UNCHANGED bounce
    BY <1>1, <2>2 DEF StartRead, Launch
  <2> QED
    BY <1>0, <2>3, <2>4 DEF Pieces
<1>2. CASE Ready(t)
  <2>1. call[t] \in Call /\ rec[Key(t)] \in Record
    BY <1>0, <1>2, NotErasing, Caught DEF Ready
  <2>2. PICK x : x = Transfers(call[t], [mem |-> rec[Key(t)].mem, ext |-> rec[Key(t)].ext])
    OBVIOUS
  <2>3. x \in Seq(Transfer)
    BY <1>0, <2>1, <2>2, LaunchPieces
  <2>4. todo' = [todo EXCEPT ![t] = x] /\ UNCHANGED bounce
    BY <1>2, <2>2 DEF Ready, Launch
  <2> QED
    BY <1>0, <2>3, <2>4 DEF Pieces
<1>3. CASE Bounce(t)
  <2>1. PICK x : x = Head(todo[t])
    OBVIOUS
  <2>2. x \in Transfer
    BY <1>3, <2>1, NextPiece DEF Bounce
  <2>3. PICK n : n = round_up(x.at + x.n) - BlockStart(x.at)
    OBVIOUS
  <2>4. n \in Nat
    BY <2>2, <2>3, PieceFields, BlockProps
  <2>5. PICK b : bounce' = [bounce EXCEPT ![t] = b] /\ b = [i \in 1 .. n |->
                     IF BlockStart(x.at) + i <= Len(file) THEN file[BlockStart(x.at) + i] ELSE 0]
    BY <1>3, <2>1, <2>3 DEF Bounce
  <2>6. IsSeq(b)
    BY <2>4, <2>5 DEF IsSeq
  <2>7. UNCHANGED todo
    BY <1>3 DEF Bounce
  <2> QED
    BY <1>0, <2>5, <2>6, <2>7 DEF Pieces
<1>4. CASE MemPiece(t) \/ WritePiece(t) \/ PieceFails(t) \/ ReadPiece(t)
  <2>1. todo[t] # << >>
    BY <1>4 DEF MemPiece, WritePiece, PieceFails, ReadPiece
  <2>2. PICK x \in {Tail(todo[t]), << >>} : todo' = [todo EXCEPT ![t] = x]
    BY <1>4 DEF MemPiece, WritePiece, PieceFails, ReadPiece
  <2>3. bounce' = bounce \/ bounce' = [bounce EXCEPT ![t] = << >>]
    BY <1>4 DEF MemPiece, WritePiece, PieceFails, ReadPiece
  <2>4. x \in Seq(Transfer)
    BY <1>e, <2>1, <2>2, NextPiece
  <2> QED
    BY <1>0, <1>e, <2>2, <2>3, <2>4 DEF Pieces
<1>5. CASE UNCHANGED <<todo, bounce>>
  BY <1>0, <1>5 DEF Pieces
<1>6. CASE \/ \E c \in Calls : StartGrow(t, Resolve(c)) \/ ls_erase(t, c)
           \/ Transferred(t) \/ Leave(t) \/ Cap(t) \/ Evict(t) \/ Fit(t) \/ NoFit(t)
  BY <1>5, <1>6 DEF StartGrow, ls_erase, Transferred, Leave, Cap, Evict, Fit, NoFit, thread
<1>7. CASE \/ Alloc(t) \/ Zero(t) \/ ZeroFails(t) \/ Spill(t) \/ SpillFails(t)
           \/ Backed(t) \/ Free(t) \/ Freed(t) \/ Reserved(t)
  BY <1>5, <1>7 DEF Alloc, Zero, ZeroFails, Spill, SpillFails, Backed, Free, Freed, Reserved, thread
<1> QED
  BY <1>1, <1>2, <1>3, <1>4, <1>6, <1>7 DEF Step

\* Only Zero gives a record an extent.
LEMMA ExtentsKept ==
    ASSUME Safe, NEW t \in Threads, Step(t), ~Zero(t)
    PROVE  Extents' \subseteq Extents
<1>0. Types /\ Control /\ Holding /\ Space /\ Memory /\ Counts
  BY DEF Safe
<1>r. \A k \in DOMAIN rec : rec[k] \in Record
  BY <1>0 DEF Types
<1>s. ASSUME NEW k, NEW q, Sets(k, q), q.ext = << >> \/ (k \in DOMAIN rec /\ q.ext = rec[k].ext)
      PROVE  Extents' \subseteq Extents
  <2>1. \A j \in DOMAIN rec' : rec'[j].ext = << >> \/ (j \in DOMAIN rec /\ rec'[j].ext = rec[j].ext)
    BY <1>s DEF Sets
  <2>2. \A e \in Extents' : e \in Extents
    BY <2>1, ExtentsAre
  <2> QED
    BY <2>2
<1>1. ASSUME NEW c \in Calls, c.op = "read", StartRead(t, c)
      PROVE  Extents' \subseteq Extents
  <2>1. c.key \in DOMAIN rec /\ Sets(c.key, [rec[c.key] EXCEPT !.busy = @ + 1])
    BY <1>0, <1>1, StartReadShape
  <2>2. PICK q : q = [rec[c.key] EXCEPT !.busy = @ + 1]
    OBVIOUS
  <2>3. q.ext = rec[c.key].ext
    BY <1>r, <2>1, <2>2 DEF Record
  <2> QED
    BY <1>s, <2>1, <2>2, <2>3
<1>2. ASSUME NEW c \in Calls, c.op \notin {"read", "erase"}, StartGrow(t, Resolve(c))
      PROVE  Extents' \subseteq Extents
  <2>1. IF c.key \in DOMAIN rec THEN UNCHANGED rec ELSE Sets(c.key, NewRec)
    BY <1>0, <1>2, StartGrowShape
  <2>2. NewRec.ext = << >>
    BY DEF NewRec
  <2>3. CASE UNCHANGED rec
    BY <2>3 DEF Extents
  <2> QED
    BY <1>s, <2>1, <2>2, <2>3
<1>3. ASSUME NEW c \in Calls, ls_erase(t, c)
      PROVE  Extents' \subseteq Extents
  <2>1. Drops(c.key)
    BY <1>0, <1>3, EraseShape
  <2>2. \A j \in DOMAIN rec' : j \in DOMAIN rec /\ rec'[j] = rec[j]
    BY <2>1 DEF Drops
  <2>3. \A e \in Extents' : e \in Extents
    BY <2>2, ExtentsAre
  <2> QED
    BY <2>3
<1>4. CASE QuietStep(t) \/ Alloc(t) \/ ZeroFails(t) \/ Free(t)
  BY <1>4, RecSame DEF Extents
<1>5. CASE Leave(t)
  <2>1. PICK k, r, b : k = Key(t) /\ r = rec[k] /\ b = r.busy - 1
    OBVIOUS
  <2>2. k \in DOMAIN rec /\ Sets(k, [r EXCEPT !.busy = b])
    BY <1>0, <1>5, <2>1, LeaveEffect
  <2>3. PICK q : q = [r EXCEPT !.busy = b]
    OBVIOUS
  <2>4. q.ext = rec[k].ext
    BY <1>r, <2>1, <2>2, <2>3, RecordUpdates
  <2> QED
    BY <1>s, <2>2, <2>3, <2>4
<1>6. CASE Fit(t)
  <2>1. PICK k, r, n : k = Key(t) /\ r = rec[k] /\ n = Need(t)
    OBVIOUS
  <2>2. k \in DOMAIN rec
    BY <1>0, <1>6, <2>1, FitEffect
  <2>3. PICK b \in Nat \ {0} : Sets(k, [r EXCEPT !.mem = b, !.mem_cap = n])
    BY <1>0, <1>6, <2>1, FitEffect
  <2>4. PICK q : q = [r EXCEPT !.mem = b, !.mem_cap = n]
    OBVIOUS
  <2>5. q.ext = rec[k].ext
    BY <1>r, <2>1, <2>2, <2>4, RecordUpdates
  <2> QED
    BY <1>s, <2>2, <2>3, <2>4, <2>5
<1>8. CASE Spill(t)
  <2>1. PICK k, r, n, z : k = vic /\ r = rec[k] /\ n = NULL /\ z = 0
    OBVIOUS
  <2>2. k \in DOMAIN rec /\ Sets(k, [r EXCEPT !.mem = n, !.mem_cap = z])
    BY <1>0, <1>8, <2>1, SpillEffect
  <2>3. PICK q : q = [r EXCEPT !.mem = n, !.mem_cap = z]
    OBVIOUS
  <2>4. q.ext = rec[k].ext
    BY <1>r, <2>1, <2>2, <2>3, RecordUpdates
  <2> QED
    BY <1>s, <2>2, <2>3, <2>4
<1>9. CASE Ready(t)
  <2>1. PICK k, r, n, b : k = Key(t) /\ r = rec[k] /\ n = NewSize(r, Need(t)) /\ b = r.busy + 1
    OBVIOUS
  <2>2. k \in DOMAIN rec /\ Sets(k, [r EXCEPT !.size = n, !.busy = b])
    BY <1>0, <1>9, <2>1, ReadyEffect
  <2>3. PICK q : q = [r EXCEPT !.size = n, !.busy = b]
    OBVIOUS
  <2>4. q.ext = rec[k].ext
    BY <1>r, <2>1, <2>2, <2>3, RecordUpdates
  <2> QED
    BY <1>s, <2>2, <2>3, <2>4
<1>10. CASE Reserved(t)
  <2>1. PICK k, r, n : k = Key(t) /\ r = rec[k] /\ n = NewSize(r, Need(t))
    OBVIOUS
  <2>2. k \in DOMAIN rec /\ Sets(k, [r EXCEPT !.size = n])
    BY <1>0, <1>10, <2>1, ReservedEffect
  <2>3. PICK q : q = [r EXCEPT !.size = n]
    OBVIOUS
  <2>4. q.ext = rec[k].ext
    BY <1>r, <2>1, <2>2, <2>3, RecordUpdates
  <2> QED
    BY <1>s, <2>2, <2>3, <2>4
<1> QED
  BY <1>1, <1>2, <1>3, <1>4, <1>5, <1>6, <1>8, <1>9, <1>10, StepCases
LEMMA FileWider ==
    ASSUME FileSize, Extents' \subseteq Extents, IsSeq(file'), Len(file') >= Len(file),
           \A e \in Extents : End(e) \in Nat
    PROVE  FileSize'
  BY DEF FileSize, IsSeq

LEMMA ExtentEnds ==
    ASSUME Space
    PROVE  /\ Extents \subseteq Extent
           /\ \A e \in Extent : e.foff \in Nat /\ e.len \in Nat /\ e.len > 0 /\ End(e) \in Nat
<1>1. Owned \subseteq Extent
  BY DEF Space, Accounted
<1> QED
  BY <1>1 DEF Owned, Extent, End

LEMMA DataLen ==
    ASSUME NEW t, NEW x, x.n \in Nat, NEW old
    PROVE  Len(Data(t, x, old)) = x.n /\ IsSeq(Data(t, x, old))
<1>1. PICK n : n = x.n
  OBVIOUS
<1> DEFINE d(i) == IF call[t].op # "acc" THEN call[t].val
                   ELSE Combine(IF place[t].mem # NULL THEN old[x.at + i] ELSE buf[t][x.off + i - 1],
                                call[t].val)
<1>2. Data(t, x, old) = [i \in 1 .. n |-> d(i)]
  BY <1>1, Zenon DEF Data
<1> HIDE DEF d
<1> QED
  BY <1>1, <1>2 DEF IsSeq

LEMMA FileNext ==
    ASSUME Safe, FileSize, Pieces, NEW t \in Threads, Step(t), UNCHANGED setting
    PROVE  FileSize'
<1>0. Types /\ Control /\ Holding /\ Space /\ IsSeq(file) /\ Len(file) \in Nat
      /\ \A e \in Extents : End(e) <= Len(file)
  BY DEF Safe, FileSize, IsSeq
<1>e. /\ Extents \subseteq Extent
      /\ \A e \in Extent : e.foff \in Nat /\ e.len \in Nat /\ e.len > 0 /\ End(e) \in Nat
  BY <1>0, ExtentEnds
<1>k. ~Zero(t) => Extents' \subseteq Extents
  BY ExtentsKept
<1>w. ASSUME NEW e \in Extent
      PROVE  /\ IsSeq(zero_range(file, e)) /\ Len(zero_range(file, e)) \in Nat
             /\ Len(zero_range(file, e)) >= Len(file) /\ Len(zero_range(file, e)) >= End(e)
  <2>1. IsSeq(Zeros(e.len)) /\ Len(Zeros(e.len)) = e.len
    BY <1>e, ZerosLen
  <2>2. PICK z, f : z = Zeros(e.len) /\ f = Overwrite(file, e.foff, z)
    OBVIOUS
  <2>3. IsSeq(f) /\ Len(f) >= Len(file) /\ Len(f) >= e.foff + Len(z)
    BY <1>0, <1>e, <2>1, <2>2, OverwriteLen
  <2> QED
    BY <2>1, <2>2, <2>3 DEF zero_range, End, IsSeq
<1>1. CASE UNCHANGED file /\ ~Zero(t)
  BY <1>0, <1>e, <1>k, <1>1, FileWider
<1>2. CASE Zero(t)
  <2>1. PICK k, r, e, x, y : k = Grown(t) /\ r = rec[k] /\ e = fresh[1]
                           /\ x = Append(r.ext, e) /\ y = r.ext_total + e.len
    OBVIOUS
  <2>2. k \in DOMAIN rec /\ e \in Extent /\ Sets(k, [r EXCEPT !.ext = x, !.ext_total = y])
    BY <1>0, <1>2, <2>1, ZeroEffect
  <2>3. r \in Record /\ r.ext \in Seq(Extent)
    BY <1>0, <2>1, <2>2, RecordFields DEF Types
  <2>4. rec'[k].ext = x
    BY <2>2, <2>3, RecordUpdates DEF Sets
  <2>5. \A i \in DOMAIN x : x[i] = e \/ (i \in DOMAIN r.ext /\ x[i] = r.ext[i])
    BY <2>1, <2>2, <2>3
  <2>6. \A d \in Extents' : d = e \/ d \in Extents
    <3> SUFFICES ASSUME NEW d \in Extents'
                 PROVE  d = e \/ d \in Extents
      OBVIOUS
    <3>1. PICK j \in DOMAIN rec' : \E i \in DOMAIN rec'[j].ext : d = rec'[j].ext[i]
      BY ExtentsAre
    <3>2. PICK i \in DOMAIN rec'[j].ext : d = rec'[j].ext[i]
      BY <3>1
    <3>3. CASE j = k
      BY <2>1, <2>2, <2>4, <2>5, <3>2, <3>3, ExtentsAre
    <3>4. CASE j # k
      <4>1. j \in DOMAIN rec /\ rec'[j] = rec[j]
        BY <2>2, <3>4 DEF Sets
      <4> QED
        BY <3>2, <4>1, ExtentsAre
    <3> QED
      BY <3>3, <3>4
  <2>7. file' = zero_range(file, e)
    BY <1>2, <2>1 DEF Zero
  <2>8. IsSeq(file') /\ Len(file') \in Nat /\ Len(file') >= Len(file) /\ Len(file') >= End(e)
    BY <1>w, <2>2, <2>7
  <2>9. \A d \in Extents' : End(d) <= Len(file')
    BY <1>0, <1>e, <2>2, <2>6, <2>8
  <2> QED
    BY <2>8, <2>9 DEF FileSize
<1>3. CASE ZeroFails(t)
  <2>1. pc[t] = "zero" /\ lk = t
    BY <1>0, <1>3 DEF ZeroFails, Control, Locked
  <2>2. fresh # << >> /\ fresh \in Seq(Extent)
    BY <1>0, <2>1 DEF Holding, Space
  <2>3. fresh[1] \in Extent
    <3>1. PICK n : n = Len(fresh)
      OBVIOUS
    <3>2. n \in Nat /\ n # 0
      BY <2>2, <3>1, EmptySeq
    <3> QED
      BY <2>2, <3>1, <3>2
  <2>4. file' = file \/ file' = zero_range(file, fresh[1])
    BY <1>3 DEF ZeroFails
  <2>5. IsSeq(file') /\ Len(file') >= Len(file)
    BY <1>0, <1>w, <2>3, <2>4
  <2>6. ~Zero(t)
    <3>1. t \in DOMAIN pc
      BY <1>0 DEF Types
    <3>2. pc'[t] = "free"
      BY <1>3, <3>1 DEF ZeroFails, Goto
    <3>3. Zero(t) => pc'[t] = "extents"
      BY <3>1 DEF Zero, Goto
    <3> QED
      BY <3>2, <3>3
  <2> QED
    BY <1>0, <1>e, <1>k, <2>5, <2>6, FileWider
<1>4. CASE Spill(t) \/ SpillFails(t)
  <2>1. vic # NoKey /\ pc[t] = "extents" /\ ~Zero(t)
    BY <1>4 DEF Spill, SpillFails, Zero
  <2>2. PICK r : r = rec[vic]
    OBVIOUS
  <2>3. vic \in DOMAIN rec /\ r \in Record /\ r.ext \in Seq(Extent) /\ r.size \in Nat
    BY <1>0, <2>1, <2>2, RecordFields DEF Holding, Types
  <2>4. \A i \in DOMAIN r.ext : End(r.ext[i]) <= Len(file)
    BY <1>0, <2>2, <2>3, ExtentsAre
  <2>5. ASSUME NEW x, x = r.ext \/ \E n \in 0 .. (Len(r.ext) - 1) : x = SubSeq(r.ext, 1, n)
        PROVE  x \in Seq(Extent) /\ \A i \in DOMAIN x : End(x[i]) <= Len(file)
    <3>1. CASE x = r.ext
      BY <2>3, <2>4, <3>1
    <3>2. CASE \E n \in 0 .. (Len(r.ext) - 1) : x = SubSeq(r.ext, 1, n)
      <4>1. PICK n \in 0 .. (Len(r.ext) - 1) : x = SubSeq(r.ext, 1, n)
        BY <3>2
      <4>2. Len(r.ext) \in Nat /\ DOMAIN r.ext = 1 .. Len(r.ext) /\ n \in Nat /\ n <= Len(r.ext)
        BY <2>3, HoleFields
      <4>3. x \in Seq(Extent) /\ DOMAIN x = 1 .. n /\ \A i \in 1 .. n : x[i] = r.ext[i]
        BY <2>3, <4>1, <4>2
      <4>4. \A i \in 1 .. n : i \in DOMAIN r.ext
        BY <4>2
      <4> QED
        BY <2>4, <4>3, <4>4
    <3> QED
      BY <2>5, <3>1, <3>2
  <2>6. PICK x : /\ x = r.ext \/ \E n \in 0 .. (Len(r.ext) - 1) : x = SubSeq(r.ext, 1, n)
                 /\ file' = WriteOut(file, x, heap[r.mem], r.size)
    BY <1>4, <2>2 DEF Spill, SpillFails
  <2>7. x \in Seq(Extent) /\ \A i \in DOMAIN x : End(x[i]) <= Len(file)
    BY <2>5, <2>6
  <2>8. IsSeq(file') /\ Len(file') = Len(file)
    BY <1>0, <2>3, <2>6, <2>7, WriteOutLen
  <2> QED
    BY <1>0, <1>e, <1>k, <2>1, <2>8, FileWider
<1>5. CASE Free(t)
  <2>1. (\A e \in Extents' : End(e) <= file_end') /\ Space'
    BY <1>0, <1>5, FreeSpace
  <2>2. file' = file \/ file' = ftruncate(file, file_end')
    BY <1>5 DEF Free, Inserted, Dropped
  <2>3. file_end' \in Nat
    BY <2>1 DEF Space, Accounted
  <2>4. CASE file' = ftruncate(file, file_end')
    <3>1. IsSeq(file') /\ Len(file') = file_end'
      BY <2>3, <2>4, TruncateLen
    <3> QED
      BY <2>1, <3>1 DEF FileSize
  <2>5. CASE file' = file
    <3>1. Extents' = Extents
      BY <1>5 DEF Free, Extents
    <3> QED
      BY <1>0, <2>5, <3>1 DEF FileSize
  <2> QED
    BY <2>2, <2>4, <2>5
<1>6. CASE WritePiece(t)
  <2>1. PICK x : x = Head(todo[t])
    OBVIOUS
  <2>2. x \in Transfer /\ x.at \in Nat /\ x.n \in Nat
    BY <1>6, <2>1, NextPiece, PieceFields DEF WritePiece
  <2>3. PICK d : d = Data(t, x, file)
    OBVIOUS
  <2>4. Len(d) \in Nat
    BY <2>2, <2>3, DataLen
  <2>5. PICK b : b = Blocks(t, x)
    OBVIOUS
  <2>6. Len(b) \in Nat
    <3>1. PICK n, s : n = round_up(x.at + x.n) - BlockStart(x.at) /\ s = x.at - BlockStart(x.at)
      OBVIOUS
    <3>2. n \in Nat /\ s \in Nat
      BY <2>2, <3>1, BlockProps
    <3>3. PICK m : m = IF bounce[t] # << >> THEN bounce[t] ELSE [i \in 1 .. n |-> Meta]
      OBVIOUS
    <3>4. IsSeq(m)
      <4>1. IsSeq(bounce[t])
        BY DEF Pieces
      <4>2. IsSeq([i \in 1 .. n |-> Meta])
        BY <3>2 DEF IsSeq
      <4> QED
        BY <3>3, <4>1, <4>2
    <3>5. b = Overwrite(m, s, d)
      BY <2>3, <2>5, <3>1, <3>3 DEF Blocks
    <3>6. IsSeq(b)
      BY <2>4, <3>2, <3>4, <3>5, OverwriteLen
    <3> QED
      BY <3>6 DEF IsSeq
  <2>7. BlockStart(x.at) \in Nat
    BY <2>2, BlockProps
  <2>8. file' = Overwrite(file, BlockStart(x.at), b) \/ file' = Overwrite(file, x.at, d)
    BY <1>6, <2>1, <2>3, <2>5 DEF WritePiece
  <2>9. IsSeq(file') /\ Len(file') >= Len(file)
    BY <1>0, <2>2, <2>4, <2>6, <2>7, <2>8, OverwriteLen
  <2>10. ~Zero(t)
    BY <1>6 DEF WritePiece, Zero
  <2> QED
    BY <1>0, <1>e, <1>k, <2>9, <2>10, FileWider
<1>7. ASSUME ~Zero(t), ~ZeroFails(t), ~Spill(t), ~SpillFails(t), ~Free(t), ~WritePiece(t)
      PROVE  UNCHANGED file
  <2>1. CASE \E c \in Calls : StartRead(t, c) \/ StartGrow(t, Resolve(c)) \/ ls_erase(t, c)
    BY <2>1 DEF StartRead, StartGrow, ls_erase
  <2>2. CASE MemPiece(t) \/ ReadPiece(t) \/ Bounce(t) \/ PieceFails(t) \/ Transferred(t) \/ Leave(t)
    BY <2>2 DEF MemPiece, ReadPiece, Bounce, PieceFails, Transferred, Leave
  <2>3. CASE Cap(t) \/ Evict(t) \/ Fit(t) \/ NoFit(t) \/ Alloc(t) \/ Backed(t) \/ Freed(t)
             \/ Ready(t) \/ Reserved(t)
    BY <2>3 DEF Cap, Evict, Fit, NoFit, Alloc, Backed, Freed, Ready, Reserved
  <2> QED
    BY <1>7, <2>1, <2>2, <2>3 DEF Step
<1> QED
  BY <1>1, <1>2, <1>3, <1>4, <1>5, <1>6, <1>7

LEMMA InitFile ==
    ASSUME Init
    PROVE  FileSize /\ Pieces
<1>0. Space
  BY InitSpace
<1>1. Pieces
  <2>1. \A t \in Threads : todo[t] = << >> /\ bounce[t] = << >>
    BY DEF Init
  <2>2. << >> \in Seq(Transfer) /\ IsSeq(<< >>)
    BY DEF IsSeq
  <2>3. DOMAIN bounce = Threads
    BY DEF Init
  <2> QED
    BY <2>1, <2>2, <2>3 DEF Pieces
<1>2. file_end \in Nat /\ \A e \in Extents : End(e) <= file_end
  BY <1>0, AccountInside DEF Space, Accounted, Owned
<1>3. IsSeq(file) /\ Len(file) >= file_end
  <2>1. CASE Loaded = << >>
    <3>1. file = Zeros(LS_SUPER_SIZE) /\ file_end = LS_SUPER_SIZE
      BY <2>1 DEF Init
    <3> QED
      BY <1>2, <3>1, ZerosLen, SuperAssumption
  <2>2. CASE Loaded # << >>
    <3>1. PICK n : n = file_end + 1
      OBVIOUS
    <3>2. file = [i \in 1 .. n |-> IF i <= LS_SUPER_SIZE \/ i > file_end THEN Meta ELSE 0]
      BY <2>2, <3>1 DEF Init
    <3> QED
      BY <1>2, <3>1, <3>2 DEF IsSeq
  <2> QED
    BY <2>1, <2>2
<1>4. \A e \in Extents : End(e) \in Nat
  BY <1>0, ExtentEnds
<1>5. FileSize
  BY <1>2, <1>3, <1>4 DEF FileSize, IsSeq
<1> QED
  BY <1>1, <1>5
-----------------------------------------------------------------------------
(* What a thread took from its record and uses without the lock.           *)

\* Callers use one key from several threads only in a store without a memory
\* tier.
Unmixed == \A s \in DOMAIN Settings : Settings[s].same_key => Settings[s].memory_budget = 0

\* The bytes of record k stay where they are: it may get another extent.
Settled(k) ==
    /\ k \in DOMAIN rec'
    /\ rec'[k].mem = rec[k].mem /\ rec'[k].mem_cap = rec[k].mem_cap
    /\ \/ rec'[k].ext = rec[k].ext
       \/ \E e \in Extent : rec'[k].ext = Append(rec[k].ext, e)

LEMMA SetsSettled ==
    ASSUME NEW k, NEW q, Sets(k, q),
           k \in DOMAIN rec => /\ q.mem = rec[k].mem /\ q.mem_cap = rec[k].mem_cap
                               /\ q.ext = rec[k].ext
    PROVE  \A j \in DOMAIN rec : Settled(j)
<1> TAKE j \in DOMAIN rec
<1>1. j \in DOMAIN rec' /\ (j # k => rec'[j] = rec[j]) /\ (j = k => rec'[j] = q)
  BY DEF Sets
<1> QED
  BY <1>1 DEF Settled

\* Two calls on one key leave nothing to the memory tier.
LEMMA NoTier ==
    ASSUME Safe, Unmixed, NEW t \in Threads, NEW u \in Threads, t # u,
           pc[t] # "idle", Key(t) = Key(u)
    PROVE  Budget = 0 /\ Resident = {}
<1>1. SameKey
  BY DEF Safe, Control, Active
<1>2. Budget = 0
  BY <1>1 DEF Safe, Types, Unmixed, SameKey, Budget
<1> QED
  BY <1>2 DEF Safe, Memory

LEMMA MoverCounts ==
    ASSUME Safe, NEW u \in Threads, pc[u] = "io"
    PROVE  Key(u) \in DOMAIN rec /\ rec[Key(u)].busy # 0
<1>1. pc[u] # "idle" /\ pc[u] # "free"
  OBVIOUS
<1>2. Key(u) \in DOMAIN rec
  BY <1>1, NotErasing, Caught DEF Safe
<1>3. PICK k : k = Key(u)
  OBVIOUS
<1>4. u \in Movers(k)
  BY <1>3 DEF Movers, Moving
<1>5. IsFiniteSet(Movers(k))
  BY MoversFinite
<1>6. Cardinality(Movers(k)) # 0
  BY <1>4, <1>5, FS_EmptySet
<1>7. rec[k].busy = Cardinality(Movers(k))
  BY <1>2, <1>3 DEF Safe, Counts
<1> QED
  BY <1>2, <1>3, <1>6, <1>7

\* The steps that replace no buffer and drop no record.
LEMMA SettledBut ==
    ASSUME Safe, NEW t \in Threads, Step(t), ~Fit(t), ~Spill(t), \A c \in Calls : ~ls_erase(t, c)
    PROVE  \A j \in DOMAIN rec : Settled(j)
<1>0. Types /\ Control /\ Holding /\ Space /\ Memory /\ Counts
  BY DEF Safe
<1>r. \A k \in DOMAIN rec : rec[k] \in Record
  BY <1>0 DEF Types
<1>1. ASSUME NEW c \in Calls, c.op = "read", StartRead(t, c)
      PROVE  \A j \in DOMAIN rec : Settled(j)
  <2>1. c.key \in DOMAIN rec /\ Sets(c.key, [rec[c.key] EXCEPT !.busy = @ + 1])
    BY <1>0, <1>1, StartReadShape
  <2>2. PICK q : q = [rec[c.key] EXCEPT !.busy = @ + 1]
    OBVIOUS
  <2>3. q.ext = rec[c.key].ext /\ q.mem = rec[c.key].mem /\ q.mem_cap = rec[c.key].mem_cap
    BY <1>r, <2>1, <2>2 DEF Record
  <2> QED
    BY <2>1, <2>2, <2>3, SetsSettled
<1>2. ASSUME NEW c \in Calls, c.op \notin {"read", "erase"}, StartGrow(t, Resolve(c))
      PROVE  \A j \in DOMAIN rec : Settled(j)
  <2>1. IF c.key \in DOMAIN rec THEN UNCHANGED rec ELSE Sets(c.key, NewRec)
    BY <1>0, <1>2, StartGrowShape
  <2>2. CASE UNCHANGED rec
    BY <2>2 DEF Settled
  <2> QED
    BY <2>1, <2>2, SetsSettled
<1>4. CASE QuietStep(t) \/ Alloc(t) \/ ZeroFails(t) \/ Free(t)
  BY <1>4, RecSame DEF Settled
<1>5. CASE Leave(t)
  <2>1. PICK k, r, b : k = Key(t) /\ r = rec[k] /\ b = r.busy - 1
    OBVIOUS
  <2>2. k \in DOMAIN rec /\ Sets(k, [r EXCEPT !.busy = b])
    BY <1>0, <1>5, <2>1, LeaveEffect
  <2>3. PICK q : q = [r EXCEPT !.busy = b]
    OBVIOUS
  <2>4. q.ext = rec[k].ext /\ q.mem = rec[k].mem /\ q.mem_cap = rec[k].mem_cap
    BY <1>r, <2>1, <2>2, <2>3, RecordUpdates
  <2> QED
    BY <2>2, <2>3, <2>4, SetsSettled
<1>7. CASE Zero(t)
  <2>1. PICK k, r, e, x, m : k = Grown(t) /\ r = rec[k] /\ e = fresh[1]
                             /\ x = Append(r.ext, e) /\ m = r.ext_total + e.len
    OBVIOUS
  <2>2. k \in DOMAIN rec /\ e \in Extent /\ Sets(k, [r EXCEPT !.ext = x, !.ext_total = m])
    BY <1>0, <1>7, <2>1, ZeroEffect
  <2>3. PICK q : q = [r EXCEPT !.ext = x, !.ext_total = m]
    OBVIOUS
  <2>4. q.ext = x /\ q.mem = r.mem /\ q.mem_cap = r.mem_cap
    BY <1>r, <2>1, <2>2, <2>3, RecordUpdates
  <2>5. \A j \in DOMAIN rec : j \in DOMAIN rec' /\ (j # k => rec'[j] = rec[j])
    BY <2>2 DEF Sets
  <2>6. rec'[k] = q
    BY <2>2, <2>3 DEF Sets
  <2>7. Settled(k)
    BY <2>1, <2>2, <2>4, <2>5, <2>6 DEF Settled
  <2> QED
    BY <2>5, <2>7 DEF Settled
<1>9. CASE Ready(t)
  <2>1. PICK k, r, n, b : k = Key(t) /\ r = rec[k] /\ n = NewSize(r, Need(t)) /\ b = r.busy + 1
    OBVIOUS
  <2>2. k \in DOMAIN rec /\ Sets(k, [r EXCEPT !.size = n, !.busy = b])
    BY <1>0, <1>9, <2>1, ReadyEffect
  <2>3. PICK q : q = [r EXCEPT !.size = n, !.busy = b]
    OBVIOUS
  <2>4. q.ext = rec[k].ext /\ q.mem = rec[k].mem /\ q.mem_cap = rec[k].mem_cap
    BY <1>r, <2>1, <2>2, <2>3, RecordUpdates
  <2> QED
    BY <2>2, <2>3, <2>4, SetsSettled
<1>10. CASE Reserved(t)
  <2>1. PICK k, r, n : k = Key(t) /\ r = rec[k] /\ n = NewSize(r, Need(t))
    OBVIOUS
  <2>2. k \in DOMAIN rec /\ Sets(k, [r EXCEPT !.size = n])
    BY <1>0, <1>10, <2>1, ReservedEffect
  <2>3. PICK q : q = [r EXCEPT !.size = n]
    OBVIOUS
  <2>4. q.ext = rec[k].ext /\ q.mem = rec[k].mem /\ q.mem_cap = rec[k].mem_cap
    BY <1>r, <2>1, <2>2, <2>3, RecordUpdates
  <2> QED
    BY <2>2, <2>3, <2>4, SetsSettled
<1> QED
  BY <1>1, <1>2, <1>4, <1>5, <1>7, <1>9, <1>10, StepCases

\* A record that a thread is reading or writing stays where it is.
LEMMA UsedSettled ==
    ASSUME Safe, Unmixed, NEW t \in Threads, Step(t), NEW u \in Threads, pc[u] = "io"
    PROVE  Settled(Key(u))
<1>0. Types /\ Control /\ Holding /\ Space /\ Memory /\ Counts
  BY DEF Safe
<1>1. Key(u) \in DOMAIN rec /\ rec[Key(u)].busy # 0
  BY MoverCounts
<1>s. ASSUME NEW k, k # Key(u), \A j \in DOMAIN rec \ {k} : j \in DOMAIN rec' /\ rec'[j] = rec[j]
      PROVE  Settled(Key(u))
  BY <1>1, <1>s DEF Settled
<1>2. CASE Fit(t)
  <2>1. pc[t] = "fit" /\ t # u /\ pc[t] # "idle"
    BY <1>2 DEF Fit
  <2>2. Budget > 0
    BY <1>0, <2>1 DEF Holding, Growing
  <2>3. Key(t) # Key(u)
    <3> SUFFICES ASSUME Key(t) = Key(u) PROVE FALSE
      OBVIOUS
    <3>1. Budget = 0
      BY <2>1, NoTier
    <3> QED
      BY <2>2, <3>1
  <2>4. PICK q : Sets(Key(t), q)
    BY <1>0, <1>2, FitEffect
  <2> QED
    BY <1>s, <2>3, <2>4 DEF Sets
<1>3. CASE Spill(t)
  <2>1. pc[t] = "extents" /\ t # u /\ pc[t] # "idle" /\ lk = t /\ vic \in DOMAIN rec /\ rec[vic].mem # NULL
    BY <1>0, <1>3, SpillEffect
  <2>2. vic # NoKey
    BY <1>3 DEF Spill
  <2>3. vic # Key(u)
    <3> SUFFICES ASSUME vic = Key(u) PROVE FALSE
      OBVIOUS
    <3>1. CASE vic # Key(t)
      BY <1>0, <1>1, <2>1, <2>2, <3>1 DEF Holding
    <3>2. CASE vic = Key(t)
      <4>1. Resident = {}
        BY <2>1, <3>2, NoTier
      <4> QED
        BY <2>1, <4>1 DEF Resident
    <3> QED
      BY <3>1, <3>2
  <2>4. PICK q : Sets(vic, q)
    BY <1>0, <1>3, SpillEffect
  <2> QED
    BY <1>s, <2>3, <2>4 DEF Sets
<1>4. ASSUME NEW c \in Calls, ls_erase(t, c)
      PROVE  Settled(Key(u))
  <2>1. Drops(c.key) /\ c.key # Key(u)
    BY <1>0, <1>4, EraseShape DEF Active, Key
  <2> QED
    BY <1>s, <2>1 DEF Drops
<1> QED
  BY <1>1, <1>2, <1>3, <1>4, SettledBut

LEMMA GrownLen ==
    ASSUME NEW s, IsSeq(s), NEW n \in Nat, Len(s) <= n
    PROVE  IsSeq(s \o Zeros(n - Len(s))) /\ Len(s \o Zeros(n - Len(s))) = n
<1>1. PICK m : m = n - Len(s)
  OBVIOUS
<1>2. m \in Nat /\ Len(s) \in Nat
  BY <1>1 DEF IsSeq
<1>3. Len(s \o Zeros(m)) = Len(s) + m /\ IsSeq(s \o Zeros(m))
  BY <1>2 DEF IsSeq, Zeros
<1> QED
  BY <1>1, <1>2, <1>3

LEMMA BuffersKept ==
    ASSUME Buffers,
           \A k \in Resident' : /\ k \in Resident /\ rec'[k].mem = rec[k].mem
                                /\ rec'[k].mem_cap = rec[k].mem_cap
                                /\ heap'[rec[k].mem] = heap[rec[k].mem]
    PROVE  Buffers'
  BY DEF Buffers, Buffer

LEMMA BuffersFit ==
    ASSUME Safe, Buffers, NEW t \in Threads, Fit(t)
    PROVE  Buffers'
<1>0. Types /\ Control /\ Holding /\ Rooms /\ Memory
  BY DEF Safe
<1>1. pc[t] = "fit" /\ pc[t] # "idle" /\ pc[t] # "free"
  BY DEF Fit
<1>2. PICK k, r, n : k = Key(t) /\ r = rec[k] /\ n = Need(t)
  OBVIOUS
<1>3. k \in DOMAIN rec /\ r \in Record /\ n \in Nat
  BY <1>0, <1>1, <1>2, NotErasing, Caught
<1>4. PICK old : old = IF r.mem # NULL THEN heap[r.mem] ELSE << >>
  OBVIOUS
<1>5. PICK b \in Nat \ {0} :
        /\ b \notin DOMAIN heap \/ b = r.mem
        /\ Sets(k, [r EXCEPT !.mem = b, !.mem_cap = n])
        /\ heap' = Bind(Without(heap, r.mem), b, old \o Zeros(n - Len(old)))
  BY <1>0, <1>2, <1>4, FitEffect
<1>6. r.mem_cap <= n
  BY <1>0, <1>1, <1>2 DEF Holding, Growing
<1>7. IsSeq(old) /\ Len(old) <= n
  <2>1. CASE r.mem # NULL
    <3>1. k \in Resident
      BY <1>2, <1>3, <2>1 DEF Resident
    <3>2. IsSeq(heap[r.mem]) /\ Len(heap[r.mem]) = r.mem_cap
      BY <1>2, <3>1 DEF Buffers, Buffer
    <3> QED
      BY <1>4, <1>6, <2>1, <3>2
  <2>2. CASE r.mem = NULL
    <3>1. IsSeq(<< >>) /\ Len(<< >>) = 0
      BY DEF IsSeq
    <3> QED
      BY <1>3, <1>4, <2>2, <3>1
  <2> QED
    BY <2>1, <2>2
<1>8. PICK new : new = old \o Zeros(n - Len(old))
  OBVIOUS
<1>9. IsSeq(new) /\ Len(new) = n
  BY <1>3, <1>7, <1>8, GrownLen
<1>10. PICK q : q = [r EXCEPT !.mem = b, !.mem_cap = n]
  OBVIOUS
<1>11. q.mem = b /\ q.mem_cap = n
  BY <1>3, <1>10, RecordUpdates
<1>12. /\ heap'[b] = new
       /\ \A a \in DOMAIN heap : a # r.mem /\ a # b => heap'[a] = heap[a]
  BY <1>5, <1>8 DEF Bind, Without
<1>13. ASSUME NEW j \in Resident'
       PROVE  Buffer(rec[j].mem, rec[j].mem_cap)'
  <2>1. CASE j = k
    <3>1. rec'[j] = q
      BY <1>5, <1>10, <2>1 DEF Sets
    <3> QED
      BY <1>9, <1>11, <1>12, <3>1 DEF Buffer
  <2>2. CASE j # k
    <3>1. j \in DOMAIN rec /\ rec'[j] = rec[j] /\ j \in Resident
      BY <1>5, <2>2 DEF Sets, Resident
    <3>2. rec[j].mem \in DOMAIN heap
      BY <1>0, <3>1 DEF Memory
    <3>3. rec[j].mem # r.mem
      BY <1>0, <1>2, <1>3, <2>2, <3>1 DEF Memory, Resident
    <3>4. rec[j].mem # b
      BY <1>5, <3>2, <3>3
    <3>5. heap'[rec[j].mem] = heap[rec[j].mem]
      BY <1>12, <3>2, <3>3, <3>4
    <3>6. Buffer(rec[j].mem, rec[j].mem_cap)
      BY <3>1 DEF Buffers
    <3> QED
      BY <3>1, <3>5, <3>6 DEF Buffer
  <2> QED
    BY <2>1, <2>2
<1> QED
  BY <1>13 DEF Buffers

\* The buffer of the record that is spilled or erased goes, and no other.
LEMMA BuffersFreed ==
    ASSUME Safe, Buffers, NEW k \in DOMAIN rec, heap' = Without(heap, rec[k].mem),
           \A j \in DOMAIN rec' : j # k => j \in DOMAIN rec /\ rec'[j] = rec[j],
           k \notin Resident'
    PROVE  Buffers'
<1>1. ASSUME NEW j \in Resident'
      PROVE  /\ j \in Resident /\ rec'[j].mem = rec[j].mem
             /\ rec'[j].mem_cap = rec[j].mem_cap
             /\ heap'[rec[j].mem] = heap[rec[j].mem]
  <2>1. j # k /\ j \in DOMAIN rec /\ rec'[j] = rec[j] /\ j \in Resident
    BY DEF Resident
  <2>2. rec[j].mem \in DOMAIN heap
    BY <2>1 DEF Safe, Memory
  <2>3. rec[j].mem # rec[k].mem
    BY <2>1 DEF Safe, Memory, Resident
  <2>4. heap'[rec[j].mem] = heap[rec[j].mem]
    BY <2>2, <2>3 DEF Without
  <2> QED
    BY <2>1, <2>4
<1> QED
  BY <1>1, BuffersKept

\* A thread's own place is its record's, so what it writes lies inside the buffer.
LEMMA BuffersPiece ==
    ASSUME Safe, Pieces, Places, Buffers, NEW t \in Threads, MemPiece(t)
    PROVE  Buffers'
<1>0. Types /\ Control /\ Rooms /\ Memory
  BY DEF Safe
<1>1. pc[t] = "io" /\ todo[t] # << >> /\ place[t].mem # NULL /\ rec' = rec
  BY DEF MemPiece
<1>2. PICK x, k, b : x = Head(todo[t]) /\ k = Key(t) /\ b = place[t].mem
  OBVIOUS
<1>3. x \in Transfer /\ x.at \in Nat /\ x.n \in Nat
  BY <1>1, <1>2, NextPiece, PieceFields
<1>4. k \in DOMAIN rec /\ b = rec[k].mem /\ k \in Resident
  BY <1>1, <1>2 DEF Places, PlaceCurrent, Resident
<1>5. x.at + x.n <= rec[k].size
  <2>1. todo[t] \in Seq(Transfer)
    BY DEF Pieces
  <2>2. PICK m : m = Len(todo[t])
    OBVIOUS
  <2>3. m \in Nat /\ m # 0
    BY <1>1, <2>1, <2>2, EmptySeq
  <2>4. 1 \in DOMAIN todo[t] /\ x = todo[t][1]
    BY <1>2, <2>1, <2>2, <2>3
  <2> QED
    BY <1>1, <1>2, <2>4 DEF Places
<1>6. rec[k].size <= rec[k].mem_cap /\ rec[k].size \in Nat /\ rec[k].mem_cap \in Nat
  BY <1>0, <1>1, <1>2, <1>4, RecordFields DEF Rooms, Room, Types
<1>7. IsSeq(heap[b]) /\ Len(heap[b]) = rec[k].mem_cap
  BY <1>4 DEF Buffers, Buffer
<1>8. PICK d : d = Data(t, x, heap[b])
  OBVIOUS
<1>9. Len(d) = x.n
  BY <1>3, <1>8, DataLen
<1>10. PICK h : h = Overwrite(heap[b], x.at, d)
  OBVIOUS
<1>11. IsSeq(h) /\ Len(h) = rec[k].mem_cap
  BY <1>3, <1>5, <1>6, <1>7, <1>9, <1>10, OverwriteLen
<1>12. heap' = heap \/ heap' = [heap EXCEPT ![b] = h]
  BY <1>2, <1>8, <1>10 DEF MemPiece
<1>13. ASSUME NEW j \in Resident'
       PROVE  Buffer(rec[j].mem, rec[j].mem_cap)'
  <2>1. j \in Resident /\ rec'[j] = rec[j]
    BY <1>1 DEF Resident
  <2>2. rec[j].mem \in DOMAIN heap /\ Buffer(rec[j].mem, rec[j].mem_cap)
    BY <1>0, <2>1 DEF Memory, Buffers
  <2>3. CASE rec[j].mem = b /\ heap' = [heap EXCEPT ![b] = h]
    <3>1. rec[j].mem_cap = rec[k].mem_cap
      BY <1>0, <1>4, <2>1, <2>3 DEF Memory
    <3>2. heap'[b] = h
      BY <2>2, <2>3
    <3> QED
      BY <1>11, <2>1, <2>3, <3>1, <3>2 DEF Buffer
  <2>4. CASE rec[j].mem # b \/ heap' = heap
    <3>1. heap'[rec[j].mem] = heap[rec[j].mem]
      BY <1>12, <2>2, <2>4
    <3> QED
      BY <2>1, <2>2, <3>1 DEF Buffer
  <2> QED
    BY <1>12, <2>3, <2>4
<1> QED
  BY <1>13 DEF Buffers

\* A record that is new has no buffer.
LEMMA NewUnbuffered ==
    ASSUME Safe, NEW t \in Threads, Step(t)
    PROVE  \A k \in DOMAIN rec' : k \notin DOMAIN rec => rec'[k].mem = NULL
<1>0. Types /\ Control /\ Holding /\ Space /\ Memory /\ Counts
  BY DEF Safe
<1>s. ASSUME NEW k \in DOMAIN rec, NEW q, Sets(k, q)
      PROVE  DOMAIN rec' \subseteq DOMAIN rec
  BY <1>s DEF Sets
<1>1. ASSUME NEW c \in Calls, c.op = "read", StartRead(t, c)
      PROVE  DOMAIN rec' \subseteq DOMAIN rec
  BY <1>0, <1>1, <1>s, StartReadShape
<1>2. ASSUME NEW c \in Calls, c.op \notin {"read", "erase"}, StartGrow(t, Resolve(c))
      PROVE  \A k \in DOMAIN rec' : k \notin DOMAIN rec => rec'[k].mem = NULL
  <2>1. IF c.key \in DOMAIN rec THEN UNCHANGED rec ELSE Sets(c.key, NewRec)
    BY <1>0, <1>2, StartGrowShape
  <2>2. NewRec.mem = NULL
    BY DEF NewRec
  <2> QED
    BY <2>1, <2>2 DEF Sets
<1>3. ASSUME NEW c \in Calls, ls_erase(t, c)
      PROVE  DOMAIN rec' \subseteq DOMAIN rec
  BY <1>0, <1>3, EraseShape DEF Drops
<1>4. CASE QuietStep(t) \/ Alloc(t) \/ ZeroFails(t) \/ Free(t)
  BY <1>4, RecSame
<1>5. CASE Leave(t)
  BY <1>0, <1>5, <1>s, LeaveEffect
<1>6. CASE Fit(t)
  BY <1>0, <1>6, <1>s, FitEffect
<1>7. CASE Zero(t)
  BY <1>0, <1>7, <1>s, ZeroEffect
<1>8. CASE Spill(t)
  BY <1>0, <1>8, <1>s, SpillEffect
<1>9. CASE Ready(t)
  BY <1>0, <1>9, <1>s, ReadyEffect
<1>10. CASE Reserved(t)
  BY <1>0, <1>10, <1>s, ReservedEffect
<1> QED
  BY <1>1, <1>2, <1>3, <1>4, <1>5, <1>6, <1>7, <1>8, <1>9, <1>10, StepCases

LEMMA HeapSame ==
    ASSUME NEW t \in Threads, Step(t), ~MemPiece(t), ~Fit(t), ~Spill(t),
           \A c \in Calls : ~ls_erase(t, c)
    PROVE  heap' = heap
<1>1. CASE \E c \in Calls : StartRead(t, c) \/ StartGrow(t, Resolve(c))
  BY <1>1 DEF StartRead, StartGrow, memory
<1>2. CASE ReadPiece(t) \/ Bounce(t) \/ WritePiece(t) \/ PieceFails(t) \/ Transferred(t) \/ Leave(t)
  BY <1>2 DEF ReadPiece, Bounce, WritePiece, PieceFails, Transferred, Leave, memory
<1>3. CASE Cap(t) \/ Evict(t) \/ NoFit(t) \/ Alloc(t) \/ Zero(t) \/ ZeroFails(t)
  BY <1>3 DEF Cap, Evict, NoFit, Alloc, Zero, ZeroFails, memory
<1>4. CASE SpillFails(t) \/ Backed(t) \/ Free(t) \/ Freed(t) \/ Ready(t) \/ Reserved(t)
  BY <1>4 DEF SpillFails, Backed, Free, Freed, Ready, Reserved, memory
<1> QED
  BY <1>1, <1>2, <1>3, <1>4 DEF Step

LEMMA BuffersNext ==
    ASSUME Safe, Pieces, Places, Buffers, NEW t \in Threads, Step(t)
    PROVE  Buffers'
<1>0. Types /\ Control /\ Holding
  BY DEF Safe
<1>1. CASE Spill(t)
  <2>1. PICK k, r, n, z : k = vic /\ r = rec[k] /\ n = NULL /\ z = 0
    OBVIOUS
  <2>2. k \in DOMAIN rec /\ r \in Record /\ Sets(k, [r EXCEPT !.mem = n, !.mem_cap = z])
    BY <1>0, <1>1, <2>1, SpillEffect DEF Types
  <2>3. PICK q : q = [r EXCEPT !.mem = n, !.mem_cap = z]
    OBVIOUS
  <2>4. q.mem = NULL
    BY <2>1, <2>2, <2>3, RecordUpdates
  <2>5. /\ \A j \in DOMAIN rec' : j # k => j \in DOMAIN rec /\ rec'[j] = rec[j]
        /\ k \notin Resident'
    BY <2>2, <2>3, <2>4 DEF Sets, Resident
  <2>6. heap' = Without(heap, rec[k].mem)
    BY <1>1, <2>1 DEF Spill
  <2> QED
    BY <2>2, <2>5, <2>6, BuffersFreed
<1>2. ASSUME NEW c \in Calls, ls_erase(t, c)
      PROVE  Buffers'
  <2>1. PICK k : k = c.key
    OBVIOUS
  <2>2. k \in DOMAIN rec /\ Drops(k)
    BY <1>0, <1>2, <2>1, EraseShape DEF Drops
  <2>3. /\ \A j \in DOMAIN rec' : j # k => j \in DOMAIN rec /\ rec'[j] = rec[j]
        /\ k \notin Resident'
    BY <2>2 DEF Drops, Resident
  <2>4. heap' = Without(heap, rec[k].mem)
    BY <1>2, <2>1 DEF ls_erase, ls_rec_free
  <2> QED
    BY <2>2, <2>3, <2>4, BuffersFreed
<1>3. ASSUME ~MemPiece(t), ~Fit(t), ~Spill(t), \A c \in Calls : ~ls_erase(t, c)
      PROVE  Buffers'
  <2>1. heap' = heap
    BY <1>3, HeapSame
  <2>2. \A k \in DOMAIN rec : Settled(k)
    BY <1>3, SettledBut
  <2>3. \A k \in DOMAIN rec' : k \notin DOMAIN rec => rec'[k].mem = NULL
    BY NewUnbuffered
  <2>4. \A k \in Resident' : k \in DOMAIN rec /\ Settled(k)
    BY <2>2, <2>3 DEF Resident
  <2>5. \A k \in Resident' : /\ k \in Resident /\ rec'[k].mem = rec[k].mem
                             /\ rec'[k].mem_cap = rec[k].mem_cap
                             /\ heap'[rec[k].mem] = heap[rec[k].mem]
    BY <2>1, <2>4 DEF Resident, Settled
  <2> QED
    BY <2>5, BuffersKept
<1> QED
  BY <1>1, <1>2, <1>3, BuffersFit, BuffersPiece

\* A step is one thread's.
LEMMA OthersStay ==
    ASSUME Safe, NEW t \in Threads, Step(t)
    PROVE  \A u \in Threads \ {t} : /\ pc'[u] = pc[u] /\ call'[u] = call[u]
                                    /\ place'[u] = place[u] /\ todo'[u] = todo[u]
<1>0. DOMAIN pc = Threads /\ DOMAIN call = Threads /\ DOMAIN place = Threads /\ DOMAIN todo = Threads
  BY DEF Safe, Types
<1>1. Shape(t)
  BY StepShape DEF Safe
<1>2. \A u \in Threads \ {t} : pc'[u] = pc[u] /\ call'[u] = call[u]
  BY <1>0, <1>1 DEF Shape, Stays, Moves, Returns, Departs, Ends, Leaves, Enters, Begins
<1>3. (\E p : place' = [place EXCEPT ![t] = p]) \/ place' = place
  <2>1. CASE \E c \in Calls : StartRead(t, c) \/ StartGrow(t, Resolve(c)) \/ ls_erase(t, c)
    BY <2>1 DEF StartRead, StartGrow, ls_erase, Launch
  <2>2. CASE MemPiece(t) \/ ReadPiece(t) \/ Bounce(t) \/ WritePiece(t) \/ PieceFails(t)
             \/ Transferred(t) \/ Leave(t)
    BY <2>2 DEF MemPiece, ReadPiece, Bounce, WritePiece, PieceFails, Transferred, Leave, thread
  <2>3. CASE Cap(t) \/ Evict(t) \/ Fit(t) \/ NoFit(t) \/ Alloc(t) \/ Zero(t) \/ ZeroFails(t)
    BY <2>3 DEF Cap, Evict, Fit, NoFit, Alloc, Zero, ZeroFails, thread
  <2>4. CASE Spill(t) \/ SpillFails(t) \/ Backed(t) \/ Free(t) \/ Freed(t) \/ Ready(t) \/ Reserved(t)
    BY <2>4 DEF Spill, SpillFails, Backed, Free, Freed, Ready, Reserved, Launch, thread
  <2> QED
    BY <2>1, <2>2, <2>3, <2>4 DEF Step
<1>4. (\E p : todo' = [todo EXCEPT ![t] = p]) \/ todo' = todo
  <2>1. CASE \E c \in Calls : StartRead(t, c) \/ StartGrow(t, Resolve(c)) \/ ls_erase(t, c)
    BY <2>1 DEF StartRead, StartGrow, ls_erase, Launch
  <2>2. CASE MemPiece(t) \/ ReadPiece(t) \/ Bounce(t) \/ WritePiece(t) \/ PieceFails(t)
             \/ Transferred(t) \/ Leave(t)
    BY <2>2 DEF MemPiece, ReadPiece, Bounce, WritePiece, PieceFails, Transferred, Leave, thread
  <2>3. CASE Cap(t) \/ Evict(t) \/ Fit(t) \/ NoFit(t) \/ Alloc(t) \/ Zero(t) \/ ZeroFails(t)
    BY <2>3 DEF Cap, Evict, Fit, NoFit, Alloc, Zero, ZeroFails, thread
  <2>4. CASE Spill(t) \/ SpillFails(t) \/ Backed(t) \/ Free(t) \/ Freed(t) \/ Ready(t) \/ Reserved(t)
    BY <2>4 DEF Spill, SpillFails, Backed, Free, Freed, Ready, Reserved, Launch, thread
  <2> QED
    BY <2>1, <2>2, <2>3, <2>4 DEF Step
<1> QED
  BY <1>0, <1>2, <1>3, <1>4

LEMMA PrefixOfMore ==
    ASSUME NEW s \in Seq(Extent), NEW x \in Seq(Extent), NEW e \in Extent
    PROVE  IsPrefix(x, x) /\ (IsPrefix(s, x) => IsPrefix(s, Append(x, e)))
<1>1. IsPrefix(x, x)
  BY DEF IsPrefix
<1>2. ASSUME IsPrefix(s, x)
      PROVE  IsPrefix(s, Append(x, e))
  <2>1. PICK y, n : y = Append(x, e) /\ n = Len(s)
    OBVIOUS
  <2>2. y \in Seq(Extent) /\ Len(y) = Len(x) + 1 /\ n \in Nat /\ n <= Len(x)
        /\ \A i \in 1 .. Len(x) : y[i] = x[i]
    BY <1>2, <2>1 DEF IsPrefix
  <2>3. SubSeq(y, 1, n) = SubSeq(x, 1, n)
    BY <2>2
  <2> QED
    BY <1>2, <2>1, <2>2, <2>3 DEF IsPrefix
<1> QED
  BY <1>1, <1>2

\* One thread's part of Places.
Placed(u) ==
    pc[u] = "io" =>
        /\ Key(u) \in DOMAIN rec
        /\ place[u].mem = rec[Key(u)].mem
        /\ place[u].ext \in Seq(Extent)
        /\ IsPrefix(place[u].ext, rec[Key(u)].ext)
        /\ place[u].mem # NULL =>
              \A i \in DOMAIN todo[u] : todo[u][i].at + todo[u][i].n <= rec[Key(u)].size

LEMMA PlacesAre ==
    /\ Places <=> \A u \in Threads : Placed(u)
    /\ Places' <=> \A u \in Threads : Placed(u)'
  BY DEF Places, Placed, PlaceCurrent

\* The thread goes on with what it has.
LEMMA PlacedKept ==
    ASSUME Safe, Unmixed, Pieces, Places, NEW t \in Threads, Step(t), NEW u \in Threads,
           pc[u] = "io", call'[u] = call[u], place'[u] = place[u],
           todo'[u] \in {todo[u], Tail(todo[u]), << >>},
           todo[u] = << >> => todo'[u] = << >>
    PROVE  Placed(u)'
<1>1. PICK k, p, s : k = Key(u) /\ p = place[u] /\ s = todo[u]
  OBVIOUS
<1>2. k \in DOMAIN rec /\ p.mem = rec[k].mem /\ p.ext \in Seq(Extent) /\ IsPrefix(p.ext, rec[k].ext)
      /\ (p.mem # NULL => \A i \in DOMAIN s : s[i].at + s[i].n <= rec[k].size)
  BY <1>1, PlacesAre DEF Placed
<1>3. Settled(k)
  BY <1>1, UsedSettled
<1>4. rec[k].ext \in Seq(Extent)
  BY <1>2, RecordFields DEF Safe, Types
<1>5. IsPrefix(p.ext, rec'[k].ext)
  BY <1>2, <1>3, <1>4, PrefixOfMore DEF Settled
<1>6. rec[k].size \in Nat /\ rec'[k].size \in Nat /\ rec[k].size <= rec'[k].size
  BY <1>2, <1>3, SizesGrow DEF Settled
<1>7. PICK z : z = todo'[u]
  OBVIOUS
<1>8. s \in Seq(Transfer)
  BY <1>1 DEF Pieces
<1>9. \A i \in DOMAIN z : \E j \in DOMAIN s : z[i] = s[j]
  <2>1. CASE z = s
    BY <2>1
  <2>2. CASE z = << >>
    BY <2>2
  <2>3. CASE z = Tail(s) /\ s # << >>
    <3>1. PICK n : n = Len(s)
      OBVIOUS
    <3>2. n \in Nat /\ n # 0
      BY <1>8, <2>3, <3>1, EmptySeq
    <3>3. /\ DOMAIN s = 1 .. n /\ DOMAIN z = 1 .. (n - 1)
          /\ \A i \in 1 .. (n - 1) : z[i] = s[i + 1]
      BY <1>8, <2>3, <3>1, <3>2
    <3>4. \A i \in 1 .. (n - 1) : i + 1 \in 1 .. n
      BY <3>2
    <3> QED
      BY <3>3, <3>4
  <2> QED
    BY <1>1, <1>7, <2>1, <2>2, <2>3
<1>10. \A j \in DOMAIN s : s[j].at \in Nat /\ s[j].n \in Nat
  <2>1. \A j \in DOMAIN s : s[j] \in Transfer
    BY <1>8
  <2> QED
    BY <2>1, PieceFields
<1>11. ASSUME p.mem # NULL
       PROVE  \A i \in DOMAIN z : z[i].at + z[i].n <= rec'[k].size
  <2> TAKE i \in DOMAIN z
  <2>1. PICK j \in DOMAIN s : z[i] = s[j]
    BY <1>9
  <2>2. s[j].at + s[j].n <= rec[k].size /\ s[j].at \in Nat /\ s[j].n \in Nat
    BY <1>2, <1>10, <1>11
  <2> QED
    BY <1>6, <2>1, <2>2
<1>12. Key(u)' = k
  BY <1>1 DEF Key
<1> QED
  BY <1>1, <1>2, <1>3, <1>5, <1>7, <1>11, <1>12 DEF Placed, Settled

\* The thread has just taken its place.
LEMMA PlacedLaunched ==
    ASSUME NEW t \in Threads, NEW c \in Call, NEW r \in Record, NEW n \in Nat,
           Safe, c.key \in DOMAIN rec, High(c.segs) <= n,
           Launch(t, c, r, n), call'[t] = c
    PROVE  Placed(t)'
<1>1. PICK p, k, b : p = [mem |-> r.mem, ext |-> r.ext] /\ k = c.key /\ b = r.busy + 1
  OBVIOUS
<1>2. /\ DOMAIN place = Threads /\ DOMAIN todo = Threads
  BY DEF Safe, Types
<1>3. place'[t] = p /\ todo'[t] = Transfers(c, p)
  BY <1>1, <1>2 DEF Launch
<1>4. PICK q : q = [r EXCEPT !.size = n, !.busy = b]
  OBVIOUS
<1>5. q.size = n /\ q.mem = r.mem /\ q.ext = r.ext
  BY <1>4, RecordUpdates
<1>6. k \in DOMAIN rec' /\ rec'[k] = q
  <2>1. rec' = [rec EXCEPT ![k] = [r EXCEPT !.size = n, !.busy = @ + 1]]
    BY <1>1 DEF Launch
  <2>2. [r EXCEPT !.size = n, !.busy = @ + 1] = q
    BY <1>1, <1>4 DEF Record
  <2> QED
    BY <1>1, <2>1, <2>2
<1>7. r.ext \in Seq(Extent) /\ p.mem = r.mem /\ p.ext = r.ext
  BY <1>1, RecordFields
<1>8. IsPrefix(r.ext, r.ext)
  BY <1>7 DEF IsPrefix
<1>9. ASSUME p.mem # NULL
      PROVE  \A i \in DOMAIN todo'[t] : todo'[t][i].at + todo'[t][i].n <= n
  <2>1. PICK h, z : h = High(c.segs) /\ z = todo'[t]
    OBVIOUS
  <2>2. h \in Nat /\ h <= n
    BY <2>1, CallFields, HighProps
  <2>3. z \in Seq({x \in Transfer : x.at + x.n <= h})
    BY <1>3, <1>7, <1>9, <2>1, TransfersTyped
  <2>4. \A i \in DOMAIN z : z[i] \in Transfer /\ z[i].at + z[i].n <= h
    BY <2>3
  <2>5. \A i \in DOMAIN z : z[i].at + z[i].n <= n
    BY <2>2, <2>4, PieceFields
  <2> QED
    BY <2>1, <2>5
<1>10. Key(t)' = k
  BY <1>1 DEF Key
<1> QED
  BY <1>3, <1>5, <1>6, <1>7, <1>8, <1>9, <1>10 DEF Placed

LEMMA PlacesNext ==
    ASSUME Safe, Unmixed, Pieces, Places, NEW t \in Threads, Step(t)
    PROVE  Places'
<1>0. Types /\ Control /\ Holding /\ Rooms
  BY DEF Safe
<1>1. ASSUME NEW u \in Threads \ {t}
      PROVE  Placed(u)'
  <2>1. pc'[u] = pc[u] /\ call'[u] = call[u] /\ place'[u] = place[u] /\ todo'[u] = todo[u]
    BY OthersStay
  <2>2. CASE pc[u] = "io"
    BY <2>1, <2>2, PlacedKept
  <2>3. CASE pc[u] # "io"
    BY <2>1, <2>3 DEF Placed
  <2> QED
    BY <2>2, <2>3
<1>2. Placed(t)'
  <2>1. ASSUME NEW c \in Calls, c.op = "read", StartRead(t, c)
        PROVE  Placed(t)'
    <3>1. PICK r, n : r = rec[c.key] /\ n = r.size
      OBVIOUS
    <3>2. c \in Call /\ c.key \in DOMAIN rec /\ High(c.segs) <= n /\ Launch(t, c, r, n)
          /\ call' = [call EXCEPT ![t] = c]
      BY <1>0, <2>1, <3>1, ResolveProps DEF StartRead
    <3>3. r \in Record /\ n \in Nat /\ call'[t] = c
      BY <1>0, <3>1, <3>2, RecordFields DEF Types
    <3> QED
      BY <3>2, <3>3, PlacedLaunched
  <2>2. CASE Ready(t)
    <3>1. PICK r, n, c : c = call[t] /\ r = rec[c.key] /\ n = NewSize(r, Need(t))
      OBVIOUS
    <3>2. pc[t] = "ready" /\ pc[t] # "idle" /\ pc[t] # "free" /\ Launch(t, c, r, n) /\ call' = call
      BY <2>2, <3>1 DEF Ready, Key
    <3>3. c \in Call /\ c.key \in DOMAIN rec /\ r \in Record /\ Need(t) \in Nat
      BY <1>0, <3>1, <3>2, NotErasing, Caught DEF Key
    <3>4. n \in Nat /\ High(c.segs) <= n
      BY <3>1, <3>3, NewSizeProps DEF Need
    <3> QED
      BY <3>1, <3>2, <3>3, <3>4, PlacedLaunched
  <2>3. CASE pc[t] = "io" /\ UNCHANGED <<call, place>> /\ todo'[t] \in {todo[t], Tail(todo[t]), << >>}
             /\ (todo[t] = << >> => todo'[t] = << >>)
    BY <2>3, PlacedKept
  <2>4. CASE MemPiece(t) \/ ReadPiece(t) \/ Bounce(t) \/ WritePiece(t) \/ PieceFails(t)
    <3>1. t \in DOMAIN todo
      BY <1>0 DEF Types
    <3>2. pc[t] = "io" /\ UNCHANGED <<call, place>> /\ todo[t] # << >>
      BY <2>4 DEF MemPiece, ReadPiece, Bounce, WritePiece, PieceFails
    <3>3. todo'[t] \in {todo[t], Tail(todo[t]), << >>}
      BY <2>4, <3>1 DEF MemPiece, ReadPiece, Bounce, WritePiece, PieceFails
    <3> QED
      BY <2>3, <3>2, <3>3
  <2>5. CASE pc'[t] # "io"
    BY <2>5 DEF Placed
  <2>6. ASSUME ~Ready(t), ~(\E c \in Calls : c.op = "read" /\ StartRead(t, c)),
               ~(MemPiece(t) \/ ReadPiece(t) \/ Bounce(t) \/ WritePiece(t) \/ PieceFails(t))
        PROVE  pc'[t] # "io"
    <3>1. t \in DOMAIN pc
      BY <1>0 DEF Types
    <3>2. CASE Leave(t) \/ Transferred(t)
      BY <3>1, <3>2 DEF Leave, Transferred, Goto
    <3>3. CASE \E c \in Calls : StartGrow(t, Resolve(c)) \/ ls_erase(t, c)
      BY <3>1, <3>3 DEF StartGrow, ls_erase
    <3>4. CASE Cap(t) \/ Evict(t) \/ Fit(t) \/ NoFit(t) \/ Alloc(t) \/ Zero(t) \/ ZeroFails(t)
      BY <3>1, <3>4 DEF Cap, Evict, Fit, NoFit, ToExtents, Alloc, Zero, ZeroFails, Goto
    <3>5. CASE Spill(t) \/ SpillFails(t) \/ Backed(t) \/ Free(t) \/ Freed(t) \/ Reserved(t)
      BY <3>1, <3>5 DEF Spill, SpillFails, Backed, Free, Freed, Reserved, Fail, Goto
    <3> QED
      BY <2>6, <3>2, <3>3, <3>4, <3>5 DEF Step
  <2> QED
    BY <2>1, <2>2, <2>4, <2>5, <2>6
<1> QED
  BY <1>1, <1>2, PlacesAre

\* The whole invariant of the data path, where callers keep to the contract.
Sound == Safe /\ FileSize /\ Pieces /\ Places /\ Buffers

LEMMA InitSound ==
    ASSUME Init
    PROVE  Sound
<1>1. Safe /\ FileSize /\ Pieces
  BY InitSafe, InitFile
<1>2. Places
  BY DEF Init, Places, PlaceCurrent
<1>3. Buffers
  BY InitRecords DEF Buffers, Resident
<1> QED
  BY <1>1, <1>2, <1>3 DEF Sound

LEMMA SoundStutter ==
    ASSUME Sound, UNCHANGED vars
    PROVE  Sound'
<1>0. /\ UNCHANGED <<setting, rec, heap, lru, resident, fl, flcap, file_end, lost, file>>
      /\ UNCHANGED <<lk, vic, fresh, dying, pc, call, place, todo, buf, bounce, rc>>
  BY DEF vars, memory, space, lock, thread
<1>1. Safe'
  BY SafeStutter DEF Sound
<1>2. FileSize' /\ Pieces'
  BY <1>0 DEF Sound, FileSize, Pieces, Extents
<1>3. Places' /\ Buffers'
  BY <1>0 DEF Sound, Places, PlaceCurrent, Key, Buffers, Buffer, Resident
<1> QED
  BY <1>1, <1>2, <1>3 DEF Sound

LEMMA SoundNext ==
    ASSUME Unmixed, Sound, [Next]_vars
    PROVE  Sound'
<1>1. CASE UNCHANGED vars
  BY <1>1, SoundStutter
<1>2. CASE Next
  <2>1. Safe /\ FileSize /\ Pieces /\ Places /\ Buffers
    BY DEF Sound
  <2>2. UNCHANGED setting /\ \E t \in Threads : Step(t)
    BY <1>2, <2>1, NextSteps DEF Safe
  <2>3. PICK t \in Threads : Step(t)
    BY <2>2
  <2>4. Safe'
    BY <1>2, <2>1, SafeNext
  <2>5. FileSize' /\ Pieces'
    BY <2>1, <2>2, <2>3, FileNext, PiecesNext
  <2>6. Places' /\ Buffers'
    BY <2>1, <2>3, PlacesNext, BuffersNext
  <2> QED
    BY <2>4, <2>5, <2>6 DEF Sound
<1> QED
  BY <1>1, <1>2

\* A thread reads and writes where its record's bytes are, although it does so
\* without toc_lk: eviction by other threads' calls passes over the records in
\* use (busy), a buffer is grown or spilled only by a call on its own key, and a
\* record only gains extents.  The hypothesis is the one MCStoreRace shows to be
\* needed.
THEOREM StorePlaces ==
    ASSUME Unmixed
    PROVE  Spec => []PlaceCurrent
<1>1. Init => Sound
  BY InitSound
<1>2. Sound /\ [Next]_vars => Sound'
  BY SoundNext
<1>3. Sound => PlaceCurrent
  BY DEF Sound, Places
<1> QED
  BY <1>1, <1>2, <1>3, PTL DEF Spec

\* A record can hold what it says it holds, in a buffer as long as its capacity
\* or in extents that lie inside the file: a read inside a record is never
\* short, and a copy never passes the end of a buffer.
THEOREM StoreBacked ==
    ASSUME Unmixed
    PROVE  Spec => []RecordsBacked
<1>1. Init => Sound
  BY InitSound
<1>2. Sound /\ [Next]_vars => Sound'
  BY SoundNext
<1>3. Sound => RecordsBacked
  <2> SUFFICES ASSUME Sound, NEW k \in DOMAIN rec
               PROVE  LET r == rec[k]
                      IN  /\ IF r.mem # NULL THEN r.size <= r.mem_cap /\ Len(heap[r.mem]) = r.mem_cap
                                             ELSE r.size <= r.ext_total
                          /\ r.ext_total = Base(r.ext, Len(r.ext) + 1)
                          /\ \A i \in DOMAIN r.ext : End(r.ext[i]) <= Len(file)
    BY DEF RecordsBacked
  <2>1. Room(rec[k])
    BY DEF Sound, Safe, Rooms
  <2>2. rec[k].mem # NULL => Len(heap[rec[k].mem]) = rec[k].mem_cap
    BY DEF Sound, Buffers, Buffer, Resident
  <2>3. \A i \in DOMAIN rec[k].ext : End(rec[k].ext[i]) <= Len(file)
    <3>1. \A i \in DOMAIN rec[k].ext : rec[k].ext[i] \in Extents
      BY ExtentsAre
    <3> QED
      BY <3>1 DEF Sound, FileSize
  <2> QED
    BY <2>1, <2>2, <2>3 DEF Room
<1> QED
  BY <1>1, <1>2, <1>3, PTL DEF Spec

-----------------------------------------------------------------------------
(* What the data path asks of the allocator.                               *)

\* The record has the space it had.
SameSpace(q, r) ==
    q.ext = r.ext /\ q.ext_total = r.ext_total /\ q.mem = r.mem /\ q.mem_cap = r.mem_cap

\* Only zero_range, realloc and a spill change the space of a record.
LEMMA RoomKept ==
    ASSUME Safe, NEW t \in Threads, Step(t), NEW k \in DOMAIN rec, k \in DOMAIN rec'
    PROVE  \/ SameSpace(rec'[k], rec[k])
           \/ Zero(t) /\ Grown(t) = k
           \/ Fit(t) /\ Key(t) = k
           \/ Spill(t) /\ vic = k
<1>0. Types /\ Control /\ Holding /\ Space /\ Memory /\ Counts
  BY DEF Safe
<1>r. \A j \in DOMAIN rec : rec[j] \in Record
  BY <1>0 DEF Types
<1>s. ASSUME NEW j, NEW q, Sets(j, q), j \in DOMAIN rec => SameSpace(q, rec[j])
      PROVE  SameSpace(rec'[k], rec[k])
  BY <1>s DEF Sets, SameSpace
<1>1. ASSUME NEW c \in Calls, c.op = "read", StartRead(t, c)
      PROVE  SameSpace(rec'[k], rec[k])
  <2>1. PICK j, r, b : j = c.key /\ r = rec[j] /\ b = r.busy + 1
    OBVIOUS
  <2>2. j \in DOMAIN rec /\ Sets(j, [r EXCEPT !.busy = b])
    BY <1>0, <1>1, <2>1, StartReadShape
  <2>3. SameSpace([r EXCEPT !.busy = b], r)
    BY <1>r, <2>1, <2>2, RecordUpdates DEF SameSpace
  <2> QED
    BY <1>s, <2>1, <2>2, <2>3
<1>2. ASSUME NEW c \in Calls, c.op \notin {"read", "erase"}, StartGrow(t, Resolve(c))
      PROVE  SameSpace(rec'[k], rec[k])
  <2>1. IF c.key \in DOMAIN rec THEN UNCHANGED rec ELSE Sets(c.key, NewRec)
    BY <1>0, <1>2, StartGrowShape
  <2>2. CASE UNCHANGED rec
    BY <2>2 DEF SameSpace
  <2> QED
    BY <1>s, <2>1, <2>2
<1>3. ASSUME NEW c \in Calls, ls_erase(t, c)
      PROVE  SameSpace(rec'[k], rec[k])
  <2>1. Drops(c.key)
    BY <1>0, <1>3, EraseShape
  <2>2. rec'[k] = rec[k]
    BY <2>1 DEF Drops
  <2> QED
    BY <2>2 DEF SameSpace
<1>4. CASE QuietStep(t) \/ Alloc(t) \/ ZeroFails(t) \/ Free(t)
  BY <1>4, RecSame DEF SameSpace
<1>5. CASE Leave(t)
  <2>1. PICK j, r, b : j = Key(t) /\ r = rec[j] /\ b = r.busy - 1
    OBVIOUS
  <2>2. j \in DOMAIN rec /\ Sets(j, [r EXCEPT !.busy = b])
    BY <1>0, <1>5, <2>1, LeaveEffect
  <2>3. SameSpace([r EXCEPT !.busy = b], r)
    BY <1>r, <2>1, <2>2, RecordUpdates DEF SameSpace
  <2> QED
    BY <1>s, <2>1, <2>2, <2>3
<1>6. ASSUME Fit(t), Key(t) # k
      PROVE  SameSpace(rec'[k], rec[k])
  <2>1. \E q : Sets(Key(t), q)
    BY <1>0, <1>6, FitEffect
  <2>2. rec'[k] = rec[k]
    BY <1>6, <2>1 DEF Sets
  <2> QED
    BY <2>2 DEF SameSpace
<1>7. ASSUME Zero(t), Grown(t) # k
      PROVE  SameSpace(rec'[k], rec[k])
  <2>1. \E q : Sets(Grown(t), q)
    BY <1>0, <1>7, ZeroEffect
  <2>2. rec'[k] = rec[k]
    BY <1>7, <2>1 DEF Sets
  <2> QED
    BY <2>2 DEF SameSpace
<1>8. ASSUME Spill(t), vic # k
      PROVE  SameSpace(rec'[k], rec[k])
  <2>1. \E q : Sets(vic, q)
    BY <1>0, <1>8, SpillEffect
  <2>2. rec'[k] = rec[k]
    BY <1>8, <2>1 DEF Sets
  <2> QED
    BY <2>2 DEF SameSpace
<1>9. CASE Ready(t)
  <2>1. PICK j, r, n, b : j = Key(t) /\ r = rec[j] /\ n = NewSize(r, Need(t)) /\ b = r.busy + 1
    OBVIOUS
  <2>2. j \in DOMAIN rec /\ Sets(j, [r EXCEPT !.size = n, !.busy = b])
    BY <1>0, <1>9, <2>1, ReadyEffect
  <2>3. SameSpace([r EXCEPT !.size = n, !.busy = b], r)
    BY <1>r, <2>1, <2>2, RecordUpdates DEF SameSpace
  <2> QED
    BY <1>s, <2>1, <2>2, <2>3
<1>10. CASE Reserved(t)
  <2>1. PICK j, r, n : j = Key(t) /\ r = rec[j] /\ n = NewSize(r, Need(t))
    OBVIOUS
  <2>2. j \in DOMAIN rec /\ Sets(j, [r EXCEPT !.size = n])
    BY <1>0, <1>10, <2>1, ReservedEffect
  <2>3. SameSpace([r EXCEPT !.size = n], r)
    BY <1>r, <2>1, <2>2, RecordUpdates DEF SameSpace
  <2> QED
    BY <1>s, <2>1, <2>2, <2>3
<1> QED
  BY <1>1, <1>2, <1>3, <1>4, <1>5, <1>6, <1>7, <1>8, <1>9, <1>10, StepCases

\* Only ls_erase takes a record away.
LEMMA LostKeys ==
    ASSUME Safe, NEW t \in Threads, Step(t), NEW k \in DOMAIN rec, k \notin DOMAIN rec'
    PROVE  \E c \in Calls : ls_erase(t, c) /\ c.key = k /\ Drops(k)
<1>0. Types /\ Control /\ Holding /\ Space /\ Memory /\ Counts
  BY DEF Safe
<1>s. ASSUME NEW j, NEW q, Sets(j, q)
      PROVE  FALSE
  BY <1>s DEF Sets
<1>1. ASSUME NEW c \in Calls, c.op = "read", StartRead(t, c)
      PROVE  FALSE
  BY <1>0, <1>1, <1>s, StartReadShape
<1>2. ASSUME NEW c \in Calls, c.op \notin {"read", "erase"}, StartGrow(t, Resolve(c))
      PROVE  FALSE
  <2>1. IF c.key \in DOMAIN rec THEN UNCHANGED rec ELSE Sets(c.key, NewRec)
    BY <1>0, <1>2, StartGrowShape
  <2> QED
    BY <1>s, <2>1
<1>3. ASSUME NEW c \in Calls, ls_erase(t, c)
      PROVE  c.key = k /\ Drops(k)
  <2>1. Drops(c.key)
    BY <1>0, <1>3, EraseShape
  <2>2. c.key = k
    BY <2>1 DEF Drops
  <2> QED
    BY <2>1, <2>2
<1>4. ASSUME QuietStep(t) \/ Alloc(t) \/ ZeroFails(t) \/ Free(t)
      PROVE  FALSE
  BY <1>4, RecSame
<1>5. ASSUME Leave(t) \/ Ready(t) \/ Reserved(t) \/ Fit(t) \/ Zero(t) \/ Spill(t)
      PROVE  FALSE
  <2>1. ASSUME Leave(t) PROVE FALSE
    BY <1>0, <1>s, <2>1, LeaveEffect
  <2>2. ASSUME Ready(t) PROVE FALSE
    BY <1>0, <1>s, <2>2, ReadyEffect
  <2>3. ASSUME Reserved(t) PROVE FALSE
    BY <1>0, <1>s, <2>3, ReservedEffect
  <2>4. ASSUME Fit(t) PROVE FALSE
    BY <1>0, <1>s, <2>4, FitEffect
  <2>5. ASSUME Zero(t) PROVE FALSE
    BY <1>0, <1>s, <2>5, ZeroEffect
  <2>6. ASSUME Spill(t) PROVE FALSE
    BY <1>0, <1>s, <2>6, SpillEffect
  <2> QED
    BY <1>5, <2>1, <2>2, <2>3, <2>4, <2>5, <2>6
<1> QED
  BY <1>1, <1>2, <1>3, <1>4, <1>5, StepCases

\* Nobody asks for more than the file system has: no call, and not the memory
\* tier; and the file that was opened is on it.
Modest ==
    /\ \A s \in DOMAIN Settings :
          /\ Settings[s].memory_budget <= Disk
          /\ \A c \in Settings[s].calls : High(c.segs) <= Disk
    /\ LoadedEnd(Len(Loaded)) <= Disk

\* What the call in progress wants to have room for.
Asks(u) ==
    pc[u] \in Locked =>
        IF call[u].op = "append" THEN call[u].segs[1].n <= Disk ELSE Need(u) <= Disk

\* Records are on the disk, and so is the file, but for what is lost and an extent
\* that will be given back.
OnDisk ==
    /\ \A e \in Extents : End(e) <= Disk
    /\ \A e \in lost : End(e) <= LostEnd
    /\ file_end <= 2 * Disk + LostEnd + LS_ALIGN

LEMMA ResolveAsks ==
    ASSUME Modest, Types, NEW c \in Calls
    PROVE  IF Resolve(c).op = "append" THEN Resolve(c).segs[1].n <= Disk ELSE High(Resolve(c).segs) <= Disk
<1>1. c \in Call /\ Resolve(c).op = c.op /\ (c.op = "append" => Len(c.segs) = 1)
      /\ (c.op # "append" => Resolve(c) = c) /\ High(c.segs) <= Disk
  BY ResolveProps, CallsAssumption DEF Modest, Types, Calls
<1>2. CASE c.op = "append"
  <2>1. PICK s : s = c.segs
    OBVIOUS
  <2>2. s \in Seq(Segment) /\ Len(s) = 1 /\ s[1] \in Segment /\ DOMAIN s = {1}
    BY <1>1, <1>2, <2>1 DEF Call
  <2>3. s[1].off \in Nat /\ s[1].n \in Nat
    BY <2>2 DEF Segment
  <2>4. s[1].off + s[1].n <= High(s) /\ High(s) \in Nat
    BY <2>2, HighProps
  <2>5. s[1].n <= Disk
    BY <1>1, <2>1, <2>3, <2>4, StoreAssumption
  <2>6. PICK x, z : x = [s[1] EXCEPT !.off = Size(c.key)] /\ z = [s EXCEPT ![1] = x]
    OBVIOUS
  <2>7. x.n = s[1].n /\ z[1] = x
    BY <2>2, <2>6 DEF Segment
  <2>8. Resolve(c) = [c EXCEPT !.segs = z]
    BY <1>2, <2>1, <2>6 DEF Resolve
  <2>9. [c EXCEPT !.segs = z].segs = z
    BY <1>1 DEF Call
  <2> QED
    BY <1>1, <1>2, <2>5, <2>7, <2>8, <2>9
<1>3. CASE c.op # "append"
  BY <1>1, <1>3
<1> QED
  BY <1>2, <1>3

LEMMA AsksNext ==
    ASSUME Modest, Safe, NEW t \in Threads, Step(t), \A u \in Threads : Asks(u)
    PROVE  \A u \in Threads : Asks(u)'
<1>0. Types /\ Control /\ Holding /\ DOMAIN pc = Threads /\ DOMAIN call = Threads
  BY DEF Safe, Types
<1>1. ASSUME NEW u \in Threads \ {t} PROVE Asks(u)'
  <2>1. pc'[u] = pc[u] /\ call'[u] = call[u]
    BY OthersStay
  <2> QED
    BY <2>1 DEF Asks, Need
<1>2. Asks(t)'
  <2>1. Shape(t)
    BY <1>0, StepShape
  <2>2. CASE Stays \/ \E w \in Locked : Moves(t, w)
    BY <1>0, <2>2 DEF Stays, Moves, Asks, Need
  <2>3. CASE Returns(t) \/ Departs(t) \/ Ends(t) \/ Leaves(t)
    BY <1>0, <2>3 DEF Returns, Departs, Ends, Leaves, Asks, Locked
  <2>4. CASE \E c \in Calls : c.op = "read" /\ StartRead(t, c)
    <3>1. pc'[t] = "io"
      BY <1>0, <2>4 DEF StartRead, Launch
    <3> QED
      BY <3>1 DEF Asks, Locked
  <2>5. CASE \E c \in Calls : c.op \notin {"read", "erase"} /\ StartGrow(t, Resolve(c))
    <3>1. PICK c \in Calls : c.op \notin {"read", "erase"} /\ StartGrow(t, Resolve(c))
      BY <2>5
    <3>2. call'[t] = Resolve(c)
      BY <1>0, <3>1 DEF StartGrow
    <3>3. IF Resolve(c).op = "append" THEN Resolve(c).segs[1].n <= Disk ELSE High(Resolve(c).segs) <= Disk
      BY <1>0, ResolveAsks
    <3> QED
      BY <3>2, <3>3 DEF Asks, Need
  <2>6. CASE \E c \in Calls : ls_erase(t, c)
    <3>1. PICK c \in Calls : ls_erase(t, c)
      BY <2>6
    <3>2. call'[t] = c /\ c.op = "erase"
      BY <1>0, <3>1 DEF ls_erase
    <3>3. High(c.segs) <= Disk
      BY <1>0 DEF Modest, Types, Calls
    <3> QED
      BY <3>2, <3>3 DEF Asks, Need
  <2>7. CASE pc[t] # "idle"
    <3>1. ~\E c \in Call, w \in {"cap", "free", "io"} : Enters(t, c, w)
      BY <2>7 DEF Enters, Begins
    <3> QED
      BY <2>1, <2>2, <2>3, <3>1 DEF Shape
  <2>8. CASE pc[t] = "idle"
    <3>1. /\ ~MemPiece(t) /\ ~ReadPiece(t) /\ ~Bounce(t) /\ ~WritePiece(t) /\ ~PieceFails(t)
          /\ ~Transferred(t) /\ ~Leave(t) /\ ~Cap(t) /\ ~Evict(t) /\ ~Fit(t) /\ ~NoFit(t)
      BY <2>8 DEF MemPiece, ReadPiece, Bounce, WritePiece, PieceFails, Transferred, Leave, Cap, Evict, Fit, NoFit
    <3>2. /\ ~Alloc(t) /\ ~Zero(t) /\ ~ZeroFails(t) /\ ~Spill(t) /\ ~SpillFails(t) /\ ~Backed(t)
          /\ ~Free(t) /\ ~Freed(t) /\ ~Ready(t) /\ ~Reserved(t)
      BY <2>8 DEF Alloc, Zero, ZeroFails, Spill, SpillFails, Backed, Free, Freed, Ready, Reserved
    <3> QED
      BY <2>4, <2>5, <2>6, <3>1, <3>2 DEF Step
  <2> QED
    BY <2>7, <2>8
<1> QED
  BY <1>1, <1>2

\* ensure_extents asks for no more than there may be room for.
LEMMA DeficitFits ==
    ASSUME Modest, Safe, NEW t \in Threads, Asks(t), pc[t] = "extents", Deficit(t) > 0
    PROVE  Deficit(t) \in 1 .. Disk
<1>0. Types /\ Control /\ Holding /\ Rooms /\ Memory /\ Appends /\ Disk \in Nat /\ Budget \in Nat /\ Budget <= Disk
  BY StoreAssumption DEF Safe, Types, Budget, Modest
<1>1. call[t].op # "erase" /\ call[t] \in Call /\ Key(t) \in DOMAIN rec /\ rec[Key(t)] \in Record /\ Need(t) \in Nat
  BY <1>0, NotErasing, Caught
<1>2. CASE vic # NoKey
  <2>1. PICK r : r = rec[vic]
    OBVIOUS
  <2>2. vic \in DOMAIN rec /\ r.mem # NULL /\ r \in Record
    BY <1>0, <1>2, <2>1 DEF Holding, Types
  <2>3. r.size <= r.mem_cap /\ r.mem_cap <= resident /\ resident \in Nat /\ resident <= Budget
    BY <1>0, <2>1, <2>2, ResidentNat DEF Rooms, Room, Memory
  <2>4. r.size \in Nat /\ r.mem_cap \in Nat /\ r.ext_total \in Nat
    BY <2>2, RecordFields
  <2>5. Deficit(t) = r.size - r.ext_total
    BY <1>2, <2>1 DEF Deficit, Wanted, Grown
  <2> QED
    BY <1>0, <2>3, <2>4, <2>5
<1>3. CASE vic = NoKey
  <2>1. PICK r, n : r = rec[Key(t)] /\ n = Need(t)
    OBVIOUS
  <2>2. r.size \in Nat /\ r.ext_total \in Nat /\ n \in Nat
    BY <1>1, <2>1, RecordFields
  <2>3. Deficit(t) = n - r.ext_total
    BY <1>3, <2>1 DEF Deficit, Wanted, Grown
  <2>4. CASE call[t].op = "append"
    <3>1. r.mem = NULL
      BY <1>0, <1>1, <1>3, <2>1 DEF Holding, Spills
    <3>2. r.size <= r.ext_total
      BY <1>0, <1>1, <2>1, <3>1 DEF Rooms, Room
    <3>3. PICK s : s = call[t].segs
      OBVIOUS
    <3>4. s \in Seq(Segment) /\ Len(s) = 1 /\ s[1].off = r.size /\ s[1].n <= Disk
      BY <1>0, <1>1, <2>1, <2>4, <3>3 DEF Control, Call, Appends, Asks, Locked
    <3>5. s[1].n \in Nat /\ DOMAIN s = {1}
      BY <3>4, SegFields
    <3>6. n = 0 \/ n = s[1].off + s[1].n
      <4>1. n = Max({0} \cup {s[i].off + s[i].n : i \in DOMAIN s})
        BY <2>1, <3>3 DEF Need, High
      <4>2. {s[i].off + s[i].n : i \in DOMAIN s} = {s[1].off + s[1].n}
        BY <3>5
      <4>3. PICK m : m = s[1].off + s[1].n
        OBVIOUS
      <4>4. m \in Nat
        BY <2>2, <3>4, <3>5, <4>3
      <4>5. {0} \cup {m} = {0, m}
        OBVIOUS
      <4>6. Max({0, m}) = IF 0 >= m THEN 0 ELSE m
        BY <4>4, MaxOfTwo
      <4> QED
        BY <4>1, <4>2, <4>3, <4>5, <4>6
    <3> QED
      BY <1>0, <2>2, <2>3, <3>2, <3>4, <3>5, <3>6
  <2>5. CASE call[t].op # "append"
    <3>1. n <= Disk
      BY <2>1, <2>5 DEF Asks, Locked
    <3> QED
      BY <1>0, <2>2, <2>3, <3>1
  <2> QED
    BY <2>4, <2>5
<1> QED
  BY <1>2, <1>3

\* With nothing on anyone's hands the file is on the disk.
LEMMA FileOnDisk ==
    ASSUME Modest, Space, OnDisk, fresh = << >>, dying = << >>
    PROVE  file_end <= Disk + LostEnd
<1>1. Range(<< >>) = {}
  BY DEF Range
<1>2. Owned = Extents \cup lost
  BY <1>1 DEF Owned
<1>3. CASE file_end # LS_SUPER_SIZE
  <2>1. PICK e \in Extents \cup lost : End(e) = file_end
    BY <1>2, <1>3, EndOwned DEF Space
  <2>2. file_end \in Nat
    BY DEF Space, Accounted
  <2> QED
    BY <2>1, <2>2, StoreAssumption DEF OnDisk
<1>4. CASE file_end = LS_SUPER_SIZE
  <2>1. LS_SUPER_SIZE <= LoadedEnd(Len(Loaded)) /\ LoadedEnd(Len(Loaded)) \in Nat
    BY LoadedAccounted DEF Accounted
  <2> QED
    BY <1>4, <2>1, SuperAssumption, StoreAssumption DEF Modest
<1> QED
  BY <1>3, <1>4

\* The allocator changes only in its own operations.
LEMMA AllocatorKept ==
    ASSUME NEW t \in Threads, Step(t), ~Alloc(t), ~Free(t)
    PROVE  UNCHANGED <<fl, flcap, file_end, lost>>
<1>1. \A c \in Calls : StartRead(t, c) \/ StartGrow(t, Resolve(c)) \/ ls_erase(t, c) => UNCHANGED <<fl, flcap, file_end, lost>>
  BY DEF StartRead, StartGrow, ls_erase, space
<1>2. QuietStep(t) => UNCHANGED <<fl, flcap, file_end, lost>>
  BY QuietSteps DEF Quiet
<1>3. Leave(t) \/ Fit(t) \/ Zero(t) \/ ZeroFails(t) \/ Spill(t) \/ Ready(t) \/ Reserved(t) => UNCHANGED <<fl, flcap, file_end, lost>>
  BY DEF Leave, Fit, Zero, ZeroFails, Spill, Ready, Reserved, space
<1> QED
  BY <1>1, <1>2, <1>3, StepCases

\* What is on the holder's hands changes only when it is taken or given back.
LEMMA HandsKept ==
    ASSUME NEW t \in Threads, Step(t), ~Alloc(t), ~Free(t), ~Zero(t), ~ZeroFails(t), \A c \in Calls : ~ls_erase(t, c)
    PROVE  UNCHANGED <<fresh, dying>>
<1>1. \A c \in Calls : StartRead(t, c) \/ StartGrow(t, Resolve(c)) => UNCHANGED <<fresh, dying>>
  BY DEF StartRead, StartGrow
<1>2. QuietStep(t) => UNCHANGED <<fresh, dying>>
  BY QuietSteps DEF Quiet
<1>3. Leave(t) \/ Fit(t) \/ Spill(t) \/ Ready(t) \/ Reserved(t) => UNCHANGED <<fresh, dying>>
  BY DEF Leave, Fit, Spill, Ready, Reserved, lock
<1> QED
  BY <1>1, <1>2, <1>3, StepCases

\* Records keep their extents until they are erased.
LEMMA ExtentsStay ==
    ASSUME Safe, NEW t \in Threads, Step(t), ~Zero(t), \A c \in Calls : ~ls_erase(t, c)
    PROVE  Extents' = Extents
<1>0. Types /\ Control /\ Holding /\ Space /\ Memory /\ Counts
  BY DEF Safe
<1>1. ASSUME NEW k \in DOMAIN rec PROVE k \in DOMAIN rec' /\ rec'[k].ext = rec[k].ext
  <2>1. k \in DOMAIN rec'
    BY LostKeys
  <2>2. rec[k] \in Record
    BY <1>0 DEF Types
  <2>3. CASE SameSpace(rec'[k], rec[k])
    BY <2>1, <2>3 DEF SameSpace
  <2>4. CASE Fit(t) /\ Key(t) = k
    <3>1. PICK n, r : n = Need(t) /\ r = rec[k]
      OBVIOUS
    <3>2. PICK b \in Nat \ {0} : Sets(k, [r EXCEPT !.mem = b, !.mem_cap = n])
      BY <1>0, <2>4, <3>1, FitEffect
    <3> QED
      BY <2>1, <2>2, <3>1, <3>2, RecordUpdates DEF Sets
  <2>5. CASE Spill(t) /\ vic = k
    <3>1. PICK r : r = rec[k]
      OBVIOUS
    <3>2. Sets(k, [r EXCEPT !.mem = NULL, !.mem_cap = 0])
      BY <1>0, <2>5, <3>1, SpillEffect
    <3> QED
      BY <2>1, <2>2, <3>1, <3>2, RecordUpdates DEF Sets
  <2> QED
    BY <2>1, <2>3, <2>4, <2>5, RoomKept
<1>2. \A e \in Extents : e \in Extents'
  BY <1>1, ExtentsAre
<1> QED
  BY <1>2, ExtentsKept

LEMMA OnDiskNext ==
    ASSUME Modest, Safe, Safe', NEW t \in Threads, Step(t), Asks(t), OnDisk
    PROVE  OnDisk'
<1>0. /\ Types /\ Control /\ Holding /\ Space /\ Space' /\ Disk \in Nat /\ LostEnd \in Nat /\ LS_ALIGN \in Nat
      /\ file_end \in Nat /\ file_end' \in Nat
  BY StoreAssumption, AlignAssumption DEF Safe, Space, Accounted
<1>l. \A e \in lost' : End(e) <= LostEnd
  <2>1. CASE Free(t)
    BY <2>1 DEF OnDisk, Free, Inserted, Dropped
  <2>2. CASE Alloc(t)
    BY <2>2 DEF OnDisk, Alloc
  <2>3. CASE ~Alloc(t) /\ ~Free(t)
    BY <2>3, AllocatorKept DEF OnDisk
  <2> QED
    BY <2>1, <2>2, <2>3
<1>1. CASE Zero(t)
  <2>1. PICK k, x, y, e : k = Grown(t) /\ x = Append(rec[k].ext, fresh[1])
                          /\ y = rec[k].ext_total + fresh[1].len /\ e = fresh[1]
    OBVIOUS
  <2>2. k \in DOMAIN rec /\ Sets(k, [rec[k] EXCEPT !.ext = x, !.ext_total = y]) /\ e \in Extent
    BY <1>0, <1>1, <2>1, ZeroEffect
  <2>3. rec[k] \in Record
    BY <1>0, <2>2 DEF Types
  <2>4. rec'[k].ext = x /\ DOMAIN rec' = DOMAIN rec /\ \A j \in DOMAIN rec \ {k} : rec'[j] = rec[j]
    BY <2>2, <2>3, RecordUpdates DEF Sets
  <2>5. End(e) <= Disk /\ file_end' = file_end
    BY <1>1, <2>1 DEF Zero, space
  <2>6. ASSUME NEW d \in Extents' PROVE End(d) <= Disk
    <3>1. PICK j \in DOMAIN rec' : \E i \in DOMAIN rec'[j].ext : d = rec'[j].ext[i]
      BY ExtentsAre
    <3>2. CASE j # k
      BY <2>4, <3>1, <3>2, ExtentsAre DEF OnDisk
    <3>3. CASE j = k
      <4>1. rec[k].ext \in Seq(Extent)
        BY <2>3, RecordFields
      <4>2. PICK z : z = rec[k].ext
        OBVIOUS
      <4>3. z \in Seq(Extent) /\ x = Append(z, e) /\ \E i \in DOMAIN x : d = x[i]
        BY <2>1, <2>4, <3>1, <3>3, <4>1, <4>2
      <4>4. d = e \/ \E l \in DOMAIN z : d = z[l]
        BY <2>2, <4>3
      <4> QED
        BY <2>2, <2>5, <4>2, <4>4, ExtentsAre DEF OnDisk
    <3> QED
      BY <3>2, <3>3
  <2> QED
    BY <1>l, <2>5, <2>6 DEF OnDisk
<1>2. CASE ~Zero(t)
  <2>1. \A e \in Extents' : End(e) <= Disk
    BY <1>2, ExtentsKept DEF OnDisk
  <2>2. file_end' <= 2 * Disk + LostEnd + LS_ALIGN
    <3>1. CASE Alloc(t)
      <4>1. pc[t] = "extents" /\ Deficit(t) > 0
        BY <3>1 DEF Alloc
      <4>2. lk = t
        BY <1>0, <4>1 DEF Control, Locked
      <4>3. fresh = << >> /\ dying = << >>
        BY <1>0, <4>1, <4>2, Hands
      <4>4. file_end <= Disk + LostEnd
        BY <1>0, <4>3, FileOnDisk
      <4>5. PICK n : n = Deficit(t)
        OBVIOUS
      <4>6. n \in Nat /\ n <= Disk
        BY <1>0, <4>1, <4>5, DeficitFits
      <4>7. round_up(n) <= n + LS_ALIGN /\ round_up(n) \in Nat
        BY <4>6, RoundUpBelow, RoundUpGrows
      <4>8. file_end' = file_end \/ file_end' = file_end + round_up(n)
        BY <3>1, <4>5 DEF Alloc, Request
      <4> QED
        BY <1>0, <4>4, <4>6, <4>7, <4>8
    <3>2. CASE Free(t)
      <4>1. file_end' <= file_end
        BY <1>0, <3>2, FreeSpace
      <4> QED
        BY <1>0, <4>1 DEF OnDisk
    <3>3. CASE ~Alloc(t) /\ ~Free(t)
      <4>1. file_end' = file_end
        BY <3>3, AllocatorKept
      <4> QED
        BY <4>1 DEF OnDisk
    <3> QED
      BY <3>1, <3>2, <3>3
  <2> QED
    BY <1>l, <2>1, <2>2 DEF OnDisk
<1> QED
  BY <1>1, <1>2

\* The allocator's operators are the data path's.
LEMMA AllocatorOps ==
    /\ \A n : Allocator!round_up(n) = round_up(n)
    /\ \A f, i : Allocator!RemoveAt(f, i) = RemoveAt(f, i)
    /\ \A f, n : Allocator!Fitting(f, n) = Fitting(f, n)
    /\ \A f, n : Allocator!BestFit(f, n) = BestFit(f, n)
    /\ \A f : Allocator!Largest(f) = Largest(f)
    /\ \A f, i, n : Allocator!TakeFront(f, i, n) = TakeFront(f, i, n)
<1>1. \A n : Allocator!round_up(n) = round_up(n)
  BY Zenon DEF Allocator!round_up, round_up
<1>2. \A f, i : Allocator!RemoveAt(f, i) = RemoveAt(f, i)
  BY Zenon DEF Allocator!RemoveAt, RemoveAt
<1>3. \A f, n : Allocator!Fitting(f, n) = Fitting(f, n)
  BY Zenon DEF Allocator!Fitting, Fitting
<1>4. \A f, n : Allocator!BestFit(f, n) = BestFit(f, n)
  BY <1>3, Zenon DEF Allocator!BestFit, BestFit
<1>5. \A f : Allocator!Largest(f) = Largest(f)
  BY Zenon DEF Allocator!Largest, Largest
<1>6. \A f, i, n : Allocator!TakeFront(f, i, n) = TakeFront(f, i, n)
  BY Zenon DEF Allocator!TakeFront, TakeFront, Allocator!RemoveAt, RemoveAt
<1> QED
  BY <1>1, <1>2, <1>3, <1>4, <1>5, <1>6

LEMMA AllocatorInsert ==
    /\ \A f, fend, e : Allocator!fl_insert(f, fend, e) = fl_insert(f, fend, e)
    /\ \A f, e : Allocator!NeedsSlot(f, e) = NeedsSlot(f, e)
<1>1. \A e : Allocator!End(e) = End(e)
  BY Zenon DEF Allocator!End, End
<1>2. \A f, o : Allocator!InsertPos(f, o) = InsertPos(f, o)
  BY Zenon DEF Allocator!InsertPos, InsertPos, Allocator!Min, Min
<1>3. \A f, i, o : Allocator!MergesLeft(f, i, o) = MergesLeft(f, i, o)
  BY Zenon DEF Allocator!MergesLeft, MergesLeft, Allocator!End, End
<1>4. \A f, i, e : Allocator!InsertOrMergeLeft(f, i, e) = InsertOrMergeLeft(f, i, e)
  BY Zenon DEF Allocator!InsertOrMergeLeft, InsertOrMergeLeft, Allocator!MergesLeft, MergesLeft, Allocator!End,
               End, Allocator!InsertAt, InsertAt
<1>5. \A f, i : Allocator!MergeRight(f, i) = MergeRight(f, i)
  BY Zenon DEF Allocator!MergeRight, MergeRight, Allocator!End, End, Allocator!RemoveAt, RemoveAt
<1>6. \A f, e : Allocator!Coalesce(f, e) = Coalesce(f, e)
  BY <1>2, <1>3, <1>4, <1>5, Zenon DEF Allocator!Coalesce, Coalesce
<1>7. \A f, fend : Allocator!TrailingHole(f, fend) = TrailingHole(f, fend)
  BY Zenon DEF Allocator!TrailingHole, TrailingHole, Allocator!End, End
<1>8. \A f, fend, e : Allocator!fl_insert(f, fend, e) = fl_insert(f, fend, e)
  <2> TAKE f, fend, e
  <2>1. PICK g : g = IF e.len = 0 THEN f ELSE Coalesce(f, e)
    OBVIOUS
  <2>2. PICK h : h = IF e.len = 0 THEN f ELSE Allocator!Coalesce(f, e)
    OBVIOUS
  <2>3. h = g
    BY <1>6, <2>1, <2>2
  <2>4. fl_insert(f, fend, e) = IF e.len # 0 /\ TrailingHole(g, fend)
                                THEN [fl |-> SubSeq(g, 1, Len(g) - 1), file_end |-> g[Len(g)].foff]
                                ELSE [fl |-> g, file_end |-> fend]
    BY <2>1, Zenon DEF fl_insert
  <2>5. Allocator!fl_insert(f, fend, e) = IF e.len # 0 /\ Allocator!TrailingHole(h, fend)
                                THEN [fl |-> SubSeq(h, 1, Len(h) - 1), file_end |-> h[Len(h)].foff]
                                ELSE [fl |-> h, file_end |-> fend]
    BY <2>2, Zenon DEF Allocator!fl_insert
  <2>6. Allocator!TrailingHole(h, fend) = TrailingHole(g, fend)
    BY <1>7, <2>3
  <2> QED
    BY <2>3, <2>4, <2>5, <2>6, Zenon
<1>9. \A f, e : Allocator!NeedsSlot(f, e) = NeedsSlot(f, e)
  BY <1>2, <1>3, Zenon DEF Allocator!NeedsSlot, NeedsSlot
<1> QED
  BY <1>8, <1>9

\* What the allocator is mapped to.
LEMMA AllocatorStep ==
    ASSUME UNCHANGED <<fl, flcap, file_end, lost>>, Range(dying') = Range(dying),
           Extents' \cup Range(fresh') = Extents \cup Range(fresh)
    PROVE  UNCHANGED Allocator!vars
<1>1. Range(dying)' = Range(dying) /\ (Extents \cup Range(fresh))' = Extents \cup Range(fresh)
  OBVIOUS
<1> QED
  BY <1>1 DEF Allocator!vars

LEMMA AllocUsed ==
    ASSUME Modest, Safe, OnDisk, NEW t \in Threads, Asks(t), Alloc(t)
    PROVE  Allocator!Next
<1>0. Types /\ Control /\ Holding /\ Space /\ Disk \in Nat /\ LostEnd \in Nat /\ LS_ALIGN \in Nat /\ file_end \in Nat
  BY StoreAssumption, AlignAssumption DEF Safe, Space, Accounted
<1>1. pc[t] = "extents" /\ Deficit(t) > 0 /\ UNCHANGED <<rec, flcap, lost, dying>>
  BY DEF Alloc
<1>2. lk = t
  BY <1>0, <1>1 DEF Control, Locked
<1>3. fresh = << >> /\ dying = << >>
  BY <1>0, <1>1, <1>2, Hands
<1>4. PICK n, need : n = Deficit(t) /\ need = round_up(n)
  OBVIOUS
<1>5. n \in 1 .. Disk /\ n \in Nat
  BY <1>0, <1>1, <1>4, DeficitFits
<1>6. Range(<< >>) = {} /\ \A e : Range(<<e>>) = {e}
  BY DEF Range
<1>7. /\ Range(dying) = {} /\ Range(dying') = Range(dying) /\ Extents' = Extents
      /\ \A e : fresh' = <<e>> => Extents' \cup Range(fresh') = (Extents \cup Range(fresh)) \cup {e}
  BY <1>1, <1>3, <1>6 DEF Extents
<1>8. CASE Fitting(fl, need) # {}
  <2>1. PICK i : i = BestFit(fl, need)
    OBVIOUS
  <2>2. fresh' = <<[foff |-> fl[i].foff, len |-> need]>> /\ fl' = TakeFront(fl, i, need) /\ file_end' = file_end
    BY <1>4, <1>8, <2>1 DEF Alloc, Request
  <2>3. Allocator!ls_alloc_best(n)
    BY <1>1, <1>4, <1>7, <1>8, <2>1, <2>2, AllocatorOps DEF Allocator!ls_alloc_best
  <2> QED
    BY <1>5, <2>3 DEF Allocator!Next
<1>9. CASE /\ Fitting(fl, need) = {}
           /\ fl # << >> /\ fl[Largest(fl)].len >= round_up(Min({LS_MIN_EXTENT, n}))
           /\ fresh' = <<fl[Largest(fl)]>>
           /\ fl' = RemoveAt(fl, Largest(fl)) /\ UNCHANGED file_end
  <2>1. PICK i, m : i = Largest(fl) /\ m = Min({LS_MIN_EXTENT, n})
    OBVIOUS
  <2>2. m \in 1 .. Disk
    <3>1. LS_MIN_EXTENT \in Nat /\ LS_MIN_EXTENT > 0
      BY StoreAssumption
    <3>2. m \in {LS_MIN_EXTENT, n} /\ m <= n
      <4>1. {LS_MIN_EXTENT, n} \in SUBSET Nat /\ {LS_MIN_EXTENT, n} # {}
        BY <1>5, <3>1
      <4> QED
        BY <2>1, <4>1, MinProps
    <3> QED
      BY <1>0, <1>5, <3>1, <3>2
  <2>3. Allocator!ls_alloc_largest(m)
    BY <1>1, <1>7, <1>9, <2>1, AllocatorOps DEF Allocator!ls_alloc_largest
  <2> QED
    BY <2>2, <2>3 DEF Allocator!Next
<1>10. CASE /\ fresh' = <<[foff |-> file_end, len |-> need]>>
            /\ file_end' = file_end + need /\ UNCHANGED fl
  <2>1. file_end <= Disk + LostEnd
    BY <1>0, <1>3, FileOnDisk
  <2>2. need <= n + LS_ALIGN /\ need \in Nat
    BY <1>4, <1>5, RoundUpBelow, RoundUpGrows
  <2>3. file_end + need <= 2 * Disk + LostEnd + LS_ALIGN
    BY <1>0, <1>5, <2>1, <2>2
  <2>4. Allocator!ls_alloc_tail(n)
    BY <1>1, <1>4, <1>7, <1>10, <2>3, AllocatorOps DEF Allocator!ls_alloc_tail
  <2> QED
    BY <1>5, <2>4 DEF Allocator!Next
<1> QED
  BY <1>4, <1>8, <1>9, <1>10 DEF Alloc, Request

\* A record's extents go back together, and so does one that could not be zeroed.
LEMMA GiveBackUsed ==
    ASSUME fresh' = << >>, UNCHANGED <<fl, flcap, file_end, lost>>, dying = << >>,
           Range(dying') \subseteq Extents \cup Range(fresh),
           Extents' = (Extents \cup Range(fresh)) \ Range(dying')
    PROVE  Allocator!Next \/ UNCHANGED Allocator!vars
<1>1. Range(<< >>) = {}
  BY DEF Range
<1>2. Range(dying) = {} /\ Extents' \cup Range(fresh') = Extents'
  BY <1>1
<1>3. CASE Range(dying') = {}
  BY <1>2, <1>3, AllocatorStep
<1>4. CASE Range(dying') # {}
  <2>1. PICK es : es = Range(dying')
    OBVIOUS
  <2>2. /\ Range(dying)' = es /\ (Extents \cup Range(fresh))' = (Extents \cup Range(fresh)) \ es
        /\ es # {} /\ es \in SUBSET (Extents \cup Range(fresh))
    BY <1>2, <1>4, <2>1
  <2>3. Allocator!ls_free_extents(es)
    BY <1>2, <2>2 DEF Allocator!ls_free_extents
  <2> QED
    BY <2>2, <2>3 DEF Allocator!Next
<1> QED
  BY <1>3, <1>4

LEMMA ZeroFailsUsed ==
    ASSUME Safe, NEW t \in Threads, ZeroFails(t)
    PROVE  Allocator!Next \/ UNCHANGED Allocator!vars
<1>0. Types /\ Control /\ Holding /\ Space
  BY DEF Safe
<1>1. pc[t] = "zero" /\ UNCHANGED <<rec, fl, flcap, file_end, lost>> /\ dying' = fresh /\ fresh' = << >>
  BY DEF ZeroFails, space
<1>2. lk = t
  BY <1>0, <1>1 DEF Control, Locked
<1>3. dying = << >>
  BY <1>0, <1>1, <1>2, Hands
<1>4. Extents' = Extents /\ Range(dying') = Range(fresh)
  BY <1>1 DEF Extents
<1>5. Extents \cap Range(fresh) = {}
  BY <1>0 DEF Space
<1>6. Extents' = (Extents \cup Range(fresh)) \ Range(dying')
  BY <1>4, <1>5
<1> QED
  BY <1>1, <1>3, <1>4, <1>6, GiveBackUsed

LEMMA EraseUsed ==
    ASSUME Safe, NEW t \in Threads, NEW c \in Calls, ls_erase(t, c)
    PROVE  Allocator!Next \/ UNCHANGED Allocator!vars
<1>0. Types /\ Control /\ Holding /\ Space /\ Space'
  BY EraseSpace DEF Safe
<1>1. PICK k, x : k = c.key /\ x = rec[k].ext
  OBVIOUS
<1>2. Drops(k) /\ k \in DOMAIN rec
  BY <1>0, <1>1, EraseShape DEF Drops
<1>3. lk = NoThread /\ dying' = x /\ UNCHANGED <<fl, flcap, file_end, lost, fresh>>
  BY <1>1 DEF ls_erase, ls_rec_free, Enter, space
<1>4. fresh = << >> /\ dying = << >> /\ fresh' = << >>
  BY <1>0, <1>3, Hands
<1>5. Range(fresh) = {}
  BY <1>4 DEF Range
<1>6. \A e : e \in Range(dying') <=> \E i \in DOMAIN rec[k].ext : e = rec[k].ext[i]
  BY <1>1, <1>3 DEF Range
<1>7. Extents' \cap Range(dying') = {}
  BY <1>0 DEF Space
<1>8. \A e : e \in Extents <=> e \in Extents' \/ e \in Range(dying')
  <2>1. ASSUME NEW e \in Extents
        PROVE  e \in Extents' \/ e \in Range(dying')
    <3>1. PICK j \in DOMAIN rec : \E i \in DOMAIN rec[j].ext : e = rec[j].ext[i]
      BY ExtentsAre
    <3>2. CASE j = k
      BY <1>6, <3>1, <3>2
    <3>3. CASE j # k
      <4>1. j \in DOMAIN rec' /\ rec'[j].ext = rec[j].ext
        BY <1>2, <3>3 DEF Drops
      <4> QED
        BY <3>1, <4>1, ExtentsAre
    <3> QED
      BY <3>2, <3>3
  <2>2. ASSUME NEW e \in Extents'
        PROVE  e \in Extents
    <3>1. \A j \in DOMAIN rec' : j \in DOMAIN rec /\ rec'[j].ext = rec[j].ext
      BY <1>2 DEF Drops
    <3> QED
      BY <3>1, ExtentsAre
  <2>3. ASSUME NEW e \in Range(dying')
        PROVE  e \in Extents
    BY <1>2, <1>6, ExtentsAre
  <2> QED
    BY <2>1, <2>2, <2>3
<1>9. Extents' = (Extents \cup Range(fresh)) \ Range(dying') /\ Range(dying') \subseteq Extents \cup Range(fresh)
  BY <1>5, <1>7, <1>8
<1> QED
  BY <1>3, <1>4, <1>9, GiveBackUsed

LEMMA FreeUsed ==
    ASSUME Safe, NEW t \in Threads, Free(t)
    PROVE  Allocator!Next
<1>0. Types /\ Control /\ Holding /\ Space
  BY DEF Safe
<1>1. PICK e : e = Head(dying)
  OBVIOUS
<1>2. /\ dying # << >> /\ dying' = Tail(dying) /\ UNCHANGED <<rec, fresh>>
      /\ Inserted(e) \/ Dropped(e)
  BY <1>1 DEF Free
<1>3. /\ e \in Range(dying) /\ Range(dying') = Range(dying) \ {e}
  BY <1>0, <1>1, <1>2, TailRange DEF Space
<1>4. Extents' = Extents /\ Range(fresh') = Range(fresh)
  BY <1>2 DEF Extents
<1>5. /\ Range(dying)' = Range(dying) \ {e}
      /\ (Extents \cup Range(fresh))' = Extents \cup Range(fresh)
  BY <1>3, <1>4
<1>6. CASE Inserted(e)
  <2>1. PICK r : r = fl_insert(fl, file_end, e) /\ r = Allocator!fl_insert(fl, file_end, e)
    BY AllocatorInsert
  <2>2. /\ fl' = r.fl /\ file_end' = r.file_end /\ lost' = lost
        /\ flcap' = IF Full(e) THEN (IF flcap = 0 THEN FlCap0 ELSE 2 * flcap) ELSE flcap
    BY <1>6, <2>1 DEF Inserted
  <2>3. Full(e) = (Allocator!NeedsSlot(fl, e) /\ Len(fl) + 1 > flcap)
    BY AllocatorInsert DEF Full
  <2>4. flcap' = IF Allocator!NeedsSlot(fl, e) /\ Len(fl) + 1 > flcap
                 THEN Allocator!GrownCap ELSE flcap
    BY <2>2, <2>3 DEF Allocator!GrownCap
  <2>5. Allocator!FreeOne(e)
    BY <1>3, <1>5, <2>1, <2>2, <2>4 DEF Allocator!FreeOne
  <2> QED
    BY <1>3, <2>5 DEF Allocator!Next
<1>7. CASE Dropped(e)
  <2>1. /\ Allocator!NeedsSlot(fl, e) /\ Len(fl) + 1 > flcap /\ lost' = lost \cup {e}
        /\ UNCHANGED <<fl, flcap, file_end>>
    BY <1>7, AllocatorInsert DEF Dropped, Full
  <2>2. Allocator!FreeOneNoMem(e)
    BY <1>3, <1>5, <2>1 DEF Allocator!FreeOneNoMem
  <2> QED
    BY <1>3, <2>2 DEF Allocator!Next
<1> QED
  BY <1>2, <1>6, <1>7

LEMMA ZeroUsed ==
    ASSUME Safe, NEW t \in Threads, Zero(t)
    PROVE  UNCHANGED Allocator!vars
<1>0. Types /\ Control /\ Holding /\ Space
  BY DEF Safe
<1>1. PICK k, x, y, e, z : k = Grown(t) /\ x = Append(rec[k].ext, fresh[1])
                           /\ y = rec[k].ext_total + fresh[1].len /\ e = fresh[1] /\ z = rec[k].ext
  OBVIOUS
<1>2. k \in DOMAIN rec /\ Sets(k, [rec[k] EXCEPT !.ext = x, !.ext_total = y]) /\ e \in Extent /\ Len(fresh) = 1
  BY <1>0, <1>1, ZeroEffect
<1>3. rec[k] \in Record
  BY <1>0, <1>2 DEF Types
<1>4. rec'[k].ext = x /\ DOMAIN rec' = DOMAIN rec /\ \A j \in DOMAIN rec \ {k} : rec'[j] = rec[j]
  BY <1>2, <1>3, RecordUpdates DEF Sets
<1>5. fresh' = << >> /\ UNCHANGED <<fl, flcap, file_end, lost, dying>> /\ fresh \in Seq(Extent)
  BY <1>0 DEF Zero, space, Space
<1>6. Range(fresh) = {e} /\ Range(fresh') = {}
  BY <1>1, <1>2, <1>5 DEF Range
<1>7. z \in Seq(Extent) /\ x = Append(z, e)
  BY <1>1, <1>3, RecordFields
<1>8. \A d : (\E i \in DOMAIN x : d = x[i]) <=> d = e \/ \E i \in DOMAIN z : d = z[i]
  <2>1. Len(z) \in Nat /\ DOMAIN z = 1 .. Len(z) /\ DOMAIN x = 1 .. (Len(z) + 1) /\ x[Len(z) + 1] = e
        /\ \A i \in 1 .. Len(z) : x[i] = z[i]
    BY <1>2, <1>7
  <2>2. \A i : i \in 1 .. (Len(z) + 1) <=> i = Len(z) + 1 \/ i \in 1 .. Len(z)
    BY <2>1
  <2> QED
    BY <2>1, <2>2
<1>9. \A d : d \in Extents' <=> d \in Extents \/ d = e
  <2>1. ASSUME NEW d \in Extents' PROVE d \in Extents \/ d = e
    <3>1. PICK j \in DOMAIN rec' : \E i \in DOMAIN rec'[j].ext : d = rec'[j].ext[i]
      BY ExtentsAre
    <3>2. CASE j # k
      BY <1>4, <3>1, <3>2, ExtentsAre
    <3>3. CASE j = k
      BY <1>1, <1>2, <1>4, <1>8, <3>1, <3>3, ExtentsAre
    <3> QED
      BY <3>2, <3>3
  <2>2. ASSUME NEW d \in Extents PROVE d \in Extents'
    <3>1. PICK j \in DOMAIN rec : \E i \in DOMAIN rec[j].ext : d = rec[j].ext[i]
      BY ExtentsAre
    <3>2. CASE j # k
      BY <1>4, <3>1, <3>2, ExtentsAre
    <3>3. CASE j = k
      BY <1>1, <1>2, <1>4, <1>8, <3>1, <3>3, ExtentsAre
    <3> QED
      BY <3>2, <3>3
  <2>3. e \in Extents'
    BY <1>2, <1>4, <1>8, ExtentsAre
  <2> QED
    BY <2>1, <2>2, <2>3
<1>10. Extents' \cup Range(fresh') = Extents \cup Range(fresh)
  BY <1>6, <1>9
<1> QED
  BY <1>5, <1>10, AllocatorStep

\* Every step is one of the allocator's, or none of its business.
LEMMA StepUsed ==
    ASSUME Modest, Safe, OnDisk, \A u \in Threads : Asks(u), [Next]_vars
    PROVE  Allocator!Next \/ UNCHANGED Allocator!vars
<1>1. CASE UNCHANGED vars
  <2>1. UNCHANGED <<rec, fl, flcap, file_end, lost, fresh, dying>>
    BY <1>1 DEF vars, space, lock
  <2>2. Extents' = Extents
    BY <2>1 DEF Extents
  <2> QED
    BY <2>1, <2>2, AllocatorStep
<1>2. CASE Next
  <2>1. PICK t \in Threads : Step(t)
    BY <1>2, NextSteps DEF Safe
  <2>2. CASE \E c \in Calls : ls_erase(t, c)
    BY <2>2, EraseUsed
  <2>3. CASE Alloc(t)
    BY <2>3, AllocUsed
  <2>4. CASE Free(t)
    BY <2>4, FreeUsed
  <2>5. CASE Zero(t)
    BY <2>5, ZeroUsed
  <2>6. CASE ZeroFails(t)
    BY <2>6, ZeroFailsUsed
  <2>7. CASE ~Alloc(t) /\ ~Free(t) /\ ~Zero(t) /\ ~ZeroFails(t) /\ \A c \in Calls : ~ls_erase(t, c)
    <3>1. UNCHANGED <<fl, flcap, file_end, lost, fresh, dying>>
      BY <2>1, <2>7, AllocatorKept, HandsKept
    <3>2. Extents' = Extents
      BY <2>1, <2>7, ExtentsStay
    <3> QED
      BY <3>1, <3>2, AllocatorStep
  <2> QED
    BY <2>2, <2>3, <2>4, <2>5, <2>6, <2>7
<1> QED
  BY <1>1, <1>2

LEMMA InitOnDisk ==
    ASSUME Modest, Init
    PROVE  OnDisk /\ \A u \in Threads : Asks(u)
<1>1. Space /\ lost = {} /\ Disk \in Nat /\ LostEnd \in Nat /\ LS_ALIGN \in Nat
  BY InitSpace, StoreAssumption, AlignAssumption DEF Init
<1>2. file_end = LoadedEnd(Len(Loaded)) /\ file_end \in Nat
  <2>1. Loaded = << >> <=> Len(Loaded) = 0
    BY LoadedAssumption, EmptySeq
  <2>2. file_end = IF Loaded = << >> THEN LS_SUPER_SIZE ELSE End(Loaded[Len(Loaded)].ext)
    BY DEF Init
  <2>3. file_end \in Nat
    BY <1>1 DEF Space, Accounted
  <2> QED
    BY <2>1, <2>2, <2>3 DEF LoadedEnd
<1>3. file_end <= Disk
  BY <1>2 DEF Modest
<1>4. \A e \in Extents : End(e) <= Disk
  <2> SUFFICES ASSUME NEW e \in Extents PROVE End(e) <= Disk
    OBVIOUS
  <2>1. e \in Owned /\ e \in Extent
    BY <1>1, ExtentEnds DEF Owned
  <2>2. End(e) <= file_end /\ End(e) \in Nat
    BY <1>1, <2>1, AccountInside, ExtentEnds DEF Space
  <2> QED
    BY <1>1, <1>2, <1>3, <2>2
<1>5. \A u \in Threads : pc[u] \notin Locked
  BY DEF Init, Locked
<1> QED
  BY <1>1, <1>2, <1>3, <1>4, <1>5 DEF OnDisk, Asks

LEMMA OnDiskSteps ==
    ASSUME Modest, Safe, Safe', OnDisk, \A u \in Threads : Asks(u), [Next]_vars
    PROVE  OnDisk' /\ \A u \in Threads : Asks(u)'
<1>1. CASE UNCHANGED vars
  <2>1. UNCHANGED <<rec, file_end, lost, pc, call>>
    BY <1>1 DEF vars, space, thread
  <2> QED
    BY <2>1 DEF OnDisk, Extents, Asks, Need
<1>2. CASE Next
  <2>1. PICK t \in Threads : Step(t)
    BY <1>2, NextSteps DEF Safe
  <2>2. OnDisk'
    BY <2>1, OnDiskNext
  <2>3. \A u \in Threads : Asks(u)'
    BY <2>1, AsksNext
  <2> QED
    BY <2>2, <2>3
<1> QED
  BY <1>1, <1>2

\* The data path uses the allocator only through its operations, whatever fails
\* and however calls interleave: space is taken from a hole or the tail when
\* nothing is being given back, as much as the rounded deficit; what a record
\* had goes back together, one fl_insert at a time; and nothing else touches the
\* free list.  The hypothesis bounds what is asked for by what the file system
\* has, as the bounds of the allocator's specification do.
THEOREM StoreAllocator ==
    ASSUME Modest
    PROVE  Spec => AllocatorUsed
<1> DEFINE Inv == Safe /\ OnDisk /\ \A u \in Threads : Asks(u)
<1>1. Init => Inv
  BY InitSafe, InitOnDisk
<1>2. Inv /\ [Next]_vars => Inv'
  BY SafeNext, OnDiskSteps
<1>3. Inv /\ [Next]_vars => [Allocator!Next]_(Allocator!vars)
  BY StepUsed
<1> HIDE DEF Inv
<1> QED
  BY <1>1, <1>2, <1>3, PTL DEF Spec, AllocatorUsed
=============================================================================
