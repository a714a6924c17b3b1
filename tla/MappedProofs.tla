---------------------------- MODULE MappedProofs ----------------------------
(***************************************************************************)
(* Proofs about mapped mode: the extent arrays that threads read without   *)
(* the lock, and the mappings made from them.                              *)
(*                                                                         *)
(* The arrays need no promise from callers.  The mappings need the one of  *)
(* MapPermitted.                                                           *)
(***************************************************************************)
EXTENDS Mapped, CommonProofs

Where == {"idle", "grow", "io", "reserve", "stitch", "mapped", "munmap"}

\* Where a thread has a snapshot, is making a mapping, and has one of its own.
Reading == {"io", "reserve", "stitch", "mapped"}
Mapping == {"reserve", "stitch", "mapped"}
Basing == {"stitch", "mapped", "munmap"}

DataExtent == [foff : Nat \ {0}, len : Nat \ {0}]
Record == [ext : Nat, next : Nat, ncap : Nat, size : Nat, busy : Int,
           map_addr : Nat, map_len : Nat]

Types ==
    /\ DOMAIN rec \subseteq Keys
    /\ \A k \in DOMAIN rec : rec[k] \in Record
    /\ IsFiniteSet(DOMAIN arr) /\ DOMAIN arr \subseteq Nat \ {0}
    /\ \A a \in DOMAIN arr : arr[a] \in Seq(DataExtent)
    /\ IsFiniteSet(DOMAIN vm) /\ DOMAIN vm \subseteq Nat \ {0}
    /\ free \subseteq Nat \ {0}
    /\ closed \in BOOLEAN
    /\ lk \in Threads \cup {NoThread}
    /\ pc \in [Threads -> Where]
    /\ need \in [Threads -> Nat]
    /\ base \in [Threads -> Nat]
    /\ slices \in [Threads -> Nat]
    /\ DOMAIN key = Threads
    /\ DOMAIN snap = Threads
    /\ DOMAIN handed = Keys

Control ==
    /\ \A t \in Threads : pc[t] = "grow" <=> lk = t
    /\ \A t \in Threads : pc[t] # "idle" => key[t] \in DOMAIN rec
    /\ \A t \in Threads : pc[t] = "grow" => need[t] # 0
    /\ closed => rec = << >> /\ \A t \in Threads : pc[t] = "idle"

\* A record's array is its own, and has its extents and nothing else.
Array(r) ==
    IF r.ext = NULL THEN r.next = 0 /\ r.ncap = 0 /\ r.size = 0
    ELSE /\ r.ext \in DOMAIN arr /\ r.ext \notin retired
         /\ Len(arr[r.ext]) = r.next /\ r.next # 0

Arrays ==
    /\ \A k \in DOMAIN rec : Array(rec[k])
    /\ \A k, l \in DOMAIN rec : rec[k].ext = rec[l].ext /\ rec[k].ext # NULL => k = l
    /\ retired \subseteq DOMAIN arr
    /\ \A a \in DOMAIN arr : a \in retired \/ \E k \in DOMAIN rec : rec[k].ext = a

\* The entries of the array that a snapshot covers.
Seen(t) == SubSeq(arr[snap[t].ext], 1, snap[t].next)

\* A snapshot's array is the record's or retired, and holds what it held.
Snapshot(t) ==
    /\ snap[t].ext \in DOMAIN arr
    /\ snap[t].ext \in retired \/ snap[t].ext = rec[key[t]].ext
    /\ snap[t].next \in Nat \ {0} /\ snap[t].next <= Len(arr[snap[t].ext])
    /\ IsPrefix(Seen(t), Extents(rec[key[t]]))

Snapshots == \A t \in Threads : pc[t] \in Reading => Snapshot(t)

\* The part of the invariant that callers' mistakes leave alone.
Live == Types /\ Control /\ Arrays /\ Snapshots

-----------------------------------------------------------------------------
\* The blocks that extents have between them, and those of a record.
Cover(x) == UNION {Range(BlocksOf(x[i])) : i \in DOMAIN x}
Own(k) == Cover(Extents(rec[k]))

Owners ==
    /\ \A k \in DOMAIN rec : Own(k) \cap free = {}
    /\ \A k, l \in DOMAIN rec : k # l => Own(k) \cap Own(l) = {}
    /\ \A k \in DOMAIN rec : rec[k].size <= ext_total(rec[k])

\* A record's mapping shows the record, as it was or as it is.
Mapped(k) ==
    rec[k].map_addr # NULL =>
        /\ rec[k].map_addr \in DOMAIN vm
        /\ vm[rec[k].map_addr] \in Seq(Nat \ {0})
        /\ Len(vm[rec[k].map_addr]) = rec[k].map_len
        /\ IsPrefix(vm[rec[k].map_addr], Shown(Extents(rec[k])))

\* A mapping for extents x that has the first n of them, and nothing yet in
\* the place of the others.
Stitched(v, x, n) ==
    /\ v \in Seq(Nat) /\ Len(v) = Len(Shown(x))
    /\ \A i \in 1 .. Len(v) :
          v[i] = IF i <= Len(Shown(SubSeq(x, 1, n))) THEN Shown(SubSeq(x, 1, n))[i] ELSE PROT_NONE

\* What a thread that makes a mapping, or takes one down, has to show for it.
Maps(t) ==
    /\ base[t] # NULL =>
          /\ pc[t] \in Basing /\ base[t] \in DOMAIN vm /\ vm[base[t]] \in Seq(Nat)
          /\ Range(vm[base[t]]) \subseteq Own(key[t]) \cup {PROT_NONE}
    /\ pc[t] \in Mapping =>
          /\ rec[key[t]].map_addr = NULL
          /\ IsPrefix(Shown(Seen(t)), Shown(Extents(rec[key[t]])))
          /\ need[t] <= Len(Shown(Seen(t)))
    /\ pc[t] \notin {"stitch", "mapped"} => slices[t] = 0
    /\ pc[t] = "stitch" =>
          slices[t] < snap[t].next /\ base[t] # NULL /\ Stitched(vm[base[t]], Seen(t), slices[t])
    /\ pc[t] = "mapped" /\ base[t] # NULL => Stitched(vm[base[t]], Seen(t), snap[t].next)
    /\ pc[t] = "munmap" => base[t] # NULL /\ Len(vm[base[t]]) = need[t]

\* No two have a mapping in common, and every mapping is somebody's.
MapsApart ==
    /\ \A k, l \in DOMAIN rec : rec[k].map_addr = rec[l].map_addr /\ rec[k].map_addr # NULL => k = l
    /\ \A t, u \in Threads : base[t] = base[u] /\ base[t] # NULL => t = u
    /\ \A k \in DOMAIN rec, t \in Threads : rec[k].map_addr = base[t] => base[t] = NULL
    /\ \A a \in DOMAIN vm :
          (\E k \in DOMAIN rec : rec[k].map_addr = a) \/ (\E t \in Threads : base[t] = a)
    /\ \A t, u \in Threads : pc[t] \in Mapping /\ pc[u] \in Mapping /\ key[t] = key[u] => t = u

\* What callers were handed is in the record's mapping.
Handed ==
    \A k \in Keys : \A h \in handed[k] :
        /\ k \in DOMAIN rec /\ rec[k].map_addr # NULL
        /\ h.addr = rec[k].map_addr /\ h.len \in Nat /\ (h.outgrown \/ h.len <= rec[k].map_len)

Mappings ==
    /\ \A k \in DOMAIN rec : Mapped(k)
    /\ \A t \in Threads : Maps(t)

Clean == Live /\ Owners /\ Mappings /\ MapsApart /\ Handed /\ ClosedClean

-----------------------------------------------------------------------------
(* Sequences.                                                              *)

LEMMA SubSeqProps ==
    ASSUME NEW T, NEW x \in Seq(T), NEW n \in Nat, n <= Len(x)
    PROVE  /\ SubSeq(x, 1, n) \in Seq(T) /\ Len(SubSeq(x, 1, n)) = n
           /\ \A i \in 1 .. n : SubSeq(x, 1, n)[i] = x[i]
  OBVIOUS

LEMMA SubSeqAll ==
    ASSUME NEW T, NEW x \in Seq(T)
    PROVE  SubSeq(x, 1, Len(x)) = x
  OBVIOUS

LEMMA SubSeqAppend ==
    ASSUME NEW T, NEW x \in Seq(T), NEW e \in T, NEW n \in Nat, n <= Len(x)
    PROVE  SubSeq(Append(x, e), 1, n) = SubSeq(x, 1, n)
<1>1. PICK y : y = Append(x, e)
  OBVIOUS
<1>2. y \in Seq(T) /\ Len(y) = Len(x) + 1 /\ \A i \in 1 .. Len(x) : y[i] = x[i]
  BY <1>1
<1>3. SubSeq(y, 1, n) = SubSeq(x, 1, n)
  BY <1>2
<1> QED
  BY <1>1, <1>3

LEMMA SubSeqNext ==
    ASSUME NEW T, NEW x \in Seq(T), NEW n \in Nat, n < Len(x)
    PROVE  SubSeq(x, 1, n + 1) = Append(SubSeq(x, 1, n), x[n + 1])
<1>1. PICK y, z : y = SubSeq(x, 1, n) /\ z = SubSeq(x, 1, n + 1)
  OBVIOUS
<1>2. /\ y \in Seq(T) /\ Len(y) = n /\ \A i \in 1 .. n : y[i] = x[i]
      /\ z \in Seq(T) /\ Len(z) = n + 1 /\ \A i \in 1 .. (n + 1) : z[i] = x[i]
      /\ x[n + 1] \in T
  BY <1>1
<1>3. z = Append(y, x[n + 1])
  BY <1>2
<1> QED
  BY <1>1, <1>3

LEMMA PrefixProps ==
    ASSUME NEW T, NEW s \in Seq(T), NEW x \in Seq(T), IsPrefix(s, x), NEW y \in Seq(T)
    PROVE  /\ IsPrefix(s, x \o y)
           /\ Len(s) <= Len(x) /\ \A i \in DOMAIN s : i \in DOMAIN x /\ s[i] = x[i]
<1>1. Len(s) <= Len(x) /\ SubSeq(s, 1, Len(s)) = SubSeq(x, 1, Len(s))
  BY DEF IsPrefix
<1>2. PICK n, z : n = Len(s) /\ z = x \o y
  OBVIOUS
<1>3. n \in Nat /\ z \in Seq(T) /\ Len(z) >= Len(x) /\ \A i \in 1 .. Len(x) : z[i] = x[i]
  BY <1>2
<1>4. SubSeq(z, 1, n) = SubSeq(x, 1, n)
  BY <1>1, <1>2, <1>3
<1>5. IsPrefix(s, z)
  BY <1>1, <1>2, <1>3, <1>4 DEF IsPrefix
<1>6. \A i \in 1 .. n : SubSeq(s, 1, n)[i] = s[i] /\ SubSeq(x, 1, n)[i] = x[i]
  BY <1>1, <1>2, <1>3
<1>7. \A i \in DOMAIN s : i \in DOMAIN x /\ s[i] = x[i]
  BY <1>1, <1>2, <1>6
<1> QED
  BY <1>1, <1>2, <1>5, <1>7

LEMMA PrefixSelf ==
    ASSUME NEW T, NEW x \in Seq(T)
    PROVE  IsPrefix(x, x)
  BY DEF IsPrefix

LEMMA PrefixAppend ==
    ASSUME NEW T, NEW s \in Seq(T), NEW x \in Seq(T), IsPrefix(s, x), NEW e \in T
    PROVE  IsPrefix(s, Append(x, e))
<1>1. PICK y : y = <<e>>
  OBVIOUS
<1>2. y \in Seq(T)
  BY <1>1
<1>3. Append(x, e) = x \o y
  BY <1>1
<1>4. IsPrefix(s, x \o y)
  BY <1>2, PrefixProps
<1> QED
  BY <1>3, <1>4

-----------------------------------------------------------------------------
(* Extents and the blocks they show.                                       *)

LEMMA BlocksOfTyped ==
    ASSUME NEW e \in DataExtent
    PROVE  BlocksOf(e) \in Seq(Nat \ {0}) /\ Len(BlocksOf(e)) = e.len
           /\ e.len \in Nat \ {0} /\ e.foff \in Nat \ {0}
<1>1. e.foff \in Nat \ {0} /\ e.len \in Nat \ {0}
  BY DEF DataExtent
<1>2. PICK n, m : n = e.len /\ m = e.foff
  OBVIOUS
<1>3. \A i \in 1 .. n : m + i - 1 \in Nat \ {0}
  BY <1>1, <1>2
<1>4. BlocksOf(e) = [i \in 1 .. n |-> m + i - 1]
  BY <1>2 DEF BlocksOf
<1>5. n \in Nat
  BY <1>1, <1>2
<1>6. [i \in 1 .. n |-> m + i - 1] \in Seq(Nat \ {0})
  BY <1>3, <1>5
<1> QED
  BY <1>1, <1>2, <1>4, <1>5, <1>6

\* The blocks of extents one by one.
Parts(x) == [i \in DOMAIN x |-> BlocksOf(x[i])]

LEMMA PartsTyped ==
    ASSUME NEW x \in Seq(DataExtent)
    PROVE  Parts(x) \in Seq(Seq(Nat \ {0})) /\ Len(Parts(x)) = Len(x)
           /\ \A i \in 1 .. Len(x) : Parts(x)[i] = BlocksOf(x[i])
<1>1. Len(x) \in Nat /\ DOMAIN x = 1 .. Len(x) /\ \A i \in 1 .. Len(x) : x[i] \in DataExtent
  OBVIOUS
<1>2. PICK B : B = Seq(Nat \ {0})
  OBVIOUS
<1>3. \A i \in 1 .. Len(x) : BlocksOf(x[i]) \in B
  BY <1>1, <1>2, BlocksOfTyped
<1>4. Parts(x) = [i \in 1 .. Len(x) |-> BlocksOf(x[i])]
  BY <1>1 DEF Parts
<1>5. Parts(x) \in Seq(B)
  BY <1>1, <1>3, <1>4
<1> QED
  BY <1>1, <1>2, <1>4, <1>5

LEMMA ShownTyped ==
    ASSUME NEW x \in Seq(DataExtent)
    PROVE  Shown(x) \in Seq(Nat \ {0}) /\ Len(Shown(x)) \in Nat
<1>1. Shown(x) = FlattenSeq(Parts(x))
  BY DEF Shown, Parts
<1>2. Shown(x) \in Seq(Nat \ {0})
  BY <1>1, PartsTyped, FlattenTyped
<1> QED
  BY <1>2

LEMMA ShownEmpty == Shown(<< >>) = << >>
<1>1. PICK x : x = << >>
  OBVIOUS
<1>2. Parts(x) = << >>
  BY <1>1 DEF Parts
<1>3. FlattenSeq(<< >>) = << >>
  BY DEF FlattenSeq
<1>4. Shown(x) = FlattenSeq(Parts(x))
  BY DEF Shown, Parts
<1> QED
  BY <1>1, <1>2, <1>3, <1>4

LEMMA ShownAppend ==
    ASSUME NEW x \in Seq(DataExtent), NEW e \in DataExtent
    PROVE  Shown(Append(x, e)) = Shown(x) \o BlocksOf(e)
<1>1. PICK y, p, b, q : y = Append(x, e) /\ p = Parts(x) /\ b = BlocksOf(e) /\ q = Parts(y)
  OBVIOUS
<1>2. /\ y \in Seq(DataExtent) /\ Len(x) \in Nat /\ Len(y) = Len(x) + 1 /\ y[Len(x) + 1] = e
      /\ \A i \in 1 .. Len(x) : y[i] = x[i]
  BY <1>1
<1>3. /\ p \in Seq(Seq(Nat \ {0})) /\ Len(p) = Len(x)
      /\ \A i \in 1 .. Len(x) : p[i] = BlocksOf(x[i])
  BY <1>1, PartsTyped
<1>4. /\ q \in Seq(Seq(Nat \ {0})) /\ Len(q) = Len(x) + 1
      /\ \A i \in 1 .. (Len(x) + 1) : q[i] = BlocksOf(y[i])
  BY <1>1, <1>2, PartsTyped
<1>5. b \in Seq(Nat \ {0})
  BY <1>1, BlocksOfTyped
<1>6. \A i \in 1 .. Len(x) : q[i] = p[i]
  BY <1>2, <1>3, <1>4
<1>7. q[Len(x) + 1] = b
  BY <1>1, <1>2, <1>4
<1>8. q = Append(p, b)
  <2>1. PICK B : B = Seq(Nat \ {0})
    OBVIOUS
  <2>2. p \in Seq(B) /\ q \in Seq(B) /\ b \in B
    BY <1>3, <1>4, <1>5, <2>1
  <2> QED
    BY <1>2, <1>3, <1>4, <1>6, <1>7, <2>2
<1>9. FlattenSeq(q) = FlattenSeq(p) \o b
  BY <1>3, <1>5, <1>8, FlattenAppend
<1>10. Shown(x) = FlattenSeq(p) /\ Shown(y) = FlattenSeq(q)
  BY <1>1 DEF Shown, Parts
<1> QED
  BY <1>1, <1>9, <1>10

LEMMA CoverIs ==
    ASSUME NEW x, NEW b
    PROVE  b \in Cover(x) <=> \E i \in DOMAIN x : b \in Range(BlocksOf(x[i]))
  BY DEF Cover

LEMMA RangeConcat ==
    ASSUME NEW T, NEW x \in Seq(T), NEW y \in Seq(T)
    PROVE  Range(x \o y) = Range(x) \cup Range(y)
<1>1. PICK z, m, n : z = x \o y /\ m = Len(x) /\ n = Len(y)
  OBVIOUS
<1>2. /\ m \in Nat /\ n \in Nat /\ DOMAIN x = 1 .. m /\ DOMAIN y = 1 .. n /\ DOMAIN z = 1 .. (m + n)
      /\ \A i \in 1 .. m : z[i] = x[i]
      /\ \A i \in 1 .. n : z[m + i] = y[i]
  BY <1>1
<1>3. \A i \in 1 .. m : i \in 1 .. (m + n)
  BY <1>2
<1>4. \A i \in 1 .. n : m + i \in 1 .. (m + n)
  BY <1>2
<1>5. \A i \in 1 .. (m + n) : i \in 1 .. m \/ (i - m \in 1 .. n /\ m + (i - m) = i)
  BY <1>2
<1>6. ASSUME NEW i \in 1 .. (m + n)
      PROVE  z[i] \in Range(x) \cup Range(y)
  <2>1. CASE i \in 1 .. m
    BY <1>2, <2>1 DEF Range
  <2>2. CASE i - m \in 1 .. n /\ m + (i - m) = i
    <3>1. z[i] = y[i - m]
      BY <1>2, <2>2
    <3> QED
      BY <1>2, <2>2, <3>1 DEF Range
  <2> QED
    BY <1>5, <2>1, <2>2
<1>7. Range(x) \cup Range(y) \subseteq Range(z)
  BY <1>2, <1>3, <1>4 DEF Range
<1>8. Range(z) \subseteq Range(x) \cup Range(y)
  BY <1>2, <1>6 DEF Range
<1> QED
  BY <1>1, <1>7, <1>8

LEMMA CoverAppend ==
    ASSUME NEW x \in Seq(DataExtent), NEW e \in DataExtent
    PROVE  Cover(Append(x, e)) = Cover(x) \cup Range(BlocksOf(e))
<1>1. PICK y, n : y = Append(x, e) /\ n = Len(x)
  OBVIOUS
<1>2. /\ n \in Nat /\ DOMAIN x = 1 .. n /\ DOMAIN y = 1 .. (n + 1) /\ y[n + 1] = e
      /\ \A i \in 1 .. n : y[i] = x[i]
  BY <1>1
<1>3. \A i \in 1 .. (n + 1) : i = n + 1 \/ i \in 1 .. n
  BY <1>2
<1>4. n + 1 \in 1 .. (n + 1) /\ \A i \in 1 .. n : i \in 1 .. (n + 1)
  BY <1>2
<1>5. \A b : b \in Cover(y) <=> (b \in Cover(x) \/ b \in Range(BlocksOf(e)))
  <2> TAKE b
  <2>1. ASSUME b \in Cover(y) PROVE b \in Cover(x) \/ b \in Range(BlocksOf(e))
    <3>1. PICK i \in 1 .. (n + 1) : b \in Range(BlocksOf(y[i]))
      BY <1>2, <2>1, CoverIs
    <3> QED
      BY <1>2, <1>3, <3>1, CoverIs
  <2>2. ASSUME b \in Cover(x) PROVE b \in Cover(y)
    <3>1. PICK i \in 1 .. n : b \in Range(BlocksOf(x[i]))
      BY <1>2, <2>2, CoverIs
    <3> QED
      BY <1>2, <1>4, <3>1, CoverIs
  <2>3. ASSUME b \in Range(BlocksOf(e)) PROVE b \in Cover(y)
    BY <1>2, <1>4, <2>3, CoverIs
  <2> QED
    BY <2>1, <2>2, <2>3
<1> QED
  BY <1>1, <1>5

\* What extents show is what they have.
LEMMA ShownRange ==
    ASSUME NEW x \in Seq(DataExtent)
    PROVE  Range(Shown(x)) = Cover(x)
<1> DEFINE S(n) == SubSeq(x, 1, n)
           P == {n \in Nat : n <= Len(x) => Range(Shown(S(n))) = Cover(S(n))}
<1>0. Len(x) \in Nat
  OBVIOUS
<1>1. 0 \in P
  <2>1. S(0) = << >>
    OBVIOUS
  <2>2. Range(<< >>) = {}
    BY DEF Range
  <2>3. Cover(<< >>) = {}
    BY DEF Cover
  <2> QED
    BY <2>1, <2>2, <2>3, ShownEmpty
<1>2. ASSUME NEW n \in P
      PROVE  n + 1 \in P
  <2>1. n \in Nat /\ (n <= Len(x) => Range(Shown(S(n))) = Cover(S(n)))
    OBVIOUS
  <2>2. ASSUME n + 1 <= Len(x)
        PROVE  Range(Shown(S(n + 1))) = Cover(S(n + 1))
    <3>1. n <= Len(x) /\ n < Len(x) /\ x[n + 1] \in DataExtent
      BY <1>0, <2>1, <2>2
    <3>2. PICK y, e : y = S(n) /\ e = x[n + 1]
      OBVIOUS
    <3>3. y \in Seq(DataExtent) /\ e \in DataExtent /\ S(n + 1) = Append(y, e)
      <4>1. x[n + 1] \in DataExtent /\ n \in Nat /\ n <= Len(x)
        BY <2>1, <3>1
      <4>2. SubSeq(x, 1, n) \in Seq(DataExtent)
            /\ SubSeq(x, 1, n + 1) = Append(SubSeq(x, 1, n), x[n + 1])
        BY <3>1, <4>1, SubSeqProps, SubSeqNext
      <4> QED
        BY <3>1, <3>2, <4>2
    <3>4. Shown(Append(y, e)) = Shown(y) \o BlocksOf(e)
      BY <3>3, ShownAppend
    <3>5. Range(Shown(y) \o BlocksOf(e)) = Range(Shown(y)) \cup Range(BlocksOf(e))
      BY <3>3, ShownTyped, BlocksOfTyped, RangeConcat
    <3>6. Cover(Append(y, e)) = Cover(y) \cup Range(BlocksOf(e))
      BY <3>3, CoverAppend
    <3>7. Range(Shown(y)) = Cover(y)
      BY <2>1, <3>1, <3>2
    <3> HIDE DEF S
    <3> QED
      BY <3>3, <3>4, <3>5, <3>6, <3>7
  <2> HIDE DEF S
  <2> QED
    BY <2>1, <2>2
<1>3. P = Nat
  <2>1. P \in SUBSET Nat
    OBVIOUS
  <2> HIDE DEF P
  <2> QED
    BY <1>1, <1>2, <2>1, NatSet
<1>4. Range(Shown(S(Len(x)))) = Cover(S(Len(x)))
  <2>1. Len(x) \in P /\ Len(x) <= Len(x)
    <3> HIDE DEF P
    <3> QED
      BY <1>0, <1>3
  <2> QED
    BY <2>1
<1>5. S(Len(x)) = x
  OBVIOUS
<1> QED
  BY <1>4, <1>5

-----------------------------------------------------------------------------
(* The arrays of records and of snapshots.                                 *)

LEMMA FreshIs ==
    ASSUME NEW S, IsFiniteSet(S)
    PROVE  Fresh(S) \in Nat \ {0} /\ Fresh(S) \notin S
<1>1. \E a \in 1 .. (Cardinality(S) + 1) : a \notin S
  BY FreshExists
<1>2. Fresh(S) \in 1 .. (Cardinality(S) + 1) /\ Fresh(S) \notin S
  BY <1>1 DEF Fresh
<1>3. Cardinality(S) \in Nat
  BY FS_CardinalityType
<1> QED
  BY <1>2, <1>3

LEMMA ExtentsAre ==
    ASSUME Live, NEW k \in DOMAIN rec
    PROVE  /\ Extents(rec[k]) \in Seq(DataExtent) /\ Len(Extents(rec[k])) = rec[k].next
           /\ rec[k].ext # NULL => rec[k].ext \in DOMAIN arr /\ Extents(rec[k]) = arr[rec[k].ext]
           /\ rec[k].ext = NULL => Extents(rec[k]) = << >>
<1>1. Array(rec[k])
  BY DEF Live, Arrays
<1>2. CASE rec[k].ext = NULL
  BY <1>1, <1>2 DEF Array, Extents
<1>3. CASE rec[k].ext # NULL
  <2>1. PICK x : x = arr[rec[k].ext]
    OBVIOUS
  <2>2. x \in Seq(DataExtent) /\ Len(x) = rec[k].next /\ rec[k].ext \in DOMAIN arr
    BY <1>1, <1>3, <2>1 DEF Array, Live, Types
  <2>3. SubSeq(x, 1, Len(x)) = x
    BY <2>2, SubSeqAll
  <2>4. Extents(rec[k]) = x
    BY <1>3, <2>1, <2>2, <2>3 DEF Extents
  <2> QED
    BY <1>3, <2>1, <2>2, <2>4
<1> QED
  BY <1>2, <1>3

LEMMA SnapshotIs ==
    ASSUME Live, NEW t \in Threads, pc[t] \in Reading
    PROVE  /\ key[t] \in DOMAIN rec
           /\ snap[t].ext \in DOMAIN arr /\ arr[snap[t].ext] \in Seq(DataExtent)
           /\ snap[t].next \in Nat \ {0} /\ snap[t].next <= Len(arr[snap[t].ext])
           /\ Seen(t) \in Seq(DataExtent) /\ Len(Seen(t)) = snap[t].next
           /\ IsPrefix(Seen(t), Extents(rec[key[t]]))
           /\ snap[t].ext \in retired \/ snap[t].ext = rec[key[t]].ext
<1>1. Snapshot(t)
  BY DEF Live, Snapshots
<1>2. PICK x, n : x = arr[snap[t].ext] /\ n = snap[t].next
  OBVIOUS
<1>3. x \in Seq(DataExtent) /\ n \in Nat \ {0} /\ n <= Len(x)
  BY <1>1, <1>2 DEF Snapshot, Live, Types
<1>4. SubSeq(x, 1, n) \in Seq(DataExtent) /\ Len(SubSeq(x, 1, n)) = n
  BY <1>3, SubSeqProps
<1>5. Seen(t) = SubSeq(x, 1, n)
  BY <1>2 DEF Seen
<1>6. key[t] \in DOMAIN rec
  BY DEF Live, Control, Reading
<1> QED
  BY <1>1, <1>2, <1>3, <1>4, <1>5, <1>6 DEF Snapshot

LEMMA BeforeIs ==
    ASSUME Live, NEW t \in Threads, pc[t] \in Reading, NEW i \in Nat, i <= snap[t].next
    PROVE  /\ Before(t, i) = Len(Shown(SubSeq(arr[snap[t].ext], 1, i)))
           /\ Before(t, i) \in Nat
           /\ SubSeq(arr[snap[t].ext], 1, i) \in Seq(DataExtent)
           /\ Len(SubSeq(arr[snap[t].ext], 1, i)) = i
<1>1. PICK x, n : x = arr[snap[t].ext] /\ n = snap[t].next
  OBVIOUS
<1>2. x \in Seq(DataExtent) /\ n \in Nat /\ i <= Len(x)
  BY <1>1, SnapshotIs
<1>3. SubSeq(x, 1, i) \in Seq(DataExtent) /\ Len(SubSeq(x, 1, i)) = i
  BY <1>2, SubSeqProps
<1>4. SubSeq(x, 1, i) = [j \in 1 .. i |-> x[j]]
  BY <1>2
<1>5. Before(t, i) = Len(Shown(SubSeq(x, 1, i)))
  BY <1>1, <1>4 DEF Before, Entry
<1>6. Len(Shown(SubSeq(x, 1, i))) \in Nat
  BY <1>3, ShownTyped
<1> QED
  BY <1>1, <1>3, <1>5, <1>6

LEMMA BeforeAll ==
    ASSUME Live, NEW t \in Threads, pc[t] \in Reading
    PROVE  Before(t, snap[t].next) = Len(Shown(Seen(t))) /\ Before(t, snap[t].next) \in Nat
<1>1. snap[t].next \in Nat /\ snap[t].next <= snap[t].next
  BY SnapshotIs
<1> QED
  BY <1>1, BeforeIs DEF Seen

\* A step that leaves the arrays alone, and the records' places in them.
Still ==
    /\ arr' = arr /\ retired' = retired
    /\ DOMAIN rec \subseteq DOMAIN rec'
    /\ \A k \in DOMAIN rec :
          /\ rec'[k].ext = rec[k].ext /\ rec'[k].next = rec[k].next /\ rec'[k].ncap = rec[k].ncap
          /\ rec[k].ext = NULL => rec'[k].size = rec[k].size
    /\ \A k \in DOMAIN rec' : k \in DOMAIN rec \/ rec'[k] = NewRec

\* A step of t, as far as snapshots go.
Others(t) == \A u \in Threads : u # t => pc'[u] = pc[u] /\ key'[u] = key[u] /\ snap'[u] = snap[u]

Takes(t) ==
    \/ pc'[t] \notin Reading
    \/ pc[t] \in Reading /\ key'[t] = key[t] /\ snap'[t] = snap[t]
    \/ \E k \in DOMAIN rec : rec[k].ext # NULL /\ key'[t] = k /\ snap'[t] = ls_place_of(rec[k])

LEMMA StillSeen ==
    ASSUME Live, Still, NEW t \in Threads, pc[t] \in Reading, key'[t] = key[t], snap'[t] = snap[t]
    PROVE  Snapshot(t)'
<1>1. PICK k, s, x : k = key[t] /\ s = snap[t] /\ x = arr
  OBVIOUS
<1>2. k \in DOMAIN rec /\ Snapshot(t)
  BY <1>1 DEF Live, Snapshots, Control, Reading
<1>3. /\ k = key'[t] /\ s = snap'[t] /\ x = arr' /\ retired' = retired
      /\ rec'[k].ext = rec[k].ext /\ rec'[k].next = rec[k].next
  BY <1>1, <1>2 DEF Still
<1>4. Extents(rec[key[t]])' = Extents(rec[key[t]])
  BY <1>1, <1>3 DEF Extents
<1>5. Seen(t)' = Seen(t)
  BY <1>1, <1>3 DEF Seen
<1> QED
  BY <1>1, <1>2, <1>3, <1>4, <1>5 DEF Snapshot

LEMMA StillTaken ==
    ASSUME Live, Still, NEW t \in Threads, NEW k \in DOMAIN rec, rec[k].ext # NULL, key'[t] = k,
           snap'[t] = ls_place_of(rec[k])
    PROVE  Snapshot(t)'
<1>1. PICK x, a, n : x = arr /\ a = rec[k].ext /\ n = rec[k].next
  OBVIOUS
<1>2. /\ a \in DOMAIN x /\ x[a] \in Seq(DataExtent) /\ Len(x[a]) = n /\ n \in Nat \ {0}
  <2>1. Array(rec[k])
    BY DEF Live, Arrays
  <2> QED
    BY <1>1, <2>1 DEF Live, Types, Array
<1>3. /\ arr' = x /\ rec'[k].ext = a /\ rec'[k].next = n /\ snap'[t].ext = a /\ snap'[t].next = n
  BY <1>1 DEF Still, ls_place_of
<1>4. PICK y : y = SubSeq(x[a], 1, n)
  OBVIOUS
<1>5. y \in Seq(DataExtent)
  BY <1>2, <1>4, SubSeqProps
<1>6. Seen(t)' = y
  BY <1>3, <1>4 DEF Seen
<1>7. Extents(rec[key[t]])' = y
  BY <1>1, <1>3, <1>4 DEF Extents
<1>8. IsPrefix(y, y)
  BY <1>5, PrefixSelf
<1>9. snap'[t].next <= Len(arr'[snap'[t].ext]) /\ snap'[t].ext \in DOMAIN arr'
  BY <1>2, <1>3
<1> QED
  BY <1>2, <1>3, <1>6, <1>7, <1>8, <1>9 DEF Snapshot

LEMMA StillArrays ==
    ASSUME Live, Still
    PROVE  Arrays'
<1>1. ASSUME NEW k \in DOMAIN rec'
      PROVE  Array(rec[k])'
  <2>1. CASE k \in DOMAIN rec
    <3>1. Array(rec[k])
      BY <2>1 DEF Live, Arrays
    <3> QED
      BY <2>1, <3>1 DEF Still, Array
  <2>2. CASE k \notin DOMAIN rec
    BY <2>2 DEF Still, Array, NewRec
  <2> QED
    BY <2>1, <2>2
<1>2. \A k \in DOMAIN rec' : rec'[k].ext # NULL => k \in DOMAIN rec /\ rec[k].ext = rec'[k].ext
  BY DEF Still, NewRec
<1>3. (\A k, l \in DOMAIN rec : rec[k].ext = rec[l].ext /\ rec[k].ext # NULL => k = l)'
  BY <1>2 DEF Live, Arrays
<1>4. (retired \subseteq DOMAIN arr)'
  BY DEF Live, Arrays, Still
<1>5. (\A a \in DOMAIN arr : a \in retired \/ \E k \in DOMAIN rec : rec[k].ext = a)'
  BY DEF Live, Arrays, Still
<1> QED
  BY <1>1, <1>3, <1>4, <1>5 DEF Arrays

LEMMA StillLive ==
    ASSUME Live, Still, Types', Control', NEW t \in Threads, Others(t), Takes(t)
    PROVE  Live'
<1>1. ASSUME NEW u \in Threads, pc'[u] \in Reading
      PROVE  Snapshot(u)'
  <2>1. CASE u # t
    BY <1>1, <2>1, StillSeen DEF Others
  <2>2. CASE u = t
    BY <1>1, <2>2, StillSeen, StillTaken DEF Takes
  <2> QED
    BY <2>1, <2>2
<1> QED
  BY <1>1, StillArrays DEF Live, Snapshots

-----------------------------------------------------------------------------
(* One lemma per operation: the arrays and the snapshots.                  *)

\* The table of contents after a step on record k.
Sets(k, r) ==
    /\ DOMAIN rec' = DOMAIN rec \cup {k}
    /\ rec'[k] = r
    /\ \A l \in DOMAIN rec : l # k => rec'[l] = rec[l]

LEMMA SetsRecord ==
    ASSUME NEW k \in DOMAIN rec, NEW r, rec' = [rec EXCEPT ![k] = r]
    PROVE  Sets(k, r)
  BY DEF Sets

\* A record that is where it was in the arrays.
Stays(k, r) ==
    /\ k \in DOMAIN rec
    /\ r.ext = rec[k].ext /\ r.next = rec[k].next /\ r.ncap = rec[k].ncap
    /\ rec[k].ext = NULL => r.size = rec[k].size

LEMMA SetsStill ==
    ASSUME NEW k, NEW r, Sets(k, r), Stays(k, r), arr' = arr, retired' = retired
    PROVE  Still /\ DOMAIN rec' = DOMAIN rec
  BY DEF Sets, Stays, Still

LEMMA SameStill ==
    ASSUME rec' = rec, arr' = arr, retired' = retired
    PROVE  Still
  BY DEF Still

LEMMA SetsTyped ==
    ASSUME Types, NEW k \in Keys, NEW r \in Record, Sets(k, r)
    PROVE  DOMAIN rec' \subseteq Keys /\ \A l \in DOMAIN rec' : rec'[l] \in Record
  BY DEF Sets, Types

LEMMA Sized ==
    ASSUME Live, NEW k \in DOMAIN rec, rec[k].size > 0
    PROVE  rec[k].ext # NULL
  BY DEF Live, Types, Record, Arrays, Array

LEMMA ReadLive ==
    ASSUME Live, NEW t \in Threads, NEW k \in Keys, ls_read(t, k)
    PROVE  Live'
<1>1. PICK r : r = [rec[k] EXCEPT !.busy = @ + 1]
  OBVIOUS
<1>2. k \in DOMAIN rec /\ rec[k] \in Record /\ rec' = [rec EXCEPT ![k] = r]
  BY <1>1 DEF ls_read, Live, Types
<1>3. Sets(k, r)
  BY <1>2, SetsRecord
<1>4. r \in Record /\ Stays(k, r)
  BY <1>1, <1>2 DEF Record, Stays
<1>5. Still /\ DOMAIN rec' = DOMAIN rec
  BY <1>3, <1>4, SetsStill DEF ls_read, space
<1>6. DOMAIN rec' \subseteq Keys /\ \A l \in DOMAIN rec' : rec'[l] \in Record
  BY <1>3, <1>4, SetsTyped DEF Live
<1>7. Types'
  BY <1>6 DEF ls_read, Goto, space, Live, Types, Where
<1>8. Control'
  BY <1>2, <1>5, MappedAssumption DEF ls_read, Enter, Goto, Live, Types, Control
<1>9. Others(t)
  BY DEF ls_read, Goto, Others, Live, Types
<1>10. Takes(t)
  BY <1>2, Sized DEF ls_read, Goto, Takes, Live, Types
<1> QED
  BY <1>5, <1>7, <1>8, <1>9, <1>10, StillLive

LEMMA WriteLive ==
    ASSUME Live, NEW t \in Threads, NEW k \in Keys, NEW n \in Sizes, ls_write(t, k, n)
    PROVE  Live'
<1>1. NewRec \in Record
  BY DEF NewRec, Record, NULL
<1>2. CASE k \in DOMAIN rec
  <2>1. rec' = rec
    BY <1>2 DEF ls_write
  <2> QED
    <3>1. Still
      BY <2>1, SameStill DEF ls_write, space
    <3>2. Types'
      BY <2>1, MappedAssumption DEF ls_write, Goto, space, Live, Types, Where
    <3>3. Control'
      BY <1>2, <2>1, MappedAssumption DEF ls_write, Enter, Goto, Live, Types, Control
    <3>4. Others(t) /\ Takes(t)
      BY DEF ls_write, Goto, Others, Takes, Live, Types, Reading
    <3> QED
      BY <3>1, <3>2, <3>3, <3>4, StillLive
<1>3. CASE k \notin DOMAIN rec
  <2>1. Sets(k, NewRec) /\ DOMAIN rec' = DOMAIN rec \cup {k}
    BY <1>3 DEF ls_write, Bind, Sets
  <2>2. Still
    BY <1>3, <2>1 DEF Still, Sets, ls_write, space
  <2>3. DOMAIN rec' \subseteq Keys /\ \A l \in DOMAIN rec' : rec'[l] \in Record
    BY <1>1, <2>1, SetsTyped DEF Live
  <2>4. Types'
    BY <2>3, MappedAssumption DEF ls_write, Goto, space, Live, Types, Where
  <2>5. Control'
    BY <2>1, MappedAssumption DEF ls_write, Enter, Goto, Live, Types, Control
  <2>6. Others(t) /\ Takes(t)
    BY DEF ls_write, Goto, Others, Takes, Live, Types, Reading
  <2> QED
    BY <2>2, <2>4, <2>5, <2>6, StillLive
<1> QED
  BY <1>2, <1>3

LEMMA IdleFacts ==
    ASSUME Live, NEW t \in Threads, Idle(t)
    PROVE  /\ pc' \in [Threads -> Where] /\ need' \in [Threads -> Nat] /\ base' \in [Threads -> Nat]
           /\ slices' \in [Threads -> Nat] /\ DOMAIN key' = Threads /\ DOMAIN snap' = Threads
           /\ Others(t) /\ Takes(t) /\ pc'[t] = "idle"
  BY DEF Idle, Goto, Live, Types, Where, Others, Takes, Reading, NULL

LEMMA PushFailsLive ==
    ASSUME Live, NEW t \in Threads, PushFails(t)
    PROVE  Live'
<1>1. Idle(t) /\ lk' = NoThread /\ rec' = rec /\ arr' = arr /\ retired' = retired /\ free' = free
      /\ vm' = vm /\ closed' = closed /\ handed' = handed /\ pc[t] = "grow"
  BY DEF PushFails, space
<1>2. Types'
  BY <1>1, IdleFacts DEF Live, Types
<1>3. Control'
  BY <1>1, MappedAssumption DEF Idle, Goto, Live, Types, Control
<1> QED
  BY <1>1, <1>2, <1>3, IdleFacts, SameStill, StillLive

LEMMA GrownLive ==
    ASSUME Live, NEW t \in Threads, Grown(t)
    PROVE  Live'
<1>1. PICK k, r : k = key[t] /\ r = [rec[k] EXCEPT !.size = Max({@, need[t]}), !.busy = @ + 1]
  OBVIOUS
<1>2. k \in DOMAIN rec /\ rec[k] \in Record /\ need[t] \in Nat \ {0} /\ k \in Keys
  BY <1>1 DEF Grown, Live, Types, Control
<1>3. rec' = [rec EXCEPT ![k] = r]
  BY <1>1 DEF Grown
<1>4. Sets(k, r)
  BY <1>2, <1>3, SetsRecord
<1>5. rec[k].ext # NULL
  <2>1. SUFFICES ASSUME rec[k].ext = NULL PROVE FALSE
    OBVIOUS
  <2>2. ext_total(rec[k]) = 0
    BY <1>2, <2>1, ExtentsAre, ShownEmpty DEF ext_total
  <2> QED
    BY <1>1, <1>2, <2>2 DEF Grown
<1>6. r \in Record /\ Stays(k, r)
  <2>1. PICK m : m = Max({rec[k].size, need[t]})
    OBVIOUS
  <2>2. m \in Nat
    <3>1. rec[k].size \in Int /\ need[t] \in Int /\ rec[k].size \in Nat
      BY <1>2 DEF Record
    <3> QED
      BY <1>2, <2>1, <3>1, MaxOfTwo
  <2>3. PICK q, b : q = rec[k] /\ b = q.busy + 1
    OBVIOUS
  <2>4. r = [q EXCEPT !.size = m, !.busy = b]
    BY <1>1, <2>1, <2>3
  <2>5. q \in Record /\ b \in Int
    BY <1>2, <2>3 DEF Record
  <2>6. r \in Record /\ r.ext = q.ext /\ r.next = q.next /\ r.ncap = q.ncap
    BY <2>2, <2>4, <2>5 DEF Record
  <2> QED
    BY <1>2, <1>5, <2>3, <2>6 DEF Stays
<1>7. Still /\ DOMAIN rec' = DOMAIN rec
  BY <1>4, <1>6, SetsStill DEF Grown, space
<1>8. DOMAIN rec' \subseteq Keys /\ \A l \in DOMAIN rec' : rec'[l] \in Record
  BY <1>2, <1>4, <1>6, SetsTyped DEF Live
<1>9. Types'
  BY <1>8 DEF Grown, Goto, space, Live, Types, Where
<1>10. Control'
  BY <1>1, <1>2, <1>7, MappedAssumption DEF Grown, Goto, Live, Types, Control
<1>11. Others(t)
  BY DEF Grown, Goto, Others, Live, Types
<1>12. Takes(t)
  BY <1>1, <1>2, <1>5 DEF Grown, Goto, Takes, Live, Types
<1> QED
  BY <1>7, <1>9, <1>10, <1>11, <1>12, StillLive

LEMMA TransferredLive ==
    ASSUME Live, NEW t \in Threads, Transferred(t)
    PROVE  Live'
<1>1. PICK k, r : k = key[t] /\ r = [rec[k] EXCEPT !.busy = @ - 1]
  OBVIOUS
<1>2. k \in DOMAIN rec /\ rec[k] \in Record /\ k \in Keys
  BY <1>1 DEF Transferred, Live, Types, Control
<1>3. rec' = [rec EXCEPT ![k] = r]
  BY <1>1 DEF Transferred
<1>4. Sets(k, r)
  BY <1>2, <1>3, SetsRecord
<1>5. r \in Record /\ Stays(k, r)
  BY <1>1, <1>2 DEF Record, Stays
<1>6. Still /\ DOMAIN rec' = DOMAIN rec
  BY <1>4, <1>5, SetsStill DEF Transferred, space
<1>7. DOMAIN rec' \subseteq Keys /\ \A l \in DOMAIN rec' : rec'[l] \in Record
  BY <1>2, <1>4, <1>5, SetsTyped DEF Live
<1>8. Idle(t)
  BY DEF Transferred
<1>9. Types'
  BY <1>7, <1>8, IdleFacts DEF Transferred, space, Live, Types
<1>10. Control'
  BY <1>6, <1>8 DEF Transferred, Idle, Goto, Live, Types, Control
<1> QED
  BY <1>6, <1>8, <1>9, <1>10, IdleFacts, StillLive

LEMMA MapAgainLive ==
    ASSUME Live, NEW t \in Threads, NEW k \in Keys, MapAgain(t, k)
    PROVE  Live'
<1>1. UNCHANGED <<rec, space, vm, closed, lk, pc, thread>> /\ DOMAIN handed' = DOMAIN handed
  BY DEF MapAgain
<1>2. Still
  BY <1>1, SameStill DEF space
<1>3. Types'
  BY <1>1 DEF Live, Types, space, thread
<1>4. Control'
  BY <1>1 DEF Live, Control, thread
<1>5. Others(t) /\ Takes(t)
  BY <1>1 DEF Others, Takes, thread
<1> QED
  BY <1>2, <1>3, <1>4, <1>5, StillLive

LEMMA MapLive ==
    ASSUME Live, NEW t \in Threads, NEW k \in Keys, ls_map(t, k)
    PROVE  Live'
<1>1. PICK r : r = [rec[k] EXCEPT !.busy = @ + 1]
  OBVIOUS
<1>2. k \in DOMAIN rec /\ rec[k] \in Record /\ rec' = [rec EXCEPT ![k] = r]
  BY <1>1 DEF ls_map, Live, Types
<1>3. Sets(k, r)
  BY <1>2, SetsRecord
<1>4. r \in Record /\ Stays(k, r) /\ rec[k].size \in Nat
  BY <1>1, <1>2 DEF Record, Stays
<1>5. Still /\ DOMAIN rec' = DOMAIN rec
  BY <1>3, <1>4, SetsStill DEF ls_map, space
<1>6. DOMAIN rec' \subseteq Keys /\ \A l \in DOMAIN rec' : rec'[l] \in Record
  BY <1>3, <1>4, SetsTyped DEF Live
<1>7. Types'
  BY <1>4, <1>6 DEF ls_map, Goto, space, Live, Types, Where
<1>8. Control'
  BY <1>2, <1>5, MappedAssumption DEF ls_map, Enter, Goto, Live, Types, Control
<1>9. Others(t)
  BY DEF ls_map, Goto, Others, Live, Types
<1>10. Takes(t)
  BY <1>2, Sized DEF ls_map, Goto, Takes, Live, Types
<1> QED
  BY <1>5, <1>7, <1>8, <1>9, <1>10, StillLive

LEMMA ReserveLive ==
    ASSUME Live, NEW t \in Threads, Reserve(t)
    PROVE  Live'
<1>1. PICK a : a = Fresh(DOMAIN vm)
  OBVIOUS
<1>2. a \in Nat \ {0}
  BY <1>1, FreshIs DEF Live, Types
<1>3. IsFiniteSet(DOMAIN vm') /\ DOMAIN vm' \subseteq Nat \ {0} /\ base' \in [Threads -> Nat]
  <2>1. CASE vm' = vm /\ base' = base
    BY <2>1 DEF Live, Types
  <2>2. CASE /\ vm' = Bind(vm, a, [i \in 1 .. Before(t, snap[t].next) |-> PROT_NONE])
             /\ base' = [base EXCEPT ![t] = a]
    <3>1. DOMAIN vm' = DOMAIN vm \cup {a}
      BY <2>2 DEF Bind
    <3>2. IsFiniteSet(DOMAIN vm)
      BY DEF Live, Types
    <3>3. IsFiniteSet(DOMAIN vm \cup {a})
      BY <3>2, FS_AddElement
    <3> QED
      BY <1>2, <2>2, <3>1, <3>3 DEF Live, Types
  <2> QED
    BY <1>1, <2>1, <2>2 DEF Reserve
<1>4. PICK w \in {"stitch", "mapped"} : pc' = [pc EXCEPT ![t] = w]
  BY DEF Reserve, Goto
<1>5. UNCHANGED <<rec, arr, retired, free, closed, lk, key, need, snap, slices, handed>>
      /\ pc[t] = "reserve"
  BY DEF Reserve, space
<1>6. Types'
  BY <1>3, <1>4, <1>5 DEF Live, Types, Where
<1>7. Control'
  BY <1>4, <1>5 DEF Live, Types, Control
<1>8. Still
  BY <1>5, SameStill
<1>9. Others(t) /\ Takes(t)
  BY <1>4, <1>5 DEF Others, Takes, Reading, Live, Types
<1> QED
  BY <1>6, <1>7, <1>8, <1>9, StillLive

LEMMA StitchLive ==
    ASSUME Live, NEW t \in Threads, Stitch(t)
    PROVE  Live'
<1>1. DOMAIN vm' = DOMAIN vm /\ slices' = [slices EXCEPT ![t] = @ + 1]
  BY DEF Stitch
<1>2. PICK w \in {"stitch", "mapped"} : pc' = [pc EXCEPT ![t] = w]
  BY DEF Stitch, Goto
<1>3. UNCHANGED <<rec, arr, retired, free, closed, lk, key, need, snap, base, handed>>
      /\ pc[t] = "stitch"
  BY DEF Stitch, space
<1>4. Types'
  BY <1>1, <1>2, <1>3 DEF Live, Types, Where
<1>5. Control'
  BY <1>2, <1>3 DEF Live, Types, Control
<1>6. Still
  BY <1>3, SameStill
<1>7. Others(t) /\ Takes(t)
  BY <1>2, <1>3 DEF Others, Takes, Reading, Live, Types
<1> QED
  BY <1>4, <1>5, <1>6, <1>7, StillLive

\* Whether block i at a is in one of the spans.
Cut(spans, a, i) == \E s \in spans : s.addr = a /\ i <= s.len

LEMMA MunmapIs ==
    ASSUME NEW v, NEW S
    PROVE  /\ DOMAIN munmap(v, S) = {b \in DOMAIN v : ~Cut(S, b, Len(v[b]))}
           /\ \A a \in DOMAIN munmap(v, S) : munmap(v, S)[a] =
                [i \in DOMAIN v[a] |-> IF Cut(S, a, i) THEN PROT_NONE ELSE v[a][i]]
  BY DEF munmap, Cut

LEMMA MunmapTyped ==
    ASSUME Types, NEW S
    PROVE  IsFiniteSet(DOMAIN munmap(vm, S)) /\ DOMAIN munmap(vm, S) \subseteq Nat \ {0}
<1>1. PICK D : D = DOMAIN munmap(vm, S)
  OBVIOUS
<1>2. D \subseteq DOMAIN vm
  BY <1>1, MunmapIs
<1>3. IsFiniteSet(DOMAIN vm) /\ DOMAIN vm \subseteq Nat \ {0}
  BY DEF Types
<1>4. IsFiniteSet(D)
  BY <1>2, <1>3, FS_Subset
<1> QED
  BY <1>1, <1>2, <1>3, <1>4

LEMMA StitchFailsLive ==
    ASSUME Live, NEW t \in Threads, StitchFails(t)
    PROVE  Live'
<1>1. IsFiniteSet(DOMAIN vm') /\ DOMAIN vm' \subseteq Nat \ {0}
  BY MunmapTyped DEF StitchFails, Live
<1>2. UNCHANGED <<rec, arr, retired, free, closed, lk, key, need, snap, slices, handed>>
      /\ pc[t] = "stitch" /\ pc' = [pc EXCEPT ![t] = "mapped"] /\ base' = [base EXCEPT ![t] = NULL]
  BY DEF StitchFails, space, Goto
<1>3. Types'
  BY <1>1, <1>2 DEF Live, Types, Where, NULL
<1>4. Control'
  BY <1>2 DEF Live, Types, Control
<1>5. Still
  BY <1>2, SameStill
<1>6. Others(t) /\ Takes(t)
  BY <1>2 DEF Others, Takes, Reading, Live, Types
<1> QED
  BY <1>3, <1>4, <1>5, <1>6, StillLive

LEMMA MapDoneLive ==
    ASSUME Live, NEW t \in Threads, MapDone(t)
    PROVE  Live'
<1>1. PICK k, q, b, a, n : /\ k = key[t] /\ q = rec[k] /\ b = q.busy - 1
                           /\ a = (IF base[t] = NULL THEN q.map_addr ELSE base[t])
                           /\ n = (IF base[t] = NULL THEN q.map_len ELSE total(t))
  OBVIOUS
<1>2. PICK r : r = [q EXCEPT !.busy = b, !.map_addr = a, !.map_len = n]
  OBVIOUS
<1>3. k \in DOMAIN rec /\ q \in Record /\ k \in Keys /\ pc[t] = "mapped"
  BY <1>1 DEF MapDone, Live, Types, Control
<1>4. rec' = [rec EXCEPT ![k] = r]
  <2>1. rec' = [rec EXCEPT ![k] =
              [rec[k] EXCEPT !.busy = rec[k].busy - 1,
                  !.map_addr = IF base[t] = NULL THEN rec[k].map_addr ELSE base[t],
                  !.map_len = IF base[t] = NULL THEN rec[k].map_len ELSE total(t)]]
    BY <1>1 DEF MapDone
  <2>2. r = [rec[k] EXCEPT !.busy = rec[k].busy - 1,
                  !.map_addr = IF base[t] = NULL THEN rec[k].map_addr ELSE base[t],
                  !.map_len = IF base[t] = NULL THEN rec[k].map_len ELSE total(t)]
    BY <1>1, <1>2
  <2> QED
    BY <2>1, <2>2
<1>5. Sets(k, r)
  BY <1>3, <1>4, SetsRecord
<1>6. b \in Int /\ a \in Nat /\ n \in Nat
  <2>1. total(t) \in Nat
    BY <1>3, BeforeAll DEF total, Reading
  <2>2. base[t] \in Nat
    BY DEF Live, Types
  <2>3. q.busy \in Int /\ q.map_addr \in Nat /\ q.map_len \in Nat
    BY <1>3 DEF Record
  <2> QED
    BY <1>1, <2>1, <2>2, <2>3
<1>7. r \in Record /\ r.ext = q.ext /\ r.next = q.next /\ r.ncap = q.ncap /\ r.size = q.size
  BY <1>2, <1>3, <1>6 DEF Record
<1>8. Stays(k, r)
  BY <1>1, <1>3, <1>7 DEF Stays
<1>9. Still /\ DOMAIN rec' = DOMAIN rec
  BY <1>5, <1>8, SetsStill DEF MapDone, space
<1>10. DOMAIN rec' \subseteq Keys /\ \A l \in DOMAIN rec' : rec'[l] \in Record
  BY <1>3, <1>5, <1>7, SetsTyped DEF Live
<1>11. Idle(t) /\ DOMAIN handed' = DOMAIN handed
  BY DEF MapDone
<1>12. Types'
  BY <1>10, <1>11, IdleFacts DEF MapDone, space, Live, Types
<1>13. Control'
  BY <1>9, <1>11 DEF MapDone, Idle, Goto, Live, Types, Control
<1> QED
  BY <1>9, <1>11, <1>12, <1>13, IdleFacts, StillLive

LEMMA UnmapLive ==
    ASSUME Live, NEW t \in Threads, NEW k \in Keys, ls_unmap(t, k)
    PROVE  Live'
<1>1. PICK q, r : q = rec[k] /\ r = [q EXCEPT !.map_addr = NULL, !.map_len = 0]
  OBVIOUS
<1>2. k \in DOMAIN rec /\ q \in Record
  BY <1>1 DEF ls_unmap, Live, Types
<1>3. rec' = [rec EXCEPT ![k] = r]
  BY <1>1, <1>2 DEF ls_unmap
<1>4. Sets(k, r)
  BY <1>2, <1>3, SetsRecord
<1>5. /\ r \in Record /\ r.ext = q.ext /\ r.next = q.next /\ r.ncap = q.ncap /\ r.size = q.size
      /\ q.map_addr \in Nat /\ q.map_len \in Nat
  BY <1>1, <1>2 DEF Record, NULL
<1>6. Stays(k, r)
  BY <1>1, <1>2, <1>5 DEF Stays
<1>7. Still /\ DOMAIN rec' = DOMAIN rec
  BY <1>4, <1>6, SetsStill DEF ls_unmap, space
<1>8. DOMAIN rec' \subseteq Keys /\ \A l \in DOMAIN rec' : rec'[l] \in Record
  BY <1>4, <1>5, SetsTyped DEF Live
<1>9. Types'
  BY <1>1, <1>5, <1>8 DEF ls_unmap, Goto, space, Live, Types, Where
<1>10. Control'
  BY <1>2, <1>7, MappedAssumption DEF ls_unmap, Enter, Goto, Live, Types, Control
<1>11. Others(t) /\ Takes(t)
  BY DEF ls_unmap, Goto, Others, Takes, Reading, Live, Types
<1> QED
  BY <1>7, <1>9, <1>10, <1>11, StillLive

LEMMA OsUnmapLive ==
    ASSUME Live, NEW t \in Threads, ls_os_unmap(t)
    PROVE  Live'
<1>1. Idle(t) /\ UNCHANGED <<rec, arr, retired, free, closed, lk, handed>> /\ pc[t] = "munmap"
  BY DEF ls_os_unmap, space
<1>2. IsFiniteSet(DOMAIN vm') /\ DOMAIN vm' \subseteq Nat \ {0}
  BY MunmapTyped DEF ls_os_unmap, Live
<1>3. Types'
  BY <1>1, <1>2, IdleFacts DEF Live, Types
<1>4. Control'
  BY <1>1 DEF Idle, Goto, Live, Types, Control
<1> QED
  BY <1>1, <1>3, <1>4, IdleFacts, SameStill, StillLive

LEMMA RunsAre ==
    ASSUME NEW n, NEW e \in Runs(n)
    PROVE  e \in DataExtent /\ Range(BlocksOf(e)) \subseteq free
<1>1. e \in [foff : 1 .. Blocks, len : 1 .. n] /\ Range(BlocksOf(e)) \subseteq free
  BY DEF Runs
<1> QED
  BY <1>1 DEF DataExtent

\* One extent more for record k, in the array at a: its own, or a new one.
Pushed(k, e, a) ==
    /\ k \in DOMAIN rec /\ e \in DataExtent
    /\ DOMAIN arr' = DOMAIN arr \cup {a}
    /\ arr'[a] = Append(Extents(rec[k]), e)
    /\ \A b \in DOMAIN arr : b # a => arr'[b] = arr[b]
    /\ \/ a = rec[k].ext /\ a # NULL /\ retired' = retired
       \/ a \in Nat \ {0} /\ a \notin DOMAIN arr /\ retired' = retired \cup ({rec[k].ext} \ {NULL})
    /\ DOMAIN rec' = DOMAIN rec
    /\ \A l \in DOMAIN rec : l # k => rec'[l] = rec[l]
    /\ rec'[k] \in Record /\ rec'[k].ext = a /\ rec'[k].next = rec[k].next + 1
    /\ rec'[k].size = rec[k].size /\ rec'[k].map_addr = rec[k].map_addr
    /\ rec'[k].map_len = rec[k].map_len

LEMMA PushesCopy ==
    ASSUME Live, NEW k \in DOMAIN rec, NEW e \in DataExtent, PushCopy(k, e)
    PROVE  Pushed(k, e, Fresh(DOMAIN arr))
<1>1. PICK a, q : a = Fresh(DOMAIN arr) /\ q = rec[k]
  OBVIOUS
<1>2. a \in Nat \ {0} /\ a \notin DOMAIN arr
  BY <1>1, FreshIs DEF Live, Types
<1>3. q \in Record
  BY <1>1 DEF Live, Types
<1>4. PICK m, c : m = q.next + 1 /\ c = (IF q.ncap = 0 THEN CAP0 ELSE 2 * q.ncap)
  OBVIOUS
<1>5. PICK r : r = [q EXCEPT !.ext = a, !.next = m, !.ncap = c]
  OBVIOUS
<1>6. r = Moved(q, a)
  BY <1>4, <1>5 DEF Moved
<1>7. rec' = [rec EXCEPT ![k] = r]
  BY <1>1, <1>6 DEF PushCopy
<1>8. m \in Nat /\ c \in Nat
  BY <1>3, <1>4, MappedAssumption DEF Record
<1>9. /\ r \in Record /\ r.ext = a /\ r.next = m /\ r.size = q.size /\ r.map_addr = q.map_addr
      /\ r.map_len = q.map_len
  BY <1>2, <1>3, <1>5, <1>8 DEF Record
<1>10. /\ DOMAIN arr' = DOMAIN arr \cup {a} /\ arr'[a] = Append(Extents(rec[k]), e)
       /\ \A b \in DOMAIN arr : b # a => arr'[b] = arr[b]
  BY <1>1 DEF PushCopy, Bind
<1>11. retired' = retired \cup ({rec[k].ext} \ {NULL})
  BY DEF PushCopy, ext_retire
<1>12. DOMAIN rec' = DOMAIN rec /\ rec'[k] = r /\ \A l \in DOMAIN rec : l # k => rec'[l] = rec[l]
  BY <1>7
<1>13. Pushed(k, e, a)
  BY <1>1, <1>2, <1>4, <1>9, <1>10, <1>11, <1>12 DEF Pushed
<1> QED
  BY <1>1, <1>13

LEMMA PushesInPlace ==
    ASSUME Live, NEW k \in DOMAIN rec, NEW e \in DataExtent, rec[k].next < rec[k].ncap,
           PushInPlace(k, e)
    PROVE  Pushed(k, e, rec[k].ext)
<1>1. PICK a, q : a = rec[k].ext /\ q = rec[k]
  OBVIOUS
<1>2. q \in Record /\ a \in DOMAIN arr /\ a # NULL
  <2>1. Array(rec[k]) /\ rec[k] \in Record
    BY DEF Live, Types, Arrays
  <2> QED
    BY <1>1, <2>1 DEF Array, Record
<1>3. PICK m, r : m = q.next + 1 /\ r = [q EXCEPT !.next = m]
  OBVIOUS
<1>4. rec' = [rec EXCEPT ![k] = r]
  BY <1>1, <1>3 DEF PushInPlace
<1>5. /\ r \in Record /\ r.ext = q.ext /\ r.next = m /\ r.size = q.size /\ r.map_addr = q.map_addr
      /\ r.map_len = q.map_len
  BY <1>2, <1>3 DEF Record
<1>6. /\ DOMAIN arr' = DOMAIN arr \cup {a} /\ arr'[a] = Append(Extents(rec[k]), e)
      /\ \A b \in DOMAIN arr : b # a => arr'[b] = arr[b]
  BY <1>1, <1>2 DEF PushInPlace
<1>7. DOMAIN rec' = DOMAIN rec /\ rec'[k] = r /\ \A l \in DOMAIN rec : l # k => rec'[l] = rec[l]
  BY <1>4
<1>8. retired' = retired
  BY DEF PushInPlace
<1>9. Pushed(k, e, a)
  BY <1>1, <1>2, <1>3, <1>5, <1>6, <1>7, <1>8 DEF Pushed
<1> QED
  BY <1>1, <1>9

LEMMA PushedExtents ==
    ASSUME Live, NEW k, NEW e, NEW a, Pushed(k, e, a)
    PROVE  /\ Extents(rec[k])' = Append(Extents(rec[k]), e)
           /\ arr'[a] \in Seq(DataExtent) /\ Len(arr'[a]) = rec[k].next + 1
           /\ \A l \in DOMAIN rec : l # k => Extents(rec[l])' = Extents(rec[l])
<1>1. PICK x, n : x = Extents(rec[k]) /\ n = rec[k].next
  OBVIOUS
<1>2. x \in Seq(DataExtent) /\ Len(x) = n /\ k \in DOMAIN rec /\ e \in DataExtent
  BY <1>1, ExtentsAre DEF Pushed
<1>3. PICK y : y = Append(x, e)
  OBVIOUS
<1>4. y \in Seq(DataExtent) /\ Len(y) = n + 1
  BY <1>2, <1>3
<1>5. arr'[a] = y /\ rec'[k].ext = a /\ rec'[k].next = Len(y) /\ a # NULL
  BY <1>1, <1>3, <1>4 DEF Pushed, NULL
<1>6. SubSeq(y, 1, Len(y)) = y
  BY <1>4, SubSeqAll
<1>7. Extents(rec[k])' = y
  BY <1>5, <1>6 DEF Extents
<1>8. ASSUME NEW l \in DOMAIN rec, l # k
      PROVE  Extents(rec[l])' = Extents(rec[l])
  <2>1. rec'[l] = rec[l]
    BY <1>8 DEF Pushed
  <2>2. CASE rec[l].ext = NULL
    BY <2>1, <2>2 DEF Extents
  <2>3. CASE rec[l].ext # NULL
    <3>1. rec[l].ext \in DOMAIN arr
      BY <2>3, ExtentsAre
    <3>2. rec[l].ext # a
      BY <1>8, <2>3, <3>1 DEF Pushed, Live, Arrays
    <3>3. arr'[rec[l].ext] = arr[rec[l].ext]
      BY <3>1, <3>2 DEF Pushed
    <3> QED
      BY <2>1, <3>3 DEF Extents
  <2> QED
    BY <2>2, <2>3
<1> QED
  BY <1>1, <1>3, <1>4, <1>5, <1>7, <1>8

LEMMA PushedSeen ==
    ASSUME Live, NEW k, NEW e, NEW a, Pushed(k, e, a), NEW t \in Threads, pc[t] \in Reading,
           snap'[t] = snap[t], NEW i \in Nat, i <= snap[t].next
    PROVE  /\ snap[t].ext \in DOMAIN arr' /\ snap[t].next <= Len(arr'[snap[t].ext])
           /\ SubSeq(arr'[snap[t].ext], 1, i) = SubSeq(arr[snap[t].ext], 1, i)
<1>1. PICK b, n, x : b = snap[t].ext /\ n = snap[t].next /\ x = arr[b]
  OBVIOUS
<1>2. b \in DOMAIN arr /\ x \in Seq(DataExtent) /\ n \in Nat /\ n <= Len(x)
  BY <1>1, SnapshotIs
<1>3. b \in DOMAIN arr'
  BY <1>2 DEF Pushed
<1>4. CASE b # a
  BY <1>1, <1>2, <1>3, <1>4 DEF Pushed
<1>5. CASE b = a
  <2>1. a = rec[k].ext /\ a # NULL /\ k \in DOMAIN rec /\ e \in DataExtent
    BY <1>2, <1>5 DEF Pushed
  <2>2. Extents(rec[k]) = x
    BY <1>1, <1>5, <2>1, ExtentsAre
  <2>3. arr'[b] = Append(x, e)
    BY <1>5, <2>2 DEF Pushed
  <2>4. Len(Append(x, e)) = Len(x) + 1 /\ Len(x) \in Nat
    BY <1>2, <2>1
  <2>5. i <= Len(x)
    BY <1>1, <1>2
  <2>6. SubSeq(Append(x, e), 1, i) = SubSeq(x, 1, i)
    BY <1>2, <2>1, <2>5, SubSeqAppend
  <2> QED
    BY <1>1, <1>2, <1>3, <2>3, <2>4, <2>6
<1> QED
  BY <1>4, <1>5

LEMMA PushedArrays ==
    ASSUME Live, NEW k, NEW e, NEW a, Pushed(k, e, a)
    PROVE  Arrays'
<1>1. k \in DOMAIN rec /\ DOMAIN rec' = DOMAIN rec /\ rec'[k].ext = a /\ a # NULL
      /\ rec'[k].next = rec[k].next + 1 /\ rec[k] \in Record
  BY DEF Pushed, NULL, Live, Types
<1>2. /\ \A l \in DOMAIN rec : Array(rec[l])
      /\ \A l, m \in DOMAIN rec : rec[l].ext = rec[m].ext /\ rec[l].ext # NULL => l = m
      /\ retired \subseteq DOMAIN arr
      /\ \A b \in DOMAIN arr : b \in retired \/ \E l \in DOMAIN rec : rec[l].ext = b
  BY DEF Live, Arrays
<1>3. rec[k].ext # NULL => rec[k].ext \in DOMAIN arr /\ rec[k].ext \notin retired
  BY <1>1, <1>2 DEF Array
<1>4. retired' \subseteq DOMAIN arr /\ retired \subseteq retired' /\ a \notin retired'
      /\ retired' \subseteq retired \cup {rec[k].ext}
  BY <1>2, <1>3 DEF Pushed
<1>5. ASSUME NEW l \in DOMAIN rec, l # k, rec[l].ext # NULL
      PROVE  rec[l].ext # a /\ rec[l].ext \in DOMAIN arr /\ rec[l].ext \notin retired'
             /\ rec'[l] = rec[l] /\ arr'[rec[l].ext] = arr[rec[l].ext]
  <2>1. rec[l].ext \in DOMAIN arr /\ rec[l].ext \notin retired /\ rec[l].ext # rec[k].ext
    BY <1>1, <1>2, <1>5 DEF Array
  <2>2. rec[l].ext # a
    BY <2>1 DEF Pushed
  <2> QED
    BY <1>4, <1>5, <2>1, <2>2 DEF Pushed
<1>6. ASSUME NEW l \in DOMAIN rec'
      PROVE  Array(rec[l])'
  <2>1. CASE l = k
    <3>1. Len(arr'[a]) = rec[k].next + 1 /\ a \in DOMAIN arr'
      BY PushedExtents DEF Pushed
    <3>2. rec[k].next + 1 # 0
      BY <1>1 DEF Record
    <3> QED
      BY <1>1, <1>4, <2>1, <3>1, <3>2 DEF Array
  <2>2. CASE l # k /\ rec[l].ext = NULL
    <3>1. l \in DOMAIN rec /\ rec'[l] = rec[l]
      BY <1>1, <1>6, <2>2 DEF Pushed
    <3> QED
      BY <1>2, <2>2, <3>1 DEF Array
  <2>3. CASE l # k /\ rec[l].ext # NULL
    <3>1. l \in DOMAIN rec /\ Array(rec[l])
      BY <1>1, <1>2, <1>6
    <3>2. rec[l].ext \in DOMAIN arr'
      BY <1>5, <2>3, <3>1 DEF Pushed
    <3> QED
      BY <1>5, <2>3, <3>1, <3>2 DEF Array
  <2> QED
    BY <2>1, <2>2, <2>3
<1>7. (\A l, m \in DOMAIN rec : rec[l].ext = rec[m].ext /\ rec[l].ext # NULL => l = m)'
  <2>1. \A l \in DOMAIN rec : l # k => rec'[l] = rec[l]
    BY DEF Pushed
  <2> QED
    BY <1>1, <1>2, <1>5, <2>1
<1>8. (retired \subseteq DOMAIN arr)'
  BY <1>4 DEF Pushed
<1>9. (\A b \in DOMAIN arr : b \in retired \/ \E l \in DOMAIN rec : rec[l].ext = b)'
  <2>1. SUFFICES ASSUME NEW b \in DOMAIN arr', b \notin retired'
                 PROVE  \E l \in DOMAIN rec' : rec'[l].ext = b
    OBVIOUS
  <2>2. CASE b = a
    BY <1>1, <2>2
  <2>3. CASE b # a
    <3>1. b \in DOMAIN arr /\ b \notin retired
      BY <1>4, <2>1, <2>3 DEF Pushed
    <3>2. PICK l \in DOMAIN rec : rec[l].ext = b
      BY <1>2, <3>1
    <3>3. l # k
      <4>1. SUFFICES ASSUME l = k PROVE FALSE
        OBVIOUS
      <4>2. b = rec[k].ext /\ b # NULL
        BY <3>1, <3>2, <4>1 DEF Live, Types, NULL
      <4> QED
        BY <2>1, <2>3, <4>2 DEF Pushed
    <3> QED
      BY <1>1, <3>2, <3>3 DEF Pushed
  <2> QED
    BY <2>2, <2>3
<1> QED
  BY <1>6, <1>7, <1>8, <1>9 DEF Arrays

LEMMA PushedSnapshot ==
    ASSUME Live, NEW k, NEW e, NEW a, Pushed(k, e, a), NEW t \in Threads, pc[t] \in Reading,
           snap'[t] = snap[t], key'[t] = key[t]
    PROVE  Snapshot(t)' /\ Seen(t)' = Seen(t)
<1>1. PICK b, n, l : b = snap[t].ext /\ n = snap[t].next /\ l = key[t]
  OBVIOUS
<1>2. /\ l \in DOMAIN rec /\ b \in DOMAIN arr /\ n \in Nat \ {0} /\ n <= Len(arr[b]) /\ n <= n
      /\ Seen(t) \in Seq(DataExtent) /\ IsPrefix(Seen(t), Extents(rec[l]))
      /\ b \in retired \/ b = rec[l].ext
  BY <1>1, SnapshotIs
<1>3. /\ b \in DOMAIN arr' /\ n <= Len(arr'[b]) /\ SubSeq(arr'[b], 1, n) = SubSeq(arr[b], 1, n)
  BY <1>1, <1>2, PushedSeen
<1>4. Seen(t)' = Seen(t)
  BY <1>1, <1>3 DEF Seen
<1>5. b \in retired' \/ b = rec'[l].ext
  <2>1. b # NULL
    BY <1>2 DEF Live, Types, NULL
  <2> QED
    BY <1>2, <2>1 DEF Pushed
<1>6. IsPrefix(Seen(t), Extents(rec[l])')
  <2>1. CASE l # k
    BY <1>2, <2>1, PushedExtents
  <2>2. CASE l = k
    <3>1. Extents(rec[l]) \in Seq(DataExtent) /\ e \in DataExtent
      BY <1>2, ExtentsAre DEF Pushed
    <3>2. IsPrefix(Seen(t), Append(Extents(rec[l]), e))
      BY <1>2, <3>1, PrefixAppend
    <3> QED
      BY <2>2, <3>2, PushedExtents
  <2> QED
    BY <2>1, <2>2
<1>7. Extents(rec[key[t]])' = Extents(rec[l])'
  BY <1>1
<1>8. snap'[t].ext = b /\ snap'[t].next = n /\ key'[t] = l
  BY <1>1
<1> QED
  BY <1>2, <1>3, <1>4, <1>5, <1>6, <1>7, <1>8 DEF Snapshot

LEMMA EnsurePushes ==
    ASSUME Live, NEW t \in Threads, ensure_extents(t)
    PROVE  \E e, a : /\ Pushed(key[t], e, a) /\ Range(BlocksOf(e)) \subseteq free
                     /\ free' = free \ Range(BlocksOf(e))
<1>1. key[t] \in DOMAIN rec
  BY DEF ensure_extents, Live, Control
<1>2. PICK e \in Runs(need[t] - ext_total(rec[key[t]])) :
        /\ free' = free \ Range(BlocksOf(e))
        /\ \/ PushCopy(key[t], e)
           \/ rec[key[t]].next < rec[key[t]].ncap /\ PushInPlace(key[t], e)
  BY DEF ensure_extents
<1>3. e \in DataExtent /\ Range(BlocksOf(e)) \subseteq free
  BY RunsAre
<1>4. \E a : Pushed(key[t], e, a)
  BY <1>1, <1>2, <1>3, PushesCopy, PushesInPlace
<1> QED
  BY <1>2, <1>3, <1>4

LEMMA EnsureLive ==
    ASSUME Live, NEW t \in Threads, ensure_extents(t)
    PROVE  Live'
<1>1. PICK e, a : Pushed(key[t], e, a) /\ free' = free \ Range(BlocksOf(e))
  BY EnsurePushes
<1>2. PICK k : k = key[t]
  OBVIOUS
<1>3. Pushed(k, e, a) /\ DOMAIN rec' = DOMAIN rec
  BY <1>1, <1>2 DEF Pushed
<1>4. UNCHANGED <<vm, closed, lk, pc, key, need, snap, base, slices, handed>>
  BY DEF ensure_extents, thread
<1>5. IsFiniteSet(DOMAIN arr') /\ DOMAIN arr' \subseteq Nat \ {0}
  <2>1. a \in Nat \ {0}
    BY <1>3 DEF Pushed, NULL, Live, Types, Record
  <2>2. IsFiniteSet(DOMAIN arr) /\ DOMAIN arr \subseteq Nat \ {0}
    BY DEF Live, Types
  <2>3. IsFiniteSet(DOMAIN arr \cup {a})
    BY <2>2, FS_AddElement
  <2> QED
    BY <1>3, <2>1, <2>2, <2>3 DEF Pushed
<1>6. \A b \in DOMAIN arr' : arr'[b] \in Seq(DataExtent)
  <2>1. arr'[a] \in Seq(DataExtent)
    BY <1>3, PushedExtents
  <2> QED
    BY <1>3, <2>1 DEF Pushed, Live, Types
<1>7. \A l \in DOMAIN rec' : rec'[l] \in Record
  BY <1>3 DEF Pushed, Live, Types
<1>8. Types'
  BY <1>1, <1>3, <1>4, <1>5, <1>6, <1>7 DEF Live, Types
<1>9. Control'
  <2>1. ~closed
    BY DEF ensure_extents, Live, Control
  <2> QED
    BY <1>3, <1>4, <2>1 DEF Live, Control
<1>10. Snapshots'
  BY <1>3, <1>4, PushedSnapshot DEF Snapshots
<1> QED
  BY <1>3, <1>8, <1>9, <1>10, PushedArrays DEF Live

\* Erasing a record takes nothing from the others, nor from any snapshot.
LEMMA EraseKeeps ==
    ASSUME Live, NEW t \in Threads, NEW k \in Keys, ls_erase(t, k)
    PROVE  /\ k \in DOMAIN rec /\ DOMAIN rec' = DOMAIN rec \ {k}
           /\ \A l \in DOMAIN rec' : rec'[l] = rec[l] /\ Extents(rec[l])' = Extents(rec[l])
           /\ \A l \in DOMAIN rec' : rec[l].ext # NULL => rec[l].ext # rec[k].ext
           /\ DOMAIN arr' = DOMAIN arr \ {rec[k].ext} /\ \A a \in DOMAIN arr' : arr'[a] = arr[a]
           /\ \A u \in Threads : pc[u] # "idle" => key[u] # k
           /\ \A u \in Threads : pc[u] \in Reading => snap[u].ext # rec[k].ext
           /\ rec[k].ext \notin retired
<1>1. /\ k \in DOMAIN rec /\ DOMAIN rec' = DOMAIN rec \ {k}
      /\ \A l \in DOMAIN rec' : rec'[l] = rec[l]
      /\ DOMAIN arr' = DOMAIN arr \ {rec[k].ext} /\ \A a \in DOMAIN arr' : arr'[a] = arr[a]
  BY DEF ls_erase, Without
<1>2. \A l \in DOMAIN rec' : rec[l].ext # NULL => rec[l].ext # rec[k].ext
  BY <1>1 DEF Live, Arrays
<1>3. ASSUME NEW l \in DOMAIN rec'
      PROVE  Extents(rec[l])' = Extents(rec[l])
  <2>1. l \in DOMAIN rec /\ rec'[l] = rec[l]
    BY <1>1, <1>3
  <2>2. CASE rec[l].ext = NULL
    BY <2>1, <2>2 DEF Extents
  <2>3. CASE rec[l].ext # NULL
    <3>1. rec[l].ext \in DOMAIN arr'
      BY <1>1, <1>2, <1>3, <2>1, <2>3, ExtentsAre
    <3> QED
      BY <1>1, <2>1, <3>1 DEF Extents
  <2> QED
    BY <2>2, <2>3
<1>4. \A u \in Threads : pc[u] # "idle" => key[u] # k
  BY DEF ls_erase, Users
<1>5. rec[k].ext \notin retired
  BY <1>1 DEF Live, Arrays, Array, Types, NULL
<1>6. ASSUME NEW u \in Threads, pc[u] \in Reading
      PROVE  snap[u].ext # rec[k].ext
  <2>1. key[u] # k
    BY <1>4, <1>6 DEF Reading
  <2>2. key[u] \in DOMAIN rec /\ snap[u].ext \in DOMAIN arr
        /\ (snap[u].ext \in retired \/ snap[u].ext = rec[key[u]].ext)
    BY <1>6, SnapshotIs
  <2>3. snap[u].ext # NULL
    BY <2>2 DEF Live, Types, NULL
  <2> QED
    BY <1>1, <1>2, <1>5, <2>1, <2>2, <2>3
<1> QED
  BY <1>1, <1>2, <1>3, <1>4, <1>5, <1>6

LEMMA EraseLive ==
    ASSUME Live, NEW t \in Threads, NEW k \in Keys, ls_erase(t, k)
    PROVE  Live'
<1>1. /\ k \in DOMAIN rec /\ DOMAIN rec' = DOMAIN rec \ {k}
      /\ \A l \in DOMAIN rec' : rec'[l] = rec[l] /\ Extents(rec[l])' = Extents(rec[l])
      /\ \A l \in DOMAIN rec' : rec[l].ext # NULL => rec[l].ext # rec[k].ext
      /\ DOMAIN arr' = DOMAIN arr \ {rec[k].ext} /\ \A a \in DOMAIN arr' : arr'[a] = arr[a]
      /\ \A u \in Threads : pc[u] # "idle" => key[u] # k
      /\ \A u \in Threads : pc[u] \in Reading => snap[u].ext # rec[k].ext
      /\ rec[k].ext \notin retired
  BY EraseKeeps
<1>2. UNCHANGED <<retired, closed, lk, pc, key, need, snap, base, slices>> /\ ~closed
      /\ DOMAIN handed' = DOMAIN handed
  BY DEF ls_erase, thread, Enter
<1>3. IsFiniteSet(DOMAIN vm') /\ DOMAIN vm' \subseteq Nat \ {0}
  BY MunmapTyped DEF ls_erase, Unmapped, Live
<1>4. IsFiniteSet(DOMAIN arr') /\ DOMAIN arr' \subseteq Nat \ {0}
  <2>1. IsFiniteSet(DOMAIN arr) /\ DOMAIN arr' \subseteq DOMAIN arr
    BY <1>1 DEF Live, Types
  <2> QED
    BY <2>1, FS_Subset DEF Live, Types
<1>5. free' \subseteq Nat \ {0}
  <2>1. PICK x : x = Extents(rec[k])
    OBVIOUS
  <2>2. x \in Seq(DataExtent)
    BY <1>1, <2>1, ExtentsAre
  <2>3. Shown(x) \in Seq(Nat \ {0})
    BY <2>2, ShownTyped
  <2>4. Range(Shown(x)) \subseteq Nat \ {0}
    BY <2>3 DEF Range
  <2> QED
    BY <2>1, <2>4 DEF ls_erase, Live, Types
<1>6. Types'
  BY <1>1, <1>2, <1>3, <1>4, <1>5 DEF Live, Types
<1>7. Control'
  BY <1>1, <1>2 DEF Live, Control
<1>8. Arrays'
  <2>1. ASSUME NEW l \in DOMAIN rec' PROVE Array(rec[l])'
    <3>1. Array(rec[l]) /\ rec'[l] = rec[l]
      BY <1>1, <2>1 DEF Live, Arrays
    <3> QED
      BY <1>1, <1>2, <2>1, <3>1 DEF Array
  <2>2. (\A l, m \in DOMAIN rec : rec[l].ext = rec[m].ext /\ rec[l].ext # NULL => l = m)'
    BY <1>1 DEF Live, Arrays
  <2>3. (retired \subseteq DOMAIN arr)'
    BY <1>1, <1>2 DEF Live, Arrays
  <2>4. (\A a \in DOMAIN arr : a \in retired \/ \E l \in DOMAIN rec : rec[l].ext = a)'
    BY <1>1, <1>2 DEF Live, Arrays
  <2> QED
    BY <2>1, <2>2, <2>3, <2>4 DEF Arrays
<1>9. Snapshots'
  <2>1. SUFFICES ASSUME NEW u \in Threads, pc[u] \in Reading PROVE Snapshot(u)'
    BY <1>2 DEF Snapshots
  <2>2. Snapshot(u) /\ key[u] \in DOMAIN rec /\ key[u] # k
    BY <1>1, <2>1 DEF Live, Snapshots, Control, Reading
  <2>3. PICK b, n, l : b = snap[u].ext /\ n = snap[u].next /\ l = key[u]
    OBVIOUS
  <2>4. snap'[u].ext = b /\ snap'[u].next = n /\ key'[u] = l /\ l \in DOMAIN rec'
    BY <1>1, <1>2, <2>2, <2>3
  <2>5. b \in DOMAIN arr' /\ arr'[b] = arr[b] /\ rec'[l] = rec[l]
    BY <1>1, <2>1, <2>2, <2>3, <2>4 DEF Snapshot
  <2>6. Seen(u)' = Seen(u)
    BY <2>3, <2>4, <2>5 DEF Seen
  <2>7. Extents(rec[key[u]])' = Extents(rec[key[u]])
    BY <1>1, <2>3, <2>4
  <2> QED
    BY <1>2, <2>2, <2>3, <2>4, <2>5, <2>6, <2>7 DEF Snapshot
<1> QED
  BY <1>6, <1>7, <1>8, <1>9 DEF Live

LEMMA CloseLive ==
    ASSUME Live, ls_close
    PROVE  Live' /\ arr' = << >>
<1>1. DOMAIN arr' = {}
  <2>1. DOMAIN arr' = DOMAIN arr \ (retired \cup {rec[k].ext : k \in DOMAIN rec})
    BY DEF ls_close
  <2>2. \A a \in DOMAIN arr : a \in retired \cup {rec[k].ext : k \in DOMAIN rec}
    BY DEF Live, Arrays
  <2> QED
    BY <2>1, <2>2
<1>2. arr' = << >>
  <2>1. arr' = [a \in {} |-> arr[a]]
    BY <1>1 DEF ls_close
  <2> QED
    BY <2>1
<1>3. rec' = << >> /\ DOMAIN rec' = {} /\ retired' = {} /\ DOMAIN handed' = Keys /\ closed' = TRUE
  BY DEF ls_close
<1>4. UNCHANGED <<free, lk, pc, key, need, snap, base, slices>> /\ \A t \in Threads : pc[t] = "idle"
  BY DEF ls_close, thread
<1>5. IsFiniteSet(DOMAIN vm') /\ DOMAIN vm' \subseteq Nat \ {0}
  BY MunmapTyped DEF ls_close, Unmapped, Live
<1>6. Types'
  BY <1>1, <1>3, <1>4, <1>5, FS_EmptySet DEF Live, Types
<1>7. Control'
  BY <1>3, <1>4 DEF Live, Control
<1>8. Arrays'
  BY <1>1, <1>3 DEF Arrays
<1>9. Snapshots'
  BY <1>4 DEF Snapshots, Reading
<1> QED
  BY <1>2, <1>6, <1>7, <1>8, <1>9 DEF Live

LEMMA InitLive == Init => Live
<1> SUFFICES ASSUME Init PROVE Live
  OBVIOUS
<1>1. DOMAIN rec = {} /\ DOMAIN arr = {} /\ DOMAIN vm = {} /\ retired = {} /\ free = 1 .. Blocks
  BY DEF Init
<1>2. Types
  <2>1. IsFiniteSet({})
    BY FS_EmptySet
  <2>2. 1 .. Blocks \subseteq Nat \ {0}
    OBVIOUS
  <2> QED
    BY <1>1, <2>1, <2>2 DEF Init, Types, Where, NULL
<1>3. Control
  BY <1>1, MappedAssumption DEF Init, Control
<1>4. Arrays
  BY <1>1 DEF Arrays
<1>5. Snapshots
  BY DEF Init, Snapshots, Reading
<1> QED
  BY <1>2, <1>3, <1>4, <1>5 DEF Live

LEMMA StutterLive ==
    ASSUME Live, UNCHANGED vars
    PROVE  Live'
<1>1. UNCHANGED <<rec, arr, retired, free, vm, closed, lk, pc, key, need, snap, base, slices, handed>>
  BY DEF vars, space, thread
<1>2. Types' /\ Control'
  BY <1>1 DEF Live, Types, Control
<1>3. Still
  BY <1>1, SameStill
<1>4. Arrays'
  BY <1>3, StillArrays
<1>5. \A t \in Threads : pc'[t] \in Reading => Snapshot(t)'
  BY <1>1, <1>3, StillSeen
<1> QED
  BY <1>2, <1>4, <1>5 DEF Live, Snapshots

LEMMA NextLive ==
    ASSUME Live, [Next]_vars
    PROVE  Live'
<1>1. ASSUME NEW t \in Threads, NEW k \in Keys,
             ls_read(t, k) \/ (\E n \in Sizes : ls_write(t, k, n)) \/ MapAgain(t, k)
             \/ ls_map(t, k) \/ ls_unmap(t, k) \/ ls_erase(t, k)
      PROVE  Live'
  BY <1>1, ReadLive, WriteLive, MapAgainLive, MapLive, UnmapLive, EraseLive
<1>2. ASSUME NEW t \in Threads,
             ensure_extents(t) \/ PushFails(t) \/ Grown(t) \/ Transferred(t) \/ Reserve(t)
             \/ Stitch(t) \/ StitchFails(t) \/ MapDone(t) \/ ls_os_unmap(t)
      PROVE  Live'
  BY <1>2, EnsureLive, PushFailsLive, GrownLive, TransferredLive, ReserveLive, StitchLive,
     StitchFailsLive, MapDoneLive, OsUnmapLive
<1>3. CASE ls_close
  BY <1>3, CloseLive
<1>4. CASE UNCHANGED vars
  BY <1>4, StutterLive
<1> QED
  BY <1>1, <1>2, <1>3, <1>4 DEF Next

LEMMA LiveAlways == Spec => []Live
<1>1. Live /\ [Next]_vars => Live'
  BY NextLive
<1> QED
  BY <1>1, InitLive, PTL DEF Spec

\* ext_push never pulls an array from under a thread that reads it without the
\* lock: the array stays allocated, and what the snapshot covers of it goes on
\* to lead the record's list, whatever mistakes callers make with ls_map.
THEOREM MappedSnapshots == Spec => []SnapshotLive
<1>1. Live => SnapshotLive
  <2>1. SUFFICES ASSUME Live, NEW t \in Threads, pc[t] \in {"io", "reserve", "stitch"}
                 PROVE  /\ key[t] \in DOMAIN rec
                        /\ snap[t].ext \in DOMAIN arr
                        /\ IsPrefix(SubSeq(arr[snap[t].ext], 1, snap[t].next), Extents(rec[key[t]]))
    BY DEF SnapshotLive
  <2> QED
    BY <2>1, SnapshotIs DEF Reading, Seen
<1> QED
  BY <1>1, LiveAlways, PTL

-----------------------------------------------------------------------------
(* Mappings, for callers who make neither mistake.                         *)

LEMMA SubSeqSub ==
    ASSUME NEW T, NEW x \in Seq(T), NEW n \in Nat, n <= Len(x), NEW m \in Nat, m <= n
    PROVE  SubSeq(SubSeq(x, 1, n), 1, m) = SubSeq(x, 1, m)
<1>1. PICK y : y = SubSeq(x, 1, n)
  OBVIOUS
<1>2. y \in Seq(T) /\ Len(y) = n /\ \A i \in 1 .. n : y[i] = x[i]
  BY <1>1, SubSeqProps
<1>3. SubSeq(y, 1, m) = SubSeq(x, 1, m)
  BY <1>2
<1> QED
  BY <1>1, <1>3

LEMMA StitchedNone ==
    ASSUME NEW x \in Seq(DataExtent), NEW v, v = [i \in 1 .. Len(Shown(x)) |-> PROT_NONE]
    PROVE  Stitched(v, x, 0) /\ Range(v) \subseteq {PROT_NONE}
<1>1. PICK n : n = Len(Shown(x))
  OBVIOUS
<1>2. n \in Nat
  BY <1>1, ShownTyped
<1>3. v = [i \in 1 .. n |-> 0]
  BY <1>1 DEF PROT_NONE
<1>4. v \in Seq(Nat) /\ Len(v) = n /\ \A i \in 1 .. n : v[i] = 0
  BY <1>2, <1>3
<1>5. SubSeq(x, 1, 0) = << >>
  OBVIOUS
<1>6. Len(Shown(SubSeq(x, 1, 0))) = 0
  <2>1. Shown(SubSeq(x, 1, 0)) = << >>
    BY ONLY <1>5, ShownEmpty
  <2>2. Len(<< >>) = 0
    BY ONLY TRUE
  <2> QED
    BY ONLY <2>1, <2>2
<1>7. Stitched(v, x, 0)
  BY <1>1, <1>2, <1>4, <1>6 DEF Stitched, PROT_NONE
<1>8. Range(v) \subseteq {PROT_NONE}
  BY <1>3 DEF Range, PROT_NONE
<1> QED
  BY <1>7, <1>8

\* Blocks bs over the slice of mapping v that begins after block from.
Over(v, from, bs) == [i \in DOMAIN v |-> IF i - from \in DOMAIN bs THEN bs[i - from] ELSE v[i]]

LEMMA StitchedNext ==
    ASSUME NEW x \in Seq(DataExtent), NEW n \in Nat, n < Len(x), NEW v, Stitched(v, x, n)
    PROVE  /\ Stitched(Over(v, Len(Shown(SubSeq(x, 1, n))), BlocksOf(x[n + 1])), x, n + 1)
           /\ Range(Over(v, Len(Shown(SubSeq(x, 1, n))), BlocksOf(x[n + 1])))
                 \subseteq Range(v) \cup Range(BlocksOf(x[n + 1]))
<1>0. PICK from, bs, w : /\ from = Len(Shown(SubSeq(x, 1, n))) /\ bs = BlocksOf(x[n + 1])
                         /\ w = Over(v, from, bs)
  OBVIOUS
<1>w. w = [i \in DOMAIN v |-> IF i - from \in DOMAIN bs THEN bs[i - from] ELSE v[i]]
  BY <1>0 DEF Over
<1>1. PICK y, e, s, z, m : /\ y = SubSeq(x, 1, n) /\ e = x[n + 1] /\ s = Shown(y)
                           /\ z = Shown(SubSeq(x, 1, n + 1)) /\ m = Len(v)
  OBVIOUS
<1>2. n <= Len(x) /\ e \in DataExtent
  BY <1>1
<1>3. y \in Seq(DataExtent) /\ SubSeq(x, 1, n + 1) = Append(y, e)
  BY <1>1, <1>2, SubSeqProps, SubSeqNext
<1>4. s \in Seq(Nat \ {0}) /\ bs \in Seq(Nat \ {0}) /\ from = Len(s) /\ from \in Nat
  BY <1>0, <1>1, <1>2, <1>3, ShownTyped, BlocksOfTyped
<1>5. z = s \o bs
  BY <1>0, <1>1, <1>2, <1>3, ShownAppend
<1>6. PICK c : c = Len(bs)
  OBVIOUS
<1>7. /\ c \in Nat /\ DOMAIN bs = 1 .. c /\ Len(z) = from + c
      /\ \A i \in 1 .. from : z[i] = s[i]
      /\ \A i \in 1 .. c : z[from + i] = bs[i]
      /\ \A i \in 1 .. c : bs[i] \in Nat
  <2>1. PICK T : T = Nat \ {0}
    OBVIOUS
  <2>2. s \in Seq(T) /\ bs \in Seq(T)
    BY <1>4, <2>1
  <2>3. /\ c \in Nat /\ DOMAIN bs = 1 .. c /\ Len(z) = from + c
        /\ \A i \in 1 .. from : z[i] = s[i]
        /\ \A i \in 1 .. c : z[from + i] = bs[i]
        /\ \A i \in 1 .. c : bs[i] \in T
    BY ONLY <1>4, <1>5, <1>6, <2>2
  <2> QED
    BY ONLY <2>1, <2>3
<1>8. /\ v \in Seq(Nat) /\ m \in Nat /\ m = Len(Shown(x)) /\ DOMAIN v = 1 .. m
      /\ \A i \in 1 .. m : v[i] = IF i <= from THEN s[i] ELSE PROT_NONE
      /\ \A i \in 1 .. m : v[i] \in Nat
  BY <1>0, <1>1, <1>4 DEF Stitched
<1>9. ASSUME NEW i \in 1 .. m
      PROVE  /\ w[i] = IF i <= from + c THEN z[i] ELSE PROT_NONE
             /\ w[i] \in Nat /\ w[i] \in Range(v) \cup Range(bs)
  <2>1. w[i] = IF i - from \in 1 .. c THEN bs[i - from] ELSE v[i]
    BY <1>7, <1>8, <1>w
  <2>2. CASE i <= from
    <3>1. i \in 1 .. from /\ i - from \notin 1 .. c /\ i <= from + c
      BY <1>4, <1>7, <1>8, <2>2
    <3>2. w[i] = v[i] /\ v[i] = s[i] /\ z[i] = s[i]
      BY <1>7, <1>8, <2>1, <2>2, <3>1
    <3> QED
      BY <1>8, <3>1, <3>2 DEF Range
  <2>3. CASE i > from /\ i <= from + c
    <3>1. i - from \in 1 .. c /\ from + (i - from) = i
      BY <1>4, <1>7, <1>8, <2>3
    <3>2. w[i] = bs[i - from] /\ z[i] = bs[i - from]
      BY <1>7, <2>1, <3>1
    <3> QED
      BY <1>7, <2>3, <3>1, <3>2 DEF Range
  <2>4. CASE i > from + c
    <3>1. i - from \notin 1 .. c /\ ~(i <= from) /\ ~(i <= from + c)
      BY <1>4, <1>7, <1>8, <2>4
    <3>2. w[i] = v[i] /\ v[i] = PROT_NONE
      BY <1>8, <2>1, <3>1
    <3> QED
      BY <1>8, <3>1, <3>2 DEF Range
  <2> QED
    BY <1>4, <1>7, <1>8, <2>2, <2>3, <2>4
<1>10. DOMAIN w = 1 .. m /\ w = [i \in 1 .. m |-> w[i]]
  BY <1>8, <1>w
<1>11. w \in Seq(Nat) /\ Len(w) = m
  BY <1>8, <1>9, <1>10
<1>12. Stitched(w, x, n + 1)
  BY <1>1, <1>7, <1>8, <1>9, <1>11 DEF Stitched
<1>13. Range(w) \subseteq Range(v) \cup Range(bs)
  BY <1>9, <1>10 DEF Range
<1> QED
  BY <1>0, <1>12, <1>13

LEMMA StitchedAll ==
    ASSUME NEW x \in Seq(DataExtent), NEW v, Stitched(v, x, Len(x))
    PROVE  v = Shown(x)
<1>1. PICK s : s = Shown(x)
  OBVIOUS
<1>2. SubSeq(x, 1, Len(x)) = x /\ s \in Seq(Nat \ {0})
  BY <1>1, SubSeqAll, ShownTyped
<1>3. v \in Seq(Nat) /\ Len(v) = Len(s) /\ \A i \in 1 .. Len(v) : v[i] = s[i]
  <2>1. /\ v \in Seq(Nat) /\ Len(v) = Len(s)
        /\ \A i \in 1 .. Len(v) : v[i] = IF i <= Len(s) THEN s[i] ELSE PROT_NONE
    BY ONLY <1>1, <1>2, Stitched(v, x, Len(x)) DEF Stitched
  <2>2. Len(s) \in Nat
    BY ONLY <1>2
  <2> QED
    BY ONLY <2>1, <2>2
<1>4. v = s
  BY <1>2, <1>3
<1> QED
  BY <1>1, <1>4

\* Record k has the extents it had, or one more.
Grows(k) ==
    /\ k \in DOMAIN rec /\ k \in DOMAIN rec'
    /\ \/ Extents(rec[k])' = Extents(rec[k])
       \/ \E e \in DataExtent : Extents(rec[k])' = Append(Extents(rec[k]), e)

LEMMA GrowsMore ==
    ASSUME Live, NEW k, Grows(k)
    PROVE  /\ Own(k) \subseteq Own(k)'
           /\ \A s \in Seq(Nat \ {0}) : IsPrefix(s, Shown(Extents(rec[k])))
                                            => IsPrefix(s, Shown(Extents(rec[k])))'
           /\ ext_total(rec[k]) <= ext_total(rec[k])'
           /\ ext_total(rec[k]) \in Nat
<1>1. PICK x, y : x = Extents(rec[k]) /\ y = Extents(rec[k])'
  OBVIOUS
<1>2. x \in Seq(DataExtent)
  BY <1>1, ExtentsAre DEF Grows
<1>3. Own(k) = Cover(x) /\ Own(k)' = Cover(y) /\ ext_total(rec[k]) = Len(Shown(x))
      /\ ext_total(rec[k])' = Len(Shown(y)) /\ Shown(Extents(rec[k]))' = Shown(y)
  BY <1>1 DEF Own, ext_total
<1>4. Shown(x) \in Seq(Nat \ {0}) /\ Len(Shown(x)) \in Nat
  BY <1>2, ShownTyped
<1>5. CASE y = x
  BY <1>1, <1>3, <1>4, <1>5
<1>6. ASSUME NEW e \in DataExtent, y = Append(x, e)
      PROVE  /\ Cover(x) \subseteq Cover(y) /\ Len(Shown(x)) <= Len(Shown(y))
             /\ \A s \in Seq(Nat \ {0}) : IsPrefix(s, Shown(x)) => IsPrefix(s, Shown(y))
  <2>1. Shown(y) = Shown(x) \o BlocksOf(e) /\ Cover(y) = Cover(x) \cup Range(BlocksOf(e))
    BY <1>2, <1>6, ShownAppend, CoverAppend
  <2>2. PICK b, z : b = BlocksOf(e) /\ z = Shown(x)
    OBVIOUS
  <2>3. b \in Seq(Nat \ {0}) /\ z \in Seq(Nat \ {0})
    BY <1>4, <2>2, BlocksOfTyped
  <2>4. Len(z \o b) >= Len(z)
    BY <2>3
  <2>5. \A s \in Seq(Nat \ {0}) : IsPrefix(s, z) => IsPrefix(s, z \o b)
    BY <2>3, PrefixProps
  <2> QED
    BY <1>4, <2>1, <2>2, <2>4, <2>5
<1> QED
  BY <1>1, <1>3, <1>4, <1>5, <1>6 DEF Grows

\* A mapping that a step leaves as it is; a thread, a record that it leaves.
Kept(a) == a # NULL => a \in DOMAIN vm' /\ vm'[a] = vm[a]

Same(u) ==
    /\ pc'[u] = pc[u] /\ key'[u] = key[u] /\ need'[u] = need[u] /\ snap'[u] = snap[u]
    /\ base'[u] = base[u] /\ slices'[u] = slices[u]

SameMap(k) == rec'[k].map_addr = rec[k].map_addr /\ rec'[k].map_len = rec[k].map_len

LEMMA MappedStays ==
    ASSUME Live, NEW k, Grows(k), Mapped(k), SameMap(k), Kept(rec[k].map_addr)
    PROVE  Mapped(k)'
<1>1. SUFFICES ASSUME rec'[k].map_addr # NULL
               PROVE  /\ rec'[k].map_addr \in DOMAIN vm'
                      /\ vm'[rec'[k].map_addr] \in Seq(Nat \ {0})
                      /\ Len(vm'[rec'[k].map_addr]) = rec'[k].map_len
                      /\ IsPrefix(vm'[rec'[k].map_addr], Shown(Extents(rec[k]))')
  BY DEF Mapped
<1>2. PICK a, v : a = rec[k].map_addr /\ v = vm[a]
  OBVIOUS
<1>3. rec'[k].map_addr = a /\ vm'[a] = v /\ a \in DOMAIN vm' /\ rec'[k].map_len = rec[k].map_len
  BY <1>1, <1>2 DEF SameMap, Kept
<1>4. v \in Seq(Nat \ {0}) /\ Len(v) = rec[k].map_len /\ IsPrefix(v, Shown(Extents(rec[k])))
  BY <1>1, <1>2, <1>3 DEF Mapped
<1>5. IsPrefix(v, Shown(Extents(rec[k])))'
  BY <1>4, GrowsMore
<1> QED
  BY <1>3, <1>4, <1>5

LEMMA MapsStays ==
    ASSUME Live, NEW u \in Threads, Maps(u), Same(u), Kept(base[u]),
           pc[u] \in Reading => Seen(u)' = Seen(u),
           pc[u] # "idle" => Grows(key[u]),
           pc[u] \in Mapping => rec'[key[u]].map_addr = NULL
    PROVE  Maps(u)'
<1>1. PICK k, a, v, x : k = key[u] /\ a = base[u] /\ v = vm[a] /\ x = Seen(u)
  OBVIOUS
<1>2. /\ key'[u] = k /\ base'[u] = a /\ pc'[u] = pc[u] /\ need'[u] = need[u] /\ snap'[u] = snap[u]
      /\ slices'[u] = slices[u]
  BY <1>1 DEF Same
<1>3. a # NULL => a \in DOMAIN vm' /\ vm'[a] = v /\ vm'[base'[u]] = v
  BY <1>1, <1>2 DEF Kept
<1>4. pc[u] \in Reading => Seen(u)' = x
  BY <1>1
<1>5. Own(key[u])' = Own(k)'
  BY <1>2 DEF Own
<1>6. Extents(rec[key[u]])' = Extents(rec[k])'
  BY <1>2
<1>7. ASSUME a # NULL
      PROVE  (/\ pc[u] \in Basing /\ base[u] \in DOMAIN vm /\ vm[base[u]] \in Seq(Nat)
              /\ Range(vm[base[u]]) \subseteq Own(key[u]) \cup {PROT_NONE})'
  <2>1. pc[u] \in Basing /\ v \in Seq(Nat) /\ Range(v) \subseteq Own(k) \cup {PROT_NONE}
    BY <1>1, <1>7 DEF Maps
  <2>2. Own(k) \subseteq Own(k)'
    BY <1>1, <2>1, GrowsMore DEF Basing
  <2> QED
    BY <1>2, <1>3, <1>5, <1>7, <2>1, <2>2
<1>8. ASSUME pc[u] \in Mapping
      PROVE  (/\ rec[key[u]].map_addr = NULL
              /\ IsPrefix(Shown(Seen(u)), Shown(Extents(rec[key[u]])))
              /\ need[u] <= Len(Shown(Seen(u))))'
  <2>1. pc[u] \in Reading /\ pc[u] # "idle"
    BY <1>8 DEF Mapping, Reading
  <2>2. x \in Seq(DataExtent) /\ IsPrefix(Shown(x), Shown(Extents(rec[k]))) /\ need[u] <= Len(Shown(x))
    BY <1>1, <1>8, <2>1, SnapshotIs DEF Maps
  <2>3. Shown(x) \in Seq(Nat \ {0}) /\ Grows(k)
    BY <1>1, <2>1, <2>2, ShownTyped
  <2>4. IsPrefix(Shown(x), Shown(Extents(rec[k]))')
    BY <2>2, <2>3, GrowsMore
  <2> QED
    BY <1>1, <1>2, <1>4, <1>6, <1>8, <2>1, <2>2, <2>4
<1>9. pc[u] = "stitch" => /\ slices[u] < snap[u].next /\ a # NULL
                          /\ Stitched(v, x, slices[u])
  BY <1>1 DEF Maps
<1>10. pc[u] = "mapped" /\ a # NULL => Stitched(v, x, snap[u].next)
  BY <1>1 DEF Maps
<1>11. pc[u] = "munmap" => a # NULL /\ Len(v) = need[u]
  BY <1>1 DEF Maps
<1>12. pc[u] \notin {"stitch", "mapped"} => slices[u] = 0
  BY DEF Maps
<1>13. (pc[u] = "stitch" => slices[u] < snap[u].next /\ base[u] # NULL
                            /\ Stitched(vm[base[u]], Seen(u), slices[u]))'
  BY <1>2, <1>3, <1>4, <1>9 DEF Reading
<1>14. (pc[u] = "mapped" /\ base[u] # NULL => Stitched(vm[base[u]], Seen(u), snap[u].next))'
  BY <1>2, <1>3, <1>4, <1>10 DEF Reading
<1>15. (pc[u] = "munmap" => base[u] # NULL /\ Len(vm[base[u]]) = need[u])'
  BY <1>2, <1>3, <1>11
<1> QED
  BY <1>2, <1>7, <1>8, <1>12, <1>13, <1>14, <1>15 DEF Maps

LEMMA StillGrows ==
    ASSUME Still, NEW k \in DOMAIN rec
    PROVE  /\ Grows(k) /\ Extents(rec[k])' = Extents(rec[k]) /\ Own(k)' = Own(k)
           /\ ext_total(rec[k])' = ext_total(rec[k])
<1>1. Extents(rec[k])' = Extents(rec[k])
  BY DEF Still, Extents
<1> QED
  BY <1>1 DEF Still, Grows, Own, ext_total

LEMMA SeenStill ==
    ASSUME Still, NEW u \in Threads, snap'[u] = snap[u]
    PROVE  Seen(u)' = Seen(u)
  BY DEF Still, Seen

LEMMA NewOwns ==
    ASSUME NEW k \in DOMAIN rec', rec'[k] = NewRec
    PROVE  Own(k)' = {} /\ ext_total(rec[k])' = 0 /\ Mapped(k)'
<1>1. Extents(rec[k])' = << >>
  BY DEF Extents, NewRec
<1>2. Cover(<< >>) = {}
  BY DEF Cover
<1>3. Own(k)' = {}
  BY <1>1, <1>2 DEF Own
<1>4. ext_total(rec[k])' = 0
  BY <1>1, ShownEmpty DEF ext_total
<1> QED
  BY <1>3, <1>4 DEF Mapped, NewRec

\* Every record has the room its size says.
Fits == \A k \in DOMAIN rec : rec'[k].size <= ext_total(rec[k])

LEMMA StillOwners ==
    ASSUME Owners, Still, free' = free, Fits
    PROVE  Owners'
<1>1. \A k \in DOMAIN rec : Own(k)' = Own(k) /\ ext_total(rec[k])' = ext_total(rec[k])
  BY StillGrows
<1>2. \A k \in DOMAIN rec' : k \in DOMAIN rec \/ (Own(k)' = {} /\ ext_total(rec[k])' = 0
                                                   /\ rec'[k].size = 0)
  BY NewOwns DEF Still, NewRec
<1>3. \A k \in DOMAIN rec' : Own(k)' \cap free' = {}
  BY <1>1, <1>2 DEF Owners
<1>4. \A k, l \in DOMAIN rec' : k # l => Own(k)' \cap Own(l)' = {}
  BY <1>1, <1>2 DEF Owners
<1>5. \A k \in DOMAIN rec' : rec'[k].size <= ext_total(rec[k])'
  BY <1>1, <1>2 DEF Fits
<1> QED
  BY <1>3, <1>4, <1>5 DEF Owners

\* What a step of thread t on record k leaves to the others.
Leaves(t, k) ==
    /\ \A u \in Threads : u # t =>
          Same(u) /\ Kept(base[u]) /\ (pc[u] \in Mapping => rec'[key[u]].map_addr = NULL)
    /\ \A l \in DOMAIN rec : l # k => SameMap(l) /\ Kept(rec[l].map_addr)

LEMMA StillClean ==
    ASSUME Clean, Live', Still, free' = free, Fits, ~closed',
           NEW t \in Threads, NEW k, Leaves(t, k),
           k \in DOMAIN rec => Mapped(k)', Maps(t)', MapsApart', Handed'
    PROVE  Clean'
<1>1. ASSUME NEW l \in DOMAIN rec'
      PROVE  Mapped(l)'
  <2>1. CASE l \notin DOMAIN rec
    BY <1>1, <2>1, NewOwns DEF Still
  <2>2. CASE l \in DOMAIN rec /\ l = k
    BY <2>2
  <2>3. CASE l \in DOMAIN rec /\ l # k
    BY <2>3, StillGrows, MappedStays DEF Clean, Mappings, Leaves
  <2> QED
    BY <2>1, <2>2, <2>3
<1>2. ASSUME NEW u \in Threads
      PROVE  Maps(u)'
  <2>1. CASE u = t
    BY <2>1
  <2>2. CASE u # t
    <3>1. Same(u) /\ Kept(base[u]) /\ (pc[u] \in Mapping => rec'[key[u]].map_addr = NULL)
      BY <2>2 DEF Leaves
    <3>2. Live /\ Maps(u)
      BY DEF Clean, Mappings
    <3>3. pc[u] # "idle" => Grows(key[u])
      BY <3>2, StillGrows DEF Live, Control
    <3>4. Seen(u)' = Seen(u)
      BY <3>1, SeenStill DEF Same
    <3> QED
      BY <3>1, <3>2, <3>3, <3>4, MapsStays
  <2> QED
    BY <2>1, <2>2
<1>3. Owners'
  BY StillOwners DEF Clean
<1>4. ClosedClean'
  BY DEF ClosedClean
<1>5. Mappings'
  BY <1>1, <1>2 DEF Mappings
<1> QED
  BY <1>3, <1>4, <1>5 DEF Clean

LEMMA KeptAll ==
    ASSUME Clean, vm' = vm
    PROVE  /\ \A l \in DOMAIN rec : Kept(rec[l].map_addr)
           /\ \A u \in Threads : Kept(base[u])
  BY DEF Clean, Mappings, Mapped, Maps, Kept

LEMMA NotMapping ==
    ASSUME Clean, NEW u \in Threads, pc[u] \in Mapping
    PROVE  key[u] \in DOMAIN rec /\ rec[key[u]].map_addr = NULL
  BY DEF Clean, Mappings, Maps, Live, Control, Mapping

\* A step that has nothing to do with mappings.
Quiet(t) ==
    /\ Still /\ Fits /\ UNCHANGED <<free, vm, closed, handed>> /\ ~closed
    /\ \A u \in Threads : u # t => Same(u)
    /\ \A l \in DOMAIN rec : SameMap(l)
    /\ pc[t] \in {"idle", "grow", "io"} /\ pc'[t] \in {"idle", "grow", "io"}
    /\ base'[t] = base[t] \/ base'[t] = NULL
    /\ slices'[t] = slices[t] \/ slices'[t] = 0

LEMMA QuietClean ==
    ASSUME Clean, Live', NEW t \in Threads, Quiet(t)
    PROVE  Clean'
<1>1. base[t] = NULL /\ base'[t] = NULL /\ slices'[t] = 0
  BY DEF Quiet, Clean, Mappings, Maps, Basing
<1>2. vm' = vm /\ handed' = handed /\ ~closed' /\ free' = free /\ Still /\ Fits
  BY DEF Quiet
<1>3. Leaves(t, NoKey)
  <2>1. ASSUME NEW u \in Threads, u # t
        PROVE  Same(u) /\ Kept(base[u]) /\ (pc[u] \in Mapping => rec'[key[u]].map_addr = NULL)
    BY <1>2, <2>1, KeptAll, NotMapping DEF Quiet, SameMap
  <2> QED
    BY <1>2, <2>1, KeptAll DEF Leaves, Quiet
<1>4. NoKey \notin DOMAIN rec
  BY MappedAssumption DEF Clean, Live, Types
<1>5. Maps(t)'
  BY <1>1 DEF Quiet, Maps, Mapping
<1>6. \A k \in DOMAIN rec' : rec'[k].map_addr # NULL =>
          k \in DOMAIN rec /\ rec[k].map_addr = rec'[k].map_addr /\ rec[k].map_len = rec'[k].map_len
  BY DEF Quiet, Still, NewRec, SameMap
<1>7. \A u \in Threads : base'[u] = base[u]
  BY <1>1 DEF Quiet, Same
<1>8. \A u \in Threads : pc'[u] \in Mapping => pc[u] \in Mapping /\ key'[u] = key[u]
  BY DEF Quiet, Same, Mapping
<1>9. MapsApart'
  <2>1. (\A k, l \in DOMAIN rec : rec[k].map_addr = rec[l].map_addr /\ rec[k].map_addr # NULL => k = l)'
    BY <1>6 DEF Clean, MapsApart
  <2>2. (\A u, w \in Threads : base[u] = base[w] /\ base[u] # NULL => u = w)'
    BY <1>7 DEF Clean, MapsApart
  <2>3. (\A k \in DOMAIN rec, u \in Threads : rec[k].map_addr = base[u] => base[u] = NULL)'
    BY <1>6, <1>7 DEF Clean, MapsApart
  <2>4. (\A a \in DOMAIN vm :
          (\E k \in DOMAIN rec : rec[k].map_addr = a) \/ (\E u \in Threads : base[u] = a))'
    <3>1. \A k \in DOMAIN rec : k \in DOMAIN rec' /\ rec'[k].map_addr = rec[k].map_addr
      BY DEF Quiet, Still, SameMap
    <3> QED
      BY <1>2, <1>7, <3>1 DEF Clean, MapsApart
  <2>5. (\A u, w \in Threads : pc[u] \in Mapping /\ pc[w] \in Mapping /\ key[u] = key[w] => u = w)'
    BY <1>8 DEF Clean, MapsApart
  <2> QED
    BY <2>1, <2>2, <2>3, <2>4, <2>5 DEF MapsApart
<1>10. Handed'
  <2>1. \A k \in DOMAIN rec : k \in DOMAIN rec' /\ rec'[k].map_addr = rec[k].map_addr
                              /\ rec'[k].map_len = rec[k].map_len
    BY DEF Quiet, Still, SameMap
  <2> QED
    BY <1>2, <2>1 DEF Clean, Handed
<1> QED
  BY <1>2, <1>3, <1>4, <1>5, <1>9, <1>10, StillClean

\* The records' sizes, where a step leaves them alone.
LEMMA FitsSame ==
    ASSUME Owners, NEW k \in DOMAIN rec, NEW r, Sets(k, r), r.size = rec[k].size
    PROVE  Fits
  BY DEF Owners, Sets, Fits

LEMMA FitsAll ==
    ASSUME Owners, rec' = rec
    PROVE  Fits
  BY DEF Owners, Fits

LEMMA SetsSameMap ==
    ASSUME NEW k \in DOMAIN rec, NEW r, Sets(k, r),
           r.map_addr = rec[k].map_addr, r.map_len = rec[k].map_len
    PROVE  \A l \in DOMAIN rec : SameMap(l)
  BY DEF Sets, SameMap

LEMMA ReadClean ==
    ASSUME Clean, NEW t \in Threads, NEW k \in Keys, ls_read(t, k)
    PROVE  Clean'
<1>1. PICK r : r = [rec[k] EXCEPT !.busy = @ + 1]
  OBVIOUS
<1>2. k \in DOMAIN rec /\ rec[k] \in Record /\ rec' = [rec EXCEPT ![k] = r]
  BY <1>1 DEF ls_read, Clean, Live, Types
<1>3. Sets(k, r)
  BY <1>2, SetsRecord
<1>4. /\ Stays(k, r) /\ r.size = rec[k].size /\ r.map_addr = rec[k].map_addr
      /\ r.map_len = rec[k].map_len
  BY <1>1, <1>2 DEF Record, Stays
<1>5. Still /\ Fits /\ \A l \in DOMAIN rec : SameMap(l)
  BY <1>2, <1>3, <1>4, SetsStill, FitsSame, SetsSameMap DEF Clean, ls_read, space
<1>6. Quiet(t)
  BY <1>5 DEF Quiet, ls_read, Enter, Goto, space, Same, Clean, Live, Types
<1> QED
  BY <1>6, QuietClean, ReadLive DEF Clean

LEMMA WriteClean ==
    ASSUME Clean, NEW t \in Threads, NEW k \in Keys, NEW n \in Sizes, ls_write(t, k, n)
    PROVE  Clean'
<1>1. Still /\ Fits /\ \A l \in DOMAIN rec : SameMap(l)
  <2>1. CASE k \in DOMAIN rec
    <3>1. rec' = rec
      BY <2>1 DEF ls_write
    <3> QED
      BY <3>1, SameStill, FitsAll DEF Clean, SameMap, ls_write, space
  <2>2. CASE k \notin DOMAIN rec
    <3>1. Sets(k, NewRec)
      BY <2>2 DEF ls_write, Bind, Sets
    <3>2. Still
      BY <2>2, <3>1 DEF Still, Sets, ls_write, space
    <3>3. \A l \in DOMAIN rec : rec'[l] = rec[l]
      BY <2>2, <3>1 DEF Sets
    <3> QED
      BY <3>2, <3>3 DEF Fits, SameMap, Clean, Owners
  <2> QED
    BY <2>1, <2>2
<1>2. Quiet(t)
  BY <1>1 DEF Quiet, ls_write, Enter, Goto, space, Same, Clean, Live, Types
<1> QED
  BY <1>2, QuietClean, WriteLive DEF Clean

\* A call in progress is on an open store.
LEMMA OpenHere ==
    ASSUME Live, NEW t \in Threads, pc[t] # "idle"
    PROVE  ~closed
  BY DEF Live, Control

LEMMA IdleSame ==
    ASSUME Live, NEW t \in Threads, Idle(t)
    PROVE  /\ \A u \in Threads : u # t => Same(u)
           /\ pc'[t] = "idle" /\ base'[t] = NULL /\ slices'[t] = 0
  BY DEF Idle, Goto, Same, Live, Types

LEMMA PushFailsClean ==
    ASSUME Clean, NEW t \in Threads, PushFails(t)
    PROVE  Clean'
<1>1. Still /\ Fits /\ \A l \in DOMAIN rec : SameMap(l)
  BY SameStill, FitsAll DEF PushFails, space, Clean, SameMap
<1>2. Live /\ Idle(t) /\ pc[t] = "grow" /\ UNCHANGED <<free, vm, closed, handed>>
  BY DEF PushFails, space, Clean
<1>3. Quiet(t)
  BY <1>1, <1>2, OpenHere, IdleSame DEF Quiet
<1> QED
  BY <1>3, QuietClean, PushFailsLive DEF Clean

LEMMA TransferredClean ==
    ASSUME Clean, NEW t \in Threads, Transferred(t)
    PROVE  Clean'
<1>1. PICK k, r : k = key[t] /\ r = [rec[k] EXCEPT !.busy = @ - 1]
  OBVIOUS
<1>2. k \in DOMAIN rec /\ rec[k] \in Record /\ k \in Keys
  BY <1>1 DEF Transferred, Clean, Live, Types, Control
<1>3. rec' = [rec EXCEPT ![k] = r]
  BY <1>1 DEF Transferred
<1>4. Sets(k, r)
  BY <1>2, <1>3, SetsRecord
<1>5. /\ Stays(k, r) /\ r.size = rec[k].size /\ r.map_addr = rec[k].map_addr
      /\ r.map_len = rec[k].map_len
  BY <1>1, <1>2 DEF Record, Stays
<1>6. Still /\ Fits /\ \A l \in DOMAIN rec : SameMap(l)
  BY <1>2, <1>4, <1>5, SetsStill, FitsSame, SetsSameMap DEF Clean, Transferred, space
<1>7. Live /\ Idle(t) /\ pc[t] = "io" /\ UNCHANGED <<free, vm, closed, handed>>
  BY DEF Transferred, space, Clean
<1>8. Quiet(t)
  BY <1>6, <1>7, OpenHere, IdleSame DEF Quiet
<1> QED
  BY <1>8, QuietClean, TransferredLive DEF Clean

LEMMA GrownClean ==
    ASSUME Clean, NEW t \in Threads, Grown(t)
    PROVE  Clean'
<1>1. PICK k, q, m, b : k = key[t] /\ q = rec[k] /\ m = Max({q.size, need[t]}) /\ b = q.busy + 1
  OBVIOUS
<1>2. PICK r : r = [q EXCEPT !.size = m, !.busy = b]
  OBVIOUS
<1>3. /\ Live /\ k \in DOMAIN rec /\ q \in Record /\ need[t] \in Nat \ {0} /\ k \in Keys
      /\ pc[t] = "grow" /\ need[t] <= ext_total(q) /\ q.size <= ext_total(q)
  BY <1>1 DEF Grown, Clean, Live, Types, Control, Owners
<1>4. rec' = [rec EXCEPT ![k] = r]
  BY <1>1, <1>2 DEF Grown
<1>5. Sets(k, r)
  BY <1>3, <1>4, SetsRecord
<1>6. m \in Nat /\ m <= ext_total(q)
  <2>1. q.size \in Int /\ need[t] \in Int /\ q.size \in Nat
    BY <1>3 DEF Record
  <2>2. m = IF q.size >= need[t] THEN q.size ELSE need[t]
    BY <1>1, <2>1, MaxOfTwo
  <2> QED
    BY <1>3, <2>1, <2>2
<1>7. /\ r.ext = q.ext /\ r.next = q.next /\ r.ncap = q.ncap /\ r.size = m
      /\ r.map_addr = q.map_addr /\ r.map_len = q.map_len
  BY <1>2, <1>3, <1>6 DEF Record
<1>8. q.ext # NULL
  <2>1. SUFFICES ASSUME q.ext = NULL PROVE FALSE
    OBVIOUS
  <2>2. ext_total(q) = 0
    BY <1>1, <1>3, <2>1, ExtentsAre, ShownEmpty DEF ext_total
  <2> QED
    BY <1>3, <2>2
<1>9. Still
  BY <1>1, <1>3, <1>5, <1>7, <1>8, SetsStill DEF Stays, Grown, space
<1>10. Fits
  BY <1>1, <1>3, <1>5, <1>6, <1>7 DEF Fits, Sets, Clean, Owners
<1>11. \A l \in DOMAIN rec : SameMap(l)
  BY <1>1, <1>3, <1>5, <1>7, SetsSameMap
<1>12. ~closed
  BY <1>3, OpenHere
<1>13. Quiet(t)
  BY <1>3, <1>9, <1>10, <1>11, <1>12 DEF Quiet, Grown, Goto, space, Same, Live, Types
<1> QED
  BY <1>13, QuietClean, GrownLive DEF Clean

LEMMA SameRec ==
    ASSUME Owners, rec' = rec, arr' = arr, retired' = retired
    PROVE  Still /\ Fits /\ \A l \in DOMAIN rec : SameMap(l)
  BY SameStill, FitsAll DEF SameMap

LEMMA NoSuchKey ==
    ASSUME Live
    PROVE  NoKey \notin DOMAIN rec
  BY MappedAssumption DEF Live, Types

LEMMA MapAgainClean ==
    ASSUME Clean, NEW t \in Threads, NEW k \in Keys, MapAgain(t, k)
    PROVE  Clean'
<1>1. UNCHANGED <<rec, arr, retired, free, vm, closed, lk, pc, key, need, snap, base, slices>> /\ ~closed
  BY DEF MapAgain, space, thread, Enter
<1>2. Still /\ Fits /\ \A l \in DOMAIN rec : SameMap(l)
  BY <1>1, SameRec DEF Clean
<1>3. \A u \in Threads : Same(u)
  BY <1>1 DEF Same
<1>4. Leaves(t, NoKey)
  BY <1>1, <1>2, <1>3, KeptAll, NotMapping DEF Leaves
<1>5. Maps(t)'
  <2>1. Live /\ Maps(t) /\ Kept(base[t]) /\ Same(t) /\ Seen(t)' = Seen(t)
    BY <1>1, <1>2, <1>3, KeptAll, SeenStill DEF Clean, Mappings
  <2>2. pc[t] # "idle" => Grows(key[t])
    BY <1>2, <2>1, StillGrows DEF Live, Control
  <2>3. pc[t] \in Mapping => rec'[key[t]].map_addr = NULL
    BY <1>1, NotMapping
  <2> QED
    BY <2>1, <2>2, <2>3, MapsStays
<1>6. MapsApart'
  BY <1>1 DEF Clean, MapsApart
<1>7. Handed'
  <2>1. /\ k \in DOMAIN rec /\ rec[k].map_addr # NULL
        /\ rec[k].size \in Nat /\ rec[k].map_len \in Nat
        /\ handed' = [handed EXCEPT ![k] = handed[k] \cup
                        {[addr |-> rec[k].map_addr, len |-> rec[k].size,
                          outgrown |-> rec[k].size > rec[k].map_len]}]
    BY DEF MapAgain, Clean, Live, Types, Record
  <2>2. SUFFICES ASSUME NEW l \in Keys, NEW h \in handed'[l]
                 PROVE  /\ l \in DOMAIN rec' /\ rec'[l].map_addr # NULL
                        /\ h.addr = rec'[l].map_addr /\ h.len \in Nat
                        /\ h.outgrown \/ h.len <= rec'[l].map_len
    BY DEF Handed
  <2>3. CASE h \in handed[l]
    BY <1>1, <2>3 DEF Clean, Handed
  <2>4. CASE h \notin handed[l]
    <3>1. l = k /\ h = [addr |-> rec[k].map_addr, len |-> rec[k].size,
                        outgrown |-> rec[k].size > rec[k].map_len]
      BY <2>1, <2>2, <2>4 DEF Clean, Live, Types
    <3>2. h.addr = rec[k].map_addr /\ h.len = rec[k].size
      BY <3>1
    <3>3. rec[k].size > rec[k].map_len => h.outgrown
      BY <3>1, Zenon
    <3>4. h.outgrown \/ h.len <= rec[k].map_len
      BY <2>1, <3>2, <3>3
    <3> QED
      BY <1>1, <2>1, <3>1, <3>2, <3>4
  <2> QED
    BY <2>3, <2>4
<1>8. Live' /\ NoKey \notin DOMAIN rec /\ ~closed' /\ free' = free
  BY <1>1, NoSuchKey, MapAgainLive DEF Clean
<1> QED
  BY <1>2, <1>4, <1>5, <1>6, <1>7, <1>8, StillClean

LEMMA MapClean ==
    ASSUME Clean, NEW t \in Threads, NEW k \in Keys, ls_map(t, k)
    PROVE  Clean'
<1>1. PICK r : r = [rec[k] EXCEPT !.busy = @ + 1]
  OBVIOUS
<1>2. /\ k \in DOMAIN rec /\ rec[k] \in Record /\ rec' = [rec EXCEPT ![k] = r] /\ rec[k].size > 0
      /\ rec[k].map_addr = NULL
  BY <1>1 DEF ls_map, Clean, Live, Types
<1>3. Sets(k, r)
  BY <1>2, SetsRecord
<1>4. /\ Stays(k, r) /\ r.size = rec[k].size /\ r.map_addr = rec[k].map_addr
      /\ r.map_len = rec[k].map_len
  BY <1>1, <1>2 DEF Record, Stays
<1>5. Still /\ Fits /\ (\A l \in DOMAIN rec : SameMap(l)) /\ DOMAIN rec' = DOMAIN rec
  BY <1>2, <1>3, <1>4, SetsStill, FitsSame, SetsSameMap DEF Clean, ls_map, space
<1>6. /\ UNCHANGED <<free, vm, closed, base, slices, handed>> /\ ~closed
      /\ pc[t] = "idle" /\ pc'[t] = "reserve" /\ key'[t] = k /\ need'[t] = rec[k].size
      /\ snap'[t] = ls_place_of(rec[k])
      /\ \A u \in Threads : u # t => Same(u)
  BY DEF ls_map, Enter, Goto, space, Same, Clean, Live, Types
<1>7. Leaves(t, NoKey)
  BY <1>5, <1>6, KeptAll, NotMapping DEF Leaves, SameMap
<1>8. base[t] = NULL /\ slices[t] = 0
  BY <1>6 DEF Clean, Mappings, Maps, Basing
<1>9. Maps(t)'
  <2>1. PICK x : x = Extents(rec[k])
    OBVIOUS
  <2>2. /\ x \in Seq(DataExtent) /\ rec[k].ext # NULL /\ x = arr[rec[k].ext] /\ Len(x) = rec[k].next
    BY <1>2, <2>1, Sized, ExtentsAre DEF Clean
  <2>3. SubSeq(x, 1, Len(x)) = x
    BY <2>2, SubSeqAll
  <2>4. Seen(t)' = x
    BY <1>5, <1>6, <2>2, <2>3 DEF Seen, ls_place_of, Still
  <2>5. Extents(rec[key[t]])' = x
    BY <1>2, <1>5, <1>6, <2>1, StillGrows
  <2>6. IsPrefix(Shown(x), Shown(x))
    BY <2>2, ShownTyped, PrefixSelf
  <2>7. need'[t] <= Len(Shown(x))
    BY <1>2, <1>6, <2>1 DEF Clean, Owners, ext_total
  <2>8. rec'[key'[t]].map_addr = NULL
    BY <1>2, <1>3, <1>4, <1>6 DEF Sets
  <2> QED
    BY <1>6, <1>8, <2>4, <2>5, <2>6, <2>7, <2>8 DEF Maps
<1>10. MapsApart'
  <2>1. MapsApart /\ \A l \in DOMAIN rec : rec'[l].map_addr = rec[l].map_addr
    BY <1>5 DEF Clean, SameMap
  <2>2. \A u \in Threads : pc[u] \in Mapping => key[u] # k
    BY DEF ls_map, MapPermitted, Users, Mapping
  <2>3. \A u \in Threads : u # t => pc'[u] = pc[u] /\ key'[u] = key[u]
    BY <1>6 DEF Same
  <2>4. (\A u, w \in Threads : pc[u] \in Mapping /\ pc[w] \in Mapping /\ key[u] = key[w] => u = w)'
    BY <1>6, <2>1, <2>2, <2>3 DEF MapsApart
  <2>5. (\A l, m \in DOMAIN rec : rec[l].map_addr = rec[m].map_addr /\ rec[l].map_addr # NULL => l = m)'
    BY <1>5, <2>1 DEF MapsApart
  <2>6. (\A l \in DOMAIN rec, u \in Threads : rec[l].map_addr = base[u] => base[u] = NULL)'
    BY <1>5, <1>6, <2>1 DEF MapsApart
  <2>7. (\A a \in DOMAIN vm :
          (\E l \in DOMAIN rec : rec[l].map_addr = a) \/ (\E u \in Threads : base[u] = a))'
    BY <1>5, <1>6, <2>1 DEF MapsApart
  <2>8. (\A u, w \in Threads : base[u] = base[w] /\ base[u] # NULL => u = w)'
    BY <1>6, <2>1 DEF MapsApart
  <2> QED
    BY <2>4, <2>5, <2>6, <2>7, <2>8 DEF MapsApart
<1>11. Handed'
  BY <1>5, <1>6 DEF Clean, Handed, SameMap
<1>12. Live' /\ NoKey \notin DOMAIN rec /\ ~closed' /\ free' = free
  BY <1>6, NoSuchKey, MapLive DEF Clean
<1> QED
  BY <1>5, <1>7, <1>9, <1>10, <1>11, <1>12, StillClean

\* A step of t on its mapping alone: the records and the calls stay.
Works(t) ==
    /\ UNCHANGED <<rec, arr, retired, free, closed, handed>>
    /\ pc[t] # "idle"
    /\ \A u \in Threads : u # t => Same(u) /\ Kept(base[u])
    /\ \A l \in DOMAIN rec : Kept(rec[l].map_addr)
    /\ pc'[t] \in Mapping => pc[t] \in Mapping /\ key'[t] = key[t]
    /\ base'[t] # NULL => base'[t] \in DOMAIN vm'
    /\ base'[t] \in {NULL, base[t]} \/ base'[t] \notin DOMAIN vm
    /\ \A a \in DOMAIN vm' : a \in DOMAIN vm \/ a = base'[t]
    /\ base[t] \in DOMAIN vm' => base'[t] = base[t]

LEMMA WorksClean ==
    ASSUME Clean, Live', NEW t \in Threads, Works(t), Maps(t)'
    PROVE  Clean'
<1>1. UNCHANGED <<rec, arr, retired, free, closed, handed>>
  BY DEF Works
<1>2. Still /\ Fits /\ \A l \in DOMAIN rec : SameMap(l)
  BY <1>1, SameRec DEF Clean
<1>3. Leaves(t, NoKey)
  BY <1>1, <1>2, NotMapping DEF Leaves, Works
<1>4. MapsApart'
  <2>1. /\ MapsApart
        /\ \A l \in DOMAIN rec : rec[l].map_addr # NULL => rec[l].map_addr \in DOMAIN vm
        /\ \A u \in Threads : base[u] # NULL => base[u] \in DOMAIN vm
    BY DEF Clean, Mappings, Mapped, Maps
  <2>2. (\A l, m \in DOMAIN rec : rec[l].map_addr = rec[m].map_addr /\ rec[l].map_addr # NULL => l = m)'
    BY <1>1, <2>1 DEF MapsApart
  <2>3. \A u \in Threads : u # t => base'[u] = base[u] /\ pc'[u] = pc[u] /\ key'[u] = key[u]
    BY DEF Works, Same
  <2>4. (\A u, w \in Threads : base[u] = base[w] /\ base[u] # NULL => u = w)'
    BY <2>1, <2>3 DEF MapsApart, Works
  <2>5. (\A l \in DOMAIN rec, u \in Threads : rec[l].map_addr = base[u] => base[u] = NULL)'
    BY <1>1, <2>1, <2>3 DEF MapsApart, Works
  <2>6. (\A a \in DOMAIN vm :
          (\E l \in DOMAIN rec : rec[l].map_addr = a) \/ (\E u \in Threads : base[u] = a))'
    <3>1. SUFFICES ASSUME NEW a \in DOMAIN vm'
                   PROVE  (\E l \in DOMAIN rec : rec[l].map_addr = a) \/ (\E u \in Threads : base'[u] = a)
      BY <1>1
    <3>2. CASE a = base'[t]
      BY <3>2
    <3>3. CASE a # base'[t]
      <4>1. a \in DOMAIN vm /\ a # base[t]
        BY <3>1, <3>3 DEF Works
      <4> QED
        BY <2>1, <2>3, <4>1 DEF MapsApart
    <3> QED
      BY <3>2, <3>3
  <2>7. (\A u, w \in Threads : pc[u] \in Mapping /\ pc[w] \in Mapping /\ key[u] = key[w] => u = w)'
    BY <1>1, <2>1, <2>3 DEF MapsApart, Works
  <2> QED
    BY <2>2, <2>4, <2>5, <2>6, <2>7 DEF MapsApart
<1>5. Handed'
  BY <1>1 DEF Clean, Handed
<1>6. NoKey \notin DOMAIN rec /\ ~closed' /\ free' = free
  BY <1>1, NoSuchKey, OpenHere DEF Clean, Works
<1> QED
  BY <1>2, <1>3, <1>4, <1>5, <1>6, StillClean

\* What goes on holding of a mapping in the making, whichever step it takes.
LEMMA MakingStays ==
    ASSUME Clean, NEW t \in Threads, pc[t] \in Mapping, UNCHANGED <<rec, arr, key, need, snap>>
    PROVE  /\ (/\ rec[key[t]].map_addr = NULL
               /\ IsPrefix(Shown(Seen(t)), Shown(Extents(rec[key[t]])))
               /\ need[t] <= Len(Shown(Seen(t))))'
           /\ Seen(t)' = Seen(t) /\ Own(key[t])' = Own(key[t])
<1>1. /\ rec[key[t]].map_addr = NULL
      /\ IsPrefix(Shown(Seen(t)), Shown(Extents(rec[key[t]])))
      /\ need[t] <= Len(Shown(Seen(t)))
  BY DEF Clean, Mappings, Maps
<1>2. Seen(t)' = Seen(t)
  BY DEF Seen
<1>3. Extents(rec[key[t]])' = Extents(rec[key[t]])
  BY DEF Extents
<1>4. Own(key[t])' = Own(key[t])
  BY <1>3 DEF Own
<1> QED
  BY <1>1, <1>2, <1>3, <1>4

LEMMA ReserveClean ==
    ASSUME Clean, NEW t \in Threads, Reserve(t)
    PROVE  Clean'
<1>1. /\ UNCHANGED <<rec, arr, retired, free, closed, key, need, snap, slices, handed>>
      /\ pc[t] = "reserve" /\ pc[t] \in Mapping /\ pc[t] \in Reading
  BY DEF Reserve, space, Mapping, Reading
<1>2. Live /\ base[t] = NULL /\ slices[t] = 0
  BY <1>1 DEF Clean, Mappings, Maps, Basing
<1>3. CASE pc' = [pc EXCEPT ![t] = "mapped"] /\ vm' = vm /\ base' = base
  <2>1. Works(t)
    <3>1. /\ \A u \in Threads : Kept(base[u])
          /\ \A l \in DOMAIN rec : Kept(rec[l].map_addr)
      BY <1>3, KeptAll
    <3>2. NULL \notin DOMAIN vm
      BY <1>2 DEF Live, Types, NULL
    <3> QED
      BY <1>1, <1>2, <1>3, <3>1, <3>2 DEF Works, Same, Live, Types
  <2>2. pc'[t] = "mapped" /\ base'[t] = NULL
    BY <1>2, <1>3 DEF Live, Types
  <2>3. Maps(t)'
    BY <1>1, <2>2, MakingStays DEF Maps
  <2> QED
    BY <1>2, <2>1, <2>3, WorksClean, ReserveLive
<1>4. ASSUME NEW a, a = Fresh(DOMAIN vm), NEW v,
             v = [i \in 1 .. Before(t, snap[t].next) |-> PROT_NONE],
             vm' = Bind(vm, a, v), base' = [base EXCEPT ![t] = a],
             pc' = [pc EXCEPT ![t] = "stitch"]
      PROVE  Clean'
  <2>1. a \in Nat \ {0} /\ a \notin DOMAIN vm
    BY <1>2, <1>4, FreshIs DEF Live, Types
  <2>2. DOMAIN vm' = DOMAIN vm \cup {a} /\ vm'[a] = v /\ \A b \in DOMAIN vm : vm'[b] = vm[b]
    BY <1>4, <2>1 DEF Bind
  <2>3. pc'[t] = "stitch" /\ base'[t] = a /\ \A u \in Threads : u # t => pc'[u] = pc[u] /\ base'[u] = base[u]
    BY <1>2, <1>4 DEF Live, Types
  <2>4. /\ \A u \in Threads : Kept(base[u])
        /\ \A l \in DOMAIN rec : Kept(rec[l].map_addr)
    BY <2>2 DEF Kept, Clean, Mappings, Mapped, Maps
  <2>5. NULL \notin DOMAIN vm' /\ a # NULL
    BY <1>2, <2>1, <2>2 DEF Live, Types, NULL
  <2>6. Works(t)
    BY <1>1, <1>2, <2>1, <2>2, <2>3, <2>4, <2>5 DEF Works, Same
  <2>7. PICK x : x = Seen(t)
    OBVIOUS
  <2>8. x \in Seq(DataExtent) /\ snap[t].next \in Nat \ {0}
    BY <1>1, <1>2, <2>7, SnapshotIs
  <2>9. v = [i \in 1 .. Len(Shown(x)) |-> PROT_NONE]
    BY <1>1, <1>2, <1>4, <2>7, BeforeAll
  <2>10. Stitched(v, x, 0) /\ Range(v) \subseteq {PROT_NONE} /\ v \in Seq(Nat)
    BY <2>8, <2>9, StitchedNone DEF Stitched
  <2>11. Seen(t)' = x
    BY <1>1, <2>7, MakingStays
  <2>12. slices'[t] = 0 /\ snap'[t].next = snap[t].next /\ 0 < snap[t].next
    BY <1>1, <1>2, <2>8
  <2>13. Maps(t)'
    BY <1>1, <2>2, <2>3, <2>5, <2>10, <2>11, <2>12, MakingStays DEF Maps, Basing
  <2> QED
    BY <1>2, <2>6, <2>13, WorksClean, ReserveLive
<1> QED
  BY <1>3, <1>4 DEF Reserve, Goto

LEMMA StitchClean ==
    ASSUME Clean, NEW t \in Threads, Stitch(t)
    PROVE  Clean'
<1>1. /\ UNCHANGED <<rec, arr, retired, free, closed, key, need, snap, base, handed>>
      /\ pc[t] = "stitch" /\ pc[t] \in Mapping /\ pc[t] \in Reading
  BY DEF Stitch, space, Mapping, Reading
<1>2. PICK b, v, x, n, k : /\ b = base[t] /\ v = vm[b] /\ x = Seen(t) /\ n = slices[t] /\ k = key[t]
  OBVIOUS
<1>3. /\ Live /\ b # NULL /\ b \in DOMAIN vm /\ v \in Seq(Nat) /\ n < snap[t].next
      /\ Stitched(v, x, n) /\ Range(v) \subseteq Own(k) \cup {PROT_NONE}
  BY <1>1, <1>2 DEF Clean, Mappings, Maps
<1>4. /\ x \in Seq(DataExtent) /\ Len(x) = snap[t].next /\ n \in Nat /\ snap[t].next \in Nat
      /\ arr[snap[t].ext] \in Seq(DataExtent) /\ snap[t].next <= Len(arr[snap[t].ext])
      /\ IsPrefix(x, Extents(rec[k])) /\ k \in DOMAIN rec
  BY <1>1, <1>2, <1>3, SnapshotIs DEF Live, Types
<1>5. x[n + 1] = Entry(t, n + 1)
  <2>1. PICK y, c : y = arr[snap[t].ext] /\ c = snap[t].next
    OBVIOUS
  <2>2. x = SubSeq(y, 1, c) /\ y \in Seq(DataExtent) /\ c \in Nat /\ c <= Len(y) /\ n + 1 \in 1 .. c
    BY <1>2, <1>3, <1>4, <2>1 DEF Seen
  <2>3. x[n + 1] = y[n + 1]
    BY <2>2, SubSeqProps
  <2> QED
    BY <2>1, <2>3 DEF Entry
<1>6. at(t) = Len(Shown(SubSeq(x, 1, n)))
  <2>1. n <= snap[t].next
    BY <1>3, <1>4
  <2>2. Before(t, n) = Len(Shown(SubSeq(arr[snap[t].ext], 1, n)))
    BY <1>1, <1>3, <1>4, <2>1, BeforeIs
  <2>3. SubSeq(x, 1, n) = SubSeq(arr[snap[t].ext], 1, n)
    BY <1>2, <1>4, <2>1, SubSeqSub DEF Seen
  <2> QED
    BY <1>2, <2>2, <2>3 DEF at
<1>7. PICK from, bs, w : from = at(t) /\ bs = BlocksOf(x[n + 1]) /\ w = Over(v, from, bs)
  OBVIOUS
<1>8. vm' = [vm EXCEPT ![b] = w]
  BY <1>2, <1>5, <1>7 DEF Stitch, Over
<1>9. Stitched(w, x, n + 1) /\ Range(w) \subseteq Range(v) \cup Range(bs)
  <2>1. n < Len(x)
    BY <1>3, <1>4
  <2>2. w = Over(v, Len(Shown(SubSeq(x, 1, n))), BlocksOf(x[n + 1])) /\ bs = BlocksOf(x[n + 1])
    BY <1>6, <1>7
  <2>3. x \in Seq(DataExtent) /\ n \in Nat /\ Stitched(v, x, n)
    BY <1>3, <1>4
  <2> QED
    BY ONLY <2>1, <2>2, <2>3, StitchedNext
<1>10. Range(w) \subseteq Own(k) \cup {PROT_NONE} /\ w \in Seq(Nat)
  <2>1. PICK z : z = Extents(rec[k])
    OBVIOUS
  <2>2. z \in Seq(DataExtent) /\ IsPrefix(x, z)
    BY <1>3, <1>4, <2>1, ExtentsAre
  <2>3. n + 1 \in DOMAIN x
    BY <1>3, <1>4
  <2>4. n + 1 \in DOMAIN z /\ z[n + 1] = x[n + 1]
    BY <1>4, <2>2, <2>3, PrefixProps
  <2>5. Range(bs) \subseteq Cover(z)
    BY <1>7, <2>4, CoverIs
  <2> QED
    BY <1>3, <1>9, <2>1, <2>5 DEF Own, Stitched
<1>11. DOMAIN vm' = DOMAIN vm /\ vm'[b] = w /\ \A a \in DOMAIN vm : a # b => vm'[a] = vm[a]
  BY <1>3, <1>8
<1>12. /\ slices'[t] = n + 1 /\ pc'[t] = (IF n + 1 = snap[t].next THEN "mapped" ELSE "stitch")
       /\ \A u \in Threads : u # t => Same(u)
  BY <1>1, <1>2, <1>3 DEF Stitch, Goto, Same, Live, Types
<1>13. Works(t)
  <2>1. \A u \in Threads : u # t => Kept(base[u])
    BY <1>2, <1>11 DEF Kept, Clean, Mappings, Maps, MapsApart
  <2>2. \A l \in DOMAIN rec : Kept(rec[l].map_addr)
    BY <1>2, <1>3, <1>11 DEF Kept, Clean, Mappings, Mapped, MapsApart
  <2> QED
    BY <1>1, <1>2, <1>3, <1>11, <1>12, <2>1, <2>2 DEF Works
<1>14. Seen(t)' = x /\ Own(key[t])' = Own(k)
  BY <1>1, <1>2, MakingStays
<1>15. base'[t] = b /\ snap'[t] = snap[t]
  BY <1>1, <1>2
<1>16. Maps(t)'
  <2>1. (base[t] # NULL => /\ pc[t] \in Basing /\ base[t] \in DOMAIN vm /\ vm[base[t]] \in Seq(Nat)
                           /\ Range(vm[base[t]]) \subseteq Own(key[t]) \cup {PROT_NONE})'
    BY <1>3, <1>10, <1>11, <1>12, <1>14, <1>15 DEF Basing
  <2>2. (pc[t] \notin {"stitch", "mapped"} => slices[t] = 0)'
    BY <1>12
  <2>3. (pc[t] = "stitch" => slices[t] < snap[t].next /\ base[t] # NULL
                             /\ Stitched(vm[base[t]], Seen(t), slices[t]))'
    <3>1. pc'[t] = "stitch" => n + 1 < snap[t].next
      BY <1>3, <1>4, <1>12
    <3> QED
      BY <1>3, <1>9, <1>11, <1>12, <1>14, <1>15, <3>1
  <2>4. (pc[t] = "mapped" /\ base[t] # NULL => Stitched(vm[base[t]], Seen(t), snap[t].next))'
    <3>1. pc'[t] = "mapped" => n + 1 = snap[t].next
      BY <1>12
    <3> QED
      BY <1>9, <1>11, <1>14, <1>15, <3>1
  <2>5. pc'[t] # "munmap"
    BY <1>12
  <2> QED
    BY <1>1, <2>1, <2>2, <2>3, <2>4, <2>5, MakingStays DEF Maps
<1> QED
  BY <1>3, <1>13, <1>16, WorksClean, StitchLive

LEMMA MunmapWithin ==
    ASSUME NEW v, NEW S
    PROVE  DOMAIN munmap(v, S) \subseteq DOMAIN v
  BY DEF munmap

LEMMA MunmapAt ==
    ASSUME NEW v, NEW S, NEW a \in DOMAIN munmap(v, S)
    PROVE  munmap(v, S)[a] = [i \in DOMAIN v[a] |-> IF Cut(S, a, i) THEN PROT_NONE ELSE v[a][i]]
  BY DEF munmap, Cut

LEMMA MunmapKeeps ==
    ASSUME NEW v, NEW S, NEW T, NEW a \in DOMAIN v, v[a] \in Seq(T), \A s \in S : s.addr # a
    PROVE  a \in DOMAIN munmap(v, S) /\ munmap(v, S)[a] = v[a]
<1>1. \A i : ~Cut(S, a, i)
  BY DEF Cut
<1>2. a \in DOMAIN munmap(v, S)
  <2>1. DOMAIN munmap(v, S) = {b \in DOMAIN v : ~Cut(S, b, Len(v[b]))}
    BY MunmapIs, Zenon
  <2>2. ~Cut(S, a, Len(v[a]))
    BY <1>1, Zenon
  <2> QED
    BY ONLY <2>1, <2>2, a \in DOMAIN v, Zenon
<1>3. munmap(v, S)[a] = [i \in DOMAIN v[a] |-> IF Cut(S, a, i) THEN PROT_NONE ELSE v[a][i]]
  BY ONLY <1>2, MunmapAt
<1>4. munmap(v, S)[a] = [i \in DOMAIN v[a] |-> v[a][i]]
  BY <1>1, <1>3
<1> QED
  BY <1>2, <1>4

LEMMA MunmapGone ==
    ASSUME NEW v, NEW S, NEW s \in S, Len(v[s.addr]) <= s.len
    PROVE  s.addr \notin DOMAIN munmap(v, S) /\ DOMAIN munmap(v, S) \subseteq DOMAIN v
<1>1. PICK a, n : a = s.addr /\ n = Len(v[a])
  OBVIOUS
<1>2. Cut(S, a, n)
  BY <1>1 DEF Cut
<1>3. DOMAIN munmap(v, S) = {b \in DOMAIN v : ~Cut(S, b, Len(v[b]))}
  BY MunmapIs
<1>4. a \notin DOMAIN munmap(v, S) /\ DOMAIN munmap(v, S) \subseteq DOMAIN v
  BY ONLY <1>1, <1>2, <1>3
<1> QED
  BY <1>1, <1>4

\* Taking a thread's own mapping down leaves every other.
LEMMA TakenDown ==
    ASSUME Clean, NEW t \in Threads, base[t] # NULL, NEW n, Len(vm[base[t]]) <= n,
           vm' = munmap(vm, {[addr |-> base[t], len |-> n]})
    PROVE  /\ base[t] \notin DOMAIN vm' /\ DOMAIN vm' \subseteq DOMAIN vm
           /\ \A u \in Threads : u # t => Kept(base[u])
           /\ \A l \in DOMAIN rec : Kept(rec[l].map_addr)
<1>1. PICK s, S : s = [addr |-> base[t], len |-> n] /\ S = {s}
  OBVIOUS
<1>2. s \in S /\ s.addr = base[t] /\ s.len = n /\ vm' = munmap(vm, S)
  BY <1>1
<1>3. base[t] \notin DOMAIN vm' /\ DOMAIN vm' \subseteq DOMAIN vm
  <2>1. Len(vm[s.addr]) <= s.len
    BY <1>2
  <2>2. s.addr \notin DOMAIN munmap(vm, S) /\ DOMAIN munmap(vm, S) \subseteq DOMAIN vm
    BY <1>2, <2>1, MunmapGone
  <2> QED
    BY <1>2, <2>2
<1>4. ASSUME NEW u \in Threads, u # t
      PROVE  Kept(base[u])
  <2>1. SUFFICES ASSUME base[u] # NULL PROVE Kept(base[u])
    BY DEF Kept
  <2>2. base[u] \in DOMAIN vm /\ vm[base[u]] \in Seq(Nat) /\ base[u] # base[t]
    BY <1>4, <2>1 DEF Clean, Mappings, Maps, MapsApart
  <2>3. \A r \in S : r.addr # base[u]
    BY <1>1, <1>2, <2>2
  <2> QED
    BY <1>2, <2>2, <2>3, MunmapKeeps DEF Kept
<1>5. ASSUME NEW l \in DOMAIN rec
      PROVE  Kept(rec[l].map_addr)
  <2>1. SUFFICES ASSUME rec[l].map_addr # NULL PROVE Kept(rec[l].map_addr)
    BY DEF Kept
  <2>2. /\ rec[l].map_addr \in DOMAIN vm /\ vm[rec[l].map_addr] \in Seq(Nat \ {0})
        /\ rec[l].map_addr # base[t]
    BY <2>1 DEF Clean, Mappings, Mapped, MapsApart
  <2>3. \A r \in S : r.addr # rec[l].map_addr
    BY <1>1, <1>2, <2>2
  <2> QED
    BY <1>2, <2>2, <2>3, MunmapKeeps DEF Kept
<1> QED
  BY <1>3, <1>4, <1>5

LEMMA StitchFailsClean ==
    ASSUME Clean, NEW t \in Threads, StitchFails(t)
    PROVE  Clean'
<1>1. /\ UNCHANGED <<rec, arr, retired, free, closed, key, need, snap, slices, handed>>
      /\ pc[t] = "stitch" /\ pc[t] \in Mapping /\ pc[t] \in Reading
  BY DEF StitchFails, space, Mapping, Reading
<1>2. Live /\ base[t] # NULL /\ Len(vm[base[t]]) = Len(Shown(Seen(t))) /\ Len(Shown(Seen(t))) \in Nat
  BY <1>1, BeforeAll DEF Clean, Mappings, Maps, Stitched
<1>3. PICK n : n = Before(t, snap[t].next)
  OBVIOUS
<1>4. Len(vm[base[t]]) <= n
  BY <1>1, <1>2, <1>3, BeforeAll
<1>5. vm' = munmap(vm, {[addr |-> base[t], len |-> n]})
  BY <1>3 DEF StitchFails
<1>6. /\ base[t] \notin DOMAIN vm' /\ DOMAIN vm' \subseteq DOMAIN vm
      /\ \A u \in Threads : u # t => Kept(base[u])
      /\ \A l \in DOMAIN rec : Kept(rec[l].map_addr)
  BY <1>2, <1>4, <1>5, TakenDown
<1>7. pc'[t] = "mapped" /\ base'[t] = NULL /\ \A u \in Threads : u # t => Same(u)
  BY <1>1, <1>2 DEF StitchFails, Goto, Same, Live, Types
<1>8. Works(t)
  BY <1>1, <1>6, <1>7 DEF Works
<1>9. Maps(t)'
  BY <1>1, <1>7, MakingStays DEF Maps
<1> QED
  BY <1>2, <1>8, <1>9, WorksClean, StitchFailsLive

LEMMA OsUnmapClean ==
    ASSUME Clean, NEW t \in Threads, ls_os_unmap(t)
    PROVE  Clean'
<1>1. Idle(t) /\ UNCHANGED <<rec, arr, retired, free, closed, lk, handed>> /\ pc[t] = "munmap"
  BY DEF ls_os_unmap, space
<1>2. Live /\ base[t] # NULL /\ Len(vm[base[t]]) = need[t] /\ need[t] \in Nat
  BY <1>1 DEF Clean, Mappings, Maps, Live, Types
<1>3. PICK n : n = need[t]
  OBVIOUS
<1>4. Len(vm[base[t]]) <= n /\ vm' = munmap(vm, {[addr |-> base[t], len |-> n]})
  BY <1>2, <1>3 DEF ls_os_unmap
<1>5. /\ base[t] \notin DOMAIN vm' /\ DOMAIN vm' \subseteq DOMAIN vm
      /\ \A u \in Threads : u # t => Kept(base[u])
      /\ \A l \in DOMAIN rec : Kept(rec[l].map_addr)
  BY <1>2, <1>4, TakenDown
<1>6. /\ \A u \in Threads : u # t => Same(u)
      /\ pc'[t] = "idle" /\ base'[t] = NULL /\ slices'[t] = 0
  BY <1>1, <1>2, IdleSame
<1>7. Works(t)
  BY <1>1, <1>5, <1>6 DEF Works, Mapping
<1>8. Maps(t)'
  BY <1>6 DEF Maps, Mapping
<1> QED
  BY <1>2, <1>7, <1>8, WorksClean, OsUnmapLive

LEMMA MapDoneClean ==
    ASSUME Clean, NEW t \in Threads, MapDone(t)
    PROVE  Clean'
<1>1. PICK k, q, b, a, n : /\ k = key[t] /\ q = rec[k] /\ b = q.busy - 1
                           /\ a = (IF base[t] = NULL THEN q.map_addr ELSE base[t])
                           /\ n = (IF base[t] = NULL THEN q.map_len ELSE total(t))
  OBVIOUS
<1>2. PICK r : r = [q EXCEPT !.busy = b, !.map_addr = a, !.map_len = n]
  OBVIOUS
<1>3. /\ Live /\ k \in DOMAIN rec /\ q \in Record /\ k \in Keys /\ pc[t] = "mapped"
      /\ pc[t] \in Mapping /\ pc[t] \in Reading
  BY <1>1 DEF MapDone, Clean, Live, Types, Control, Mapping, Reading
<1>4. rec' = [rec EXCEPT ![k] = r]
  <2>1. rec' = [rec EXCEPT ![k] =
              [rec[k] EXCEPT !.busy = rec[k].busy - 1,
                  !.map_addr = IF base[t] = NULL THEN rec[k].map_addr ELSE base[t],
                  !.map_len = IF base[t] = NULL THEN rec[k].map_len ELSE total(t)]]
    BY <1>1 DEF MapDone
  <2>2. r = [rec[k] EXCEPT !.busy = rec[k].busy - 1,
                  !.map_addr = IF base[t] = NULL THEN rec[k].map_addr ELSE base[t],
                  !.map_len = IF base[t] = NULL THEN rec[k].map_len ELSE total(t)]
    BY <1>1, <1>2
  <2> QED
    BY <2>1, <2>2
<1>5. Sets(k, r)
  BY <1>3, <1>4, SetsRecord
<1>6. /\ r.ext = q.ext /\ r.next = q.next /\ r.ncap = q.ncap /\ r.size = q.size
      /\ r.map_addr = a /\ r.map_len = n
  BY <1>2, <1>3 DEF Record
<1>7. Still /\ Fits /\ DOMAIN rec' = DOMAIN rec
  BY <1>1, <1>3, <1>5, <1>6, SetsStill, FitsSame DEF Stays, Clean, MapDone, space
<1>8. /\ Idle(t) /\ UNCHANGED <<free, vm, closed>> /\ rec[k].map_addr = NULL
  BY <1>1, <1>3, NotMapping DEF MapDone, space
<1>9. /\ \A u \in Threads : u # t => Same(u)
      /\ pc'[t] = "idle" /\ base'[t] = NULL /\ slices'[t] = 0
  BY <1>3, <1>8, IdleSame
<1>10. /\ \A l \in DOMAIN rec : l # k => rec'[l] = rec[l]
       /\ rec'[k].map_addr = a /\ rec'[k].map_len = n
  BY <1>5, <1>6 DEF Sets
<1>11. Leaves(t, k)
  <2>1. ASSUME NEW u \in Threads, u # t, pc[u] \in Mapping
        PROVE  rec'[key[u]].map_addr = NULL
    <3>1. key[u] # k
      BY <1>1, <1>3, <2>1 DEF Clean, MapsApart
    <3> QED
      BY <1>10, <2>1, <3>1, NotMapping
  <2> QED
    BY <1>8, <1>9, <1>10, <2>1, KeptAll DEF Leaves, SameMap
<1>12. Maps(t)'
  BY <1>9 DEF Maps, Mapping
<1>13. Live' /\ ~closed' /\ free' = free
  BY <1>3, <1>8, MapDoneLive, OpenHere
<1>14. \A l \in DOMAIN rec : rec[l].map_addr # NULL => l # k
  BY <1>8
<1>15. \A u \in Threads : base'[u] = IF u = t THEN NULL ELSE base[u]
  BY <1>9 DEF Same
<1>16. (\A u, w \in Threads : base[u] = base[w] /\ base[u] # NULL => u = w)'
  BY <1>15 DEF Clean, MapsApart
<1>17. (\A u, w \in Threads : pc[u] \in Mapping /\ pc[w] \in Mapping /\ key[u] = key[w] => u = w)'
  <2>1. \A u \in Threads : pc'[u] \in Mapping => u # t /\ pc[u] \in Mapping /\ key'[u] = key[u]
    BY <1>9 DEF Same, Mapping
  <2> QED
    BY <2>1 DEF Clean, MapsApart
<1>18. NULL \notin DOMAIN vm
  BY <1>3 DEF Live, Types, NULL
<1>19. CASE base[t] = NULL
  <2>1. a = NULL /\ \A l \in DOMAIN rec : rec'[l].map_addr = rec[l].map_addr
                                       /\ rec'[l].map_len = rec[l].map_len
    BY <1>1, <1>8, <1>10, <1>19
  <2>2. Mapped(k)'
    BY <1>10, <2>1 DEF Mapped
  <2>3. MapsApart'
    <3>1. (\A l, m \in DOMAIN rec : rec[l].map_addr = rec[m].map_addr /\ rec[l].map_addr # NULL => l = m)'
      BY <1>7, <2>1 DEF Clean, MapsApart
    <3>2. \A u \in Threads : base'[u] = base[u]
      BY <1>15, <1>19
    <3>3. (\A l \in DOMAIN rec, u \in Threads : rec[l].map_addr = base[u] => base[u] = NULL)'
      BY <1>7, <2>1, <3>2 DEF Clean, MapsApart
    <3>4. (\A c \in DOMAIN vm :
            (\E l \in DOMAIN rec : rec[l].map_addr = c) \/ (\E u \in Threads : base[u] = c))'
      BY <1>7, <1>8, <2>1, <3>2 DEF Clean, MapsApart
    <3> QED
      BY <1>16, <1>17, <3>1, <3>3, <3>4 DEF MapsApart
  <2>4. \A l \in Keys : handed'[l] = handed[l]
    <3>1. handed' = [handed EXCEPT ![k] = handed[k]]
      BY <1>1, <1>19 DEF MapDone
    <3> QED
      BY <1>3, <3>1 DEF Live, Types
  <2>5. Handed'
    BY <1>7, <2>1, <2>4 DEF Clean, Handed
  <2> QED
    BY <1>7, <1>11, <1>12, <1>13, <2>2, <2>3, <2>5, StillClean
<1>20. CASE base[t] # NULL
  <2>1. a = base[t] /\ n = total(t) /\ a \in DOMAIN vm
    BY <1>1, <1>20 DEF Clean, Mappings, Maps
  <2>2. PICK x : x = Seen(t)
    OBVIOUS
  <2>3. /\ x \in Seq(DataExtent) /\ Len(x) = snap[t].next /\ Stitched(vm[a], x, Len(x))
        /\ IsPrefix(Shown(x), Shown(Extents(rec[k]))) /\ need[t] <= Len(Shown(x))
        /\ n = Len(Shown(x))
    BY <1>1, <1>3, <1>20, <2>1, <2>2, SnapshotIs, BeforeAll DEF Clean, Mappings, Maps, total
  <2>4. vm[a] = Shown(x) /\ Shown(x) \in Seq(Nat \ {0})
    BY <2>3, StitchedAll, ShownTyped
  <2>5. Extents(rec[k])' = Extents(rec[k])
    BY <1>3, <1>7, StillGrows
  <2>6. Mapped(k)'
    BY <1>8, <1>10, <2>1, <2>3, <2>4, <2>5 DEF Mapped
  <2>7. MapsApart'
    <3>1. \A l \in DOMAIN rec : l # k => rec[l].map_addr # a
      BY <1>20, <2>1 DEF Clean, MapsApart
    <3>2. \A u \in Threads : u # t => base[u] # a
      BY <1>20, <2>1 DEF Clean, MapsApart
    <3>3. (\A l, m \in DOMAIN rec : rec[l].map_addr = rec[m].map_addr /\ rec[l].map_addr # NULL => l = m)'
      BY <1>7, <1>10, <3>1 DEF Clean, MapsApart
    <3>4. (\A l \in DOMAIN rec, u \in Threads : rec[l].map_addr = base[u] => base[u] = NULL)'
      BY <1>7, <1>10, <1>15, <3>2 DEF Clean, MapsApart
    <3>5. (\A c \in DOMAIN vm :
            (\E l \in DOMAIN rec : rec[l].map_addr = c) \/ (\E u \in Threads : base[u] = c))'
      <4>1. SUFFICES ASSUME NEW c \in DOMAIN vm
                     PROVE  (\E l \in DOMAIN rec' : rec'[l].map_addr = c)
                            \/ (\E u \in Threads : base'[u] = c)
        BY <1>8
      <4>2. CASE c = a
        BY <1>3, <1>7, <1>10, <4>2
      <4>3. CASE c # a
        <5>1. (\E l \in DOMAIN rec : rec[l].map_addr = c) \/ (\E u \in Threads : base[u] = c)
          BY <4>1 DEF Clean, MapsApart
        <5>2. c # NULL
          BY <1>18, <4>1
        <5> QED
          BY <1>7, <1>8, <1>10, <1>15, <2>1, <4>3, <5>1, <5>2
      <4> QED
        BY <4>2, <4>3
    <3> QED
      BY <1>16, <1>17, <3>3, <3>4, <3>5 DEF MapsApart
  <2>8. Handed'
    <3>1. handed' = [handed EXCEPT ![k] = handed[k] \cup
                       {[addr |-> base[t], len |-> need[t], outgrown |-> FALSE]}]
      BY <1>1, <1>20 DEF MapDone, logical
    <3>2. handed[k] = {}
      BY <1>3, <1>8 DEF Clean, Handed
    <3>3. need[t] \in Nat
      BY <1>3 DEF Live, Types
    <3>4. SUFFICES ASSUME NEW l \in Keys, NEW h \in handed'[l]
                   PROVE  /\ l \in DOMAIN rec' /\ rec'[l].map_addr # NULL
                          /\ h.addr = rec'[l].map_addr /\ h.len \in Nat
                          /\ h.outgrown \/ h.len <= rec'[l].map_len
      BY DEF Handed
    <3>5. CASE l = k
      <4>1. h = [addr |-> a, len |-> need[t], outgrown |-> FALSE]
        BY <1>3, <2>1, <3>1, <3>2, <3>4, <3>5 DEF Live, Types
      <4> QED
        BY <1>3, <1>7, <1>10, <1>20, <2>1, <2>3, <3>3, <3>5, <4>1
    <3>6. CASE l # k
      <4>1. h \in handed[l]
        BY <1>3, <3>1, <3>4, <3>6 DEF Live, Types
      <4> QED
        BY <1>7, <1>10, <3>6, <4>1 DEF Clean, Handed
    <3> QED
      BY <3>5, <3>6
  <2> QED
    BY <1>7, <1>11, <1>12, <1>13, <2>6, <2>7, <2>8, StillClean
<1> QED
  BY <1>19, <1>20

\* A record's mapping shows only blocks of the record.
LEMMA MappedOwn ==
    ASSUME Clean, NEW k \in DOMAIN rec, rec[k].map_addr # NULL
    PROVE  Range(vm[rec[k].map_addr]) \subseteq Own(k) /\ vm[rec[k].map_addr] \in Seq(Nat)
<1>1. PICK v, x : v = vm[rec[k].map_addr] /\ x = Extents(rec[k])
  OBVIOUS
<1>2. /\ v \in Seq(Nat \ {0}) /\ IsPrefix(v, Shown(x)) /\ x \in Seq(DataExtent)
  BY <1>1, ExtentsAre DEF Clean, Mappings, Mapped
<1>3. Shown(x) \in Seq(Nat \ {0}) /\ Range(Shown(x)) = Cover(x)
  BY <1>2, ShownTyped, ShownRange
<1>4. \A i \in DOMAIN v : i \in DOMAIN Shown(x) /\ v[i] = Shown(x)[i]
  BY <1>2, <1>3, PrefixProps
<1>5. Range(v) \subseteq Range(Shown(x))
  BY <1>4 DEF Range
<1>6. v \in Seq(Nat)
  BY <1>2
<1> QED
  BY <1>1, <1>3, <1>5, <1>6 DEF Own

LEMMA UnmapClean ==
    ASSUME Clean, NEW t \in Threads, NEW k \in Keys, ls_unmap(t, k)
    PROVE  Clean'
<1>1. PICK q, r, a : q = rec[k] /\ r = [q EXCEPT !.map_addr = NULL, !.map_len = 0] /\ a = q.map_addr
  OBVIOUS
<1>2. Live /\ k \in DOMAIN rec /\ q \in Record /\ a # NULL
  BY <1>1 DEF ls_unmap, Clean, Live, Types
<1>3. rec' = [rec EXCEPT ![k] = r]
  BY <1>1, <1>2 DEF ls_unmap
<1>4. Sets(k, r)
  BY <1>2, <1>3, SetsRecord
<1>5. /\ r.ext = q.ext /\ r.next = q.next /\ r.ncap = q.ncap /\ r.size = q.size
      /\ r.map_addr = NULL /\ r.map_len = 0
  BY <1>1, <1>2 DEF Record, NULL
<1>6. Still /\ Fits /\ DOMAIN rec' = DOMAIN rec
  BY <1>1, <1>2, <1>4, <1>5, SetsStill, FitsSame DEF Stays, Clean, ls_unmap, space
<1>7. /\ UNCHANGED <<free, vm, closed, slices>> /\ ~closed /\ pc[t] = "idle" /\ pc'[t] = "munmap"
      /\ base'[t] = a /\ need'[t] = q.map_len /\ key'[t] = k
      /\ \A u \in Threads : u # t => Same(u)
      /\ handed' = [handed EXCEPT ![k] = {}]
  BY <1>1, <1>2 DEF ls_unmap, Enter, Goto, space, Same, Live, Types
<1>8. \A l \in DOMAIN rec : l # k => rec'[l] = rec[l]
  BY <1>4 DEF Sets
<1>9. rec'[k].map_addr = NULL
  BY <1>4, <1>5 DEF Sets
<1>10. Leaves(t, k)
  <2>1. \A u \in Threads : pc[u] \in Mapping => rec'[key[u]].map_addr = NULL
    BY <1>8, <1>9, NotMapping
  <2> QED
    BY <1>7, <1>8, <2>1, KeptAll DEF Leaves, SameMap
<1>11. Mapped(k)'
  BY <1>9 DEF Mapped
<1>12. slices[t] = 0 /\ base[t] = NULL
  BY <1>7 DEF Clean, Mappings, Maps, Basing
<1>13. Maps(t)'
  <2>1. a \in DOMAIN vm /\ Len(vm[a]) = q.map_len
    BY <1>1, <1>2 DEF Clean, Mappings, Mapped
  <2>2. Range(vm[a]) \subseteq Own(k) /\ vm[a] \in Seq(Nat)
    BY <1>1, <1>2, MappedOwn
  <2>3. Own(key[t])' = Own(k)
    <3>1. Own(k)' = Own(k)
      BY <1>2, <1>6, StillGrows
    <3>2. Own(key[t])' = Own(k)'
      BY <1>7 DEF Own
    <3> QED
      BY <3>1, <3>2
  <2> QED
    BY <1>2, <1>7, <1>12, <2>1, <2>2, <2>3 DEF Maps, Basing, Mapping
<1>14. \A u \in Threads : base'[u] = IF u = t THEN a ELSE base[u]
  BY <1>7 DEF Same
<1>15. MapsApart'
  <2>1. /\ MapsApart /\ \A l \in DOMAIN rec : l # k => rec[l].map_addr # a
        /\ \A u \in Threads : base[u] # a
    BY <1>1, <1>2 DEF Clean, MapsApart
  <2>2. (\A l, m \in DOMAIN rec : rec[l].map_addr = rec[m].map_addr /\ rec[l].map_addr # NULL => l = m)'
    BY <1>6, <1>8, <1>9, <2>1 DEF MapsApart
  <2>3. (\A u, w \in Threads : base[u] = base[w] /\ base[u] # NULL => u = w)'
    BY <1>14, <2>1 DEF MapsApart
  <2>4. (\A l \in DOMAIN rec, u \in Threads : rec[l].map_addr = base[u] => base[u] = NULL)'
    BY <1>2, <1>6, <1>8, <1>9, <1>14, <2>1 DEF MapsApart
  <2>5. (\A c \in DOMAIN vm :
          (\E l \in DOMAIN rec : rec[l].map_addr = c) \/ (\E u \in Threads : base[u] = c))'
    <3>1. SUFFICES ASSUME NEW c \in DOMAIN vm, c # a
                   PROVE  (\E l \in DOMAIN rec' : rec'[l].map_addr = c)
                          \/ (\E u \in Threads : base'[u] = c)
      BY <1>7, <1>14
    <3>2. c # NULL
      BY <1>2, <3>1 DEF Live, Types, NULL
    <3>3. (\E l \in DOMAIN rec : rec[l].map_addr = c) \/ (\E u \in Threads : base[u] = c)
      BY <2>1, <3>1 DEF MapsApart
    <3> QED
      BY <1>1, <1>6, <1>8, <1>12, <1>14, <3>1, <3>2, <3>3
  <2>6. (\A u, w \in Threads : pc[u] \in Mapping /\ pc[w] \in Mapping /\ key[u] = key[w] => u = w)'
    <3>1. \A u \in Threads : pc'[u] \in Mapping => u # t /\ pc[u] \in Mapping /\ key'[u] = key[u]
      BY <1>7 DEF Same, Mapping
    <3> QED
      BY <2>1, <3>1 DEF MapsApart
  <2> QED
    BY <2>2, <2>3, <2>4, <2>5, <2>6 DEF MapsApart
<1>16. Handed'
  <2>1. \A l \in Keys : handed'[l] = IF l = k THEN {} ELSE handed[l]
    BY <1>2, <1>7 DEF Live, Types
  <2> QED
    BY <1>6, <1>8, <2>1 DEF Clean, Handed
<1>17. Live' /\ ~closed' /\ free' = free
  BY <1>2, <1>7, UnmapLive
<1> QED
  BY <1>6, <1>10, <1>11, <1>13, <1>15, <1>16, <1>17, StillClean

LEMMA PushedGrows ==
    ASSUME Live, NEW k, NEW e, NEW a, Pushed(k, e, a), NEW l \in DOMAIN rec
    PROVE  Grows(l) /\ SameMap(l) /\ rec'[l].size = rec[l].size
  BY PushedExtents DEF Grows, SameMap, Pushed

LEMMA EnsureClean ==
    ASSUME Clean, NEW t \in Threads, ensure_extents(t)
    PROVE  Clean'
<1>1. PICK e, a : /\ Pushed(key[t], e, a) /\ Range(BlocksOf(e)) \subseteq free
                  /\ free' = free \ Range(BlocksOf(e))
  BY EnsurePushes DEF Clean
<1>2. PICK k, bs : k = key[t] /\ bs = Range(BlocksOf(e))
  OBVIOUS
<1>3. /\ Live /\ Pushed(k, e, a) /\ DOMAIN rec' = DOMAIN rec /\ k \in DOMAIN rec /\ e \in DataExtent
      /\ bs \subseteq free /\ free' = free \ bs
  BY <1>1, <1>2 DEF Pushed, Clean
<1>4. UNCHANGED <<vm, closed, lk, pc, key, need, snap, base, slices, handed>> /\ ~closed
  BY <1>3, OpenHere DEF ensure_extents, thread
<1>5. \A l \in DOMAIN rec : Grows(l) /\ SameMap(l) /\ rec'[l].size = rec[l].size
  BY <1>3, PushedGrows
<1>6. Own(k)' = Own(k) \cup bs
  <2>1. PICK x : x = Extents(rec[k])
    OBVIOUS
  <2>2. x \in Seq(DataExtent) /\ Extents(rec[k])' = Append(x, e)
    BY <1>3, <2>1, ExtentsAre, PushedExtents
  <2>3. Cover(Append(x, e)) = Cover(x) \cup bs
    BY <1>2, <1>3, <2>2, CoverAppend
  <2> QED
    BY <2>1, <2>2, <2>3 DEF Own
<1>7. \A l \in DOMAIN rec : l # k => Own(l)' = Own(l)
  BY <1>3, PushedExtents DEF Own
<1>8. Owners'
  <2>1. \A l \in DOMAIN rec' : Own(l)' \cap free' = {}
    BY <1>3, <1>6, <1>7 DEF Clean, Owners
  <2>2. \A l, m \in DOMAIN rec' : l # m => Own(l)' \cap Own(m)' = {}
    BY <1>3, <1>6, <1>7 DEF Clean, Owners
  <2>3. ASSUME NEW l \in DOMAIN rec' PROVE rec'[l].size <= ext_total(rec[l])'
    <3>1. /\ rec'[l].size = rec[l].size /\ rec[l].size <= ext_total(rec[l]) /\ rec[l].size \in Nat
      BY <1>3, <1>5, <2>3 DEF Clean, Owners, Live, Types, Record
    <3>2. ext_total(rec[l]) <= ext_total(rec[l])' /\ ext_total(rec[l]) \in Nat
      BY <1>3, <1>5, <2>3, GrowsMore
    <3>3. ext_total(rec[l])' \in Nat
      <4>1. PICK y : y = Extents(rec[l])'
        OBVIOUS
      <4>2. y \in Seq(DataExtent)
        <5>1. PICK z : z = Extents(rec[l])
          OBVIOUS
        <5>2. z \in Seq(DataExtent)
          BY <1>3, <2>3, <5>1, ExtentsAre
        <5>3. y = z \/ \E f \in DataExtent : y = Append(z, f)
          BY <1>3, <1>5, <2>3, <4>1, <5>1 DEF Grows
        <5> QED
          BY <5>2, <5>3
      <4>3. Len(Shown(y)) \in Nat
        BY <4>2, ShownTyped
      <4> QED
        BY <4>1, <4>3 DEF ext_total
    <3> QED
      BY <3>1, <3>2, <3>3
  <2> QED
    BY <2>1, <2>2, <2>3 DEF Owners
<1>9. \A l \in DOMAIN rec' : Mapped(l)'
  BY <1>3, <1>4, <1>5, KeptAll, MappedStays DEF Clean, Mappings
<1>10. ASSUME NEW u \in Threads PROVE Maps(u)'
  <2>1. Maps(u) /\ Same(u) /\ Kept(base[u])
    BY <1>4, KeptAll DEF Clean, Mappings, Same
  <2>2. pc[u] \in Reading => Seen(u)' = Seen(u)
    BY <1>3, <1>4, PushedSnapshot
  <2>3. pc[u] # "idle" => Grows(key[u])
    BY <1>3, <1>5 DEF Live, Control
  <2>4. pc[u] \in Mapping => rec'[key[u]].map_addr = NULL
    BY <1>5, NotMapping DEF SameMap
  <2> QED
    BY <1>3, <2>1, <2>2, <2>3, <2>4, MapsStays
<1>11. \A l \in DOMAIN rec : rec'[l].map_addr = rec[l].map_addr /\ rec'[l].map_len = rec[l].map_len
  BY <1>5 DEF SameMap
<1>12. MapsApart'
  BY <1>3, <1>4, <1>11 DEF Clean, MapsApart
<1>13. Handed'
  BY <1>3, <1>4, <1>11 DEF Clean, Handed
<1>14. Mappings'
  BY <1>9, <1>10 DEF Mappings
<1>15. Live' /\ ClosedClean'
  BY <1>3, <1>4, EnsureLive DEF ClosedClean
<1> QED
  BY <1>8, <1>12, <1>13, <1>14, <1>15 DEF Clean

\* What taking down the mappings of records R leaves: the other mappings.
LEMMA UnmappedIs ==
    ASSUME Clean, NEW R, R \subseteq DOMAIN rec, vm' = Unmapped(vm, {rec[k] : k \in R})
    PROVE  /\ DOMAIN vm' \subseteq DOMAIN vm
           /\ \A k \in R : rec[k].map_addr \notin DOMAIN vm'
           /\ \A l \in DOMAIN rec : l \notin R => Kept(rec[l].map_addr)
           /\ \A u \in Threads : Kept(base[u])
<1>1. PICK S : S = {[addr |-> r.map_addr, len |-> r.map_len] :
                       r \in {q \in {rec[k] : k \in R} : q.map_addr # NULL}}
  OBVIOUS
<1>2. vm' = munmap(vm, S)
  BY <1>1 DEF Unmapped
<1>3. \A s \in S : \E k \in R : rec[k].map_addr # NULL /\ s.addr = rec[k].map_addr
  BY <1>1
<1>4. \A k \in R : rec[k].map_addr # NULL => [addr |-> rec[k].map_addr, len |-> rec[k].map_len] \in S
  BY <1>1
<1>5. DOMAIN vm' \subseteq DOMAIN vm
  <2>1. DOMAIN munmap(vm, S) \subseteq DOMAIN vm
    BY ONLY MunmapWithin
  <2> QED
    BY ONLY <1>2, <2>1
<1>6. ASSUME NEW k \in R
      PROVE  rec[k].map_addr \notin DOMAIN vm'
  <2>1. CASE rec[k].map_addr = NULL
    BY <1>5, <2>1 DEF Clean, Live, Types, NULL
  <2>2. CASE rec[k].map_addr # NULL
    <3>1. PICK s : s = [addr |-> rec[k].map_addr, len |-> rec[k].map_len]
      OBVIOUS
    <3>2. s \in S /\ s.addr = rec[k].map_addr /\ s.len = rec[k].map_len
      BY <1>4, <2>2, <3>1
    <3>3. Len(vm[s.addr]) <= s.len
      <4>1. Len(vm[rec[k].map_addr]) = rec[k].map_len /\ rec[k].map_len \in Nat
        BY <2>2 DEF Clean, Mappings, Mapped, Live, Types, Record
      <4> QED
        BY <3>2, <4>1
    <3>4. s.addr \notin DOMAIN munmap(vm, S)
      BY <3>2, <3>3, MunmapGone
    <3> QED
      BY <1>2, <3>2, <3>4
  <2> QED
    BY <2>1, <2>2
<1>7. ASSUME NEW l \in DOMAIN rec, l \notin R, rec[l].map_addr # NULL
      PROVE  Kept(rec[l].map_addr)
  <2>1. rec[l].map_addr \in DOMAIN vm /\ vm[rec[l].map_addr] \in Seq(Nat \ {0})
    BY <1>7 DEF Clean, Mappings, Mapped
  <2>2. \A s \in S : s.addr # rec[l].map_addr
    BY <1>3, <1>7 DEF Clean, MapsApart
  <2>3. /\ rec[l].map_addr \in DOMAIN munmap(vm, S)
        /\ munmap(vm, S)[rec[l].map_addr] = vm[rec[l].map_addr]
    BY ONLY <2>1, <2>2, MunmapKeeps
  <2> QED
    BY <1>2, <2>3 DEF Kept
<1>8. ASSUME NEW u \in Threads, base[u] # NULL
      PROVE  Kept(base[u])
  <2>1. base[u] \in DOMAIN vm /\ vm[base[u]] \in Seq(Nat)
    BY <1>8 DEF Clean, Mappings, Maps
  <2>2. \A s \in S : s.addr # base[u]
    BY <1>3, <1>8 DEF Clean, MapsApart
  <2> QED
    BY <1>2, <2>1, <2>2, MunmapKeeps DEF Kept
<1>9. Kept(NULL)
  BY DEF Kept
<1> QED
  BY <1>5, <1>6, <1>7, <1>8, <1>9

LEMMA EraseClean ==
    ASSUME Clean, NEW t \in Threads, NEW k \in Keys, ls_erase(t, k)
    PROVE  Clean'
<1>0. Live
  BY DEF Clean
<1>1. /\ k \in DOMAIN rec /\ DOMAIN rec' = DOMAIN rec \ {k}
      /\ \A l \in DOMAIN rec' : rec'[l] = rec[l] /\ Extents(rec[l])' = Extents(rec[l])
      /\ DOMAIN arr' = DOMAIN arr \ {rec[k].ext} /\ \A a \in DOMAIN arr' : arr'[a] = arr[a]
      /\ \A u \in Threads : pc[u] # "idle" => key[u] # k
      /\ \A u \in Threads : pc[u] \in Reading => snap[u].ext # rec[k].ext
  BY <1>0, EraseKeeps
<1>2. /\ UNCHANGED <<retired, closed, lk, pc, key, need, snap, base, slices>> /\ ~closed
      /\ handed' = [handed EXCEPT ![k] = {}]
  BY DEF ls_erase, thread, Enter
<1>3. /\ DOMAIN vm' \subseteq DOMAIN vm
      /\ rec[k].map_addr \notin DOMAIN vm'
      /\ \A l \in DOMAIN rec : l # k => Kept(rec[l].map_addr)
      /\ \A u \in Threads : Kept(base[u])
  <2>1. PICK R : R = {k}
    OBVIOUS
  <2>2. {rec[l] : l \in R} = {rec[k]} /\ R \subseteq DOMAIN rec
    BY <1>1, <2>1
  <2>3. vm' = Unmapped(vm, {rec[l] : l \in R})
    BY <2>2 DEF ls_erase
  <2>4. /\ DOMAIN vm' \subseteq DOMAIN vm
        /\ \A l \in R : rec[l].map_addr \notin DOMAIN vm'
        /\ \A l \in DOMAIN rec : l \notin R => Kept(rec[l].map_addr)
        /\ \A u \in Threads : Kept(base[u])
    BY <2>2, <2>3, UnmappedIs
  <2> QED
    BY <2>1, <2>4
<1>4. \A l \in DOMAIN rec' : l # k /\ l \in DOMAIN rec /\ Grows(l) /\ SameMap(l) /\ Own(l)' = Own(l)
                             /\ ext_total(rec[l])' = ext_total(rec[l])
  BY <1>1 DEF Grows, SameMap, Own, ext_total
<1>5. free' = free \cup Own(k)
  <2>1. PICK x : x = Extents(rec[k])
    OBVIOUS
  <2>2. x \in Seq(DataExtent)
    BY <1>0, <1>1, <2>1, ExtentsAre
  <2>3. Range(Shown(x)) = Cover(x)
    BY <2>2, ShownRange
  <2> QED
    BY <2>1, <2>3 DEF ls_erase, Own
<1>6. Owners'
  <2>1. \A l \in DOMAIN rec' : Own(l)' \cap free' = {}
    BY <1>1, <1>4, <1>5 DEF Clean, Owners
  <2>2. \A l, m \in DOMAIN rec' : l # m => Own(l)' \cap Own(m)' = {}
    BY <1>4 DEF Clean, Owners
  <2>3. \A l \in DOMAIN rec' : rec'[l].size <= ext_total(rec[l])'
    BY <1>1, <1>4 DEF Clean, Owners
  <2> QED
    BY <2>1, <2>2, <2>3 DEF Owners
<1>7. \A l \in DOMAIN rec' : Mapped(l)'
  BY <1>0, <1>3, <1>4, MappedStays DEF Clean, Mappings
<1>8. ASSUME NEW u \in Threads PROVE Maps(u)'
  <2>1. Maps(u) /\ Same(u) /\ Kept(base[u])
    BY <1>2, <1>3 DEF Clean, Mappings, Same
  <2>2. pc[u] # "idle" => key[u] \in DOMAIN rec'
    BY <1>0, <1>1 DEF Live, Control
  <2>3. pc[u] # "idle" => Grows(key[u])
    BY <1>4, <2>2
  <2>4. pc[u] \in Mapping => rec'[key[u]].map_addr = NULL
    BY <1>4, <2>2, NotMapping DEF SameMap, Mapping
  <2>5. pc[u] \in Reading => Seen(u)' = Seen(u)
    <3>1. ASSUME pc[u] \in Reading PROVE Seen(u)' = Seen(u)
      <4>1. snap[u].ext \in DOMAIN arr /\ snap[u].ext # rec[k].ext
        BY <1>0, <1>1, <3>1, SnapshotIs
      <4>2. arr'[snap[u].ext] = arr[snap[u].ext]
        BY <1>1, <4>1
      <4> QED
        BY <1>2, <4>2 DEF Seen
    <3> QED
      BY <3>1
  <2> QED
    BY <1>0, <2>1, <2>3, <2>4, <2>5, MapsStays
<1>9. MapsApart'
  <2>1. \A l \in DOMAIN rec' : l \in DOMAIN rec /\ rec'[l].map_addr = rec[l].map_addr
    BY <1>4 DEF SameMap
  <2>2. (\A l, m \in DOMAIN rec : rec[l].map_addr = rec[m].map_addr /\ rec[l].map_addr # NULL => l = m)'
    BY <2>1 DEF Clean, MapsApart
  <2>3. (\A u, w \in Threads : base[u] = base[w] /\ base[u] # NULL => u = w)'
    BY <1>2 DEF Clean, MapsApart
  <2>4. (\A l \in DOMAIN rec, u \in Threads : rec[l].map_addr = base[u] => base[u] = NULL)'
    BY <1>2, <2>1 DEF Clean, MapsApart
  <2>5. (\A c \in DOMAIN vm :
          (\E l \in DOMAIN rec : rec[l].map_addr = c) \/ (\E u \in Threads : base[u] = c))'
    <3>1. SUFFICES ASSUME NEW c \in DOMAIN vm'
                   PROVE  (\E l \in DOMAIN rec' : rec'[l].map_addr = c)
                          \/ (\E u \in Threads : base'[u] = c)
      OBVIOUS
    <3>2. c \in DOMAIN vm /\ c # rec[k].map_addr
      BY <1>3, <3>1
    <3>3. (\E l \in DOMAIN rec : rec[l].map_addr = c) \/ (\E u \in Threads : base[u] = c)
      BY <3>2 DEF Clean, MapsApart
    <3> QED
      BY <1>1, <1>2, <3>2, <3>3
  <2>6. (\A u, w \in Threads : pc[u] \in Mapping /\ pc[w] \in Mapping /\ key[u] = key[w] => u = w)'
    BY <1>2 DEF Clean, MapsApart
  <2> QED
    BY <2>2, <2>3, <2>4, <2>5, <2>6 DEF MapsApart
<1>10. Handed'
  <2>1. \A l \in Keys : handed'[l] = IF l = k THEN {} ELSE handed[l]
    BY <1>0, <1>2 DEF Live, Types
  <2> QED
    BY <1>1, <2>1 DEF Clean, Handed
<1>11. Mappings'
  BY <1>7, <1>8 DEF Mappings
<1>12. Live' /\ ClosedClean'
  BY <1>0, <1>2, EraseLive DEF ClosedClean
<1> QED
  BY <1>6, <1>9, <1>10, <1>11, <1>12 DEF Clean

LEMMA CloseClean ==
    ASSUME Clean, ls_close
    PROVE  Clean'
<1>0. Live
  BY DEF Clean
<1>1. rec' = << >> /\ DOMAIN rec' = {} /\ handed' = [k \in Keys |-> {}]
  BY DEF ls_close
<1>2. UNCHANGED <<free, lk, pc, key, need, snap, base, slices>> /\ \A t \in Threads : pc[t] = "idle"
  BY DEF ls_close, thread
<1>3. \A t \in Threads : base[t] = NULL /\ slices[t] = 0
  BY <1>2 DEF Clean, Mappings, Maps, Basing
<1>4. DOMAIN vm' = {}
  <2>1. PICK R : R = DOMAIN rec
    OBVIOUS
  <2>2. vm' = Unmapped(vm, {rec[l] : l \in R}) /\ R \subseteq DOMAIN rec
    BY <2>1 DEF ls_close
  <2>3. /\ DOMAIN vm' \subseteq DOMAIN vm
        /\ \A l \in R : rec[l].map_addr \notin DOMAIN vm'
    BY <2>2, UnmappedIs
  <2>4. \A c \in DOMAIN vm : \E l \in DOMAIN rec : rec[l].map_addr = c
    <3>1. NULL \notin DOMAIN vm
      BY <1>0 DEF Live, Types, NULL
    <3> QED
      BY <1>3, <3>1 DEF Clean, MapsApart
  <2> QED
    BY <2>1, <2>3, <2>4
<1>5. vm' = << >>
  <2>1. PICK S, D : /\ S = {[addr |-> r.map_addr, len |-> r.map_len] :
                              r \in {q \in {rec[k] : k \in DOMAIN rec} : q.map_addr # NULL}}
                    /\ D = {b \in DOMAIN vm : ~\E s \in S : s.addr = b /\ Len(vm[b]) <= s.len}
    OBVIOUS
  <2>2. vm' = [a \in D |-> [i \in DOMAIN vm[a] |->
                  IF \E s \in S : s.addr = a /\ i <= s.len THEN PROT_NONE ELSE vm[a][i]]]
    BY <2>1 DEF ls_close, Unmapped, munmap
  <2>3. D = {}
    BY <1>4, <2>2
  <2> QED
    BY <2>2, <2>3
<1>6. Live' /\ arr' = << >>
  BY <1>0, CloseLive
<1>7. Owners'
  BY <1>1 DEF Owners
<1>8. \A t \in Threads : Maps(t)'
  BY <1>2, <1>3 DEF Maps, Mapping
<1>9. Mappings'
  BY <1>1, <1>8 DEF Mappings
<1>10. MapsApart'
  BY <1>1, <1>2, <1>3, <1>4 DEF MapsApart, Mapping
<1>11. Handed'
  BY <1>1 DEF Handed
<1>12. ClosedClean'
  BY <1>5, <1>6 DEF ClosedClean
<1> QED
  BY <1>6, <1>7, <1>9, <1>10, <1>11, <1>12 DEF Clean

LEMMA InitClean == Init => Clean
<1> SUFFICES ASSUME Init PROVE Clean
  OBVIOUS
<1>1. /\ DOMAIN rec = {} /\ DOMAIN vm = {} /\ ~closed
      /\ \A t \in Threads : pc[t] = "idle" /\ base[t] = NULL /\ slices[t] = 0
      /\ \A k \in Keys : handed[k] = {}
  BY DEF Init
<1>2. Owners /\ MapsApart /\ Handed /\ ClosedClean
  BY <1>1 DEF Owners, MapsApart, Handed, ClosedClean, Mapping
<1>3. \A t \in Threads : Maps(t)
  BY <1>1 DEF Maps, Mapping
<1>4. Mappings
  BY <1>1, <1>3 DEF Mappings
<1> QED
  BY <1>2, <1>4, InitLive DEF Clean

LEMMA StutterClean ==
    ASSUME Clean, UNCHANGED vars
    PROVE  Clean'
<1>1. UNCHANGED <<rec, arr, retired, free, vm, closed, lk, pc, key, need, snap, base, slices, handed>>
  BY DEF vars, space, thread
<1>2. Live /\ Live'
  BY StutterLive DEF Clean
<1>3. Still /\ Fits /\ \A l \in DOMAIN rec : SameMap(l)
  BY <1>1, SameRec DEF Clean
<1>4. Owners'
  BY <1>1, <1>3, StillOwners DEF Clean
<1>5. \A l \in DOMAIN rec' : Mapped(l)'
  BY <1>1, <1>2, <1>3, KeptAll, StillGrows, MappedStays DEF Clean, Mappings
<1>6. ASSUME NEW u \in Threads PROVE Maps(u)'
  <2>1. Maps(u) /\ Same(u) /\ Kept(base[u]) /\ Seen(u)' = Seen(u)
    BY <1>1, <1>3, KeptAll, SeenStill DEF Clean, Mappings, Same
  <2>2. pc[u] # "idle" => Grows(key[u])
    BY <1>2, <1>3, StillGrows DEF Live, Control
  <2>3. pc[u] \in Mapping => rec'[key[u]].map_addr = NULL
    BY <1>1, NotMapping
  <2> QED
    BY <1>2, <2>1, <2>2, <2>3, MapsStays
<1>7. MapsApart' /\ Handed' /\ ClosedClean'
  BY <1>1 DEF Clean, MapsApart, Handed, ClosedClean
<1>8. Mappings'
  BY <1>5, <1>6 DEF Mappings
<1> QED
  BY <1>2, <1>4, <1>7, <1>8 DEF Clean

LEMMA NextClean ==
    ASSUME Clean, [Next]_vars
    PROVE  Clean'
<1>1. ASSUME NEW t \in Threads, NEW k \in Keys,
             ls_read(t, k) \/ (\E n \in Sizes : ls_write(t, k, n)) \/ MapAgain(t, k)
             \/ ls_map(t, k) \/ ls_unmap(t, k) \/ ls_erase(t, k)
      PROVE  Clean'
  BY <1>1, ReadClean, WriteClean, MapAgainClean, MapClean, UnmapClean, EraseClean
<1>2. ASSUME NEW t \in Threads,
             ensure_extents(t) \/ PushFails(t) \/ Grown(t) \/ Transferred(t) \/ Reserve(t)
             \/ Stitch(t) \/ StitchFails(t) \/ MapDone(t) \/ ls_os_unmap(t)
      PROVE  Clean'
  BY <1>2, EnsureClean, PushFailsClean, GrownClean, TransferredClean, ReserveClean, StitchClean,
     StitchFailsClean, MapDoneClean, OsUnmapClean
<1>3. CASE ls_close
  BY <1>3, CloseClean
<1>4. CASE UNCHANGED vars
  BY <1>4, StutterClean
<1> QED
  BY <1>1, <1>2, <1>3, <1>4 DEF Next

LEMMA CleanAlways == Spec => []Clean
<1>1. Clean /\ [Next]_vars => Clean'
  BY NextClean
<1> QED
  BY <1>1, InitClean, PTL DEF Spec

\* What a record keeps as its mapping is its own blocks, from the first and in
\* order, however the record grows, is mapped again or is erased meanwhile, and no mapping in the process, finished or not, shows a
\* block the allocator may give away.
THEOREM MappedFaithful == Spec => []MappingsFaithful
<1>1. Clean => MappingsFaithful
  <2>1. SUFFICES ASSUME Clean PROVE MappingsFaithful
    OBVIOUS
  <2>2. \A k \in DOMAIN rec : rec[k].map_addr # NULL =>
          /\ rec[k].map_addr \in DOMAIN vm
          /\ Len(vm[rec[k].map_addr]) = rec[k].map_len
          /\ IsPrefix(vm[rec[k].map_addr], Shown(Extents(rec[k])))
    BY <2>1 DEF Clean, Mappings, Mapped
  <2>3. ASSUME NEW a \in DOMAIN vm
        PROVE  Range(vm[a]) \cap free = {}
    <3>1. a # NULL /\ PROT_NONE \notin free
      BY <2>1 DEF Clean, Live, Types, NULL, PROT_NONE
    <3>2. ASSUME NEW k \in DOMAIN rec, rec[k].map_addr = a
          PROVE  Range(vm[a]) \cap free = {}
      BY <2>1, <3>1, <3>2, MappedOwn DEF Clean, Owners
    <3>3. ASSUME NEW t \in Threads, base[t] = a
          PROVE  Range(vm[a]) \cap free = {}
      <4>1. Range(vm[a]) \subseteq Own(key[t]) \cup {PROT_NONE} /\ key[t] \in DOMAIN rec
        BY <2>1, <3>1, <3>3 DEF Clean, Mappings, Maps, Live, Control, Basing
      <4> QED
        BY <2>1, <3>1, <4>1 DEF Clean, Owners
    <3> QED
      BY <2>1, <2>3, <3>2, <3>3 DEF Clean, MapsApart
  <2> QED
    BY <2>2, <2>3 DEF MappingsFaithful
<1> QED
  BY <1>1, CleanAlways, PTL

\* What ls_map handed to a caller stays mapped, each block of it to the record,
\* until ls_unmap, ls_erase or ls_close, and it is as long as the caller was
\* told, unless the record was longer than its mapping when that was asked for.
THEOREM MappedUsable == Spec => []HandedUsable
<1>1. Clean => HandedUsable
  <2>1. SUFFICES ASSUME Clean, NEW k \in Keys, NEW h \in handed[k]
                 PROVE  /\ h.addr \in DOMAIN vm
                        /\ h.len <= Len(vm[h.addr]) \/ h.outgrown
                        /\ PROT_NONE \notin Range(vm[h.addr])
    BY DEF HandedUsable
  <2>2. /\ k \in DOMAIN rec /\ rec[k].map_addr # NULL /\ h.addr = rec[k].map_addr
        /\ h.len \in Nat /\ (h.outgrown \/ h.len <= rec[k].map_len)
    BY <2>1 DEF Clean, Handed
  <2>3. PICK v : v = vm[h.addr]
    OBVIOUS
  <2>4. h.addr \in DOMAIN vm /\ v \in Seq(Nat \ {0}) /\ Len(v) = rec[k].map_len
    BY <2>1, <2>2, <2>3 DEF Clean, Mappings, Mapped
  <2>5. PROT_NONE \notin Range(v)
    BY <2>4 DEF PROT_NONE, Range
  <2> QED
    BY <2>2, <2>3, <2>4, <2>5
<1> QED
  BY <1>1, CleanAlways, PTL

\* ls_close leaves no mapping and no extent array behind, neither current ones
\* nor those that ext_push retired.
THEOREM MappedCloses == Spec => []ClosedClean
<1>1. Clean => ClosedClean
  BY DEF Clean
<1> QED
  BY <1>1, CleanAlways, PTL
=============================================================================
