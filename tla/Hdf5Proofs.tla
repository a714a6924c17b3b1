----------------------------- MODULE Hdf5Proofs -----------------------------
(***************************************************************************)
(* Proofs about the HDF5 backend.                                          *)
(*                                                                         *)
(* Three invariants build on each other: where calls are and what they     *)
(* have open (Control), what the bytes of calls under the lock are         *)
(* (Pending), and what finished segments have left behind (Effects).  The  *)
(* last two say nothing of calls that are misled.                          *)
(***************************************************************************)
EXTENDS Hdf5, TLAPS

-----------------------------------------------------------------------------
(* Calls, the lock and open identifiers.                                   *)

Locked == {"extent", "open", "xfer", "attr", "erase", "got"}
Opened == {"xfer", "attr"}

CallRec == [op : Ops \cup {"none"}, key : Keys \cup {NoKey},
            segs : Seq(Segment), val : Int]

Typed ==
    /\ pc \in [Threads -> Locked \cup {"idle", "next", "fin"}]
    /\ lk \in Threads \cup {NoThread}
    /\ call \in [Threads -> CallRec]
    /\ dir \in [Threads -> {"read", "write"}]
    /\ seg \in [Threads -> Nat]
    /\ buf = [t \in Threads |-> buf[t]]
    /\ before = [t \in Threads |-> before[t]]
    /\ rc \in [Threads -> {"LS_OK", "LS_ERR_BACKEND", "LS_ERR_NOKEY", "LS_ERR_RANGE"}]
    /\ ids \in Nat
    /\ opened \in BOOLEAN

\* A call in progress is one a caller may make, except that an append's range
\* may have moved.
WellFormed(c) ==
    /\ c.op \in Ops
    /\ c.key \in Keys
    /\ c.op \in {"read", "write"} => c.segs # << >>
    /\ c.op \in {"append", "acc", "reserve"} => Len(c.segs) = 1

\* Where thread t can be in a call, by the kind of the call.
CallAt(t) ==
    LET op == call[t].op
    IN  /\ pc[t] # "idle" => WellFormed(call[t])
        /\ pc[t] = "idle" => op = "none" /\ seg[t] = 0
        /\ pc[t] = "extent" => op = "append"
        /\ pc[t] = "open" => op \in {"read", "write", "append", "acc", "reserve", "attr"}
        /\ pc[t] = "xfer" => op \in {"read", "write", "append", "acc"}
        /\ pc[t] = "attr" => op = "attr"
        /\ pc[t] = "erase" => op = "erase"
        /\ pc[t] = "got" => op = "getattr"
        /\ pc[t] = "next" => op \in {"read", "write"}
        /\ op = "read" => dir[t] = "read"
        /\ op \in {"write", "append", "reserve", "attr"} => dir[t] = "write"
        /\ seg[t] # 0 => op \in {"read", "write"} /\ seg[t] < Len(call[t].segs)
        /\ pc[t] # "fin" => rc[t] = "LS_OK"

\* h5_lk is held by the thread that is under it, and by nobody else.
LockHeld == \A t \in Threads : pc[t] \in Locked <=> lk = t

\* Only a thread inside a transfer, or setting an attribute, has an identifier
\* open.
IdsCounted ==
    /\ (\E t \in Threads : pc[t] \in Opened) => ids = 1
    /\ (\A t \in Threads : pc[t] \notin Opened) => ids = 0

\* A promise about the file is only outstanding while nobody uses it.
KeptStands ==
    /\ ~opened => \A t \in Threads : pc[t] = "idle"
    /\ opened => kept = << >>
    /\ KeptClosed

\* Calls in progress on one key are ones their callers may make together.
TogetherOK ==
    \A t, u \in Threads :
        t # u /\ pc[t] # "idle" /\ pc[u] # "idle" /\ Key(t) = Key(u) =>
            Compatible(call[t], call[u])

\* Datasets are bytes and an attribute, and so is what an accumulate has read.
Dataset == [bytes : Seq(Int), attr : Seq(Int)]

DataTyped ==
    /\ DOMAIN ds \subseteq Keys
    /\ ds \in [DOMAIN ds -> Dataset]
    /\ \A t \in Threads :
          pc[t] \in {"open", "xfer"} /\ call[t].op = "acc" /\ dir[t] = "write" =>
              \A o \in Covers(call[t]) : buf[t][o] \in Int

Control ==
    /\ Typed
    /\ DataTyped
    /\ \A t \in Threads : CallAt(t)
    /\ LockHeld
    /\ IdsCounted
    /\ KeptStands
    /\ TogetherOK

LEMMA CompatibleBoth ==
    ASSUME NEW c, NEW d, Compatible(c, d)
    PROVE  Compatible(d, c)
  BY DEF Compatible

\* A step of thread t in a store that stays open: what has to be shown of it.
LEMMA ThreadStep ==
    ASSUME Control, NEW t \in Threads, opened, UNCHANGED store,
           Typed', DataTyped', CallAt(t)',
           \A u \in Threads \ {t} :
               /\ pc'[u] = pc[u] /\ call'[u] = call[u] /\ dir'[u] = dir[u]
               /\ seg'[u] = seg[u] /\ rc'[u] = rc[u],
           \/ /\ lk \in {t, NoThread}
              /\ lk' = IF pc'[t] \in Locked THEN t ELSE NoThread
              /\ ids' = IF pc'[t] \in Opened THEN 1 ELSE 0
           \/ /\ pc[t] \notin Locked /\ pc'[t] \notin Locked
              /\ UNCHANGED <<lk, ids>>,
           pc'[t] # "idle" =>
               \A u \in Threads \ {t} : pc[u] # "idle" /\ call'[t].key = Key(u) =>
                   Compatible(call'[t], call[u]) /\ Compatible(call[u], call'[t])
    PROVE  Control'
<1>1. \A u \in Threads : CallAt(u)'
  <2> SUFFICES ASSUME NEW u \in Threads, u # t
               PROVE  CallAt(u)'
    OBVIOUS
  <2> QED
    BY DEF Control, CallAt, WellFormed
<1>2. LockHeld'
  BY Hdf5Assumption DEF Control, LockHeld, Typed, Locked
<1>3. IdsCounted'
  BY Hdf5Assumption DEF Control, LockHeld, IdsCounted, Locked, Opened
<1>4. KeptStands'
  BY DEF Control, KeptStands, KeptClosed, store
<1>5. TogetherOK'
  BY DEF Control, TogetherOK, Key
<1> QED
  BY <1>1, <1>2, <1>3, <1>4, <1>5 DEF Control

\* What a thread under the lock knows: it alone is, and the store is open.
LEMMA HolderFacts ==
    ASSUME Control, NEW t \in Threads, pc[t] \in Locked
    PROVE  /\ lk = t /\ opened
           /\ \A u \in Threads \ {t} : pc[u] \notin Locked
           /\ ids = IF pc[t] \in Opened THEN 1 ELSE 0
  BY Hdf5Assumption DEF Control, LockHeld, KeptStands, IdsCounted, Locked, Opened

\* An empty store that nobody has opened.
LEMMA InitControl == Init => Control
<1> SUFFICES ASSUME Init
             PROVE  Control
  OBVIOUS
<1>1. NoCall \in CallRec
  BY DEF NoCall, CallRec, Segment
<1>2. Typed
  BY <1>1 DEF Init, Typed, Locked
<1>3. DataTyped
  BY DEF Init, DataTyped
<1> QED
  BY <1>2, <1>3, Hdf5Assumption
  DEF Init, Control, CallAt, NoCall, LockHeld, IdsCounted, KeptStands,
      KeptClosed, TogetherOK, Locked, Opened

\* Sizes are numbers, and the bytes inside them are too.
LEMMA SizeTyped ==
    ASSUME DataTyped, NEW k
    PROVE  /\ Size(k) \in Nat
           /\ \A o \in Nat : ByteAt(k, o) \in Int
           /\ Exists(k) => /\ ds[k] \in Dataset
                           /\ ds[k].bytes \in Seq(Int)
                           /\ Len(ds[k].bytes) = Size(k)
                           /\ DOMAIN ds[k].bytes = 1 .. Size(k)
<1>1. CASE Exists(k)
  <2>1. ds[k] \in Dataset /\ ds[k].bytes \in Seq(Int)
    BY <1>1 DEF DataTyped, Exists, Dataset
  <2> QED
    BY <1>1, <2>1 DEF Size, ByteAt
<1>2. CASE ~Exists(k)
  BY <1>2 DEF Size, ByteAt
<1> QED
  BY <1>1, <1>2

\* The offsets a call covers.
LEMMA CoversIn ==
    ASSUME NEW c \in CallRec
    PROVE  /\ \A i \in DOMAIN c.segs :
                /\ c.segs[i] \in Segment /\ c.segs[i].off \in Nat /\ c.segs[i].n \in Nat
                /\ End(c.segs[i]) \in Nat
           /\ \A o : o \in Covers(c) <=>
                \E i \in DOMAIN c.segs :
                    o \in Nat /\ c.segs[i].off <= o /\ o < End(c.segs[i])
<1>1. \A i \in DOMAIN c.segs : c.segs[i] \in Segment
  BY DEF CallRec
<1>2. \A s \in Segment : s.off \in Nat /\ s.n \in Nat
  BY DEF Segment
<1>3. \A i \in DOMAIN c.segs :
         /\ c.segs[i].off \in Nat /\ c.segs[i].n \in Nat /\ End(c.segs[i]) \in Nat
  BY <1>1, <1>2 DEF End
<1> QED
  BY <1>1, <1>3 DEF Covers

\* An entry point takes the lock for a call its caller may make.
LEMMA EnterControl ==
    ASSUME Control, NEW t \in Threads, NEW c \in Calls, Enter(t, c)
    PROVE  Control'
<1>1. c \in CallRec /\ c.op \in Ops /\ c.key \in Keys /\ WellFormed(c)
  BY CallsAssumption DEF CallRec, WellFormed
<1>2. PICK found : pc' = [pc EXCEPT ![t] = FirstStep(c, found)]
  BY DEF Enter
<1>3. /\ opened /\ pc[t] = "idle" /\ lk = NoThread /\ Permitted(t, c)
      /\ lk' = t
      /\ call' = [call EXCEPT ![t] = c]
      /\ dir' = [dir EXCEPT ![t] = FirstDir(c)]
      /\ before' = [before EXCEPT ![t] = [o \in Covers(c) |-> ByteAt(c.key, o)]]
      /\ UNCHANGED <<store, ds, ids, seg, buf, rc>>
  BY DEF Enter
<1>4. FirstStep(c, found) \in Locked \ Opened /\ FirstDir(c) \in {"read", "write"}
  BY DEF FirstStep, FirstDir, Locked, Opened
<1>5. Typed'
  BY <1>1, <1>2, <1>3, <1>4 DEF Control, Typed, store
<1>6. CallAt(t)'
  BY <1>1, <1>2, <1>3 DEF Control, Typed, CallAt, FirstStep, FirstDir, WellFormed, Ops
<1>7. DataTyped'
  <2>1. call'[t].op = "acc" => dir'[t] = "read"
    BY <1>3 DEF Control, Typed, FirstDir
  <2> QED
    BY <1>2, <1>3, <2>1 DEF Control, Typed, DataTyped
<1>8. \A u \in Threads \ {t} : pc[u] # "idle" /\ call'[t].key = Key(u) =>
         Compatible(call'[t], call[u]) /\ Compatible(call[u], call'[t])
  <2>1. \A u \in Threads \ {t} : pc[u] # "idle" /\ c.key = Key(u) => Compatible(c, call[u])
    BY <1>3 DEF Permitted, Active
  <2>2. call'[t] = c
    BY <1>3 DEF Control, Typed
  <2> QED
    BY <2>1, <2>2, CompatibleBoth
<1>9. ids' = 0
  BY <1>3, Hdf5Assumption DEF Control, LockHeld, IdsCounted, Locked, Opened
<1> QED
  BY <1>2, <1>3, <1>4, <1>5, <1>6, <1>7, <1>8, <1>9, ThreadStep DEF Control, Typed

\* The next segment of a vectored call takes the lock again.
LEMMA SegvControl ==
    ASSUME Control, NEW t \in Threads, segv(t)
    PROVE  Control'
<1>1. /\ pc[t] = "next" /\ lk = NoThread /\ lk' = t
      /\ pc' = [pc EXCEPT ![t] = "open"]
      /\ UNCHANGED <<store, ds, ids, call, dir, seg, buf, before, rc>>
  BY DEF segv
<1>2. opened
  BY <1>1 DEF Control, KeptStands
<1>3. Typed'
  BY <1>1 DEF Control, Typed, store, Locked
<1>4. CallAt(t)'
  BY <1>1 DEF Control, Typed, CallAt, WellFormed
<1>5. DataTyped'
  BY <1>1, <1>4 DEF Control, Typed, DataTyped, CallAt
<1>6. ids' = 0 /\ "open" \in Locked \ Opened
  BY <1>1, Hdf5Assumption DEF Control, LockHeld, IdsCounted, Locked, Opened
<1>7. \A u \in Threads \ {t} : pc[u] # "idle" /\ call'[t].key = Key(u) =>
         Compatible(call'[t], call[u]) /\ Compatible(call[u], call'[t])
  BY <1>1 DEF Control, TogetherOK, Key
<1> QED
  BY <1>1, <1>2, <1>3, <1>4, <1>5, <1>6, <1>7, ThreadStep DEF Control, Typed

\* A step under the lock that leaves the call as it is.
LEMMA HolderStep ==
    ASSUME Control, NEW t \in Threads, pc[t] \in Locked,
           UNCHANGED <<store, call>>, Typed', DataTyped', CallAt(t)',
           \A u \in Threads \ {t} :
               /\ pc'[u] = pc[u] /\ dir'[u] = dir[u]
               /\ seg'[u] = seg[u] /\ rc'[u] = rc[u],
           lk' = IF pc'[t] \in Locked THEN t ELSE NoThread,
           ids' = IF pc'[t] \in Opened THEN 1 ELSE 0
    PROVE  Control'
<1>1. opened /\ lk = t
  BY HolderFacts
<1>2. \A u \in Threads \ {t} : pc[u] # "idle" /\ call'[t].key = Key(u) =>
         Compatible(call'[t], call[u]) /\ Compatible(call[u], call'[t])
  BY DEF Control, TogetherOK, Key, Locked
<1> QED
  BY <1>1, <1>2, ThreadStep

\* The call gives up the lock and returns, with its identifiers closed.
LEMMA LeaveControl ==
    ASSUME Control, NEW t \in Threads, pc[t] \in Locked,
           NEW result \in {"LS_OK", "LS_ERR_BACKEND", "LS_ERR_NOKEY", "LS_ERR_RANGE"},
           Leave(t, result), UNCHANGED store, DataTyped', ids' = 0
    PROVE  Control'
<1>1. /\ rc' = [rc EXCEPT ![t] = result] /\ pc' = [pc EXCEPT ![t] = "fin"]
      /\ lk' = NoThread /\ UNCHANGED <<call, dir, seg, buf, before>>
  BY DEF Leave
<1>2. Typed'
  BY <1>1 DEF Control, Typed, store
<1>3. pc'[t] = "fin" /\ "fin" \notin Locked /\ "fin" \notin Opened
  BY <1>1 DEF Control, Typed, Locked, Opened
<1>4. CallAt(t)'
  BY <1>1, <1>3 DEF Control, Typed, CallAt, WellFormed, Locked
<1> QED
  BY <1>1, <1>2, <1>3, <1>4, HolderStep DEF Control, Typed

\* Data stays typed when nothing of it moves and no accumulate turns to writing.
LEMMA DataKept ==
    ASSUME Control, NEW t \in Threads, UNCHANGED ds,
           \A u \in Threads \ {t} :
               pc'[u] = pc[u] /\ call'[u] = call[u] /\ dir'[u] = dir[u] /\ buf'[u] = buf[u],
           pc'[t] \notin {"open", "xfer"} \/ call'[t].op # "acc"
    PROVE  DataTyped'
  BY DEF Control, DataTyped

\* An append moves to offset n; nothing else of the call changes.
LEMMA MovedCall ==
    ASSUME Control, NEW t \in Threads, pc[t] = "extent", NEW n \in Nat,
           call' = [call EXCEPT ![t].segs[1].off = n]
    PROVE  /\ call' \in [Threads -> CallRec]
           /\ call'[t].op = "append" /\ call[t].op = "append" /\ call'[t].key = call[t].key
           /\ WellFormed(call'[t]) /\ call'[t].segs[1].off = n
           /\ \A u \in Threads \ {t} : call'[u] = call[u]
<1>1. call[t] \in CallRec /\ WellFormed(call[t]) /\ call[t].op = "append"
  BY DEF Control, Typed, CallAt
<1>2. call[t].segs \in Seq(Segment) /\ Len(call[t].segs) = 1 /\ call[t].segs[1] \in Segment
  BY <1>1 DEF CallRec, WellFormed
<1> DEFINE g == [call[t].segs[1] EXCEPT !.off = n]
           s == [call[t].segs EXCEPT ![1] = g]
           c == [call[t] EXCEPT !.segs = s]
<1>3. g \in Segment /\ g.off = n
  BY <1>2 DEF Segment
<1> HIDE DEF g
<1>4. s \in Seq(Segment) /\ Len(s) = 1 /\ s[1] = g
  BY <1>2, <1>3
<1> HIDE DEF s
<1>5. c \in CallRec /\ c.op = call[t].op /\ c.key = call[t].key /\ c.segs = s
  BY <1>1, <1>4 DEF CallRec
<1> HIDE DEF c
<1>6. call' = [call EXCEPT ![t] = c]
  BY DEF c, s, g
<1>7. call'[t] = c /\ call' \in [Threads -> CallRec]
  BY <1>5, <1>6 DEF Control, Typed
<1>8. WellFormed(c)
  BY <1>1, <1>4, <1>5 DEF WellFormed
<1> QED
  BY <1>1, <1>3, <1>4, <1>5, <1>6, <1>7, <1>8 DEF Control, Typed

\* What the library says of a dataset's size is a number.
LEMMA DimsTyped ==
    ASSUME Control, NEW k, NEW n \in Dims(k)
    PROVE  n \in Nat /\ n \in {Size(k), 0}
  BY SizeTyped DEF Dims, Control

LEMMA ExtentControl ==
    ASSUME Control, NEW t \in Threads, h5_extent(t)
    PROVE  Control'
<1>1. pc[t] = "extent" /\ pc[t] \in Locked /\ UNCHANGED <<store, ds, ids>>
  BY DEF h5_extent, At, Locked
<1>2. ids = 0 /\ opened /\ lk = t
  BY <1>1, HolderFacts DEF Opened
<1>3. ASSUME NEW n \in Dims(Key(t)), call' = [call EXCEPT ![t].segs[1].off = n],
             Goto(t, "open"), UNCHANGED <<lk, dir, seg, buf, before, rc>>
      PROVE  Control'
  <2>1. /\ pc' = [pc EXCEPT ![t] = "open"]
        /\ UNCHANGED <<lk, dir, seg, buf, before, rc>>
    BY <1>3 DEF Goto
  <2>2. /\ call' \in [Threads -> CallRec]
        /\ call'[t].op = "append" /\ call[t].op = "append" /\ call'[t].key = call[t].key
        /\ WellFormed(call'[t])
        /\ \A u \in Threads \ {t} : call'[u] = call[u]
    BY <1>1, <1>3, DimsTyped, MovedCall
  <2>3. Typed'
    BY <1>1, <2>1, <2>2 DEF Control, Typed, store, Locked
  <2>4. CallAt(t)'
    BY <1>1, <2>1, <2>2 DEF Control, Typed, CallAt, WellFormed
  <2>5. DataTyped'
    BY <1>1, <2>1, <2>2, DataKept DEF Control, Typed
  <2>6. pc'[t] = "open" /\ "open" \in Locked \ Opened
    BY <2>1 DEF Control, Typed, Locked, Opened
  <2>7. \A u \in Threads \ {t} : pc[u] # "idle" /\ call'[t].key = Key(u) =>
           Compatible(call'[t], call[u]) /\ Compatible(call[u], call'[t])
    <3>1. \A u \in Threads \ {t} : pc[u] # "idle" /\ Key(t) = Key(u) => call[u].op = "append"
      BY <1>1, <2>2 DEF Control, TogetherOK, Compatible, Reads
    <3> QED
      BY <2>2, <3>1 DEF Compatible, Key
  <2> QED
    BY <1>1, <1>2, <2>1, <2>2, <2>3, <2>4, <2>5, <2>6, <2>7, ThreadStep DEF Control, Typed
<1>4. ASSUME NEW e \in {"LS_ERR_NOKEY", "LS_ERR_BACKEND"}, Leave(t, e)
      PROVE  Control'
  <2>1. DataTyped'
    BY <1>1, <1>4, DataKept DEF Control, Typed, Leave
  <2> QED
    BY <1>1, <1>2, <1>4, <2>1, LeaveControl
<1> QED
  BY <1>3, <1>4 DEF h5_extent

\* A table with one key bound, and bytes laid over others.
LEMMA TableProps ==
    ASSUME NEW f, NEW k, NEW v
    PROVE  /\ DOMAIN Bind(f, k, v) = DOMAIN f \cup {k}
           /\ Bind(f, k, v)[k] = v
           /\ \A j \in DOMAIN f : j # k => Bind(f, k, v)[j] = f[j]
           /\ DOMAIN Without(f, k) = DOMAIN f \ {k}
           /\ \A j \in DOMAIN f : j # k => Without(f, k)[j] = f[j]
  BY DEF Bind, Without

\* H5Dset_extent and H5Dcreate2 as they should be: what was there, then zeros.
Grown(bytes, n) == bytes \o Zeros(n - Len(bytes))

LEMMA GrownProps ==
    ASSUME NEW b \in Seq(Int), NEW n \in Nat
    PROVE  /\ Grown(b, n) \in Seq(Int)
           /\ n <= Len(b) => Grown(b, n) = b
           /\ n > Len(b) => Len(Grown(b, n)) = n
           /\ Len(b) <= Len(Grown(b, n)) /\ n <= Len(Grown(b, n))
           /\ \A i \in 1 .. Len(Grown(b, n)) :
                Grown(b, n)[i] = IF i <= Len(b) THEN b[i] ELSE 0
<1> DEFINE z == Zeros(n - Len(b))
<1>1. CASE n <= Len(b)
  <2> DEFINE S == 1 .. (n - Len(b))
  <2>1. S = {}
    BY <1>1
  <2> HIDE DEF S
  <2>2. [i \in S |-> 0] = << >>
    BY <2>1
  <2>3. z = << >>
    BY <2>2 DEF Zeros, S
  <2> HIDE DEF z
  <2>4. Grown(b, n) = b
    BY <2>3 DEF Grown, z
  <2> QED
    BY <1>1, <2>4
<1>2. CASE n > Len(b)
  <2>1. z \in Seq(Int) /\ Len(z) = n - Len(b) /\ \A i \in 1 .. Len(z) : z[i] = 0
    BY <1>2 DEF Zeros
  <2> HIDE DEF z
  <2>2. Grown(b, n) = b \o z
    BY DEF Grown, z
  <2> QED
    BY <1>2, <2>1, <2>2
<1> QED
  BY <1>1, <1>2

\* A call that gets to the library has its current segment.
LEMMA SegTyped ==
    ASSUME Control, NEW t \in Threads, pc[t] \in {"open", "xfer"}, call[t].op # "attr"
    PROVE  /\ seg[t] + 1 \in DOMAIN call[t].segs
           /\ Seg(t) \in Segment /\ Seg(t).off \in Nat /\ Seg(t).n \in Nat
           /\ End(Seg(t)) \in Nat
           /\ Seg(t).off .. (End(Seg(t)) - 1) \subseteq Covers(call[t])
           /\ call[t].op = "acc" => Seg(t) = call[t].segs[1]
                  /\ Covers(call[t]) = Seg(t).off .. (End(Seg(t)) - 1)
<1>1. call[t] \in CallRec /\ seg[t] \in Nat /\ CallAt(t)
  BY DEF Control, Typed
<1>2. call[t].segs \in Seq(Segment)
  BY <1>1 DEF CallRec
<1>3. seg[t] + 1 \in DOMAIN call[t].segs
  BY <1>1, <1>2 DEF CallAt, WellFormed
<1>4. \A s \in Segment : s.off \in Nat /\ s.n \in Nat
  BY DEF Segment
<1>5. Seg(t) \in Segment /\ Seg(t).off \in Nat /\ Seg(t).n \in Nat /\ End(Seg(t)) \in Nat
  BY <1>2, <1>3, <1>4 DEF Seg, End
<1>6. Seg(t).off .. (End(Seg(t)) - 1) \subseteq Covers(call[t])
  BY <1>3, <1>5 DEF Covers, Seg
<1>7. ASSUME call[t].op = "acc"
      PROVE  Seg(t) = call[t].segs[1] /\ Covers(call[t]) = Seg(t).off .. (End(Seg(t)) - 1)
  <2>1. seg[t] = 0 /\ Len(call[t].segs) = 1
    BY <1>1, <1>7 DEF CallAt, WellFormed
  <2>2. Seg(t) = call[t].segs[1] /\ DOMAIN call[t].segs = {1}
    BY <2>1, <1>2 DEF Seg
  <2> QED
    BY <2>2 DEF Covers
<1> QED
  BY <1>3, <1>5, <1>6, <1>7

\* How long a call needs its dataset to be is a number.
LEMMA NeedTyped ==
    ASSUME Control, NEW t \in Threads, pc[t] = "open"
    PROVE  Need(t) \in Nat
<1>1. CASE call[t].op = "attr"
  BY <1>1 DEF Need
<1>2. CASE call[t].op # "attr"
  BY <1>2, SegTyped DEF Need
<1> QED
  BY <1>1, <1>2

\* The record is cut off where the call needs it to end, and all calls on it
\* are marked.
Cut(t) ==
    /\ Exists(Key(t)) /\ 0 < Need(t) /\ Need(t) < Size(Key(t))
    /\ Users(Key(t)) \subseteq misled'

\* What h5_open_or_create does to the datasets.
LEMMA OpenEffect ==
    ASSUME Control, NEW t \in Threads, h5_open_or_create(t)
    PROVE  LET k == Key(t)
               b == IF Exists(k) THEN ds[k].bytes ELSE << >>
           IN  /\ k \in Keys
               /\ b \in Seq(Int) /\ Len(b) = Size(k)
               /\ DOMAIN ds' = DOMAIN ds \cup {k}
               /\ \A j \in DOMAIN ds : j # k => ds'[j] = ds[j]
               /\ ds'[k] \in Dataset
               /\ \/ ds'[k].bytes = Grown(b, Need(t))
                  \/ ds'[k].bytes = SubSeq(b, 1, Need(t)) /\ Cut(t)
               /\ ds' = [j \in DOMAIN ds \cup {k} |-> ds'[j]]
<1> DEFINE k == Key(t)
           old == IF Exists(k) THEN ds[k] ELSE [bytes |-> << >>, attr |-> None]
           b == IF Exists(k) THEN ds[k].bytes ELSE << >>
<1>1. PICK cur \in Dims(k) :
         /\ ds' = Bind(ds, k, [old EXCEPT !.bytes =
                         IF cur < Need(t) THEN H5Dset_extent(@, Need(t)) ELSE @])
         /\ misled' = IF cur < Need(t) /\ Need(t) < Size(k)
                      THEN misled \cup Users(k) ELSE misled
  BY DEF h5_open_or_create
<1>2. pc[t] = "open" /\ k \in Keys /\ Need(t) \in Nat
  BY NeedTyped DEF h5_open_or_create, At, Control, CallAt, WellFormed, Key
<1>3. old \in Dataset /\ old.bytes = b /\ b \in Seq(Int) /\ Len(b) = Size(k)
  <2>1. CASE Exists(k)
    BY <2>1, SizeTyped DEF Control, Dataset
  <2>2. CASE ~Exists(k)
    BY <2>2 DEF Dataset, None, Size
  <2> QED
    BY <2>1, <2>2
<1> DEFINE to == IF cur < Need(t) THEN H5Dset_extent(b, Need(t)) ELSE b
<1>4. /\ to \in Seq(Int)
      /\ to = Grown(b, Need(t)) \/ (to = SubSeq(b, 1, Need(t)) /\ Cut(t))
  <2>1. /\ Grown(b, Need(t)) \in Seq(Int)
        /\ Need(t) <= Len(b) => Grown(b, Need(t)) = b
    BY <1>2, <1>3, GrownProps
  <2>2. cur \in Nat /\ cur \in {Size(k), 0} /\ Len(b) \in Nat
    BY <1>3, DimsTyped
  <2> HIDE DEF b, k
  <2>3. CASE ~(cur < Need(t))
    <3>1. to = b /\ (Need(t) <= Len(b) \/ (cur = 0 /\ Need(t) = 0))
      BY <1>2, <1>3, <2>2, <2>3
    <3> QED
      BY <1>2, <1>3, <2>1, <2>2, <3>1
  <2>4. CASE cur < Need(t) /\ ~(Need(t) < Len(b))
    BY <2>1, <2>4 DEF H5Dset_extent, Grown
  <2>5. CASE cur < Need(t) /\ Need(t) < Len(b)
    <3>1. to = SubSeq(b, 1, Need(t))
      BY <2>5 DEF H5Dset_extent
    <3>2. SubSeq(b, 1, Need(t)) \in Seq(Int)
      BY <1>2, <1>3, <2>2, <2>5
    <3>3. Exists(k) /\ 0 < Need(t) /\ Need(t) < Size(k)
      BY <1>2, <1>3, <2>2, <2>5 DEF Size
    <3>4. Users(k) \subseteq misled'
      BY <1>1, <2>5, <3>3
    <3> QED
      BY <3>1, <3>2, <3>3, <3>4 DEF Cut, k
  <2> QED
    BY <2>3, <2>4, <2>5
<1> HIDE DEF to
<1> DEFINE new == [old EXCEPT !.bytes = to]
<1>5. new \in Dataset /\ new.bytes = to
  BY <1>3, <1>4 DEF Dataset
<1>6. ds' = Bind(ds, k, new)
  BY <1>1, <1>3 DEF to
<1> HIDE DEF new, old, b, k
<1>7. /\ DOMAIN ds' = DOMAIN ds \cup {k}
      /\ ds'[k] = new
      /\ \A j \in DOMAIN ds : j # k => ds'[j] = ds[j]
      /\ ds' = [j \in DOMAIN ds \cup {k} |-> ds'[j]]
  BY <1>6, TableProps DEF Bind
<1> QED
  BY <1>2, <1>3, <1>4, <1>5, <1>7 DEF k, b

\* h5_open_or_create leaves the datasets typed.
LEMMA OpenData ==
    ASSUME Control, NEW t \in Threads, h5_open_or_create(t)
    PROVE  DataTyped'
<1> DEFINE k == Key(t)
<1>1. /\ k \in Keys /\ DOMAIN ds' = DOMAIN ds \cup {k}
      /\ \A j \in DOMAIN ds : j # k => ds'[j] = ds[j]
      /\ ds'[k] \in Dataset /\ ds' = [j \in DOMAIN ds \cup {k} |-> ds'[j]]
  BY OpenEffect
<1>2. pc[t] = "open" /\ UNCHANGED <<call, dir, buf>> /\ \A u \in Threads \ {t} : pc'[u] = pc[u]
  BY DEF h5_open_or_create, At, Goto, Leave, Control, Typed
<1>3. DOMAIN ds \subseteq Keys /\ \A j \in DOMAIN ds : ds[j] \in Dataset
  BY DEF Control, DataTyped
<1>4. DOMAIN ds' \subseteq Keys /\ \A j \in DOMAIN ds' : ds'[j] \in Dataset
  BY <1>1, <1>3
<1>5. ds' \in [DOMAIN ds' -> Dataset]
  BY <1>1, <1>4
<1>6. \A u \in Threads :
         pc'[u] \in {"open", "xfer"} /\ call'[u].op = "acc" /\ dir'[u] = "write" =>
             \A o \in Covers(call'[u]) : buf'[u][o] \in Int
  BY <1>2 DEF Control, DataTyped
<1> QED
  BY <1>4, <1>5, <1>6 DEF DataTyped, Covers, End

LEMMA OpenControl ==
    ASSUME Control, NEW t \in Threads, h5_open_or_create(t)
    PROVE  Control'
<1>1. pc[t] = "open" /\ pc[t] \in Locked /\ UNCHANGED store
  BY DEF h5_open_or_create, At, Locked
<1>2. ids = 0 /\ lk = t
  BY <1>1, HolderFacts DEF Opened
<1>3. DataTyped'
  BY OpenData
<1>4. CASE call[t].op = "reserve"
  BY <1>1, <1>2, <1>3, <1>4, LeaveControl DEF h5_open_or_create
<1>5. CASE call[t].op # "reserve"
  <2> DEFINE to == IF call[t].op = "attr" THEN "attr" ELSE "xfer"
  <2>1. /\ ids' = 1 /\ pc' = [pc EXCEPT ![t] = to]
        /\ UNCHANGED <<lk, call, dir, seg, buf, before, rc>>
    BY <1>2, <1>5 DEF h5_open_or_create, Goto
  <2>2. Typed'
    BY <1>1, <2>1 DEF Control, Typed, store, Locked
  <2>3. CallAt(t)'
    BY <1>1, <1>5, <2>1 DEF Control, Typed, CallAt, WellFormed
  <2>4. pc'[t] \in Locked /\ pc'[t] \in Opened
    BY <2>1 DEF Control, Typed, Locked, Opened
  <2> QED
    BY <1>1, <1>2, <1>3, <2>1, <2>2, <2>3, <2>4, HolderStep DEF Control, Typed
<1> QED
  BY <1>4, <1>5

\* An accumulate turns to writing over what it takes for fresh space.
LEMMA FreshControl ==
    ASSUME Control, NEW t \in Threads, pc[t] \in {"open", "xfer"}, call[t].op = "acc",
           NEW left \in {0, 1}, left = ids, FreshSpace(t, left), UNCHANGED <<store, ds>>
    PROVE  Control'
<1>1. /\ dir' = [dir EXCEPT ![t] = "write"]
      /\ buf' = [buf EXCEPT ![t] = [o \in Covers(call[t]) |-> 0]]
      /\ pc' = [pc EXCEPT ![t] = "open"]
      /\ ids' = 0
      /\ UNCHANGED <<lk, call, seg, before, rc>>
  BY DEF FreshSpace, Goto
<1>2. Typed'
  BY <1>1 DEF Control, Typed, store, Locked
<1>3. CallAt(t)'
  BY <1>1 DEF Control, Typed, CallAt, WellFormed
<1>4. DataTyped'
  <2>1. \A o \in Covers(call[t]) : buf'[t][o] = 0
    BY <1>1 DEF Control, Typed
  <2>2. \A u \in Threads \ {t} : buf'[u] = buf[u] /\ pc'[u] = pc[u] /\ dir'[u] = dir[u]
    BY <1>1 DEF Control, Typed
  <2>3. \A u \in Threads :
         pc'[u] \in {"open", "xfer"} /\ call'[u].op = "acc" /\ dir'[u] = "write" =>
             \A o \in Covers(call'[u]) : buf'[u][o] \in Int
    BY <1>1, <2>1, <2>2 DEF Control, DataTyped
  <2> QED
    BY <2>3 DEF DataTyped, Covers, End, Control
<1>5. lk = t /\ pc[t] \in Locked
  BY HolderFacts DEF Locked
<1>6. pc'[t] = "open" /\ "open" \in Locked \ Opened
  BY <1>1 DEF Control, Typed, Locked, Opened
<1> QED
  BY <1>1, <1>2, <1>3, <1>4, <1>5, <1>6, HolderStep DEF Control, Typed

LEMMA OpenFailsControl ==
    ASSUME Control, NEW t \in Threads, OpenFails(t)
    PROVE  Control'
<1>1. pc[t] = "open" /\ pc[t] \in Locked /\ UNCHANGED <<store, ds>>
  BY DEF OpenFails, At, Locked
<1>2. ids = 0
  BY <1>1, HolderFacts DEF Opened
<1>3. ASSUME NEW r, Leave(t, r)
      PROVE  DataTyped'
  BY <1>1, <1>3, DataKept DEF Control, Typed, Leave
<1>4. CASE Creates(t)
  BY <1>1, <1>2, <1>3, <1>4, LeaveControl DEF OpenFails
<1>5. CASE ~Creates(t) /\ call[t].op = "acc"
  BY <1>1, <1>2, <1>5, FreshControl DEF OpenFails
<1>6. CASE ~Creates(t) /\ call[t].op # "acc"
  BY <1>1, <1>2, <1>3, <1>6, LeaveControl DEF OpenFails
<1> QED
  BY <1>4, <1>5, <1>6

\* One segment done.
LEMMA DoneControl ==
    ASSUME Control, NEW t \in Threads, pc[t] = "xfer", SegmentDone(t),
           UNCHANGED store, DataTyped', buf' = [u \in Threads |-> buf'[u]]
    PROVE  Control'
<1>1. ids = 1 /\ lk = t /\ pc[t] \in Locked
  BY HolderFacts DEF Locked, Opened
<1>2. ids' = 0 /\ UNCHANGED <<call, before, rc>>
  BY <1>1 DEF SegmentDone
<1>3. "open" \in Locked \ Opened /\ "next" \notin Locked /\ "fin" \notin Locked
      /\ "next" \notin Opened /\ "fin" \notin Opened
  BY DEF Locked, Opened
<1>4. CASE call[t].op = "acc" /\ dir[t] = "read"
  <2>1. /\ dir' = [dir EXCEPT ![t] = "write"] /\ pc' = [pc EXCEPT ![t] = "open"]
        /\ UNCHANGED <<lk, seg>>
    BY <1>4 DEF SegmentDone, Goto
  <2>2. Typed'
    BY <1>2, <2>1 DEF Control, Typed, store, Locked
  <2>3. CallAt(t)'
    BY <1>2, <1>4, <2>1 DEF Control, Typed, CallAt, WellFormed
  <2> QED
    BY <1>1, <1>2, <1>3, <2>1, <2>2, <2>3, HolderStep DEF Control, Typed
<1>5. CASE ~(call[t].op = "acc" /\ dir[t] = "read") /\ seg[t] + 1 < Len(call[t].segs)
  <2>1. /\ seg' = [seg EXCEPT ![t] = @ + 1] /\ pc' = [pc EXCEPT ![t] = "next"]
        /\ lk' = NoThread /\ UNCHANGED dir
    BY <1>5 DEF SegmentDone, Goto
  <2>2. Typed'
    BY <1>2, <2>1 DEF Control, Typed, store
  <2>3. CallAt(t)'
    <3>1. /\ seg[t] \in Nat /\ call[t].op \in {"read", "write", "append", "acc"}
          /\ WellFormed(call[t]) /\ (seg[t] # 0 => call[t].op \in {"read", "write"})
      BY DEF Control, Typed, CallAt
    <3>2. call[t].op \in {"read", "write"}
      <4> SUFFICES ASSUME call[t].op \in {"append", "acc"}
                   PROVE  FALSE
        BY <3>1
      <4>1. seg[t] = 0 /\ Len(call[t].segs) = 1
        BY <3>1 DEF WellFormed
      <4> QED
        BY <4>1, <1>5
    <3>3. seg'[t] = seg[t] + 1 /\ pc'[t] = "next"
      BY <2>1 DEF Control, Typed
    <3> QED
      BY <1>2, <1>5, <2>1, <3>1, <3>2, <3>3 DEF Control, Typed, CallAt, WellFormed
  <2> QED
    BY <1>1, <1>2, <1>3, <2>1, <2>2, <2>3, HolderStep DEF Control, Typed
<1>6. CASE ~(call[t].op = "acc" /\ dir[t] = "read") /\ ~(seg[t] + 1 < Len(call[t].segs))
  <2>1. pc' = [pc EXCEPT ![t] = "fin"] /\ lk' = NoThread /\ UNCHANGED <<dir, seg>>
    BY <1>6 DEF SegmentDone, Goto
  <2>2. Typed'
    BY <1>2, <2>1 DEF Control, Typed, store
  <2>3. CallAt(t)'
    BY <1>2, <2>1 DEF Control, Typed, CallAt, WellFormed
  <2> QED
    BY <1>1, <1>2, <1>3, <2>1, <2>2, <2>3, HolderStep DEF Control, Typed
<1> QED
  BY <1>4, <1>5, <1>6

LEMMA ReadControl ==
    ASSUME Control, NEW t \in Threads, ReadSegment(t)
    PROVE  Control'
<1> DEFINE s == Seg(t)
           got == [o \in s.off .. (End(s) - 1) |-> ByteAt(Key(t), o)]
<1>1. /\ pc[t] = "xfer" /\ pc[t] \in Locked /\ dir[t] = "read"
      /\ UNCHANGED <<store, ds>>
  BY DEF ReadSegment, At, Locked
<1>2. ids = 1
  BY <1>1, HolderFacts DEF Opened
<1>3. CASE call[t].op = "acc" /\ FreshSpace(t, 1)
  BY <1>1, <1>2, <1>3, FreshControl
<1>4. CASE ids' = ids - 1 /\ Leave(t, "LS_ERR_RANGE")
  <2>1. DataTyped'
    BY <1>1, <1>4, DataKept DEF Control, Typed, Leave
  <2> QED
    BY <1>1, <1>2, <1>4, <2>1, LeaveControl
<1>5. CASE buf' = [buf EXCEPT ![t] = Laid(got, @)] /\ SegmentDone(t)
  <2>1. buf' = [buf EXCEPT ![t] = Laid(got, @)] /\ SegmentDone(t)
    BY <1>5
  <2>2. /\ UNCHANGED call /\ dir' \in {dir, [dir EXCEPT ![t] = "write"]}
        /\ \A u \in Threads \ {t} : pc'[u] = pc[u]
    BY <2>1 DEF SegmentDone, Goto, Control, Typed
  <2>3. \A u \in Threads \ {t} : dir'[u] = dir[u] /\ buf'[u] = buf[u]
    BY <2>1, <2>2 DEF Control, Typed
  <2>4. call[t].op = "acc" => \A o \in Covers(call[t]) : buf'[t][o] \in Int
    <3> SUFFICES ASSUME call[t].op = "acc", NEW o \in Covers(call[t])
                 PROVE  buf'[t][o] \in Int
      OBVIOUS
    <3>1. Covers(call[t]) = s.off .. (End(s) - 1) /\ s.off \in Nat /\ End(s) \in Nat
      BY <1>1, SegTyped
    <3>2. buf'[t] = Laid(got, buf[t])
      BY <2>1 DEF Control, Typed
    <3>3. buf'[t][o] = ByteAt(Key(t), o)
      BY <3>1, <3>2 DEF Laid
    <3>4. o \in Nat
      BY <3>1
    <3> QED
      BY <3>3, <3>4, SizeTyped DEF Control
  <2>5. DataTyped'
    <3>1. \A u \in Threads :
         pc'[u] \in {"open", "xfer"} /\ call'[u].op = "acc" /\ dir'[u] = "write" =>
             \A o \in Covers(call'[u]) : buf'[u][o] \in Int
      BY <2>2, <2>3, <2>4 DEF Control, DataTyped
    <3> QED
      BY <1>1, <3>1 DEF DataTyped, Covers, End, Control
  <2>6. buf' = [u \in Threads |-> buf'[u]]
    BY <2>1 DEF Control, Typed
  <2> QED
    BY <1>1, <2>1, <2>5, <2>6, DoneControl
<1> QED
  BY <1>3, <1>4, <1>5 DEF ReadSegment

\* What a write leaves: the record has its bytes at the offsets in some, and
\* nothing else changes.
LEMMA WrittenProps ==
    ASSUME Control, NEW t \in Threads, pc[t] = "xfer", dir[t] = "write",
           NEW some, some \subseteq Covers(call[t])
    PROVE  LET k == Key(t)
               w == Written(t, some)
           IN  /\ DOMAIN w = DOMAIN ds
               /\ w \in [DOMAIN ds -> Dataset]
               /\ \A j \in DOMAIN ds : j # k => w[j] = ds[j]
               /\ k \in DOMAIN ds =>
                    /\ w[k].bytes \in Seq(Int)
                    /\ Len(w[k].bytes) = Len(ds[k].bytes)
                    /\ w[k].attr = ds[k].attr
                    /\ \A i \in 1 .. Len(ds[k].bytes) :
                         w[k].bytes[i] =
                           IF i - 1 \in some THEN Data(t, i - 1) ELSE ds[k].bytes[i]
<1> DEFINE k == Key(t)
           w == Written(t, some)
<1>1. ds \in [DOMAIN ds -> Dataset]
  BY DEF Control, DataTyped
<1>2. CASE k \notin DOMAIN ds
  <2>1. w = ds
    BY <1>1, <1>2 DEF Written
  <2> QED
    BY <1>1, <1>2, <2>1
<1>3. CASE k \in DOMAIN ds
  <2>1. ds[k] \in Dataset /\ ds[k].bytes \in Seq(Int) /\ ds[k].attr \in Seq(Int)
    BY <1>1, <1>3 DEF Dataset
  <2> DEFINE b == ds[k].bytes
             nb == [i \in DOMAIN b |-> IF i - 1 \in some THEN Data(t, i - 1) ELSE b[i]]
  <2>2. w = [ds EXCEPT ![k] = [ds[k] EXCEPT !.bytes = nb]]
    BY DEF Written
  <2>3. \A o \in Covers(call[t]) : Data(t, o) \in Int
    <3>1. call[t].val \in Int
      BY DEF Control, Typed, CallRec
    <3>2. call[t].op = "acc" => \A o \in Covers(call[t]) : buf[t][o] \in Int
      BY DEF Control, DataTyped
    <3> QED
      BY <3>1, <3>2 DEF Data, Combine
  <2>4. DOMAIN b = 1 .. Len(b) /\ Len(b) \in Nat /\ \A i \in 1 .. Len(b) : b[i] \in Int
    BY <2>1
  <2>5. \A i \in 1 .. Len(b) : nb[i] \in Int
    BY <2>3, <2>4
  <2>6. nb = [i \in 1 .. Len(b) |-> nb[i]]
    BY <2>4
  <2> HIDE DEF nb
  <2>7. nb \in Seq(Int) /\ Len(nb) = Len(b)
    BY <2>4, <2>5, <2>6
  <2> DEFINE r == [ds[k] EXCEPT !.bytes = nb]
  <2>8. r \in Dataset /\ r.bytes = nb /\ r.attr = ds[k].attr
    BY <2>1, <2>7 DEF Dataset
  <2> HIDE DEF r, b
  <2>9. w = [ds EXCEPT ![k] = r]
    BY <2>2 DEF r
  <2> HIDE DEF w, k
  <2>10. DOMAIN w = DOMAIN ds /\ w \in [DOMAIN ds -> Dataset] /\ w[k] = r
         /\ \A j \in DOMAIN ds : j # k => w[j] = ds[j]
    BY <1>1, <1>3, <2>8, <2>9
  <2>11. \A i \in 1 .. Len(b) : nb[i] = IF i - 1 \in some THEN Data(t, i - 1) ELSE b[i]
    BY <2>4 DEF nb
  <2> QED
    BY <2>7, <2>8, <2>10, <2>11 DEF w, k, b
<1> QED
  BY <1>2, <1>3

LEMMA WriteData ==
    ASSUME Control, NEW t \in Threads, pc[t] = "xfer", dir[t] = "write",
           NEW some, some \subseteq Covers(call[t]), ds' = Written(t, some),
           UNCHANGED <<call, dir, buf>>, \A u \in Threads \ {t} : pc'[u] = pc[u]
    PROVE  DataTyped'
<1>1. DOMAIN ds' = DOMAIN ds /\ ds' \in [DOMAIN ds -> Dataset]
  BY WrittenProps
<1>2. \A u \in Threads :
         pc'[u] \in {"open", "xfer"} /\ call'[u].op = "acc" /\ dir'[u] = "write" =>
             \A o \in Covers(call'[u]) : buf'[u][o] \in Int
  BY DEF Control, DataTyped
<1> QED
  BY <1>1, <1>2 DEF DataTyped, Covers, End, Control

LEMMA WriteControl ==
    ASSUME Control, NEW t \in Threads, WriteSegment(t)
    PROVE  Control'
<1> DEFINE some == Seg(t).off .. (End(Seg(t)) - 1)
<1>1. /\ pc[t] = "xfer" /\ dir[t] = "write" /\ ds' = Written(t, some)
      /\ SegmentDone(t) /\ UNCHANGED <<store, buf>>
  BY DEF WriteSegment, At
<1>2. some \subseteq Covers(call[t])
  BY <1>1, SegTyped DEF Control, CallAt
<1>3. UNCHANGED <<call, dir>> /\ \A u \in Threads \ {t} : pc'[u] = pc[u]
  BY <1>1 DEF SegmentDone, Goto, Control, Typed
<1> HIDE DEF some
<1>4. DataTyped'
  BY <1>1, <1>2, <1>3, WriteData
<1> QED
  BY <1>1, <1>4, DoneControl DEF Control, Typed

LEMMA TransferFailsControl ==
    ASSUME Control, NEW t \in Threads, TransferFails(t)
    PROVE  Control'
<1>1. /\ pc[t] = "xfer" /\ pc[t] \in Locked /\ UNCHANGED store
      /\ ids' = ids - 1 /\ Leave(t, "LS_ERR_BACKEND")
  BY DEF TransferFails, At, Locked
<1>2. ids' = 0
  BY <1>1, HolderFacts DEF Opened
<1>3. UNCHANGED <<call, dir, buf>> /\ \A u \in Threads \ {t} : pc'[u] = pc[u]
  BY <1>1 DEF Leave, Control, Typed
<1>4. CASE dir[t] = "read" /\ UNCHANGED ds
  <2>1. DataTyped'
    BY <1>1, <1>3, <1>4, DataKept DEF Control, Typed, Leave
  <2> QED
    BY <1>1, <1>2, <2>1, LeaveControl
<1>5. CASE dir[t] = "write"
  <2>1. PICK some \in SUBSET (Seg(t).off .. (End(Seg(t)) - 1)) : ds' = Written(t, some)
    BY <1>5 DEF TransferFails
  <2>2. some \subseteq Covers(call[t])
    BY <1>1, SegTyped DEF Control, CallAt
  <2>3. DataTyped'
    BY <1>1, <1>3, <1>5, <2>1, <2>2, WriteData
  <2> QED
    BY <1>1, <1>2, <2>3, LeaveControl
<1> QED
  BY <1>4, <1>5 DEF TransferFails

\* The datasets stay typed when one of them changes to another, or goes, as a
\* call ends.
LEMMA LeaveData ==
    ASSUME Control, NEW t \in Threads, NEW r, Leave(t, r),
           DOMAIN ds' \subseteq DOMAIN ds, ds' \in [DOMAIN ds' -> Dataset]
    PROVE  DataTyped'
<1>1. /\ UNCHANGED <<call, dir, buf>> /\ \A u \in Threads \ {t} : pc'[u] = pc[u]
      /\ pc'[t] = "fin"
  BY DEF Leave, Control, Typed
<1>2. \A u \in Threads :
         pc'[u] \in {"open", "xfer"} /\ call'[u].op = "acc" /\ dir'[u] = "write" =>
             \A o \in Covers(call'[u]) : buf'[u][o] \in Int
  BY <1>1 DEF Control, DataTyped
<1> QED
  BY <1>2 DEF DataTyped, Covers, End, Control

LEMMA EraseControl ==
    ASSUME Control, NEW t \in Threads, Erase(t)
    PROVE  Control'
<1> DEFINE k == Key(t)
<1>1. pc[t] = "erase" /\ pc[t] \in Locked /\ UNCHANGED <<store, ids>>
  BY DEF Erase, At, Locked
<1>2. ids' = 0
  BY <1>1, HolderFacts DEF Opened
<1>3. PICK r \in {"LS_OK", "LS_ERR_BACKEND", "LS_ERR_NOKEY"} :
         Leave(t, r) /\ ds' \in {ds, Without(ds, k)}
  BY DEF Erase
<1>4. \A j \in DOMAIN ds : ds[j] \in Dataset
  BY DEF Control, DataTyped
<1>5. DOMAIN ds' \subseteq DOMAIN ds /\ ds' \in [DOMAIN ds' -> Dataset]
  BY <1>3, <1>4 DEF Without, Control, DataTyped
<1>6. DataTyped'
  BY <1>3, <1>5, LeaveData
<1> QED
  BY <1>1, <1>2, <1>3, <1>6, LeaveControl

LEMMA SetAttrControl ==
    ASSUME Control, NEW t \in Threads, SetAttr(t)
    PROVE  /\ Control'
           /\ DOMAIN ds' = DOMAIN ds
           /\ \A j \in DOMAIN ds : ds'[j].bytes = ds[j].bytes
<1> DEFINE k == Key(t)
<1>1. pc[t] = "attr" /\ pc[t] \in Locked /\ UNCHANGED store /\ ids' = ids - 1
  BY DEF SetAttr, At, Locked
<1>2. ids' = 0
  BY <1>1, HolderFacts DEF Opened
<1>3. PICK r \in {"LS_OK", "LS_ERR_BACKEND"},
           a \in {ds[k].attr, None, <<Undefined>>, <<call[t].val>>} :
         Leave(t, r) /\ ds' = [ds EXCEPT ![k].attr = a]
  BY DEF SetAttr
<1>4. ds \in [DOMAIN ds -> Dataset]
  BY DEF Control, DataTyped
<1>5. CASE k \in DOMAIN ds
  <2>1. ds[k] \in Dataset /\ ds[k].bytes \in Seq(Int) /\ ds[k].attr \in Seq(Int)
    BY <1>4, <1>5 DEF Dataset
  <2>2. <<call[t].val>> \in Seq(Int)
    BY DEF Control, Typed, CallRec
  <2>a. None \in Seq(Int) /\ <<Undefined>> \in Seq(Int)
    BY DEF None, Undefined
  <2>b. a = ds[k].attr \/ a = None \/ a = <<Undefined>> \/ a = <<call[t].val>>
    BY <1>3, Zenon
  <2>3. a \in Seq(Int)
    BY <2>1, <2>2, <2>a, <2>b, Zenon
  <2> DEFINE new == [ds[k] EXCEPT !.attr = a]
  <2>4. new \in Dataset /\ new.bytes = ds[k].bytes
    BY <2>1, <2>3 DEF Dataset
  <2> HIDE DEF new
  <2>5. ds' = [ds EXCEPT ![k] = new]
    BY <1>3 DEF new
  <2> QED
    <3>1. DOMAIN ds' = DOMAIN ds /\ ds' \in [DOMAIN ds -> Dataset]
      BY <1>4, <2>4, <2>5
    <3>2. Control'
      BY <3>1, <1>1, <1>2, <1>3, LeaveData, LeaveControl
    <3> QED
      BY <1>4, <1>5, <2>4, <2>5, <3>1, <3>2
<1>6. CASE k \notin DOMAIN ds
  <2>1. ds' = ds
    BY <1>3, <1>4, <1>6
  <2> QED
    BY <1>1, <1>2, <1>3, <1>4, <2>1, LeaveData, LeaveControl
<1> QED
  BY <1>5, <1>6

LEMMA GetAttrControl ==
    ASSUME Control, NEW t \in Threads, GetAttr(t)
    PROVE  Control'
<1>1. pc[t] = "got" /\ pc[t] \in Locked /\ UNCHANGED <<store, ds, ids>>
  BY DEF GetAttr, At, Locked
<1>2. ids' = 0
  BY <1>1, HolderFacts DEF Opened
<1>3. PICK r \in {"LS_OK", "LS_ERR_BACKEND", "LS_ERR_NOKEY"} : Leave(t, r)
  BY DEF GetAttr
<1>4. DataTyped'
  BY <1>1, <1>3, LeaveData DEF Control, DataTyped
<1> QED
  BY <1>1, <1>2, <1>3, <1>4, LeaveControl

LEMMA ReturnControl ==
    ASSUME Control, NEW t \in Threads, Return(t)
    PROVE  Control'
<1>1. /\ pc[t] = "fin" /\ pc' = [pc EXCEPT ![t] = "idle"]
      /\ call' = [call EXCEPT ![t] = NoCall]
      /\ dir' = [dir EXCEPT ![t] = "read"] /\ seg' = [seg EXCEPT ![t] = 0]
      /\ buf' = [buf EXCEPT ![t] = << >>] /\ before' = [before EXCEPT ![t] = << >>]
      /\ rc' = [rc EXCEPT ![t] = "LS_OK"]
      /\ UNCHANGED <<store, ds, ids, lk>>
  BY DEF Return, Goto
<1>2. NoCall \in CallRec /\ NoCall.op = "none"
  BY DEF NoCall, CallRec, Segment
<1>3. Typed'
  BY <1>1, <1>2 DEF Control, Typed, store
<1>4. /\ pc'[t] = "idle" /\ pc[t] \notin Locked /\ pc'[t] \notin Locked
      /\ \A u \in Threads \ {t} :
           /\ pc'[u] = pc[u] /\ call'[u] = call[u] /\ dir'[u] = dir[u]
           /\ seg'[u] = seg[u] /\ rc'[u] = rc[u] /\ buf'[u] = buf[u]
  BY <1>1 DEF Control, Typed, Locked
<1>5. CallAt(t)'
  BY <1>1, <1>2, <1>4 DEF Control, Typed, CallAt
<1>6. DataTyped'
  BY <1>1, <1>4, DataKept
<1>7. opened
  BY <1>1 DEF Control, KeptStands
<1> QED
  BY <1>1, <1>3, <1>4, <1>5, <1>6, <1>7, ThreadStep

LEMMA FileControl ==
    ASSUME Control, ls_h5_open \/ \E keep \in BOOLEAN : ls_h5_close(keep)
    PROVE  Control'
<1>1. \A t \in Threads : pc[t] = "idle"
  BY DEF Control, KeptStands, ls_h5_open, ls_h5_close, Active
<1>2. UNCHANGED <<ids, lk, thread>> /\ opened' \in BOOLEAN
  BY DEF ls_h5_open, ls_h5_close
<1>3. Typed' /\ (\A t \in Threads : CallAt(t)') /\ LockHeld' /\ IdsCounted' /\ TogetherOK'
  <2>1. /\ pc' = pc /\ call' = call /\ dir' = dir /\ seg' = seg /\ buf' = buf
        /\ before' = before /\ rc' = rc /\ ids' = ids /\ lk' = lk
    BY <1>2 DEF thread
  <2>2. Typed'
    BY <1>2, <2>1 DEF Control, Typed
  <2>3. \A t \in Threads : CallAt(t)'
    BY <2>1 DEF Control, CallAt, WellFormed
  <2>4. LockHeld' /\ IdsCounted'
    BY <2>1 DEF Control, LockHeld, IdsCounted
  <2>5. TogetherOK'
    BY <1>1, <2>1 DEF TogetherOK
  <2> QED
    BY <2>2, <2>3, <2>4, <2>5
<1>4. ids = 0
  BY <1>1 DEF Control, IdsCounted, Opened
<1>5. KeptStands'
  <2>1. \A t \in Threads : pc'[t] = "idle"
    BY <1>1, <1>2 DEF thread
  <2>2. CASE ls_h5_open
    BY <2>1, <2>2 DEF ls_h5_open, KeptStands, KeptClosed
  <2>3. CASE \E keep \in BOOLEAN : ls_h5_close(keep)
    <3>1. PICK keep \in BOOLEAN : ls_h5_close(keep)
      BY <2>3
    <3>2. CASE keep
      BY <1>4, <2>1, <3>1, <3>2 DEF ls_h5_close, KeptStands, KeptClosed
    <3>3. CASE ~keep
      BY <2>1, <3>1, <3>3 DEF ls_h5_close, KeptStands, KeptClosed
    <3> QED
      BY <3>2, <3>3
  <2> QED
    BY <2>2, <2>3
<1>6. DataTyped'
  <2>1. ds' \in {ds, << >>}
    BY DEF ls_h5_open, ls_h5_close
  <2>2. << >> \in [{} -> Dataset] /\ DOMAIN << >> = {}
    OBVIOUS
  <2>3. DOMAIN ds' \subseteq Keys /\ ds' \in [DOMAIN ds' -> Dataset]
    BY <2>1, <2>2 DEF Control, DataTyped
  <2>4. \A t \in Threads : pc'[t] = "idle"
    BY <1>1, <1>2 DEF thread
  <2> QED
    BY <2>3, <2>4 DEF DataTyped
<1> QED
  BY <1>3, <1>5, <1>6 DEF Control

LEMMA NextControl == Control /\ [Next]_vars => Control'
<1> SUFFICES ASSUME Control, [Next]_vars
             PROVE  Control'
  OBVIOUS
<1>1. CASE UNCHANGED vars
  <2>1. UNCHANGED <<store, ds, ids, lk, thread>>
    BY <1>1 DEF vars
  <2>2. /\ pc' = pc /\ call' = call /\ dir' = dir /\ seg' = seg /\ buf' = buf
        /\ before' = before /\ rc' = rc /\ ids' = ids /\ lk' = lk /\ ds' = ds
        /\ file' = file /\ opened' = opened /\ kept' = kept
    BY <2>1 DEF thread, store
  <2>3. Typed'
    BY <2>2 DEF Control, Typed
  <2>4. DataTyped'
    BY <2>2 DEF Control, DataTyped, Covers, End
  <2>5. \A t \in Threads : CallAt(t)'
    BY <2>2 DEF Control, CallAt, WellFormed
  <2>6. LockHeld' /\ IdsCounted' /\ KeptStands'
    BY <2>2 DEF Control, LockHeld, IdsCounted, KeptStands, KeptClosed
  <2>7. TogetherOK'
    BY <2>2 DEF Control, TogetherOK, Key, Compatible, Reads, Covers, End
  <2> QED
    BY <2>3, <2>4, <2>5, <2>6, <2>7 DEF Control
<1>2. CASE ls_h5_open \/ \E keep \in BOOLEAN : ls_h5_close(keep)
  BY <1>2, FileControl
<1>3. ASSUME NEW t \in Threads, NEW c \in Calls, Enter(t, c)
      PROVE  Control'
  BY <1>3, EnterControl
<1>4. ASSUME NEW t \in Threads, segv(t) \/ Return(t)
      PROVE  Control'
  BY <1>4, SegvControl, ReturnControl
<1>5. ASSUME NEW t \in Threads, Holder(t)
      PROVE  Control'
  BY <1>5, ExtentControl, OpenControl, OpenFailsControl, ReadControl, WriteControl,
     TransferFailsControl, EraseControl, SetAttrControl, GetAttrControl DEF Holder
<1> QED
  BY <1>1, <1>2, <1>3, <1>4, <1>5
  DEF Next, ls_h5_rw, ls_h5_append, ls_h5_accumulate, ls_h5_reserve, ls_h5_erase,
      ls_h5_set_attr, ls_h5_get_attr

\* No path through the backend leaves an identifier open, so a file that
\* ls_close(keep=1) reported as kept is complete, with the datasets it had: for
\* any threads, keys and calls, and whichever calls of the library fail.
THEOREM HDF5KeptClosed == Spec => []KeptClosed
<1>1. Init => Control
  BY InitControl
<1>2. Control /\ [Next]_vars => Control'
  BY NextControl
<1>3. Control => KeptClosed
  BY DEF Control, KeptStands
<1> QED
  BY <1>1, <1>2, <1>3, PTL DEF Spec

-----------------------------------------------------------------------------
(* Bytes.                                                                  *)

Span(s) == s.off .. (End(s) - 1)

\* What a call under the lock has in hand.  The record is long enough for what
\* is about to be written; and unless the call is misled, an accumulate that
\* has read has what is stored.
PendingOK(t) ==
    /\ pc[t] = "xfer" /\ dir[t] = "write" =>
          Exists(Key(t)) /\ End(Seg(t)) <= Size(Key(t))
    /\ t \notin misled /\ call[t].op = "acc" /\ pc[t] \in {"open", "xfer"} =>
          /\ \A o \in Covers(call[t]) : before[t][o] = ByteAt(Key(t), o)
          /\ dir[t] = "write" => \A o \in Covers(call[t]) : buf[t][o] = before[t][o]

Pending == \A t \in Threads : PendingOK(t)

\* A step leaves what record k holds, and may add zeros to it.
BytesKept(k) ==
    /\ Size(k) <= Size(k)'
    /\ \A o \in Nat : ByteAt(k, o)' = ByteAt(k, o)

LEMMA SameBytes ==
    ASSUME Control, NEW k, UNCHANGED ds
    PROVE  BytesKept(k)
<1>1. Size(k) \in Nat
  BY SizeTyped DEF Control
<1> QED
  BY <1>1 DEF BytesKept, Size, ByteAt, Exists

\* Two tables that hold the same bytes for a key hold the same bytes.
LEMMA SameRecord ==
    ASSUME Control, NEW k, k \in DOMAIN ds' <=> k \in DOMAIN ds,
           k \in DOMAIN ds => ds'[k].bytes = ds[k].bytes
    PROVE  BytesKept(k) /\ Size(k)' = Size(k)
<1>1. Size(k) \in Nat
  BY SizeTyped DEF Control
<1> QED
  BY <1>1 DEF BytesKept, Size, ByteAt, Exists

LEMMA AttrBytes ==
    ASSUME Control, NEW t \in Threads, SetAttr(t), NEW k
    PROVE  BytesKept(k)
  BY SetAttrControl, SameRecord

\* Opening a dataset, growing it and making it keep every byte there is, unless
\* it is cut off.
LEMMA OpenBytes ==
    ASSUME Control, NEW t \in Threads, h5_open_or_create(t), NEW k, k = Key(t)
    PROVE  /\ \A j : j # k => BytesKept(j)
           /\ BytesKept(k) \/ Cut(t)
           /\ Exists(k)' /\ Need(t) <= Size(k)'
<1> DEFINE b == IF Exists(k) THEN ds[k].bytes ELSE << >>
           g == Grown(b, Need(t))
<1>1. /\ b \in Seq(Int) /\ Len(b) = Size(k)
      /\ DOMAIN ds' = DOMAIN ds \cup {k}
      /\ \A j \in DOMAIN ds : j # k => ds'[j] = ds[j]
      /\ ds'[k].bytes = g \/ (ds'[k].bytes = SubSeq(b, 1, Need(t)) /\ Cut(t))
  BY OpenEffect
<1>2. pc[t] = "open" /\ Need(t) \in Nat /\ UNCHANGED call
  BY NeedTyped DEF h5_open_or_create, At, Leave
<1>10. \A j : j # k => BytesKept(j)
  BY <1>1, SameRecord
<1>a. CASE ds'[k].bytes = SubSeq(b, 1, Need(t)) /\ Cut(t)
  <2>1. Need(t) < Len(b)
    BY <1>1, <1>a DEF Cut
  <2> HIDE DEF b
  <2>2. Len(SubSeq(b, 1, Need(t))) = Need(t)
    BY <1>1, <1>2, <2>1
  <2>3. Exists(k)' /\ Size(k)' = Need(t)
    BY <1>1, <1>a, <2>2 DEF Exists, Size
  <2> QED
    BY <1>2, <1>10, <1>a, <2>3
<1> SUFFICES ASSUME ds'[k].bytes = g
             PROVE  BytesKept(k) /\ Exists(k)' /\ Need(t) <= Size(k)'
  BY <1>1, <1>10, <1>a
<1> HIDE DEF b
<1>3. /\ g \in Seq(Int) /\ Len(b) <= Len(g) /\ Need(t) <= Len(g)
      /\ Need(t) <= Len(b) => g = b
      /\ \A i \in 1 .. Len(g) : g[i] = IF i <= Len(b) THEN b[i] ELSE 0
  BY <1>1, <1>2, GrownProps
<1> HIDE DEF g
<1>4. Exists(k)' /\ Size(k)' = Len(g)
  BY <1>1 DEF Exists, Size
<1>5. Len(b) \in Nat /\ Len(g) \in Nat
  BY <1>1, <1>3
<1>6. \A o \in Nat : ByteAt(k, o)' = IF o < Len(g) THEN g[o + 1] ELSE 0
  BY <1>1, <1>4 DEF ByteAt
<1>7. \A o \in Nat : ByteAt(k, o) = IF o < Len(b) THEN b[o + 1] ELSE 0
  BY <1>1 DEF ByteAt, b, Size
<1>8. \A o \in Nat : ByteAt(k, o)' = ByteAt(k, o)
  <2> SUFFICES ASSUME NEW o \in Nat
               PROVE  ByteAt(k, o)' = ByteAt(k, o)
    OBVIOUS
  <2>a. o < Len(g) => g[o + 1] = IF o < Len(b) THEN b[o + 1] ELSE 0
    <3> SUFFICES ASSUME o < Len(g)
                 PROVE  g[o + 1] = IF o < Len(b) THEN b[o + 1] ELSE 0
      OBVIOUS
    <3>1. o + 1 \in 1 .. Len(g) /\ (o + 1 <= Len(b) <=> o < Len(b))
      BY <1>5
    <3> QED
      BY <1>3, <3>1
  <2>1. CASE o < Len(b)
    <3>1. o < Len(g)
      BY <2>1, <1>3, <1>5
    <3> QED
      BY <2>1, <2>a, <3>1, <1>6, <1>7
  <2>2. CASE ~(o < Len(b)) /\ o < Len(g)
    BY <2>2, <2>a, <1>6, <1>7
  <2>3. CASE ~(o < Len(b)) /\ ~(o < Len(g))
    BY <2>3, <1>6, <1>7
  <2> QED
    BY <2>1, <2>2, <2>3
<1>9. BytesKept(k)
  BY <1>1, <1>3, <1>4, <1>8 DEF BytesKept
<1> QED
  BY <1>3, <1>4, <1>9

\* A write changes the bytes at its offsets and none else.
LEMMA WriteBytes ==
    ASSUME Control, NEW t \in Threads, pc[t] = "xfer", dir[t] = "write",
           NEW some, some \subseteq Covers(call[t]), ds' = Written(t, some),
           NEW k, k = Key(t)
    PROVE  /\ DOMAIN ds' = DOMAIN ds
           /\ \A j : Size(j)' = Size(j)
           /\ \A j : j # k => BytesKept(j)
           /\ \A o \in Nat :
                ByteAt(k, o)' = ByteAt(k, o) \/ (o \in some /\ ByteAt(k, o)' = Data(t, o))
           /\ \A o \in some : o < Size(k) => ByteAt(k, o)' = Data(t, o)
<1>1. /\ DOMAIN ds' = DOMAIN ds
      /\ \A j \in DOMAIN ds : j # k => ds'[j] = ds[j]
      /\ k \in DOMAIN ds =>
           /\ Len(ds'[k].bytes) = Len(ds[k].bytes)
           /\ \A i \in 1 .. Len(ds[k].bytes) :
                ds'[k].bytes[i] =
                    IF i - 1 \in some THEN Data(t, i - 1) ELSE ds[k].bytes[i]
  BY WrittenProps
<1>2. \A j : j # k => BytesKept(j) /\ Size(j)' = Size(j)
  BY <1>1, SameRecord
<1>3. Size(k) \in Nat /\ Size(k)' = Size(k)
  BY <1>1, SizeTyped DEF Size, Exists, Control
<1>4. ASSUME NEW o \in Nat, o < Size(k)
      PROVE  ByteAt(k, o)' = IF o \in some THEN Data(t, o) ELSE ByteAt(k, o)
  <2>1. k \in DOMAIN ds /\ Size(k) = Len(ds[k].bytes)
    BY <1>4 DEF Size, Exists
  <2>2. o + 1 \in 1 .. Len(ds[k].bytes) /\ (o + 1) - 1 = o
    BY <1>3, <1>4, <2>1
  <2>3. ByteAt(k, o)' = ds'[k].bytes[o + 1] /\ ByteAt(k, o) = ds[k].bytes[o + 1]
    BY <1>3, <1>4 DEF ByteAt
  <2> QED
    BY <1>1, <2>1, <2>2, <2>3
<1>5. ASSUME NEW o \in Nat, ~(o < Size(k))
      PROVE  ByteAt(k, o)' = ByteAt(k, o)
  BY <1>3, <1>5 DEF ByteAt
<1>6. some \subseteq Nat
  BY CoversIn DEF Control, Typed
<1>7. \A o \in Nat :
         ByteAt(k, o)' = ByteAt(k, o) \/ (o \in some /\ ByteAt(k, o)' = Data(t, o))
  BY <1>4, <1>5
<1>8. \A o \in some : o < Size(k) => ByteAt(k, o)' = Data(t, o)
  BY <1>4, <1>6
<1> QED
  BY <1>1, <1>2, <1>3, <1>7, <1>8

\* What a step of another thread leaves alone.
Alone(u) ==
    /\ pc'[u] = pc[u] /\ call'[u] = call[u] /\ dir'[u] = dir[u] /\ seg'[u] = seg[u]
    /\ buf'[u] = buf[u] /\ before'[u] = before[u] /\ rc'[u] = rc[u]

\* A call that is misled stays so.
Marked(u) == u \in misled => u \in misled'

LEMMA LeaveFrame ==
    ASSUME Control, NEW t \in Threads, NEW r, Leave(t, r)
    PROVE  /\ pc'[t] = "fin" /\ rc'[t] = r /\ UNCHANGED <<call, dir, seg, buf, before>>
           /\ \A u \in Threads \ {t} : Alone(u)
  BY DEF Leave, Control, Typed, Alone

LEMMA FreshFrame ==
    ASSUME Control, NEW t \in Threads, NEW left, FreshSpace(t, left)
    PROVE  /\ pc'[t] = "open" /\ dir'[t] = "write" /\ UNCHANGED <<call, seg, before, rc>>
           /\ buf'[t] = [o \in Covers(call[t]) |-> 0]
           /\ \A u \in Threads \ {t} : Alone(u)
  BY DEF FreshSpace, Goto, Control, Typed, Alone

LEMMA DoneFrame ==
    ASSUME Control, NEW t \in Threads, SegmentDone(t), NEW b,
           buf' = [buf EXCEPT ![t] = b]
    PROVE  /\ UNCHANGED <<call, before, rc>> /\ buf'[t] = b
           /\ \A u \in Threads \ {t} : Alone(u)
           /\ \/ /\ call[t].op = "acc" /\ dir[t] = "read"
                 /\ pc'[t] = "open" /\ dir'[t] = "write" /\ seg'[t] = seg[t]
              \/ /\ ~(call[t].op = "acc" /\ dir[t] = "read")
                 /\ seg[t] + 1 < Len(call[t].segs)
                 /\ pc'[t] = "next" /\ seg'[t] = seg[t] + 1 /\ dir'[t] = dir[t]
              \/ /\ ~(call[t].op = "acc" /\ dir[t] = "read")
                 /\ ~(seg[t] + 1 < Len(call[t].segs))
                 /\ pc'[t] = "fin" /\ seg'[t] = seg[t] /\ dir'[t] = dir[t]
  BY DEF SegmentDone, Goto, Control, Typed, Alone

LEMMA HolderFrame ==
    ASSUME Control, NEW t \in Threads, Holder(t)
    PROVE  /\ pc[t] \in Locked
           /\ h5_extent(t) \/ UNCHANGED call
           /\ call'[t].op = call[t].op /\ call'[t].key = call[t].key
           /\ \A u \in Threads \ {t} : Alone(u)
<1>1. CASE h5_extent(t)
  <2>1. pc[t] \in Locked /\ pc[t] = "extent"
    BY <1>1 DEF h5_extent, At, Locked
  <2>2. ASSUME NEW n \in Dims(Key(t)), call' = [call EXCEPT ![t].segs[1].off = n],
               Goto(t, "open"), UNCHANGED <<lk, dir, seg, buf, before, rc>>
        PROVE  /\ call'[t].op = call[t].op /\ call'[t].key = call[t].key
               /\ \A u \in Threads \ {t} : Alone(u)
    <3>1. /\ call'[t].op = "append" /\ call[t].op = "append" /\ call'[t].key = call[t].key
          /\ \A u \in Threads \ {t} : call'[u] = call[u]
      BY <2>1, <2>2, DimsTyped, MovedCall
    <3> QED
      BY <2>2, <3>1 DEF Goto, Control, Typed, Alone
  <2> QED
    BY <1>1, <2>1, <2>2, LeaveFrame DEF h5_extent
<1>2. CASE h5_open_or_create(t)
  <2>1. pc[t] \in Locked
    BY <1>2 DEF h5_open_or_create, At, Locked
  <2>2. \/ Leave(t, "LS_OK")
        \/ \E to : Goto(t, to) /\ UNCHANGED <<lk, call, dir, seg, buf, before, rc>>
    BY <1>2 DEF h5_open_or_create
  <2> QED
    BY <2>1, <2>2, LeaveFrame DEF Goto, Control, Typed, Alone
<1>3. CASE OpenFails(t)
  <2>1. pc[t] \in Locked
    BY <1>3 DEF OpenFails, At, Locked
  <2> QED
    BY <1>3, <2>1, LeaveFrame, FreshFrame DEF OpenFails
<1>4. CASE ReadSegment(t)
  <2>1. pc[t] \in Locked
    BY <1>4 DEF ReadSegment, At, Locked
  <2> QED
    BY <1>4, <2>1, LeaveFrame, FreshFrame, DoneFrame DEF ReadSegment
<1>5. CASE WriteSegment(t)
  <2>1. pc[t] \in Locked /\ buf' = [buf EXCEPT ![t] = buf[t]] /\ SegmentDone(t)
    BY <1>5 DEF WriteSegment, At, Locked, Control, Typed
  <2> QED
    BY <2>1, DoneFrame
<1>6. CASE TransferFails(t) \/ Erase(t) \/ SetAttr(t) \/ GetAttr(t)
  <2>1. pc[t] \in Locked /\ \E r : Leave(t, r)
    BY <1>6 DEF TransferFails, Erase, SetAttr, GetAttr, At, Locked
  <2> QED
    BY <2>1, LeaveFrame
<1> QED
  BY <1>1, <1>2, <1>3, <1>4, <1>5, <1>6 DEF Holder

\* Whoever is not under the lock has nothing in hand.
LEMMA PendingOut ==
    ASSUME NEW t \in Threads,
           \/ pc'[t] \notin {"open", "xfer"}
           \/ pc'[t] = "open" /\ call'[t].op # "acc"
    PROVE  PendingOK(t)'
  BY DEF PendingOK

LEMMA OthersPending ==
    ASSUME Control, Pending, NEW t \in Threads,
           pc[t] \in Locked \/ lk = NoThread \/ UNCHANGED ds,
           NEW u \in Threads \ {t}, Alone(u), Marked(u)
    PROVE  PendingOK(u)'
<1>1. CASE pc[u] \notin {"open", "xfer"}
  BY <1>1, PendingOut DEF Alone
<1>2. CASE pc[u] \in {"open", "xfer"}
  <2>1. UNCHANGED ds
    BY <1>2, HolderFacts, Hdf5Assumption DEF Locked, Control, LockHeld
  <2> QED
    BY <2>1 DEF Pending, PendingOK, Alone, Marked, Exists, Size, ByteAt, Key, Seg, Covers,
                End
<1> QED
  BY <1>1, <1>2

\* An accumulate that takes its range for fresh space combines with zeros, which
\* is what the range holds, or the call is marked.
LEMMA FreshPending ==
    ASSUME Control, Pending, NEW t \in Threads, pc[t] \in {"open", "xfer"},
           call[t].op = "acc", NEW left, FreshSpace(t, left), UNCHANGED ds
    PROVE  PendingOK(t)'
<1>1. /\ pc'[t] = "open" /\ dir'[t] = "write" /\ call' = call /\ before' = before
      /\ buf'[t] = [o \in Covers(call[t]) |-> 0]
  BY FreshFrame
<1>2. CASE t \in misled'
  BY <1>1, <1>2 DEF PendingOK
<1>3. CASE t \notin misled'
  <2>1. t \notin misled /\ ~Stored(t)
    BY <1>3 DEF FreshSpace
  <2>2. Covers(call[t]) \subseteq Nat /\ Size(Key(t)) \in Nat
    BY CoversIn, SizeTyped DEF Control, Typed
  <2>3. \A o \in Covers(call[t]) : before[t][o] = ByteAt(Key(t), o) /\ ByteAt(Key(t), o) = 0
    BY <2>1, <2>2 DEF Pending, PendingOK, Stored, ByteAt
  <2>4. \A o \in Covers(call[t]) : before'[t][o] = ByteAt(Key(t), o)' /\ buf'[t][o] = before'[t][o]
    BY <1>1, <2>3 DEF ByteAt, Size, Exists, Key
  <2>5. Covers(call[t])' = Covers(call[t])
    BY <1>1 DEF Covers, End
  <2> QED
    BY <1>1, <2>4, <2>5 DEF PendingOK
<1> QED
  BY <1>2, <1>3

LEMMA OpenPending ==
    ASSUME Control, Pending, NEW t \in Threads, h5_open_or_create(t)
    PROVE  PendingOK(t)'
<1>1. pc[t] = "open" /\ UNCHANGED <<call, dir, seg, buf, before>>
  BY DEF h5_open_or_create, At, Leave
<1>2. CASE call[t].op \in {"reserve", "attr"}
  <2>1. pc'[t] \in {"fin", "attr"}
    BY <1>2 DEF h5_open_or_create, Leave, Goto, Control, Typed
  <2> QED
    BY <2>1, PendingOut
<1>3. CASE call[t].op \notin {"reserve", "attr"}
  <2>1. PICK k : k = Key(t)
    OBVIOUS
  <2>2. /\ BytesKept(k) \/ t \in misled'
        /\ Exists(k)' /\ Need(t) <= Size(k)'
    BY <1>1, <2>1, OpenBytes DEF Cut, Users, Active
  <2>3. Key(t)' = k /\ Seg(t)' = Seg(t) /\ End(Seg(t))' = End(Seg(t))
        /\ Covers(call[t])' = Covers(call[t])
    BY <1>1, <2>1 DEF Key, Seg, End, Covers
  <2>4. dir[t] = "write" => Exists(Key(t))' /\ End(Seg(t))' <= Size(Key(t))'
    BY <1>3, <2>1, <2>2, <2>3 DEF Need
  <2>5. ASSUME call[t].op = "acc", t \notin misled'
        PROVE  /\ \A o \in Covers(call[t]) : before[t][o] = ByteAt(k, o)'
               /\ dir[t] = "write" => \A o \in Covers(call[t]) : buf[t][o] = before[t][o]
    <3>1. t \notin misled
      BY <2>5 DEF h5_open_or_create
    <3>2. /\ \A o \in Covers(call[t]) : before[t][o] = ByteAt(k, o)
          /\ dir[t] = "write" => \A o \in Covers(call[t]) : buf[t][o] = before[t][o]
      BY <1>1, <2>1, <2>5, <3>1 DEF Pending, PendingOK
    <3>3. Covers(call[t]) \subseteq Nat
      BY CoversIn DEF Control, Typed
    <3> QED
      BY <2>2, <2>5, <3>2, <3>3 DEF BytesKept
  <2>6. \A o : ByteAt(Key(t), o)' = ByteAt(k, o)'
    BY <2>3 DEF ByteAt, Size, Exists
  <2> QED
    BY <1>1, <2>3, <2>4, <2>5, <2>6 DEF PendingOK
<1> QED
  BY <1>2, <1>3

LEMMA OpenFailsPending ==
    ASSUME Control, Pending, NEW t \in Threads, OpenFails(t)
    PROVE  PendingOK(t)'
<1>1. pc[t] = "open" /\ UNCHANGED ds
  BY DEF OpenFails, At
<1>2. ASSUME NEW r, Leave(t, r)
      PROVE  PendingOK(t)'
  BY <1>2, LeaveFrame, PendingOut
<1>3. CASE call[t].op = "acc" /\ FreshSpace(t, 0)
  BY <1>1, <1>3, FreshPending
<1> QED
  BY <1>2, <1>3 DEF OpenFails

LEMMA ReadPending ==
    ASSUME Control, Pending, NEW t \in Threads, ReadSegment(t)
    PROVE  PendingOK(t)'
<1> DEFINE s == Seg(t)
           got == [o \in s.off .. (End(s) - 1) |-> ByteAt(Key(t), o)]
<1>1. pc[t] = "xfer" /\ dir[t] = "read" /\ UNCHANGED ds
  BY DEF ReadSegment, At
<1>2. CASE call[t].op = "acc" /\ FreshSpace(t, 1)
  BY <1>1, <1>2, FreshPending
<1>3. CASE Leave(t, "LS_ERR_RANGE")
  BY <1>3, LeaveFrame, PendingOut
<1>4. CASE buf' = [buf EXCEPT ![t] = Laid(got, buf[t])] /\ SegmentDone(t)
  <2>1. buf' = [buf EXCEPT ![t] = Laid(got, buf[t])] /\ SegmentDone(t) /\ misled' = misled
    BY <1>4 DEF SegmentDone
  <2>2. CASE call[t].op = "acc" /\ t \notin misled
    <3>1. /\ UNCHANGED <<call, before>> /\ buf'[t] = Laid(got, buf[t])
          /\ pc'[t] = "open" /\ dir'[t] = "write"
      BY <1>1, <2>1, <2>2, DoneFrame
    <3>2. /\ Covers(call[t]) = s.off .. (End(s) - 1)
          /\ \A o \in Covers(call[t]) : before[t][o] = ByteAt(Key(t), o)
      BY <1>1, <2>2, SegTyped DEF Pending, PendingOK
    <3>3. \A o \in Covers(call[t]) : buf'[t][o] = ByteAt(Key(t), o)
      BY <3>1, <3>2 DEF Laid
    <3>4. /\ Covers(call[t])' = Covers(call[t])
          /\ \A o : ByteAt(Key(t), o)' = ByteAt(Key(t), o)
      BY <1>1, <3>1 DEF Covers, End, ByteAt, Size, Exists, Key
    <3> QED
      BY <3>1, <3>2, <3>3, <3>4 DEF PendingOK
  <2>3. CASE call[t].op = "acc" /\ t \in misled
    <3>1. pc'[t] = "open" /\ t \in misled'
      BY <1>1, <2>1, <2>3, DoneFrame
    <3> QED
      BY <3>1 DEF PendingOK
  <2>4. CASE call[t].op # "acc"
    BY <2>1, <2>4, DoneFrame, PendingOut
  <2> QED
    BY <2>2, <2>3, <2>4
<1> QED
  BY <1>2, <1>3, <1>4 DEF ReadSegment

LEMMA EnterFrame ==
    ASSUME Control, NEW t \in Threads, NEW c \in Calls, Enter(t, c)
    PROVE  /\ pc[t] = "idle" /\ lk = NoThread /\ Permitted(t, c)
           /\ \E found \in h5_dataset_exists(c.key) :
                /\ pc'[t] = FirstStep(c, found)
                /\ c.op = "append" /\ ~found /\ Size(c.key) > 0 =>
                      Users(c.key) \subseteq misled'
           /\ dir'[t] = FirstDir(c) /\ call'[t] = c
           /\ before'[t] = [o \in Covers(c) |-> ByteAt(c.key, o)]
           /\ UNCHANGED <<store, ds, ids, seg, buf, rc>>
           /\ \A u \in Threads \ {t} : Alone(u)
           /\ \A u : Marked(u)
<1>1. \A u \in Threads \ {t} : Alone(u)
  BY DEF Enter, Control, Typed, Alone
<1>2. \A u : Marked(u)
  BY DEF Enter, Marked
<1>3. \E found \in h5_dataset_exists(c.key) :
         /\ pc'[t] = FirstStep(c, found)
         /\ c.op = "append" /\ ~found /\ Size(c.key) > 0 => Users(c.key) \subseteq misled'
  BY DEF Enter, Control, Typed
<1> QED
  BY <1>1, <1>2, <1>3 DEF Enter, Control, Typed

LEMMA EnterPending ==
    ASSUME Control, NEW t \in Threads, NEW c \in Calls, Enter(t, c)
    PROVE  PendingOK(t)'
<1>1. PICK found : pc'[t] = FirstStep(c, found)
  BY EnterFrame
<1>2. /\ UNCHANGED ds /\ dir'[t] = FirstDir(c) /\ call'[t] = c
      /\ before'[t] = [o \in Covers(c) |-> ByteAt(c.key, o)]
  BY EnterFrame
<1>3. pc'[t] # "xfer"
  BY <1>1 DEF FirstStep
<1>4. CASE c.op # "acc"
  BY <1>2, <1>3, <1>4, PendingOut
<1>5. CASE c.op = "acc"
  <2>1. dir'[t] = "read" /\ Covers(call[t])' = Covers(c)
    BY <1>2, <1>5 DEF FirstDir, Covers, End
  <2>2. \A o \in Covers(c) : before'[t][o] = ByteAt(Key(t), o)'
    BY <1>2, <2>1 DEF ByteAt, Size, Exists, Key
  <2> QED
    BY <1>3, <2>1, <2>2 DEF PendingOK
<1> QED
  BY <1>4, <1>5

LEMMA SegvFrame ==
    ASSUME Control, NEW t \in Threads, segv(t)
    PROVE  /\ pc[t] = "next" /\ lk = NoThread /\ pc'[t] = "open"
           /\ UNCHANGED <<store, ds, ids, call, dir, seg, buf, before, rc, misled>>
           /\ \A u \in Threads \ {t} : Alone(u)
           /\ \A u : Marked(u)
  BY DEF segv, Control, Typed, Alone, Marked

LEMMA ReturnFrame ==
    ASSUME Control, NEW t \in Threads, Return(t)
    PROVE  /\ pc[t] = "fin" /\ pc'[t] = "idle" /\ UNCHANGED <<store, ds, ids>>
           /\ \A u \in Threads \ {t} : Alone(u) /\ Marked(u)
  BY DEF Return, Goto, Control, Typed, Alone, Marked

LEMMA HolderMarks ==
    ASSUME NEW t \in Threads, Holder(t)
    PROVE  \A u : Marked(u)
<1>1. h5_extent(t) \/ h5_open_or_create(t) => \A u : Marked(u)
  BY DEF h5_extent, h5_open_or_create, Marked
<1>2. OpenFails(t) \/ ReadSegment(t) => \A u : Marked(u)
  BY DEF OpenFails, ReadSegment, FreshSpace, SegmentDone, Marked
<1>3. WriteSegment(t) \/ TransferFails(t) \/ Erase(t) \/ SetAttr(t) \/ GetAttr(t) =>
         misled' = misled
  BY DEF WriteSegment, SegmentDone, TransferFails, Erase, SetAttr, GetAttr
<1> QED
  BY <1>1, <1>2, <1>3 DEF Holder, Marked

\* Nobody is in a call when the file is opened or closed.
LEMMA FileFrame ==
    ASSUME Control, ls_h5_open \/ \E keep \in BOOLEAN : ls_h5_close(keep)
    PROVE  (\A t \in Threads : pc'[t] = "idle") /\ UNCHANGED <<ids, thread>>
  BY DEF Control, KeptStands, ls_h5_open, ls_h5_close, Active, thread

LEMMA HolderPending ==
    ASSUME Control, Pending, NEW t \in Threads, Holder(t)
    PROVE  PendingOK(t)'
<1>1. CASE h5_extent(t)
  <2>1. pc'[t] \in {"open", "fin"}
    BY <1>1 DEF h5_extent, Goto, Leave, Control, Typed
  <2>2. call'[t].op # "acc"
    BY <1>1, HolderFrame DEF h5_extent, At, Control, CallAt
  <2> QED
    BY <2>1, <2>2, PendingOut
<1>2. CASE WriteSegment(t)
  <2>1. /\ pc[t] = "xfer" /\ dir[t] = "write" /\ SegmentDone(t)
        /\ buf' = [buf EXCEPT ![t] = buf[t]]
    BY <1>2 DEF WriteSegment, At, Control, Typed
  <2> QED
    BY <2>1, DoneFrame, PendingOut
<1>3. CASE TransferFails(t) \/ Erase(t) \/ SetAttr(t) \/ GetAttr(t)
  <2>1. \E r : Leave(t, r)
    BY <1>3 DEF TransferFails, Erase, SetAttr, GetAttr
  <2> QED
    BY <2>1, LeaveFrame, PendingOut
<1> QED
  BY <1>1, <1>2, <1>3, OpenPending, OpenFailsPending, ReadPending DEF Holder

LEMMA NextPending ==
    ASSUME Control, Pending, [Next]_vars
    PROVE  Pending'
<1>1. CASE UNCHANGED vars
  <2>1. UNCHANGED <<ds, thread>>
    BY <1>1 DEF vars
  <2> QED
    BY <2>1 DEF thread, Pending, PendingOK, Exists, Size, ByteAt, Key, Seg, Covers, End
<1>2. CASE ls_h5_open \/ \E keep \in BOOLEAN : ls_h5_close(keep)
  BY <1>2, FileFrame, PendingOut DEF Pending
<1>3. ASSUME NEW t \in Threads, NEW c \in Calls, Enter(t, c)
      PROVE  Pending'
  <2>1. PendingOK(t)' /\ \A u \in Threads \ {t} : PendingOK(u)'
    BY <1>3, EnterPending, EnterFrame, OthersPending
  <2> QED
    BY <2>1 DEF Pending
<1>4. ASSUME NEW t \in Threads, segv(t)
      PROVE  Pending'
  <2>1. call'[t].op # "acc"
    BY <1>4, SegvFrame DEF Control, CallAt
  <2>2. PendingOK(t)' /\ \A u \in Threads \ {t} : PendingOK(u)'
    BY <1>4, <2>1, SegvFrame, PendingOut, OthersPending
  <2> QED
    BY <2>2 DEF Pending
<1>5. ASSUME NEW t \in Threads, Return(t)
      PROVE  Pending'
  <2>1. PendingOK(t)' /\ \A u \in Threads \ {t} : PendingOK(u)'
    BY <1>5, ReturnFrame, PendingOut, OthersPending
  <2> QED
    BY <2>1 DEF Pending
<1>6. ASSUME NEW t \in Threads, Holder(t)
      PROVE  Pending'
  <2>1. PendingOK(t)' /\ \A u \in Threads \ {t} : PendingOK(u)'
    BY <1>6, HolderPending, HolderFrame, HolderMarks, OthersPending
  <2> QED
    BY <2>1 DEF Pending
<1> QED
  BY <1>1, <1>2, <1>3, <1>4, <1>5, <1>6
  DEF Next, ls_h5_rw, ls_h5_append, ls_h5_accumulate, ls_h5_reserve, ls_h5_erase,
      ls_h5_set_attr, ls_h5_get_attr

-----------------------------------------------------------------------------
(* The backend implements ByteStore, or a misled call damages its record.  *)

\* A step that leaves the bytes alone, and the calls of all threads but one, is
\* a caller's.
LEMMA CallerStep ==
    ASSUME NEW t \in Threads, UNCHANGED ds, \A u \in Threads \ {t} : call'[u] = call[u]
    PROVE  Abstract!Next
<1>1. Abstract!Caller(t)
  BY DEF Abstract!Caller
<1> QED
  BY <1>1 DEF Abstract!Next

LEMMA WriteRefines ==
    ASSUME Control, Pending, NEW t \in Threads, pc[t] = "xfer", dir[t] = "write",
           NEW some, some \subseteq Covers(call[t]), ds' = Written(t, some), UNCHANGED call,
           call[t].op = "acc" => t \notin misled
    PROVE  Abstract!Next
<1>1. PICK k : k = Key(t)
  OBVIOUS
<1> DEFINE old == ds[k].bytes
           new == ds'[k].bytes
<1>2. /\ DOMAIN ds' = DOMAIN ds
      /\ \A j \in DOMAIN ds : j # k => ds'[j] = ds[j]
      /\ k \in DOMAIN ds =>
           /\ Len(new) = Len(old)
           /\ \A i \in 1 .. Len(old) :
                new[i] = IF i - 1 \in some THEN Data(t, i - 1) ELSE old[i]
  <2>1. PICK w : w = Written(t, some)
    OBVIOUS
  <2>2. /\ DOMAIN w = DOMAIN ds
        /\ \A j \in DOMAIN ds : j # k => w[j] = ds[j]
        /\ k \in DOMAIN ds =>
             /\ Len(w[k].bytes) = Len(ds[k].bytes)
             /\ \A i \in 1 .. Len(ds[k].bytes) :
                  w[k].bytes[i] = IF i - 1 \in some THEN Data(t, i - 1) ELSE ds[k].bytes[i]
    BY <1>1, <2>1, WrittenProps
  <2> QED
    BY <2>1, <2>2
<1>3. k \in DOMAIN ds /\ call[t].op \in {"write", "append", "acc"}
  BY <1>1 DEF Pending, PendingOK, Exists, Control, CallAt
<1>4. old \in Seq(Int) /\ Len(old) \in Nat /\ Size(k) = Len(old)
  BY <1>3, SizeTyped DEF Control, Exists
<1>5. ASSUME NEW i \in 1 .. Len(old), i - 1 \in some
      PROVE  /\ Abstract!InRange(call[t], i - 1)
             /\ new[i] = IF call[t].op = "acc" THEN Combine(old[i], call[t].val)
                         ELSE call[t].val
  <2>1. i - 1 \in Covers(call[t]) /\ i - 1 \in Nat
    BY <1>4, <1>5
  <2>2. Abstract!InRange(call[t], i - 1)
    <3>1. \E j \in DOMAIN call[t].segs :
             call[t].segs[j].off <= i - 1 /\ i - 1 < End(call[t].segs[j])
      BY <2>1, CoversIn DEF Control, Typed
    <3> QED
      BY <3>1 DEF Abstract!InRange, End
  <2>3. call[t].op = "acc" => buf[t][i - 1] = ByteAt(k, i - 1)
    BY <1>1, <2>1 DEF Pending, PendingOK
  <2>4. ByteAt(k, i - 1) = old[i]
    BY <1>4, <2>1 DEF ByteAt
  <2>5. new[i] = Data(t, i - 1)
    BY <1>2, <1>3, <1>5
  <2> QED
    BY <2>2, <2>3, <2>4, <2>5 DEF Data
<1>6. Abstract!Put(t)
  <2> DEFINE C == [j \in DOMAIN ds |-> ds[j].bytes]
             D == [j \in DOMAIN ds' |-> ds'[j].bytes]
  <2>1. C[k] = old /\ D[k] = new /\ k \in DOMAIN C
    BY <1>2, <1>3
  <2>2. D = [C EXCEPT ![k] = D[k]]
    BY <1>2, <1>3
  <2>3. \A i \in 1 .. Len(C[k]) :
           D[k][i] # C[k][i] =>
             /\ Abstract!InRange(call[t], i - 1)
             /\ D[k][i] = IF call[t].op = "acc" THEN Combine(C[k][i], call[t].val)
                          ELSE call[t].val
    BY <1>2, <1>3, <1>5, <2>1
  <2>4. Len(D[k]) = Len(C[k])
    BY <1>2, <1>3, <2>1
  <2> HIDE DEF C, D
  <2> QED
    BY <1>1, <1>3, <2>1, <2>2, <2>3, <2>4 DEF Abstract!Put, Key, C, D
<1> QED
  BY <1>6 DEF Abstract!Next

LEMMA OpenRefines ==
    ASSUME Control, NEW t \in Threads, h5_open_or_create(t)
    PROVE  Abstract!Next \/ (t \in misled' /\ Damages(Key(t)))
<1>1. PICK k : k = Key(t)
  OBVIOUS
<1> DEFINE b == IF Exists(k) THEN ds[k].bytes ELSE << >>
           C == [j \in DOMAIN ds |-> ds[j].bytes]
           D == [j \in DOMAIN ds' |-> ds'[j].bytes]
<1>2. /\ b \in Seq(Int) /\ Len(b) = Size(k)
      /\ DOMAIN ds' = DOMAIN ds \cup {k}
      /\ \A j \in DOMAIN ds : j # k => ds'[j] = ds[j]
      /\ ds'[k].bytes = Grown(b, Need(t)) \/ Cut(t)
  BY <1>1, OpenEffect
<1>3. /\ pc[t] = "open" /\ Need(t) \in Nat /\ UNCHANGED call /\ Len(b) \in Nat
      /\ Exists(k) \/ Creates(t)
  BY <1>1, <1>2, NeedTyped DEF h5_open_or_create, At, Leave
<1>a. CASE Cut(t)
  <2>1. t \in misled'
    BY <1>3, <1>a DEF Cut, Users, Active
  <2>2. Damages(k)
    BY <1>1, <1>2, <1>a DEF Cut, Exists, Damages
  <2> QED
    BY <1>1, <2>1, <2>2
<1> SUFFICES ASSUME ds'[k].bytes = Grown(b, Need(t))
             PROVE  Abstract!Next
  BY <1>2, <1>a
<1>4. Need(t) <= Len(b) => Grown(b, Need(t)) = b
  BY <1>2, <1>3, GrownProps
<1>5. Need(t) = 0 \/ Need(t) \in Abstract!Ends(call[t])
  <2>1. CASE call[t].op = "attr"
    BY <2>1 DEF Need
  <2>2. CASE call[t].op # "attr"
    BY <1>3, <2>2, SegTyped DEF Need, Abstract!Ends, Seg, End
  <2> QED
    BY <2>1, <2>2
<1>6. call[t].op \in {"read", "write", "append", "acc", "reserve", "attr"}
      /\ (call[t].op = "read" => dir[t] = "read")
  BY <1>3 DEF Control, CallAt
<1>7. DOMAIN C = DOMAIN ds /\ DOMAIN D = DOMAIN ds \cup {k} /\ D[k] = Grown(b, Need(t))
      /\ \A j \in DOMAIN ds : C[j] = ds[j].bytes /\ (j # k => D[j] = C[j])
  BY <1>2
<1>8. CASE Exists(k) /\ Need(t) <= Len(b)
  <2>1. D = C
    BY <1>2, <1>4, <1>8 DEF Exists
  <2>2. Abstract!Caller(t)
    BY <1>3, <2>1 DEF Abstract!Caller
  <2> QED
    BY <2>2 DEF Abstract!Next
<1>9. CASE Exists(k) /\ ~(Need(t) <= Len(b))
  <2>1. C[k] = b /\ k \in DOMAIN ds
    BY <1>7, <1>9 DEF Exists
  <2>2. D = [C EXCEPT ![k] = C[k] \o Zeros(Need(t) - Len(C[k]))]
    BY <1>2, <1>7, <2>1 DEF Grown
  <2>3. Need(t) \in Abstract!Ends(call[t]) /\ Need(t) > Len(C[k])
    BY <1>3, <1>5, <1>9, <2>1
  <2>4. call[t].op \in {"write", "append", "acc", "reserve"}
    BY <1>6, <1>3, <1>9 DEF Need
  <2>5. Abstract!Zeros(Need(t) - Len(C[k])) = Zeros(Need(t) - Len(C[k]))
    BY DEF Abstract!Zeros, Zeros
  <2> HIDE DEF b, D
  <2>6. Abstract!Extend(t)
    BY <1>1, <1>3, <2>1, <2>2, <2>3, <2>4, <2>5 DEF Abstract!Extend, Abstract!Grow, Key, D
  <2> QED
    BY <2>6 DEF Abstract!Next
<1>10. CASE ~Exists(k)
  <2>1. b = << >> /\ k \notin DOMAIN ds
    BY <1>10 DEF Exists
  <2>2. D[k] = Zeros(Need(t))
    <3>1. Grown(b, Need(t)) = << >> \o Zeros(Need(t) - 0)
      BY <2>1 DEF Grown
    <3>2. Need(t) - 0 = Need(t) /\ Zeros(Need(t)) \in Seq(Int)
      BY <1>3 DEF Zeros
    <3>3. << >> \o Zeros(Need(t)) = Zeros(Need(t))
      BY <3>2
    <3> QED
      BY <1>7, <3>1, <3>2, <3>3
  <2>3. D = [j \in DOMAIN C \cup {k} |-> IF j = k THEN Zeros(Need(t)) ELSE C[j]]
    BY <1>2, <1>7, <2>1, <2>2
  <2>4. call[t].op \in {"write", "append", "acc", "reserve", "attr"}
    BY <1>3, <1>6, <1>10 DEF Creates
  <2>5. Abstract!Zeros(Need(t)) = Zeros(Need(t)) /\ Need(t) \in {0} \cup Abstract!Ends(call[t])
    BY <1>5 DEF Abstract!Zeros, Zeros
  <2>6. \E n \in {0} \cup Abstract!Ends(call[t]) :
           D = [j \in DOMAIN C \cup {k} |-> IF j = k THEN Abstract!Zeros(n) ELSE C[j]]
    BY <2>3, <2>5
  <2>7. call'[t] = call[t] /\ call'[t].key = k /\ k \notin DOMAIN C
    BY <1>1, <1>3, <2>1 DEF Key
  <2>8. \E n \in {0} \cup Abstract!Ends(call'[t]) :
           D = [j \in DOMAIN C \cup {call'[t].key} |->
                  IF j = call'[t].key THEN Abstract!Zeros(n) ELSE C[j]]
    <3> HIDE DEF C, D
    <3>1. PICK n \in {0} \cup Abstract!Ends(call[t]) :
             D = [j \in DOMAIN C \cup {k} |-> IF j = k THEN Abstract!Zeros(n) ELSE C[j]]
      BY <2>6, Zenon
    <3>2. n \in {0} \cup Abstract!Ends(call'[t])
      BY ONLY <2>7, <3>1, Zenon
    <3>3. D = [j \in DOMAIN C \cup {call'[t].key} |->
                 IF j = call'[t].key THEN Abstract!Zeros(n) ELSE C[j]]
      BY ONLY <2>7, <3>1, Zenon
    <3> QED
      BY <3>2, <3>3, Zenon
  <2>9. /\ call'[t].op \in Abstract!Grow \cup {"attr"}
        /\ call'[t].key \notin DOMAIN C
        /\ \A u \in Threads \ {t} : call'[u] = call[u]
    BY <1>3, <2>4, <2>7 DEF Abstract!Grow
  <2> HIDE DEF b
  <2>10. Abstract!Create(t)
    BY <2>8, <2>9, Zenon DEF Abstract!Create
  <2> QED
    BY <2>10 DEF Abstract!Next
<1> QED
  BY <1>8, <1>9, <1>10

\* Every step maps to a step of ByteStore, or leaves what it sees alone.
LEMMA StepRefines ==
    ASSUME Control, Pending, [Next]_vars, opened, opened'
    PROVE  \/ Abstract!Next \/ UNCHANGED Abstract!vars
           \/ \E t \in misled' : Damages(Key(t))
<1>1. CASE UNCHANGED vars
  <2>1. UNCHANGED <<ds, call>>
    BY <1>1 DEF vars, thread
  <2> QED
    BY <2>1 DEF Abstract!vars
<1>2. ~ls_h5_open /\ ~\E keep \in BOOLEAN : ls_h5_close(keep)
  BY DEF ls_h5_open, ls_h5_close
<1>3. ASSUME NEW t \in Threads, NEW c \in Calls, Enter(t, c)
      PROVE  Abstract!Next
  BY <1>3, EnterFrame, CallerStep DEF Alone
<1>4. ASSUME NEW t \in Threads, segv(t) \/ Return(t)
      PROVE  Abstract!Next
  BY <1>4, SegvFrame, ReturnFrame, CallerStep DEF Alone
<1>5. ASSUME NEW t \in Threads, Holder(t)
      PROVE  Abstract!Next \/ (t \in misled' /\ Damages(Key(t)))
  <2>2. CASE UNCHANGED ds
    BY <1>5, <2>2, HolderFrame, CallerStep DEF Alone
  <2>1. ASSUME ~UNCHANGED ds PROVE UNCHANGED call
    <3>1. h5_extent(t) => UNCHANGED ds
      BY Zenon DEF h5_extent
    <3> QED
      BY <1>5, <2>1, <3>1, HolderFrame
  <2>3. CASE h5_open_or_create(t)
    BY <2>3, OpenRefines
  <2>9. ASSUME pc[t] = "xfer", dir[t] = "write", ~UNCHANGED ds,
               NEW some \in SUBSET Covers(call[t]), ds' = Written(t, some)
        PROVE  Abstract!Next \/ (t \in misled' /\ Damages(Key(t)))
    <3>1. CASE call[t].op = "acc" /\ t \in misled
      <4>1. t \in misled'
        BY <1>5, <3>1, HolderMarks DEF Marked
      <4>2. Damages(Key(t))
        <5>1. DOMAIN ds' = DOMAIN ds /\ \A j \in DOMAIN ds : j # Key(t) => ds'[j] = ds[j]
          BY <2>9, WrittenProps
        <5> QED
          BY <5>1 DEF Damages
      <4> QED
        BY <4>1, <4>2
    <3>2. CASE ~(call[t].op = "acc" /\ t \in misled)
      BY <2>1, <2>9, <3>2, WriteRefines
    <3> QED
      BY <3>1, <3>2
  <2>4. CASE WriteSegment(t)
    <3> DEFINE some == Seg(t).off .. (End(Seg(t)) - 1)
    <3>1. pc[t] = "xfer" /\ dir[t] = "write" /\ ds' = Written(t, some)
      BY <2>4 DEF WriteSegment, At
    <3>2. some \subseteq Covers(call[t])
      BY <3>1, SegTyped DEF Control, CallAt
    <3> QED
      BY <2>2, <2>9, <3>1, <3>2
  <2>5. CASE TransferFails(t) /\ dir[t] = "write"
    <3>1. pc[t] = "xfer"
      BY <2>5 DEF TransferFails, At
    <3>2. PICK some \in SUBSET (Seg(t).off .. (End(Seg(t)) - 1)) : ds' = Written(t, some)
      BY <2>5 DEF TransferFails
    <3>3. some \subseteq Covers(call[t])
      BY <3>1, SegTyped DEF Control, CallAt
    <3> QED
      BY <2>2, <2>5, <2>9, <3>1, <3>2, <3>3
  <2>6. CASE Erase(t) /\ ~UNCHANGED ds
    <3>1. Exists(Key(t)) /\ ds' = Without(ds, Key(t)) /\ call[t].op = "erase"
      BY <2>6 DEF Erase, At, Control, CallAt
    <3>2. PICK k : k = Key(t)
      OBVIOUS
    <3> DEFINE C == [j \in DOMAIN ds |-> ds[j].bytes]
               D == [j \in DOMAIN ds' |-> ds'[j].bytes]
    <3>3. D = [j \in DOMAIN C \ {k} |-> C[j]] /\ k \in DOMAIN C
      BY <3>1, <3>2 DEF Without, Exists
    <3>4. call' = call /\ call'[t] = call[t] /\ call'[t].key = k
      BY <2>1, <2>6, <3>2 DEF Key
    <3>5. Abstract!Erase(t)
      BY <3>1, <3>3, <3>4 DEF Abstract!Erase
    <3> QED
      BY <3>5 DEF Abstract!Next
  <2>7. CASE SetAttr(t)
    <3>1. DOMAIN ds' = DOMAIN ds /\ \A j \in DOMAIN ds : ds'[j].bytes = ds[j].bytes
      BY <2>7, SetAttrControl
    <3>2. [j \in DOMAIN ds' |-> ds'[j].bytes] = [j \in DOMAIN ds |-> ds[j].bytes]
      BY <3>1
    <3>3. Abstract!Caller(t)
      BY <1>5, <3>2, HolderFrame DEF Abstract!Caller, Alone
    <3> QED
      BY <3>3 DEF Abstract!Next
  <2>8. UNCHANGED ds \/ h5_open_or_create(t) \/ WriteSegment(t)
        \/ (TransferFails(t) /\ dir[t] = "write") \/ (Erase(t) /\ ~UNCHANGED ds)
        \/ SetAttr(t)
    BY <1>5 DEF Holder, h5_extent, OpenFails, ReadSegment, TransferFails, GetAttr
  <2> QED
    BY <2>2, <2>3, <2>4, <2>5, <2>6, <2>7, <2>8
<1> QED
  BY <1>1, <1>2, <1>3, <1>4, <1>5
  DEF Next, ls_h5_rw, ls_h5_append, ls_h5_accumulate, ls_h5_reserve, ls_h5_erase,
      ls_h5_set_attr, ls_h5_get_attr

LEMMA InitPending == Init => Pending
  BY DEF Init, Pending, PendingOK

\* The HDF5 backend gives callers what the POSIX data path gives them, for any
\* threads and calls and whichever calls of the library fail, noticed or not:
\* while the store is open a step changes only bytes in the range of a call in
\* progress, to its values, extends a record with zeros, or erases it.  Where a
\* call took its record for shorter than it is, that record alone is damaged.
THEOREM HDF5StoresBytes == Spec => StoresBytes
<1>1. Init => Control /\ Pending /\ Abstract!Init
  <2>1. Init => Abstract!Init
    <3> SUFFICES ASSUME Init
                 PROVE  Abstract!Init
      OBVIOUS
    <3>1. ds = << >> /\ \A t \in Threads : call[t].op = "none"
      BY DEF Init, NoCall
    <3>2. [k \in {} |-> ds[k].bytes] = << >>
      OBVIOUS
    <3>3. [k \in DOMAIN ds |-> ds[k].bytes] = << >>
      BY <3>1, <3>2
    <3> QED
      BY <3>1, <3>3 DEF Abstract!Init
  <2> QED
    BY <2>1, InitControl, InitPending
<1>2. Control /\ Pending /\ [Next]_vars => Control' /\ Pending'
  BY NextControl, NextPending
<1>3. Control /\ Pending /\ [Next]_vars =>
         [opened /\ opened' =>
             Abstract!Next \/ \E t \in misled' : Damages(Key(t))]_(Abstract!vars)
  BY StepRefines
<1> QED
  BY <1>1, <1>2, <1>3, PTL DEF Spec, StoresBytes

-----------------------------------------------------------------------------
(* What finished segments have left behind.                                *)

DoneSegs(t) == IF pc[t] = "fin" THEN DOMAIN call[t].segs ELSE 1 .. seg[t]

Transfers == {"read", "write", "append", "acc"}

\* Offset o of t's record is as a call of this kind leaves it.
EffectAt(t, o) ==
    /\ o < Size(Key(t))
    /\ call[t].op = "read" => o \in DOMAIN buf[t] /\ buf[t][o] = ByteAt(Key(t), o)
    /\ call[t].op \in {"write", "append"} => ByteAt(Key(t), o) = call[t].val
    /\ call[t].op = "acc" => ByteAt(Key(t), o) = Combine(before[t][o], call[t].val)

\* Unless the call has failed or is misled, its finished segments are as it
\* leaves them.
Effect(t) ==
    t \notin misled /\ pc[t] # "idle" /\ rc[t] = "LS_OK" /\ call[t].op \in Transfers =>
        \A i \in DoneSegs(t) : \A o \in Span(call[t].segs[i]) : EffectAt(t, o)

\* An append that is still to write begins behind those that are done.
AppendsFollow ==
    \A t, u \in Threads :
        /\ t # u /\ Key(t) = Key(u)
        /\ t \notin misled
        /\ call[t].op = "append" /\ pc[t] = "fin" /\ rc[t] = "LS_OK"
        /\ call[u].op = "append" /\ pc[u] \in {"open", "xfer"}
        => \A o \in Covers(call[t]) : o < call[u].segs[1].off

Effects == (\A t \in Threads : Effect(t)) /\ AppendsFollow

\* Finished segments are segments of the call.
LEMMA DoneIn ==
    ASSUME Control, NEW t \in Threads
    PROVE  /\ DoneSegs(t) \subseteq DOMAIN call[t].segs
           /\ \A i \in DOMAIN call[t].segs :
                /\ Span(call[t].segs[i]) \subseteq Covers(call[t])
                /\ Span(call[t].segs[i]) \subseteq Nat
<1>1. call[t] \in CallRec /\ call[t].segs \in Seq(Segment) /\ seg[t] \in Nat /\ CallAt(t)
  BY DEF Control, Typed, CallRec
<1>2. DoneSegs(t) \subseteq DOMAIN call[t].segs
  <2>1. seg[t] = 0 \/ seg[t] < Len(call[t].segs)
    BY <1>1 DEF CallAt
  <2> QED
    BY <1>1, <2>1 DEF DoneSegs
<1>3. \A i \in DOMAIN call[t].segs : Span(call[t].segs[i]) \subseteq Covers(call[t])
  BY DEF Span, Covers
<1>4. Covers(call[t]) \subseteq Nat
  BY <1>1, CoversIn
<1> QED
  BY <1>2, <1>3, <1>4

\* A call whose finished bytes a step leaves alone keeps its effect.
LEMMA EffectKept ==
    ASSUME Control, NEW u \in Threads, Effect(u), NEW k, k = Key(u), pc[u] # "idle",
           rc'[u] = rc[u], call'[u] = call[u], buf'[u] = buf[u], before'[u] = before[u],
           DoneSegs(u)' = DoneSegs(u), Marked(u),
           u \notin misled' /\ rc[u] = "LS_OK" /\ call[u].op \in Transfers =>
               \A i \in DoneSegs(u) : \A o \in Span(call[u].segs[i]) :
                   o < Size(k) => o < Size(k)' /\ ByteAt(k, o)' = ByteAt(k, o)
    PROVE  Effect(u)'
<1>1. Key(u)' = k /\ \A i : Span(call[u].segs[i])' = Span(call[u].segs[i])
  BY DEF Key, Span, End
<1>2. \A o : Size(Key(u))' = Size(k)' /\ ByteAt(Key(u), o)' = ByteAt(k, o)'
  BY <1>1 DEF Size, ByteAt, Exists
<1> SUFFICES ASSUME u \notin misled', rc[u] = "LS_OK", call[u].op \in Transfers,
                    NEW i \in DoneSegs(u), NEW o \in Span(call[u].segs[i])
             PROVE  EffectAt(u, o)'
  BY <1>1 DEF Effect
<1>3. EffectAt(u, o)
  BY DEF Effect, Marked
<1>4. o < Size(k)' /\ ByteAt(k, o)' = ByteAt(k, o)
  BY <1>3 DEF EffectAt
<1> QED
  BY <1>1, <1>2, <1>3, <1>4 DEF EffectAt, Combine

LEMMA EffectBytesKept ==
    ASSUME Control, NEW u \in Threads, Effect(u), NEW k, k = Key(u), pc[u] # "idle",
           rc'[u] = rc[u], call'[u] = call[u], buf'[u] = buf[u], before'[u] = before[u],
           DoneSegs(u)' = DoneSegs(u), Marked(u), BytesKept(k) \/ u \in misled', Control'
    PROVE  Effect(u)'
<1>1. u \notin misled' => Size(k) <= Size(k)' /\ \A o \in Nat : ByteAt(k, o)' = ByteAt(k, o)
  BY DEF BytesKept
<1>2. Size(k) \in Nat /\ Size(k)' \in Nat
  BY SizeTyped DEF Control, Size, Exists, DataTyped, Dataset
<1>3. \A i \in DoneSegs(u) : Span(call[u].segs[i]) \subseteq Nat
  BY DoneIn
<1> QED
  BY <1>1, <1>2, <1>3, EffectKept

\* Calls that have nothing finished, or make no promise, keep it trivially.
LEMMA EffectNone ==
    ASSUME NEW u \in Threads,
           \/ pc'[u] = "idle" \/ rc'[u] # "LS_OK" \/ call'[u].op \notin Transfers
           \/ pc'[u] # "fin" /\ seg'[u] = 0
           \/ u \in misled'
    PROVE  Effect(u)'
<1>1. pc'[u] # "fin" /\ seg'[u] = 0 => DoneSegs(u)' = 1 .. 0
  BY DEF DoneSegs
<1>2. 1 .. 0 = {}
  OBVIOUS
<1> QED
  BY <1>1, <1>2 DEF Effect

LEMMA AloneEffect ==
    ASSUME Control, NEW u \in Threads, Effect(u), Alone(u), Marked(u), Control',
           NEW k, k = Key(u), pc[u] # "idle" => BytesKept(k) \/ u \in misled'
    PROVE  Effect(u)'
<1>1. CASE pc[u] = "idle"
  BY <1>1, EffectNone DEF Alone
<1>2. CASE pc[u] # "idle"
  <2>1. DoneSegs(u)' = DoneSegs(u)
    BY DEF DoneSegs, Alone
  <2> QED
    BY <1>2, <2>1, EffectBytesKept DEF Alone
<1> QED
  BY <1>1, <1>2

\* Another call's write leaves what is finished alone: its range is another, or
\* both are appends, and then this one begins behind.
LEMMA WriteOthers ==
    ASSUME Control, Effects, NEW t \in Threads, pc[t] = "xfer", dir[t] = "write",
           NEW some, some \subseteq Covers(call[t]), ds' = Written(t, some),
           NEW u \in Threads \ {t}, Alone(u), Marked(u), Control'
    PROVE  Effect(u)'
<1>1. CASE pc[u] = "idle"
  BY <1>1, EffectNone DEF Alone
<1>2. CASE pc[u] # "idle"
  <2>1. PICK k, j : k = Key(u) /\ j = Key(t)
    OBVIOUS
  <2>2. /\ \A i : Size(i)' = Size(i)
        /\ \A i : i # j => BytesKept(i)
        /\ \A o \in Nat : o \notin some => ByteAt(j, o)' = ByteAt(j, o)
    BY <2>1, WriteBytes
  <2>3. DoneSegs(u)' = DoneSegs(u) /\ Effect(u)
    BY DEF DoneSegs, Alone, Effects
  <2>4. CASE k # j
    BY <1>2, <2>1, <2>2, <2>3, <2>4, EffectBytesKept DEF Alone
  <2>5. CASE k = j
    <3> SUFFICES ASSUME u \notin misled', rc[u] = "LS_OK", call[u].op \in Transfers,
                        NEW i \in DoneSegs(u), NEW o \in Span(call[u].segs[i]), o < Size(k)
                 PROVE  o < Size(k)' /\ ByteAt(k, o)' = ByteAt(k, o)
      BY <1>2, <2>1, <2>3, EffectKept DEF Alone
    <3>1. o \in Nat /\ o \in Covers(call[u])
      BY DoneIn
    <3>2. Compatible(call[u], call[t]) /\ call[t].op \in {"write", "append", "acc"}
      BY <1>2, <2>1, <2>5 DEF Control, TogetherOK, CallAt
    <3>3. o \notin some
      <4>1. CASE Covers(call[u]) \cap Covers(call[t]) = {}
        BY <3>1, <4>1
      <4>2. CASE call[u].op = "append" /\ call[t].op = "append"
        <5>1. pc[u] = "fin"
          <6>1. pc[u] # "fin" => DoneSegs(u) = 1 .. 0
            BY <4>2 DEF DoneSegs, Control, CallAt
          <6> QED
            BY <6>1
        <5>2. o < call[t].segs[1].off
          BY <2>1, <2>5, <3>1, <4>2, <5>1 DEF Effects, AppendsFollow, Marked
        <5>3. call[t].segs \in Seq(Segment) /\ Len(call[t].segs) = 1
          BY <4>2 DEF Control, Typed, CallRec, CallAt, WellFormed
        <5>4. DOMAIN call[t].segs = {1} /\ call[t].segs[1] \in Segment
          BY <5>3
        <5>5. Covers(call[t]) = Span(call[t].segs[1])
          BY <5>4 DEF Covers, Span
        <5>6. call[t].segs[1].off \in Nat
          BY <5>4 DEF Segment
        <5> QED
          BY <3>1, <5>2, <5>5, <5>6 DEF Span
      <4> QED
        BY <3>2, <4>1, <4>2 DEF Compatible, Reads
    <3> QED
      BY <2>2, <2>5, <3>1, <3>3
  <2> QED
    BY <2>4, <2>5
<1> QED
  BY <1>1, <1>2

\* One more segment is finished: seg + 1 of them are, or all.
LEMMA DoneMore ==
    ASSUME Control, NEW t \in Threads, pc[t] = "xfer", call'[t] = call[t],
           ~(call[t].op = "acc" /\ dir[t] = "read"),
           \/ /\ seg[t] + 1 < Len(call[t].segs)
              /\ pc'[t] = "next" /\ seg'[t] = seg[t] + 1
           \/ /\ ~(seg[t] + 1 < Len(call[t].segs))
              /\ pc'[t] = "fin" /\ seg'[t] = seg[t]
    PROVE  DoneSegs(t)' = DoneSegs(t) \cup {seg[t] + 1}
<1>1. /\ seg[t] \in Nat /\ seg[t] + 1 \in DOMAIN call[t].segs
      /\ call[t].segs \in Seq(Segment)
  BY SegTyped DEF Control, Typed, CallRec, CallAt
<1>2. DoneSegs(t) = 1 .. seg[t]
  BY DEF DoneSegs
<1>3. CASE seg[t] + 1 < Len(call[t].segs)
  <2>1. DoneSegs(t)' = 1 .. (seg[t] + 1)
    BY <1>3 DEF DoneSegs
  <2> QED
    BY <1>1, <1>2, <2>1
<1>4. CASE ~(seg[t] + 1 < Len(call[t].segs))
  <2>1. DoneSegs(t)' = DOMAIN call[t].segs
    BY <1>4 DEF DoneSegs
  <2>2. DOMAIN call[t].segs = 1 .. (seg[t] + 1)
    BY <1>1, <1>4
  <2> QED
    BY <1>1, <1>2, <2>1, <2>2
<1> QED
  BY <1>3, <1>4

LEMMA ReadEffect ==
    ASSUME Control, Effects, NEW t \in Threads, ReadSegment(t)
    PROVE  Effect(t)'
<1> DEFINE s == Seg(t)
           got == [o \in s.off .. (End(s) - 1) |-> ByteAt(Key(t), o)]
<1>1. pc[t] = "xfer" /\ dir[t] = "read" /\ UNCHANGED ds
  BY DEF ReadSegment, At
<1>2. CASE call[t].op = "acc"
  <2>1. seg[t] = 0
    BY <1>2 DEF Control, CallAt
  <2>2. pc'[t] = "open" /\ seg'[t] = seg[t]
    <3>1. CASE FreshSpace(t, 1)
      BY <3>1, FreshFrame
    <3>2. CASE buf' = [buf EXCEPT ![t] = Laid(got, buf[t])] /\ SegmentDone(t)
      BY <1>1, <1>2, <3>2, DoneFrame
    <3> QED
      BY <1>2, <3>1, <3>2 DEF ReadSegment
  <2> QED
    BY <2>1, <2>2, EffectNone
<1>3. CASE Leave(t, "LS_ERR_RANGE")
  BY <1>3, LeaveFrame, EffectNone
<1>4. ASSUME call[t].op # "acc", NEW dims \in Dims(Key(t)), End(s) <= dims,
             buf' = [buf EXCEPT ![t] = Laid(got, buf[t])], SegmentDone(t)
      PROVE  Effect(t)'
  <2>1. buf' = [buf EXCEPT ![t] = Laid(got, buf[t])] /\ SegmentDone(t) /\ misled' = misled
    BY <1>4 DEF SegmentDone
  <2>2. /\ UNCHANGED <<call, before, rc>> /\ buf'[t] = Laid(got, buf[t])
        /\ \/ /\ seg[t] + 1 < Len(call[t].segs)
              /\ pc'[t] = "next" /\ seg'[t] = seg[t] + 1
           \/ /\ ~(seg[t] + 1 < Len(call[t].segs))
              /\ pc'[t] = "fin" /\ seg'[t] = seg[t]
    BY <1>4, <2>1, DoneFrame
  <2>3. DoneSegs(t)' = DoneSegs(t) \cup {seg[t] + 1}
    BY <1>1, <1>4, <2>2, DoneMore
  <2>4. call[t].op = "read"
    BY <1>1, <1>4 DEF Control, CallAt
  <2>5. s.off \in Nat /\ End(s) \in Nat /\ Size(Key(t)) \in Nat /\ End(s) <= Size(Key(t))
    <3>1. s.off \in Nat /\ End(s) \in Nat /\ Size(Key(t)) \in Nat
      BY <1>1, <2>4, SegTyped, SizeTyped DEF Control
    <3> QED
      BY <1>4, <3>1, DimsTyped
  <2>6. ASSUME t \notin misled, rc[t] = "LS_OK", NEW i \in DoneSegs(t) \cup {seg[t] + 1},
               NEW o \in Span(call[t].segs[i])
        PROVE  /\ o < Size(Key(t)) /\ o \in DOMAIN buf'[t]
               /\ buf'[t][o] = ByteAt(Key(t), o)
    <3>1. CASE o \in Span(s)
      <4>1. o < Size(Key(t))
        BY <2>5, <3>1 DEF Span
      <4>2. o \in DOMAIN buf'[t] /\ buf'[t][o] = ByteAt(Key(t), o)
        BY <2>2, <3>1 DEF Span, Laid
      <4> QED
        BY <4>1, <4>2
    <3>2. CASE o \notin Span(s)
      <4>1. i \in DoneSegs(t)
        BY <3>2 DEF Seg
      <4>2. EffectAt(t, o)
        BY <1>1, <2>4, <2>6, <4>1 DEF Effects, Effect, Transfers
      <4>3. o < Size(Key(t)) /\ o \in DOMAIN buf[t] /\ buf[t][o] = ByteAt(Key(t), o)
        BY <2>4, <4>2 DEF EffectAt
      <4> QED
        BY <2>2, <3>2, <4>3 DEF Span, Laid
    <3> QED
      BY <3>1, <3>2
  <2>7. /\ \A o : Size(Key(t))' = Size(Key(t)) /\ ByteAt(Key(t), o)' = ByteAt(Key(t), o)
        /\ \A i : Span(call[t].segs[i])' = Span(call[t].segs[i])
    BY <1>1, <2>2 DEF Size, ByteAt, Exists, Key, Span, End
  <2> HIDE DEF s, got
  <2> SUFFICES ASSUME t \notin misled, rc[t] = "LS_OK", NEW i \in DoneSegs(t)', NEW o \in Span(call[t].segs[i])
               PROVE  EffectAt(t, o)'
    BY <2>1, <2>2, <2>7 DEF Effect
  <2> QED
    BY <2>2, <2>3, <2>4, <2>6, <2>7 DEF EffectAt
<1> QED
  BY <1>2, <1>3, <1>4 DEF ReadSegment

LEMMA WriteEffect ==
    ASSUME Control, Pending, Effects, NEW t \in Threads, WriteSegment(t)
    PROVE  Effect(t)'
<1>1. PICK k, some : k = Key(t) /\ some = Span(Seg(t))
  OBVIOUS
<1>2. /\ pc[t] = "xfer" /\ dir[t] = "write" /\ ds' = Written(t, some)
      /\ SegmentDone(t) /\ buf' = [buf EXCEPT ![t] = buf[t]]
  BY <1>1 DEF WriteSegment, At, Span, Control, Typed
<1>3. /\ UNCHANGED <<call, before, rc>> /\ buf'[t] = buf[t]
      /\ \/ /\ seg[t] + 1 < Len(call[t].segs)
            /\ pc'[t] = "next" /\ seg'[t] = seg[t] + 1
         \/ /\ ~(seg[t] + 1 < Len(call[t].segs))
            /\ pc'[t] = "fin" /\ seg'[t] = seg[t]
  BY <1>2, DoneFrame
<1>4. DoneSegs(t)' = DoneSegs(t) \cup {seg[t] + 1}
  BY <1>2, <1>3, DoneMore
<1>5. /\ call[t].op \in {"write", "append", "acc"} /\ some \subseteq Covers(call[t])
      /\ Seg(t).off \in Nat /\ End(Seg(t)) \in Nat
  BY <1>1, <1>2, SegTyped DEF Control, CallAt, Span
<1>6. /\ Size(k)' = Size(k)
      /\ \A o \in Nat : o \notin some => ByteAt(k, o)' = ByteAt(k, o)
      /\ \A o \in some : o < Size(k) => ByteAt(k, o)' = Data(t, o)
  BY <1>1, <1>2, <1>5, WriteBytes
<1>7. End(Seg(t)) <= Size(k) /\ Size(k) \in Nat
  BY <1>1, <1>2, SizeTyped DEF Pending, PendingOK, Control
<1>8. ASSUME t \notin misled, NEW o \in some
      PROVE  /\ o < Size(k)
             /\ call[t].op \in {"write", "append"} => Data(t, o) = call[t].val
             /\ call[t].op = "acc" => Data(t, o) = Combine(before[t][o], call[t].val)
  <2>1. o < Size(k)
    BY <1>1, <1>5, <1>7 DEF Span
  <2>2. call[t].op = "acc" => buf[t][o] = before[t][o]
    BY <1>2, <1>5, <1>8 DEF Pending, PendingOK
  <2> QED
    BY <2>1, <2>2 DEF Data
<1>9. /\ Key(t)' = k /\ \A o : Size(Key(t))' = Size(k)' /\ ByteAt(Key(t), o)' = ByteAt(k, o)'
      /\ \A i : Span(call[t].segs[i])' = Span(call[t].segs[i])
  BY <1>1, <1>3 DEF Size, ByteAt, Exists, Key, Span, End
<1> SUFFICES ASSUME t \notin misled, rc[t] = "LS_OK", NEW i \in DoneSegs(t)',
                    NEW o \in Span(call[t].segs[i])
             PROVE  EffectAt(t, o)'
  BY <1>2, <1>3, <1>9 DEF Effect, SegmentDone
<1>10. CASE o \in some
  <2>1. ByteAt(k, o)' = Data(t, o) /\ o < Size(k)
    BY <1>6, <1>8, <1>10
  <2> QED
    BY <1>3, <1>5, <1>6, <1>8, <1>9, <1>10, <2>1 DEF EffectAt, Combine
<1>11. CASE o \notin some
  <2>1. i \in DoneSegs(t)
    BY <1>1, <1>4, <1>11 DEF Seg
  <2>2. EffectAt(t, o) /\ o \in Nat
    BY <1>2, <1>5, <2>1, DoneIn DEF Effects, Effect, Transfers
  <2>3. ByteAt(k, o)' = ByteAt(k, o)
    BY <1>6, <1>11, <2>2
  <2> QED
    BY <1>1, <1>3, <1>5, <1>6, <1>9, <2>2, <2>3 DEF EffectAt, Combine
<1> QED
  BY <1>10, <1>11

\* What the holder of the lock does keeps its own call's effect.
LEMMA HolderEffect ==
    ASSUME Control, Pending, Effects, NEW t \in Threads, Holder(t), Control'
    PROVE  Effect(t)'
<1>1. CASE h5_extent(t)
  <2>1. seg[t] = 0
    BY <1>1 DEF h5_extent, At, Control, CallAt
  <2>2. \/ pc'[t] = "open" /\ seg'[t] = seg[t]
        \/ rc'[t] # "LS_OK"
    BY <1>1, LeaveFrame DEF h5_extent, Goto, Control, Typed
  <2> QED
    BY <2>1, <2>2, EffectNone
<1>2. CASE h5_open_or_create(t)
  <2>1. CASE call[t].op \notin Transfers
    BY <2>1, HolderFrame, EffectNone
  <2>2. CASE call[t].op \in Transfers
    <3>1. /\ pc[t] = "open" /\ pc'[t] = "xfer"
          /\ UNCHANGED <<call, dir, seg, buf, before, rc>>
      BY <1>2, <2>2 DEF h5_open_or_create, At, Goto, Control, Typed, Transfers
    <3>2. PICK k : k = Key(t)
      OBVIOUS
    <3>3. BytesKept(k) \/ t \in misled'
      BY <1>2, <3>1, <3>2, OpenBytes DEF Cut, Users, Active
    <3>4. DoneSegs(t)' = DoneSegs(t) /\ Effect(t) /\ Marked(t)
      BY <3>1, HolderMarks DEF DoneSegs, Effects
    <3> QED
      BY <3>1, <3>2, <3>3, <3>4, EffectBytesKept
  <2> QED
    BY <2>1, <2>2
<1>3. CASE OpenFails(t)
  <2>1. \/ Leave(t, "LS_ERR_BACKEND") \/ Leave(t, "LS_ERR_NOKEY")
        \/ call[t].op = "acc" /\ FreshSpace(t, 0)
    BY <1>3 DEF OpenFails
  <2>2. CASE \E r : Leave(t, r) /\ r # "LS_OK"
    BY <2>2, LeaveFrame, EffectNone
  <2>3. CASE call[t].op = "acc" /\ FreshSpace(t, 0)
    <3>1. seg[t] = 0
      BY <2>3 DEF Control, CallAt
    <3>2. pc'[t] = "open" /\ seg' = seg
      BY <2>3, FreshFrame
    <3> QED
      BY <3>1, <3>2, EffectNone
  <2> QED
    BY <2>1, <2>2, <2>3
<1>4. CASE TransferFails(t)
  BY <1>4, LeaveFrame, EffectNone DEF TransferFails
<1>5. CASE Erase(t) \/ SetAttr(t) \/ GetAttr(t)
  <2>1. call[t].op \notin Transfers
    BY <1>5 DEF Erase, SetAttr, GetAttr, At, Control, CallAt, Transfers
  <2> QED
    BY <2>1, HolderFrame, EffectNone
<1> QED
  BY <1>1, <1>2, <1>3, <1>4, <1>5, ReadEffect, WriteEffect DEF Holder

\* ... and that of the others.
LEMMA HolderOthers ==
    ASSUME Control, Pending, Effects, NEW t \in Threads, Holder(t), Control',
           NEW u \in Threads \ {t}
    PROVE  Effect(u)'
<1>1. /\ Alone(u) /\ Effect(u) /\ pc[t] \in Locked /\ Marked(u)
  BY HolderFrame, HolderMarks DEF Effects
<1>2. PICK k : k = Key(u)
  OBVIOUS
<1>3. CASE UNCHANGED ds
  BY <1>1, <1>2, <1>3, SameBytes, AloneEffect
<1>4. CASE h5_open_or_create(t)
  <2>1. PICK j : j = Key(t)
    OBVIOUS
  <2>2. pc[u] # "idle" => BytesKept(k) \/ u \in misled'
    BY <1>2, <1>4, <2>1, OpenBytes DEF Cut, Users, Active
  <2> QED
    BY <1>1, <1>2, <2>2, AloneEffect
<1>5. CASE WriteSegment(t)
  <2>1. PICK some : some = Seg(t).off .. (End(Seg(t)) - 1)
    OBVIOUS
  <2>2. pc[t] = "xfer" /\ dir[t] = "write" /\ ds' = Written(t, some)
    BY <1>5, <2>1 DEF WriteSegment, At
  <2>3. some \subseteq Covers(call[t])
    BY <2>1, <2>2, SegTyped DEF Control, CallAt
  <2> QED
    BY <1>1, <2>2, <2>3, WriteOthers
<1>6. CASE TransferFails(t) /\ dir[t] = "write"
  <2>1. pc[t] = "xfer"
    BY <1>6 DEF TransferFails, At
  <2>2. PICK some \in SUBSET (Seg(t).off .. (End(Seg(t)) - 1)) : ds' = Written(t, some)
    BY <1>6 DEF TransferFails
  <2>3. some \subseteq Covers(call[t])
    BY <2>1, SegTyped DEF Control, CallAt
  <2> QED
    BY <1>1, <1>6, <2>1, <2>2, <2>3, WriteOthers
<1>7. CASE Erase(t) /\ ~UNCHANGED ds
  <2>1. pc[t] = "erase" /\ ds' = Without(ds, Key(t)) /\ call[t].op = "erase"
    BY <1>7 DEF Erase, At, Control, CallAt
  <2>2. pc[u] # "idle" /\ call[u].op \in Transfers => k # Key(t)
    BY <1>2, <2>1 DEF Control, TogetherOK, Compatible, Reads, Transfers
  <2>3. CASE call[u].op \notin Transfers
    BY <1>1, <2>3, EffectNone DEF Alone
  <2>4. CASE call[u].op \in Transfers
    <3>1. pc[u] # "idle" => BytesKept(k)
      <4> SUFFICES ASSUME k # Key(t)
                   PROVE  BytesKept(k)
        BY <2>2, <2>4
      <4>1. /\ k \in DOMAIN ds' <=> k \in DOMAIN ds
            /\ k \in DOMAIN ds => ds'[k].bytes = ds[k].bytes
        BY <2>1 DEF Without
      <4> QED
        BY <4>1, SameRecord
    <3> QED
      BY <1>1, <1>2, <3>1, AloneEffect
  <2> QED
    BY <2>3, <2>4
<1>8. CASE SetAttr(t)
  BY <1>1, <1>2, <1>8, AttrBytes, AloneEffect
<1>9. UNCHANGED ds \/ h5_open_or_create(t) \/ WriteSegment(t)
      \/ (TransferFails(t) /\ dir[t] = "write") \/ (Erase(t) /\ ~UNCHANGED ds)
      \/ SetAttr(t)
  BY DEF Holder, h5_extent, OpenFails, ReadSegment, TransferFails, GetAttr
<1> QED
  BY <1>3, <1>4, <1>5, <1>6, <1>7, <1>8, <1>9

\* An append begins at the record's end, behind all that finished calls wrote.
LEMMA HolderFollow ==
    ASSUME Control, Effects, NEW t \in Threads, Holder(t)
    PROVE  AppendsFollow'
<1>1. /\ pc[t] \in Locked /\ call'[t].op = call[t].op /\ call'[t].key = call[t].key
      /\ \A u \in Threads \ {t} : Alone(u) /\ pc[u] \notin Locked
      /\ \A u : Marked(u)
  BY HolderFrame, HolderFacts, HolderMarks
<1> SUFFICES ASSUME NEW a \in Threads, NEW b \in Threads, a # b, Key(a)' = Key(b)',
                    a \notin misled',
                    call'[a].op = "append", pc'[a] = "fin", rc'[a] = "LS_OK",
                    call'[b].op = "append", pc'[b] \in {"open", "xfer"},
                    NEW o \in Covers(call[a])'
             PROVE  o < call'[b].segs[1].off
  BY DEF AppendsFollow
<1>2. b = t
  BY <1>1 DEF Alone, Locked
<1>3. /\ a # t /\ pc[a] = "fin" /\ rc[a] = "LS_OK" /\ call[a].op = "append"
      /\ call'[a] = call[a] /\ a \notin misled /\ Key(a) = Key(t)
  BY <1>1, <1>2 DEF Alone, Marked, Key
<1>4. o \in Covers(call[a])
  BY <1>3 DEF Covers, End
<1>5. CASE h5_extent(t)
  <2>1. PICK dims \in Dims(Key(t)) :
           /\ call' = [call EXCEPT ![t].segs[1].off = dims]
           /\ misled' = IF dims < Size(Key(t)) THEN misled \cup Users(Key(t)) ELSE misled
    BY <1>2, <1>5, LeaveFrame DEF h5_extent
  <2>2. pc[t] = "extent"
    BY <1>5 DEF h5_extent, At
  <2>3. call'[t].segs[1].off = dims
    BY <2>1, <2>2, DimsTyped, MovedCall
  <2>4. a \in Users(Key(t))
    BY <1>3 DEF Users, Active
  <2>5. dims \in Nat /\ Size(Key(t)) \in Nat /\ ~(dims < Size(Key(t)))
    BY <2>1, <2>4, DimsTyped, SizeTyped DEF Control
  <2>6. PICK i \in DOMAIN call[a].segs : o \in Span(call[a].segs[i])
    BY <1>4 DEF Covers, Span
  <2>7. o < Size(Key(t)) /\ o \in Nat
    BY <1>3, <2>6, DoneIn DEF Effects, Effect, EffectAt, DoneSegs, Transfers
  <2> QED
    BY <1>2, <2>3, <2>5, <2>7
<1>6. CASE ~h5_extent(t)
  <2>1. call' = call
    BY <1>6, HolderFrame
  <2>2. pc[t] \in {"open", "xfer"} /\ call[t].op = "append"
    BY <1>1, <1>2, <1>6 DEF Control, CallAt, Locked, Holder, OpenFails, h5_open_or_create,
       ReadSegment, WriteSegment, TransferFails, Erase, SetAttr, GetAttr, At
  <2> QED
    BY <1>2, <1>3, <1>4, <2>1, <2>2 DEF Effects, AppendsFollow
<1> QED
  BY <1>5, <1>6

\* An append that does not look for the end finds no finished call's bytes, or
\* the call is marked.
LEMMA EnterEffects ==
    ASSUME Control, Effects, NEW t \in Threads, NEW c \in Calls, Enter(t, c), Control'
    PROVE  Effects'
<1>1. /\ pc[t] = "idle" /\ lk = NoThread /\ UNCHANGED <<ds, seg>> /\ call'[t] = c
      /\ \A u \in Threads \ {t} : Alone(u)
      /\ \A u : Marked(u)
  BY EnterFrame
<1>2. PICK found \in h5_dataset_exists(c.key) :
         /\ pc'[t] = FirstStep(c, found)
         /\ c.op = "append" /\ ~found /\ Size(c.key) > 0 => Users(c.key) \subseteq misled'
  BY EnterFrame
<1>3. Effect(t)'
  BY <1>1, <1>2, EffectNone DEF FirstStep, Control, CallAt
<1>4. \A u \in Threads \ {t} : Effect(u)'
  <2> TAKE u \in Threads \ {t}
  <2>1. PICK k : k = Key(u)
    OBVIOUS
  <2> QED
    BY <1>1, <2>1, SameBytes, AloneEffect DEF Effects
<1>5. AppendsFollow'
  <2> SUFFICES ASSUME NEW a \in Threads, NEW b \in Threads, a # b, Key(a)' = Key(b)',
                      a \notin misled',
                      call'[a].op = "append", pc'[a] = "fin", rc'[a] = "LS_OK",
                      call'[b].op = "append", pc'[b] \in {"open", "xfer"},
                      NEW o \in Covers(call[a])'
               PROVE  FALSE
    BY DEF AppendsFollow
  <2>1. b = t
    BY <1>1, Hdf5Assumption DEF Alone, Control, LockHeld, Locked
  <2>2. /\ pc[a] = "fin" /\ rc[a] = "LS_OK" /\ call'[a] = call[a] /\ call[a].op = "append"
        /\ Key(a) = c.key /\ a \notin misled
    BY <1>1, <2>1 DEF Alone, Key, Marked
  <2>3. o \in Covers(call[a])
    BY <2>2 DEF Covers, End
  <2>4. PICK i \in DOMAIN call[a].segs : o \in Span(call[a].segs[i])
    BY <2>3 DEF Covers, Span
  <2>5. o < Size(c.key) /\ o \in Nat /\ Size(c.key) \in Nat
    BY <2>2, <2>4, DoneIn, SizeTyped DEF Effects, Effect, EffectAt, DoneSegs, Transfers, Control
  <2>6. c.op = "append" /\ ~found
    BY <1>1, <1>2, <2>1 DEF FirstStep
  <2>7. a \in Users(c.key)
    BY <2>2 DEF Users, Active
  <2> QED
    BY <1>2, <2>5, <2>6, <2>7
<1> QED
  BY <1>3, <1>4, <1>5 DEF Effects

LEMMA NextEffects ==
    ASSUME Control, Pending, Effects, [Next]_vars, Control'
    PROVE  Effects'
<1>0. ASSUME NEW u \in Threads, Alone(u), Marked(u), UNCHANGED ds
      PROVE  Effect(u)'
  <2>1. PICK k : k = Key(u)
    OBVIOUS
  <2> QED
    BY <1>0, <2>1, SameBytes, AloneEffect DEF Effects
<1>1. CASE UNCHANGED vars
  <2>1. UNCHANGED <<ds, thread>>
    BY <1>1 DEF vars
  <2>2. \A u \in Threads : Alone(u) /\ Marked(u)
    BY <2>1 DEF thread, Alone, Marked
  <2>3. AppendsFollow'
    BY <2>1 DEF Effects, AppendsFollow, thread, Key, Covers, End
  <2> QED
    BY <1>0, <2>1, <2>2, <2>3 DEF Effects
<1>2. CASE ls_h5_open \/ \E keep \in BOOLEAN : ls_h5_close(keep)
  BY <1>2, FileFrame, EffectNone DEF Effects, AppendsFollow
<1>3. ASSUME NEW t \in Threads, NEW c \in Calls, Enter(t, c)
      PROVE  Effects'
  BY <1>3, EnterEffects
<1>4. ASSUME NEW t \in Threads, segv(t)
      PROVE  Effects'
  <2>1. /\ pc[t] = "next" /\ pc'[t] = "open" /\ lk = NoThread
        /\ UNCHANGED <<ds, call, seg, buf, before, rc, misled>>
        /\ \A u \in Threads \ {t} : Alone(u)
        /\ \A u : Marked(u)
    BY <1>4, SegvFrame
  <2>2. Effect(t)'
    <3>1. PICK k : k = Key(t)
      OBVIOUS
    <3>2. DoneSegs(t)' = DoneSegs(t)
      BY <2>1 DEF DoneSegs
    <3> QED
      BY <2>1, <3>1, <3>2, SameBytes, EffectBytesKept DEF Effects
  <2>3. call[t].op # "append"
    BY <2>1 DEF Control, CallAt
  <2>4. AppendsFollow'
    BY <2>1, <2>3 DEF Effects, AppendsFollow, Alone, Key, Covers, End
  <2> QED
    BY <1>0, <2>1, <2>2, <2>4 DEF Effects
<1>5. ASSUME NEW t \in Threads, Return(t)
      PROVE  Effects'
  <2>1. pc'[t] = "idle" /\ UNCHANGED ds /\ \A u \in Threads \ {t} : Alone(u) /\ Marked(u)
    BY <1>5, ReturnFrame
  <2>2. Effect(t)'
    BY <2>1, EffectNone
  <2>3. AppendsFollow'
    BY <2>1 DEF Effects, AppendsFollow, Alone, Marked, Key, Covers, End
  <2> QED
    BY <1>0, <2>1, <2>2, <2>3 DEF Effects
<1>6. ASSUME NEW t \in Threads, Holder(t)
      PROVE  Effects'
  BY <1>6, HolderEffect, HolderOthers, HolderFollow DEF Effects
<1> QED
  BY <1>1, <1>2, <1>3, <1>4, <1>5, <1>6
  DEF Next, ls_h5_rw, ls_h5_append, ls_h5_accumulate, ls_h5_reserve, ls_h5_erase,
      ls_h5_set_attr, ls_h5_get_attr

\* A call on the HDF5 backend that returns LS_OK has done what it says, and
\* calls of other threads, between its segments and after it, take nothing of
\* it back: for any number of threads, any calls that may be made together and
\* whichever calls of the library fail, noticed or not, but for the calls on a
\* record that one of them took for shorter than it is.
THEOREM HDF5CallsEffective == Spec => []CallsEffective
<1>1. Init => Control /\ Pending /\ Effects
  <2>1. Init => Effects
    BY DEF Init, Effects, Effect, AppendsFollow
  <2> QED
    BY <2>1, InitControl, InitPending
<1>2. Control /\ Pending /\ Effects /\ [Next]_vars => Control' /\ Pending' /\ Effects'
  BY NextControl, NextPending, NextEffects
<1>3. Control /\ Effects => CallsEffective
  <2> SUFFICES ASSUME Effects, NEW t \in Threads \ misled, Succeeded(t, Transfers),
                      NEW o \in Covers(call[t])
               PROVE  EffectAt(t, o)
    BY DEF CallsEffective, Combined, EffectAt, Succeeded, Transfers
  <2>1. PICK i \in DOMAIN call[t].segs : o \in Span(call[t].segs[i])
    BY DEF Covers, Span
  <2> QED
    BY <2>1 DEF Effects, Effect, Succeeded, DoneSegs
<1> QED
  BY <1>1, <1>2, <1>3, PTL DEF Spec
=============================================================================
