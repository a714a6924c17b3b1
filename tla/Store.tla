------------------------------- MODULE Store -------------------------------
(***************************************************************************)
(* The POSIX data path of store.c: records that live in the memory tier or *)
(* in file extents, and threads that read, write, append, reserve,         *)
(* accumulate and erase them.                                              *)
(*                                                                         *)
(* toc_lk is lk.  A call takes it, finds room for its range (ensure_cap,   *)
(* which may evict other records), snapshots where the record's bytes are, *)
(* drops it, moves the bytes piece by piece, and takes it again to leave.  *)
(* pc says where a thread is:                                              *)
(*                                                                         *)
(*   idle --> cap --> evict --> fit --> ready --> io --> fin --> idle      *)
(*             |        ^        |        ^                                *)
(*             +--------|--------+--> extents <--> zero --> free           *)
(*                      +-------------- |                                  *)
(*                                                                         *)
(* Everything from cap to ready, and free, runs with the lock held.        *)
(*                                                                         *)
(* The caller's side of the contract is Permitted: which calls may be in   *)
(* progress together.                                                      *)
(***************************************************************************)
EXTENDS ExtentOps, FiniteSets, Tables

CONSTANTS
    Keys,            \* record names
    Threads,         \* caller threads, and the workers of the async pool
    NoThread,        \* nobody holds toc_lk
    NoKey,           \* no record is being spilled
    LS_MIN_EXTENT,   \* a smaller hole is not worth taking
    LS_MAX_EXTENTS,  \* past this many extents, use the tail
    CHUNK,           \* ls_accumulate's buffer size
    FlCap0,          \* first capacity of the hole array (16 in the code)
    Disk,            \* bytes the file system has room for
    Faults,          \* system calls and allocations may fail
    LostEnd,         \* bound: how far into the file space gets lost
    Loaded,          \* the records of a reopened file: <<[key, size, ext]>>
    Settings         \* name -> how the store is opened and used

ASSUME StoreAssumption ==
    /\ NoThread \notin Threads
    /\ NoKey \notin Keys
    /\ LS_MIN_EXTENT \in Nat \ {0}
    /\ LS_MAX_EXTENTS \in Nat \ {0}
    /\ CHUNK \in Nat \ {0}
    /\ FlCap0 \in Nat \ {0}
    /\ LostEnd \in Nat
    /\ Disk \in Nat
    /\ LS_SUPER_SIZE % LS_ALIGN = 0
    /\ Faults \in BOOLEAN
    /\ \A s \in DOMAIN Settings :
          /\ Settings[s].memory_budget \in Nat
          /\ {Settings[s].direct, Settings[s].same_key} \subseteq BOOLEAN

\* What callers pass: any number of ranges, one for an append.
Segment == [off : Nat, n : Nat]
Call == [op : {"read", "write", "append", "acc", "reserve", "erase"},
         key : Keys, segs : Seq(Segment), val : {0, 1}]

ASSUME CallsAssumption ==
    /\ IsFiniteSet(Threads)
    /\ \A s \in DOMAIN Settings :
          /\ Settings[s].calls \subseteq Call
          /\ \A c \in Settings[s].calls : c.op = "append" => Len(c.segs) = 1

\* What the previous ls_close left: records one after another.
ASSUME LoadedAssumption ==
    /\ Loaded \in Seq([key : Keys, size : Nat \ {0}, ext : Extent])
    /\ \A i, j \in DOMAIN Loaded : Loaded[i].key = Loaded[j].key => i = j
    /\ \A i \in DOMAIN Loaded :
          /\ Loaded[i].ext.len = round_up(Loaded[i].size)
          /\ Loaded[i].ext.foff = IF i = 1 THEN LS_SUPER_SIZE
                                           ELSE End(Loaded[i - 1].ext)

VARIABLES
    setting,    \* the name of the setting in force
    rec,        \* the table of contents: key -> record
    heap,       \* the memory tier: buffer -> bytes
    lru,        \* keys of resident records, most recently used first
    resident,   \* s->resident
    fl,         \* the free list
    flcap,      \* s->flcap, the slots of its array
    file_end,   \* s->file_end
    lost,       \* extents that the array had no slot for: nobody's any more
    file,       \* the bytes of the file; its length is the file's size
    lk,         \* holder of toc_lk
    vic,        \* record the holder is spilling
    fresh,      \* extent allocated and not yet the record's: << >> or <<e>>
    dying,      \* extents ls_free_extents has still to insert
    pc,         \* where each thread is
    call,       \* the call each thread is in
    place,      \* its snapshot of where the record's bytes are
    todo,       \* pieces it has still to transfer
    buf,        \* bytes it has read, by offset in the record
    bounce,     \* the O_DIRECT block it has read and not yet written back
    rc          \* the result its call will have

memory == <<heap, lru, resident>>
space == <<fl, flcap, file_end, lost>>
lock == <<lk, vic, fresh, dying>>
thread == <<call, place, todo, buf, bounce, rc>>
vars == <<setting, rec, memory, space, file, lock, pc, thread>>

\* s->o.memory_budget; whether O_DIRECT is in force; whether callers use one
\* key concurrently, on disjoint ranges; and the calls they make.
Budget == Settings[setting].memory_budget
Direct == Settings[setting].direct
SameKey == Settings[setting].same_key
Calls == Settings[setting].calls

-----------------------------------------------------------------------------
(* Bytes.                                                                  *)

NULL == 0                       \* no buffer
Zeros(n) == [i \in 1 .. n |-> 0]
Meta == 9                       \* a byte of the superblock or the stored ToC

\* pwrite: the bytes at offset at; a gap past the end of the file reads as 0.
Overwrite(f, at, bytes) ==
    [i \in 1 .. Max({Len(f), at + Len(bytes)}) |->
        IF i > at /\ i <= at + Len(bytes) THEN bytes[i - at]
        ELSE IF i <= Len(f) THEN f[i] ELSE 0]

ftruncate(f, n) == [i \in 1 .. n |-> IF i <= Len(f) THEN f[i] ELSE 0]

\* An ls_reduce: what is stored combined with what the caller passes.
Combine(old, v) == (old + v) % 2

-----------------------------------------------------------------------------
(* Records.                                                                *)

NewRec == [size |-> 0, mem |-> NULL, mem_cap |-> 0, busy |-> 0,
           ext |-> << >>, ext_total |-> 0]

\* The logical offset at which extent i starts.
Base(ext, i) ==
    LET base[j \in 1 .. i] == IF j = 1 THEN 0 ELSE base[j - 1] + ext[j - 1].len
    IN  base[i]

\* The file offset of byte o of a record.
Addr(ext, o) ==
    LET i == CHOOSE j \in DOMAIN ext :
                Base(ext, j) <= o /\ o < Base(ext, j) + ext[j].len
    IN  ext[i].foff + (o - Base(ext, i))

\* Slip: a record stays in the list.
NoDrop(l, k) == l

\* ls_lru_touch and ls_lru_drop on the list as a sequence.
ls_lru_drop(l, k) ==
    IF k \in Range(l) THEN RemoveAt(l, CHOOSE i \in DOMAIN l : l[i] = k) ELSE l
ls_lru_touch(l, k) == <<k>> \o ls_lru_drop(l, k)

\* Slip: a transfer that begins inside an extent begins at its front.
PieceUnskewed(ext, i, off, n) ==
    LET lo == Max({off, Base(ext, i)})
        hi == Min({off + n, Base(ext, i) + ext[i].len})
    IN  [at |-> ext[i].foff, off |-> lo, n |-> hi - lo]

\* The part of a segment that lies in extent i; n is not positive if none does.
Piece(ext, i, off, n) ==
    LET lo == Max({off, Base(ext, i)})
        hi == Min({off + n, Base(ext, i) + ext[i].len})
    IN  [at |-> ext[i].foff + (lo - Base(ext, i)), off |-> lo, n |-> hi - lo]

\* ls_scatter: the pieces of one segment, one per buffer or extent it meets.
ls_scatter(p, off, n) ==
    IF p.mem # NULL
    THEN <<[at |-> off, off |-> off, n |-> n]>>
    ELSE FlattenSeq([i \in DOMAIN p.ext |->
            IF Piece(p.ext, i, off, n).n > 0 THEN <<Piece(p.ext, i, off, n)>>
                                             ELSE << >>])

High(segs) == Max({0} \cup {segs[i].off + segs[i].n : i \in DOMAIN segs})

\* The transfers of a call: its segments in order, each read or written.
\* ls_accumulate reads and writes back one chunk at a time.
Transfers(c, p) ==
    LET Dir(d, pieces) == [i \in DOMAIN pieces |->
                             [dir |-> d, at |-> pieces[i].at,
                              off |-> pieces[i].off, n |-> pieces[i].n]]
        Chunks(off, n) == [i \in 1 .. ((n + CHUNK - 1) \div CHUNK) |->
                             [off |-> off + (i - 1) * CHUNK,
                              n   |-> Min({CHUNK, n - (i - 1) * CHUNK})]]
        Seg(s) == ls_scatter(p, s.off, s.n)
        Accumulate(s) == FlattenSeq([i \in DOMAIN Chunks(s.off, s.n) |->
                             Dir("read", Seg(Chunks(s.off, s.n)[i]))
                          \o Dir("write", Seg(Chunks(s.off, s.n)[i]))])
    IN  FlattenSeq([i \in DOMAIN c.segs |->
            CASE c.op = "read" -> Dir("read", Seg(c.segs[i]))
              [] c.op = "acc" /\ p.mem = NULL -> Accumulate(c.segs[i])
              [] OTHER -> Dir("write", Seg(c.segs[i]))])

NoCall == [op |-> "none", key |-> NoKey, segs |-> << >>, val |-> 0]
NoPlace == [mem |-> NULL, ext |-> << >>]

-----------------------------------------------------------------------------
(* ls_open: an empty file, or one whose previous ls_close left the records *)
(* one after another and its table of contents past file_end.              *)

Init ==
    LET fend == IF Loaded = << >> THEN LS_SUPER_SIZE
                                  ELSE End(Loaded[Len(Loaded)].ext)
    IN  /\ setting \in DOMAIN Settings
        /\ rec = [k \in {Loaded[i].key : i \in DOMAIN Loaded} |->
                    LET i == CHOOSE j \in DOMAIN Loaded : Loaded[j].key = k
                    IN  [NewRec EXCEPT !.size = Loaded[i].size,
                                       !.ext = <<Loaded[i].ext>>,
                                       !.ext_total = Loaded[i].ext.len]]
        /\ file_end = fend
        /\ file = IF Loaded = << >>
                  THEN Zeros(LS_SUPER_SIZE)
                  ELSE [i \in 1 .. (fend + 1) |->
                          IF i <= LS_SUPER_SIZE \/ i > fend THEN Meta ELSE 0]
        /\ fl = << >> /\ flcap = 0 /\ lost = {}
        /\ heap = << >>
        /\ lru = << >>
        /\ resident = 0
        /\ lk = NoThread
        /\ vic = NoKey
        /\ fresh = << >>
        /\ dying = << >>
        /\ pc = [t \in Threads |-> "idle"]
        /\ call = [t \in Threads |-> NoCall]
        /\ place = [t \in Threads |-> NoPlace]
        /\ todo = [t \in Threads |-> << >>]
        /\ buf = [t \in Threads |-> << >>]
        /\ bounce = [t \in Threads |-> << >>]
        /\ rc = [t \in Threads |-> "LS_OK"]

-----------------------------------------------------------------------------
(* The caller's contract.                                                  *)

Active(t) == pc[t] # "idle"
Size(k) == IF k \in DOMAIN rec THEN rec[k].size ELSE 0

\* An append learns its offset under the lock: the record's size.
Resolve(c) ==
    IF c.op = "append" THEN [c EXCEPT !.segs[1].off = Size(c.key)] ELSE c

Writes(c) == c.op \in {"write", "append", "acc"}
Covers(c) ==
    IF c.op \in {"reserve", "erase"} THEN {}
    ELSE UNION {c.segs[i].off .. (c.segs[i].off + c.segs[i].n - 1)
                    : i \in DOMAIN c.segs}

\* Calls in progress on one key may not touch the same bytes, unless both
\* read, and an erase is alone.  Where an append lands is the library's
\* business: any number of them may be in progress.
Compatible(c, d) ==
    /\ SameKey
    /\ c.op # "erase" /\ d.op # "erase"
    /\ \/ c.op = "append" /\ d.op = "append"
       \/ (Writes(c) \/ Writes(d)) => Covers(c) \cap Covers(d) = {}

Permitted(t, c) ==
    \A u \in Threads \ {t} :
        Active(u) => c.key # call[u].key \/ Compatible(c, call[u])

-----------------------------------------------------------------------------
(* Entering a call: toc_lk, the lookup and the checks.  A call that fails  *)
(* its checks returns without changing anything, so it is no step.         *)

\* busy++, the snapshot and the unlock, which every transfer begins with.
Launch(t, c, r, newsize) ==
    LET p == [mem |-> r.mem, ext |-> r.ext]
    IN  /\ rec' = [rec EXCEPT ![c.key] =
                     [r EXCEPT !.size = newsize, !.busy = @ + 1]]
        /\ lru' = IF r.mem # NULL THEN ls_lru_touch(lru, c.key) ELSE lru
        /\ place' = [place EXCEPT ![t] = p]
        /\ todo' = [todo EXCEPT ![t] = Transfers(c, p)]
        /\ pc' = [pc EXCEPT ![t] = "io"]
        /\ lk' = NoThread

Enter(t, c) ==
    /\ lk = NoThread
    /\ pc[t] = "idle"
    /\ Permitted(t, c)

\* The key must be there and the range inside the record.
StartRead(t, c) ==
    /\ Enter(t, c)
    /\ c.key \in DOMAIN rec
    /\ High(c.segs) <= rec[c.key].size
    /\ call' = [call EXCEPT ![t] = c]
    /\ Launch(t, c, rec[c.key], rec[c.key].size)
    /\ UNCHANGED <<heap, resident, space, file, vic, fresh, dying,
                   buf, bounce, rc>>

\* Slip: the record has its new size before there is room for it.
FoundAndGrown(c) ==
    LET r == IF c.key \in DOMAIN rec THEN rec[c.key] ELSE NewRec
    IN  Bind(rec, c.key, [r EXCEPT !.size = Max({@, High(c.segs)})])

\* The table once the record is found or inserted: no bigger yet.
FoundOrNew(c) == IF c.key \in DOMAIN rec THEN rec ELSE Bind(rec, c.key, NewRec)

\* Find or create the record, then make room.
StartGrow(t, c) ==
    /\ Enter(t, c)
    /\ rec' = FoundOrNew(c)
    /\ call' = [call EXCEPT ![t] = c]
    /\ lk' = t
    /\ pc' = [pc EXCEPT ![t] = "cap"]
    /\ UNCHANGED <<memory, space, file, vic, fresh, dying,
                   place, todo, buf, bounce, rc>>

\* The entry points.  What they share after the lock is taken is below.
ls_read(t, c) == c.op = "read" /\ Len(c.segs) = 1 /\ StartRead(t, c)
ls_readv(t, c) == c.op = "read" /\ Len(c.segs) > 1 /\ StartRead(t, c)
ls_write(t, c) == c.op = "write" /\ Len(c.segs) = 1 /\ StartGrow(t, c)
ls_writev(t, c) == c.op = "write" /\ Len(c.segs) > 1 /\ StartGrow(t, c)
ls_append(t, c) == c.op = "append" /\ StartGrow(t, Resolve(c))
ls_accumulate(t, c) == c.op = "acc" /\ StartGrow(t, c)
ls_reserve(t, c) == c.op = "reserve" /\ StartGrow(t, c)

\* The table without key.
ls_toc_unlink(toc, key) == Without(toc, key)

\* The record's buffer is freed; its extents follow, one ls_free at a time.
ls_rec_free(r) ==
    /\ resident' = IF r.mem # NULL /\ resident >= r.mem_cap
                   THEN resident - r.mem_cap ELSE resident
    /\ heap' = Without(heap, r.mem)
    /\ dying' = r.ext

\* ls_erase unlinks the record and frees it.
ls_erase(t, c) ==
    /\ Enter(t, c)
    /\ c.op = "erase"
    /\ c.key \in DOMAIN rec
    /\ ls_rec_free(rec[c.key])
    /\ rec' = ls_toc_unlink(rec, c.key)
    /\ lru' = ls_lru_drop(lru, c.key)
    /\ call' = [call EXCEPT ![t] = c]
    /\ lk' = t
    /\ pc' = [pc EXCEPT ![t] = "free"]
    /\ UNCHANGED <<space, file, vic, fresh, place, todo, buf, bounce, rc>>

-----------------------------------------------------------------------------
(* Room for the call's range: ensure_cap, with toc_lk held.                *)

Key(t) == call[t].key
Need(t) == High(call[t].segs)

\* The part of s->resident that is this record's.
Have(r) == IF r.mem # NULL THEN r.mem_cap ELSE 0

Goto(t, where) == pc' = [pc EXCEPT ![t] = where]

\* The memory tier is out: spill the record if it is resident, then extents.
ToExtents(t) ==
    /\ vic' = IF rec[Key(t)].mem # NULL THEN Key(t) ELSE NoKey
    /\ Goto(t, "extents")

\* ensure_cap's choice of a tier.
Cap(t) ==
    LET r == rec[Key(t)]
    IN  /\ pc[t] = "cap"
        /\ \/ /\ IF r.mem # NULL THEN Need(t) <= r.mem_cap
                                 ELSE Need(t) <= r.ext_total
              /\ Goto(t, "ready")
              /\ UNCHANGED vic
           \/ /\ IF r.mem # NULL THEN Need(t) > r.mem_cap
                                 ELSE Need(t) > r.ext_total
              /\ IF Budget > 0 /\ r.ext = << >> /\ Need(t) <= Budget
                 THEN Goto(t, "evict") /\ UNCHANGED vic
                 ELSE ToExtents(t)
        /\ UNCHANGED <<rec, memory, space, file, lk, fresh, dying, thread>>

\* Slip: records in use are evicted too.
AnyVictim(keep) == {i \in DOMAIN lru : lru[i] # keep}

\* The least recently used record that is neither kept nor in use.
Victims(keep) ==
    {i \in DOMAIN lru : lru[i] # keep /\ rec[lru[i]].busy = 0}

\* ls_evict_to: one victim after another until the record would fit.
Evict(t) ==
    LET target == Budget - Need(t) + Have(rec[Key(t)])
    IN  /\ pc[t] = "evict"
        /\ IF resident > target /\ Victims(Key(t)) # {}
           THEN /\ vic' = lru[Max(Victims(Key(t)))]
                /\ Goto(t, "extents")
           ELSE /\ vic' = NoKey
                /\ Goto(t, "fit")
        /\ UNCHANGED <<rec, memory, space, file, lk, fresh, dying, thread>>

\* The lowest buffer address not in use.
FreshBuffer ==
    Min({b \in 1 .. (Cardinality(DOMAIN heap) + 1) : b \notin DOMAIN heap})

\* realloc: grown in place, or moved; the new bytes are zeroed.
Fit(t) ==
    LET k == Key(t)
        r == rec[k]
        fits == resident - Have(r) + Need(t) <= Budget
        old == IF r.mem # NULL THEN heap[r.mem] ELSE << >>
    IN  /\ pc[t] = "fit"
        /\ fits
        /\ \E b \in {FreshBuffer} \cup ({r.mem} \ {NULL}) :
             /\ heap' = Bind(Without(heap, r.mem), b,
                              old \o Zeros(Need(t) - Len(old)))
             /\ rec' = [rec EXCEPT ![k].mem = b, ![k].mem_cap = Need(t)]
        /\ resident' = resident - Have(r) + Need(t)
        /\ lru' = ls_lru_touch(lru, k)
        /\ Goto(t, "ready")
        /\ UNCHANGED <<space, file, lock, thread>>

\* The record does not fit in the budget, or realloc failed.
NoFit(t) ==
    LET r == rec[Key(t)]
    IN  /\ pc[t] = "fit"
        /\ Faults \/ resident - Have(r) + Need(t) > Budget
        /\ ToExtents(t)
        /\ UNCHANGED <<rec, memory, space, file, lk, fresh, dying, thread>>

-----------------------------------------------------------------------------
(* ensure_extents: for the record being spilled, or for the call's own.    *)

Grown(t) == IF vic # NoKey THEN vic ELSE Key(t)
Wanted(t) == IF vic # NoKey THEN rec[vic].size ELSE Need(t)
Deficit(t) == Wanted(t) - rec[Grown(t)].ext_total

\* Slip: the deficit is passed on as it is.
UnroundedRequest(t) == Deficit(t)

\* What the allocator makes of the deficit.
Request(t) == round_up(Deficit(t))

\* One turn of the loop: a hole that finishes the job, else the largest hole
\* worth having, else the tail.
Alloc(t) ==
    LET need == Request(t)
        i == BestFit(fl, need)
        j == Largest(fl)
    IN  /\ pc[t] = "extents"
        /\ Deficit(t) > 0
        /\ IF Fitting(fl, need) # {}
           THEN /\ fresh' = <<[foff |-> fl[i].foff, len |-> need]>>
                /\ fl' = TakeFront(fl, i, need)
                /\ UNCHANGED file_end
           ELSE IF /\ Len(rec[Grown(t)].ext) + 1 < LS_MAX_EXTENTS
                   /\ fl # << >>
                   /\ fl[j].len >= round_up(Min({LS_MIN_EXTENT, Deficit(t)}))
           THEN /\ fresh' = <<fl[j]>>
                /\ fl' = RemoveAt(fl, j)
                /\ UNCHANGED file_end
           ELSE /\ fresh' = <<[foff |-> file_end, len |-> need]>>
                /\ file_end' = file_end + need
                /\ UNCHANGED fl
        /\ Goto(t, "zero")
        /\ UNCHANGED <<rec, memory, flcap, lost, file, lk, vic, dying, thread>>

\* Slip: what is inside the file is not cleared.
ZeroOutside(f, e) == f \o Zeros(End(e) - Len(f))

\* zero_range: stale bytes inside the file are cleared, and the file is made to
\* reach the end of the extent.
zero_range(f, e) == Overwrite(f, e.foff, Zeros(e.len))

\* zero_range over the extent, then ext_push.
Zero(t) ==
    LET e == fresh[1]
    IN  /\ pc[t] = "zero"
        /\ End(e) <= Disk
        /\ file' = zero_range(file, e)
        /\ rec' = [rec EXCEPT ![Grown(t)].ext = Append(@, e),
                              ![Grown(t)].ext_total = @ + e.len]
        /\ fresh' = << >>
        /\ Goto(t, "extents")
        /\ UNCHANGED <<memory, space, lk, vic, dying, thread>>

\* Slip: the extent is not given back.
ZeroFailsLeak(t) ==
    LET e == fresh[1]
    IN  /\ pc[t] = "zero"
        /\ Faults \/ End(e) > Disk
        /\ fresh' = << >>
        /\ Goto(t, "free")
        /\ UNCHANGED <<rec, memory, space, file, lk, vic, dying, thread>>

\* zero_range or ext_push fails: the extent, zeroed or not, is given back.
ZeroFails(t) ==
    LET e == fresh[1]
    IN  /\ pc[t] = "zero"
        /\ Faults \/ End(e) > Disk
        /\ \/ UNCHANGED file
           \/ End(e) <= Disk /\ file' = zero_range(file, e)
        /\ dying' = fresh
        /\ fresh' = << >>
        /\ Goto(t, "free")
        /\ UNCHANGED <<rec, memory, space, lk, vic, thread>>

\* pwrite of a record's first bytes, as many as its extents hold, each in its
\* place.
WriteOut(f, ext, bytes, size) ==
    LET n == Min({size, Base(ext, Len(ext) + 1)})
        at == [o \in 1 .. n |-> Addr(ext, o - 1) + 1]
    IN  [i \in 1 .. Max({Len(f)} \cup Range(at)) |->
            IF i \in Range(at) THEN bytes[CHOOSE o \in DOMAIN at : at[o] = i]
            ELSE IF i <= Len(f) THEN f[i] ELSE 0]

\* Slips: the pointer to the buffer stays; its capacity stays.
SpilledDangling(r) == [r EXCEPT !.mem_cap = 0]

\* The record once its buffer has been freed.
Spilled(r) == [r EXCEPT !.mem = NULL, !.mem_cap = 0]

\* spill: the buffer goes out to the extents and is released.
Spill(t) ==
    LET r == rec[vic]
    IN  /\ pc[t] = "extents"
        /\ vic # NoKey
        /\ Deficit(t) <= 0
        /\ file' = WriteOut(file, r.ext, heap[r.mem], r.size)
        /\ resident' = IF resident >= r.mem_cap THEN resident - r.mem_cap
                                                ELSE resident
        /\ heap' = Without(heap, r.mem)
        /\ rec' = [rec EXCEPT ![vic] = Spilled(@)]
        /\ lru' = ls_lru_drop(lru, vic)
        /\ vic' = NoKey
        /\ Goto(t, IF vic = Key(t) THEN "extents" ELSE "evict")
        /\ UNCHANGED <<space, lk, fresh, dying, thread>>

\* Slip: ls_evict_to goes on after a spill that failed.
FailAndGoOn(t) ==
    /\ vic' = NoKey
    /\ IF vic # NoKey /\ vic # Key(t)
       THEN Goto(t, "evict") /\ UNCHANGED <<lk, call>>
       ELSE /\ Goto(t, "idle")
            /\ lk' = NoThread
            /\ call' = [call EXCEPT ![t] = NoCall]

\* What a failure inside ensure_cap leads to.  ls_evict_to's is ignored, and
\* the record may still fit; any other is the call's, which returns it.
Fail(t) ==
    /\ vic' = NoKey
    /\ IF vic # NoKey /\ vic # Key(t)
       THEN Goto(t, "fit") /\ UNCHANGED <<lk, call>>
       ELSE /\ Goto(t, "idle")
            /\ lk' = NoThread
            /\ call' = [call EXCEPT ![t] = NoCall]

\* A spill whose write fails after some of the extents keeps its buffer.
SpillFails(t) ==
    LET r == rec[vic]
    IN  /\ pc[t] = "extents"
        /\ Faults
        /\ vic # NoKey
        /\ Deficit(t) <= 0
        /\ \E n \in 0 .. (Len(r.ext) - 1) :
             file' = WriteOut(file, SubSeq(r.ext, 1, n), heap[r.mem], r.size)
        /\ Fail(t)
        /\ UNCHANGED <<rec, memory, space, fresh, dying,
                       place, todo, buf, bounce, rc>>

\* ensure_extents has what the call needs.
Backed(t) ==
    /\ pc[t] = "extents"
    /\ vic = NoKey
    /\ Deficit(t) <= 0
    /\ Goto(t, "ready")
    /\ UNCHANGED <<rec, memory, space, file, lock, thread>>

\* The array has no slot for a hole that does not join the one on its left.
Full(e) == NeedsSlot(fl, e) /\ Len(fl) + 1 > flcap

\* fl_insert, which truncates the file when the hole it makes reaches the end.
\* A full array is doubled.
Inserted(e) ==
    LET r == fl_insert(fl, file_end, e)
    IN  /\ fl' = r.fl
        /\ file_end' = r.file_end
        /\ flcap' = IF Full(e) THEN (IF flcap = 0 THEN FlCap0 ELSE 2 * flcap) ELSE flcap
        /\ \/ file' = IF r.file_end # file_end THEN ftruncate(file, r.file_end)
                                               ELSE file
           \/ Faults /\ UNCHANGED file
        /\ UNCHANGED lost

\* fl_reserve has no memory to double it.
Dropped(e) ==
    /\ Faults
    /\ Full(e)
    /\ End(e) <= LostEnd
    /\ lost' = lost \cup {e}
    /\ UNCHANGED <<fl, flcap, file_end, file>>

\* ls_free_extents: one fl_insert, whose failure is ignored.
Free(t) ==
    /\ pc[t] = "free"
    /\ dying # << >>
    /\ Inserted(Head(dying)) \/ Dropped(Head(dying))
    /\ dying' = Tail(dying)
    /\ UNCHANGED <<rec, memory, lk, vic, fresh, pc, thread>>

\* ls_erase is done, or ensure_extents returns its error.
Freed(t) ==
    /\ pc[t] = "free"
    /\ dying = << >>
    /\ Fail(t)
    /\ UNCHANGED <<rec, memory, space, file, fresh, dying,
                   place, todo, buf, bounce, rc>>

-----------------------------------------------------------------------------
(* The transfer.                                                           *)

\* Slip: the size is left for later.
OldSize(r, need) == r.size

\* The size grows before the lock is dropped: the next append starts there.
NewSize(r, need) == Max({r.size, need})

\* The range exists now: the size covers it, and the lock is dropped.
Ready(t) ==
    LET r == rec[Key(t)]
    IN  /\ pc[t] = "ready"
        /\ call[t].op # "reserve"
        /\ Launch(t, call[t], r, NewSize(r, Need(t)))
        /\ UNCHANGED <<heap, resident, space, file, vic, fresh, dying,
                       call, buf, bounce, rc>>

\* ls_reserve moves no bytes.
Reserved(t) ==
    /\ pc[t] = "ready"
    /\ call[t].op = "reserve"
    /\ rec' = [rec EXCEPT ![Key(t)].size = NewSize(rec[Key(t)], Need(t))]
    /\ lk' = NoThread
    /\ call' = [call EXCEPT ![t] = NoCall]
    /\ Goto(t, "idle")
    /\ UNCHANGED <<memory, space, file, vic, fresh, dying,
                   place, todo, buf, bounce, rc>>

\* What the piece stores at each of its offsets.
Data(t, x, old) ==
    [i \in 1 .. x.n |->
        IF call[t].op # "acc" THEN call[t].val
        ELSE Combine(IF place[t].mem # NULL THEN old[x.at + i] ELSE buf[t][x.off + i - 1],
                     call[t].val)]

\* memcpy to or from the buffer of the snapshot, or the reduction in place.
\* A buffer that has been freed holds anything, and a store to it goes nowhere.
MemPiece(t) ==
    LET x == Head(todo[t])
        b == place[t].mem
    IN  /\ pc[t] = "io"
        /\ todo[t] # << >>
        /\ b # NULL
        /\ IF b \notin DOMAIN heap
           THEN /\ \E junk \in {0, Meta} : buf' = IF x.dir = "write" THEN buf ELSE
                     [buf EXCEPT ![t] =
                       Laid([o \in x.off .. (x.off + x.n - 1) |-> junk], @)]
                /\ UNCHANGED heap
           ELSE IF x.dir = "read"
           THEN /\ buf' = [buf EXCEPT ![t] =
                     Laid([o \in x.off .. (x.off + x.n - 1) |-> heap[b][o + 1]], @)]
                /\ UNCHANGED heap
           ELSE /\ heap' = [heap EXCEPT ![b] = Overwrite(@, x.at, Data(t, x, @))]
                /\ UNCHANGED buf
        /\ todo' = [todo EXCEPT ![t] = Tail(@)]
        /\ UNCHANGED <<rec, lru, resident, space, file, lock,
                       pc, call, place, bounce, rc>>

BlockStart(at) == at - (at % LS_ALIGN)

\* Slip: only the front edge is looked at.
NeedsFront(x) == Direct /\ x.at % LS_ALIGN # 0

\* O_DIRECT writes whole blocks: the edges of an unaligned piece are read
\* first.
NeedsBounce(x) ==
    Direct /\ (x.at % LS_ALIGN # 0 \/ (x.at + x.n) % LS_ALIGN # 0)

\* A direct transfer goes through the bounce buffer if its range, or the
\* caller's buffer, is not aligned.
Bounced(x) == IF NeedsBounce(x) THEN {TRUE} ELSE {FALSE, Direct}

\* pread of one piece.  A short read is an error, except that the bounce
\* buffer is filled up with zeros.
ReadPiece(t) ==
    LET x == Head(todo[t])
        whole == x.at + x.n <= Len(file)
    IN  /\ pc[t] = "io"
        /\ todo[t] # << >>
        /\ place[t].mem = NULL
        /\ x.dir = "read"
        /\ \E bounced \in Bounced(x) : IF whole \/ bounced
           THEN /\ buf' = [buf EXCEPT ![t] =
                     Laid([o \in x.off .. (x.off + x.n - 1) |->
                        LET i == x.at + (o - x.off) + 1
                        IN  IF i <= Len(file) THEN file[i] ELSE 0], @)]
                /\ todo' = [todo EXCEPT ![t] = Tail(@)]
                /\ UNCHANGED rc
           ELSE /\ rc' = [rc EXCEPT ![t] = "EIO"]
                /\ todo' = [todo EXCEPT ![t] = << >>]
                /\ UNCHANGED buf
        /\ UNCHANGED <<rec, memory, space, file, lock, pc, call, place, bounce>>

\* The read half of the read-modify-write of rw_all.
Bounce(t) ==
    LET x == Head(todo[t])
        lo == BlockStart(x.at)
    IN  /\ pc[t] = "io"
        /\ todo[t] # << >>
        /\ place[t].mem = NULL
        /\ x.dir = "write"
        /\ NeedsBounce(x)
        /\ bounce[t] = << >>
        /\ bounce' = [bounce EXCEPT ![t] =
                        [i \in 1 .. (round_up(x.at + x.n) - lo) |->
                           IF lo + i <= Len(file) THEN file[lo + i] ELSE 0]]
        /\ UNCHANGED <<rec, memory, space, file, lock, pc,
                       call, place, todo, buf, rc>>

\* The blocks a direct write sends out: what was read, or whatever the bounce
\* buffer held, under the piece.
Blocks(t, x) ==
    Overwrite(IF bounce[t] # << >> THEN bounce[t]
              ELSE [i \in 1 .. (round_up(x.at + x.n) - BlockStart(x.at)) |-> Meta],
              x.at - BlockStart(x.at), Data(t, x, file))

\* pwrite of one piece, or of the blocks that contain it.
WritePiece(t) ==
    LET x == Head(todo[t])
    IN  /\ pc[t] = "io"
        /\ todo[t] # << >>
        /\ place[t].mem = NULL
        /\ x.dir = "write"
        /\ NeedsBounce(x) => bounce[t] # << >>
        /\ file' = IF Direct
                   THEN Overwrite(file, BlockStart(x.at), Blocks(t, x))
                   ELSE Overwrite(file, x.at, Data(t, x, file))
        /\ bounce' = [bounce EXCEPT ![t] = << >>]
        /\ todo' = [todo EXCEPT ![t] = Tail(@)]
        /\ UNCHANGED <<rec, memory, space, lock, pc, call, place, buf, rc>>

\* A pread or pwrite fails: the rest of the call is not attempted.
PieceFails(t) ==
    /\ pc[t] = "io"
    /\ Faults
    /\ todo[t] # << >>
    /\ place[t].mem = NULL
    /\ rc' = [rc EXCEPT ![t] = "EIO"]
    /\ todo' = [todo EXCEPT ![t] = << >>]
    /\ bounce' = [bounce EXCEPT ![t] = << >>]
    /\ UNCHANGED <<rec, memory, space, file, lock, pc, call, place, buf>>

\* Everything has been transferred, or the snapshot did not cover the range.
Transferred(t) ==
    /\ pc[t] = "io"
    /\ todo[t] = << >>
    /\ Goto(t, "fin")
    /\ UNCHANGED <<rec, memory, space, file, lock, thread>>

\* busy-- under the lock, and the call returns.
Leave(t) ==
    /\ pc[t] = "fin"
    /\ lk = NoThread
    /\ rec' = [rec EXCEPT ![Key(t)].busy = @ - 1]
    /\ Goto(t, "idle")
    /\ call' = [call EXCEPT ![t] = NoCall]
    /\ place' = [place EXCEPT ![t] = NoPlace]
    /\ buf' = [buf EXCEPT ![t] = << >>]
    /\ rc' = [rc EXCEPT ![t] = "LS_OK"]
    /\ UNCHANGED <<memory, space, file, lock, todo, bounce>>

-----------------------------------------------------------------------------
\* What the holder of toc_lk does.
Holder(t) ==
    /\ \/ Cap(t) \/ Evict(t) \/ Fit(t) \/ NoFit(t)
       \/ Alloc(t) \/ Zero(t) \/ ZeroFails(t)
       \/ Spill(t) \/ SpillFails(t) \/ Backed(t)
       \/ Free(t) \/ Freed(t)
       \/ Ready(t) \/ Reserved(t)
    /\ UNCHANGED setting

\* The calls of a thread, and what it does without the lock.
Caller(t) ==
    /\ \/ \E c \in Calls :
            \/ ls_read(t, c) \/ ls_readv(t, c)
            \/ ls_write(t, c) \/ ls_writev(t, c)
            \/ ls_append(t, c) \/ ls_accumulate(t, c)
            \/ ls_reserve(t, c) \/ ls_erase(t, c)
       \/ MemPiece(t) \/ ReadPiece(t) \/ Bounce(t) \/ WritePiece(t)
       \/ PieceFails(t)
       \/ Transferred(t) \/ Leave(t)
    /\ UNCHANGED setting

Next == \E t \in Threads : Caller(t) \/ Holder(t)

Spec == Init /\ [][Next]_vars

\* A thread that holds toc_lk is scheduled: nothing it does there waits for
\* another thread.
FairSpec == Spec /\ \A t \in Threads : WF_vars(Holder(t))

-----------------------------------------------------------------------------
(* Correctness.                                                            *)

Extents == UNION {Range(rec[k].ext) : k \in DOMAIN rec}

FileByte(i) == IF i < Len(file) THEN file[i + 1] ELSE Meta

\* The bytes of a record, wherever they are now.
Stored(k) ==
    LET r == rec[k]
    IN  IF r.mem # NULL
        THEN SubSeq(heap[r.mem], 1, r.size)
        ELSE [i \in 1 .. r.size |-> FileByte(Addr(r.ext, i - 1))]

Record == [size : Nat, mem : Nat, mem_cap : Nat, busy : Nat,
           ext : Seq(Extent), ext_total : Nat]

TypeOK ==
    /\ setting \in DOMAIN Settings
    /\ DOMAIN rec \subseteq Keys
    /\ \A k \in DOMAIN rec : rec[k] \in Record
    /\ \A k \in DOMAIN rec : rec[k].mem # NULL => rec[k].mem \in DOMAIN heap
    /\ Range(lru) \subseteq Keys
    /\ resident \in Nat
    /\ fl \in Seq(Extent)
    /\ flcap \in Nat
    /\ file_end \in Nat
    /\ lost \subseteq Extent
    /\ lk \in Threads \cup {NoThread}
    /\ vic \in Keys \cup {NoKey}
    /\ fresh \in Seq(Extent) /\ dying \in Seq(Extent)
    /\ pc \in [Threads -> {"idle", "cap", "evict", "fit", "extents", "zero",
                           "free", "ready", "io", "fin"}]
    /\ rc \in [Threads -> {"LS_OK", "EIO"}]

\* A record can hold what it says it holds: its buffer, or its extents, cover
\* its size, and its extents lie wholly inside the file, so that a read inside
\* a record is never short.
RecordsBacked ==
    \A k \in DOMAIN rec :
        LET r == rec[k]
        IN  /\ IF r.mem # NULL THEN r.size <= r.mem_cap /\ Len(heap[r.mem]) = r.mem_cap
                               ELSE r.size <= r.ext_total
            /\ r.ext_total = Base(r.ext, Len(r.ext) + 1)
            /\ \A i \in DOMAIN r.ext : End(r.ext[i]) <= Len(file)

\* The memory tier stays within memory_budget, and its three accounts agree:
\* s->resident is the sum of the capacities, the LRU list has every resident
\* record once and no other, and no buffer is leaked.
MemoryAccounted ==
    /\ resident <= Budget
    /\ resident = MapThenSumSet(LAMBDA k : rec[k].mem_cap, DOMAIN rec)
    /\ Range(lru) = {k \in DOMAIN rec : rec[k].mem # NULL}
    /\ IsInjective(lru)
    /\ Cardinality(DOMAIN heap) = Len(lru)

\* The bytes of a thread's snapshot are still the record's: its buffer has
\* not been freed, moved or spilled under it, and its extents still lead the
\* record's list.
PlaceCurrent ==
    \A t \in Threads : pc[t] = "io" =>
        /\ Key(t) \in DOMAIN rec
        /\ place[t].mem = rec[Key(t)].mem
        /\ IsPrefix(place[t].ext, rec[Key(t)].ext)

\* A read that succeeds returns what the record holds over its ranges.
ReadsReturnContent ==
    \A t \in Threads :
        pc[t] = "fin" /\ rc[t] = "LS_OK" /\ call[t].op = "read" =>
            \A o \in Covers(call[t]) : buf[t][o] = Stored(Key(t))[o + 1]

\* A write that has succeeded is in the record, and stays there until its
\* caller lets another call touch those bytes: no call on other bytes, of
\* this record or another, takes it back.
WritesStored ==
    \A t \in Threads :
        pc[t] = "fin" /\ rc[t] = "LS_OK" /\ call[t].op \in {"write", "append"} =>
            \A o \in Covers(call[t]) : Stored(Key(t))[o + 1] = call[t].val

\* A call that returns LS_OK has done what it says: a read has returned what
\* the record holds, and a write is in it.
CallsEffective == ReadsReturnContent /\ WritesStored

\* Concurrent appends to one key get disjoint ranges.
AppendsDisjoint ==
    \A t, u \in Threads :
        /\ t # u /\ Key(t) = Key(u)
        /\ call[t].op = "append" /\ call[u].op = "append"
        => Covers(call[t]) \cap Covers(call[u]) = {}

\* The allocator under the data path: its callers own the extents of the
\* records, the one being zeroed and the ones being given back.  Nobody asks
\* for more than the file system has; past that, and past what is lost, there
\* is at most one extent, which is waiting to be given back.
Allocator == INSTANCE ExtentAlloc WITH
    Requests <- 1 .. Disk,
    MaxEnd <- 2 * Disk + LostEnd + LS_ALIGN,
    freeing <- Range(dying),
    held <- Extents \cup Range(fresh)

\* Every byte of the file is a hole's or one owner's, or was lost when the hole
\* array could not grow, and is then in no hole and no record: no other failure
\* loses space, none hands it out twice, and ls_alloc_live is the space that
\* is owned or lost.
SpaceAccounted ==
    /\ Allocator!SpacePartitioned
    /\ Allocator!OwnersDisjoint
    /\ Allocator!LiveIsOwned

\* The data path uses the allocator only through its operations.
AllocatorUsed == [][Allocator!Next]_(Allocator!vars)

\* What callers see.  Records move between tiers and extents, and are evicted
\* by other threads' calls, without any byte a caller stored changing: a step
\* changes only bytes inside the range of a call in progress, to that call's
\* values, extends a record with zeros, or erases it.
Abstract == INSTANCE ByteStore WITH
    content <- [k \in DOMAIN rec |-> Stored(k)],
    active <- call,
    InitContent <- [k \in {Loaded[i].key : i \in DOMAIN Loaded} |->
                      Zeros(Loaded[CHOOSE i \in DOMAIN Loaded :
                                      Loaded[i].key = k].size)]

StoresBytes == Abstract!Spec

\* toc_lk is always given up again: eviction, allocation and release end.
LockReleased ==
    \A t \in Threads : lk = t ~> lk # t
=============================================================================
