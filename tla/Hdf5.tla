-------------------------------- MODULE Hdf5 --------------------------------
(***************************************************************************)
(* The HDF5 backend, hdf5.c: one dataset per key in a file that the HDF5   *)
(* library looks after.  The library itself is external: a dataset is a    *)
(* run of bytes with at most one attribute, an extension reads as zero,    *)
(* and any call of it that can fail may do so, whether the code looks or   *)
(* not.  A file is only closed when no identifier of an object in it is    *)
(* open any more.                                                          *)
(*                                                                         *)
(* Every entry point holds h5_lk from end to end.  What it does under the  *)
(* lock is cut at the calls into the library, since each may be the last:  *)
(*                                                                         *)
(*   idle --> extent --> open --> xfer --> fin --> idle                    *)
(*     |                 ^  |      |        ^                              *)
(*     |                 +--|------+        |                              *)
(*     +--> erase, got --->-+--> attr ------+                              *)
(*                                                                         *)
(* A vectored call is one entry after another, with the lock given up in   *)
(* between: seg counts the segments that are done.                         *)
(***************************************************************************)
EXTENDS Integers, Sequences, Tables

CONSTANTS
    Keys,        \* dataset names
    Threads,     \* caller threads
    NoThread,    \* nobody holds h5_lk
    NoKey,       \* no dataset
    Calls,       \* the calls a thread may make
    Faults,      \* calls of the library may fail
    MaxSize,     \* bound: how long records get
    MaxOpens     \* bound: how often the store is opened

ASSUME Hdf5Assumption ==
    /\ NoThread \notin Threads
    /\ NoKey \notin Keys
    /\ Faults \in BOOLEAN
    /\ MaxSize \in Nat /\ MaxOpens \in Nat

Ops == {"read", "write", "append", "acc", "reserve", "erase", "attr", "getattr"}
Segment == [off : Nat, n : Nat]

\* A vectored call has a segment at least; the calls of one range have one, and
\* an append's is at 0 until the record's end is known.
ASSUME CallsAssumption ==
    \A c \in Calls :
        /\ c \in [op : Ops, key : Keys, segs : Seq(Segment), val : Int]
        /\ c.op \in {"read", "write"} => c.segs # << >>
        /\ c.op \in {"append", "acc", "reserve"} => Len(c.segs) = 1
        /\ c.op = "append" => c.segs[1].off = 0

VARIABLES
    file,     \* the file under the store's name: "none", "open", "h5" when
              \* closed, "unflushed" when the library still has it, "bad"
    ds,       \* its datasets: key -> [bytes, attr]
    ids,      \* dataset and attribute identifiers that are open
    opened,   \* s->h5_file is a file
    opens,    \* how often it has been
    kept,     \* what the last ls_close(keep=1) promised, or << >>
    lk,       \* holder of h5_lk
    pc,       \* where each thread is
    call,     \* the call each thread is in
    dir,      \* its transfer's direction: LS_OP_READ or LS_OP_WRITE
    seg,      \* segments it has done
    buf,      \* bytes it has read, by offset in the record
    before,   \* what its range held when the call began
    rc,       \* the result its call will have
    misled    \* threads whose call took a record for shorter than it is and
              \* wrote accordingly, or was on the record when another's did

store == <<file, opened, opens, kept>>
thread == <<pc, call, dir, seg, buf, before, rc, misled>>
vars == <<store, ds, ids, lk, thread>>

-----------------------------------------------------------------------------
(* Calls.                                                                  *)

NoCall == [op |-> "none", key |-> NoKey, segs |-> << >>, val |-> 0]
None == << >>                        \* no attribute
Undefined == 9                       \* a value nobody wrote
Zeros(n) == [i \in 1 .. n |-> 0]
End(s) == s.off + s.n

\* An ls_reduce: what is stored combined with what the caller passes.
Combine(old, v) == (old + v) % 2

Exists(k) == k \in DOMAIN ds
Size(k) == IF Exists(k) THEN Len(ds[k].bytes) ELSE 0
ByteAt(k, o) == IF o < Size(k) THEN ds[k].bytes[o + 1] ELSE 0

Covers(c) == UNION {c.segs[i].off .. (End(c.segs[i]) - 1) : i \in DOMAIN c.segs}
Reads(c) == c.op \in {"read", "getattr"}

Active(t) == pc[t] # "idle"
Key(t) == call[t].key
Seg(t) == call[t].segs[seg[t] + 1]

\* What callers may do together: anything on distinct keys; on one key, calls
\* that read, appends, and calls on disjoint ranges, but nothing else besides
\* an append, an erase or a change of the attribute.
Compatible(c, d) ==
    \/ Reads(c) /\ Reads(d)
    \/ c.op = "append" /\ d.op = "append"
    \/ /\ {c.op, d.op} \cap {"append", "erase", "attr"} = {}
       /\ Covers(c) \cap Covers(d) = {}

Permitted(t, c) ==
    \A u \in Threads \ {t} :
        Active(u) => c.key # Key(u) \/ Compatible(c, call[u])

Init ==
    /\ file = "none" /\ ds = << >> /\ ids = 0
    /\ opened = FALSE /\ opens = 0 /\ kept = << >>
    /\ lk = NoThread
    /\ pc = [t \in Threads |-> "idle"]
    /\ call = [t \in Threads |-> NoCall]
    /\ dir = [t \in Threads |-> "read"]
    /\ seg = [t \in Threads |-> 0]
    /\ buf = [t \in Threads |-> << >>]
    /\ before = [t \in Threads |-> << >>]
    /\ rc = [t \in Threads |-> "LS_OK"]
    /\ misled = {}

-----------------------------------------------------------------------------
(* What the library says of a dataset, where nobody looks whether it failed. *)

\* H5Lexists: a failure counts as no.
h5_dataset_exists(k) == {Exists(k)} \cup (IF Faults THEN {FALSE} ELSE {})

\* H5Dget_space and H5Sget_simple_extent_dims: a failure leaves 0.
Dims(k) == {Size(k)} \cup (IF Faults THEN {0} ELSE {})

\* The calls on a record that are in progress.
Users(k) == {u \in Threads : Active(u) /\ Key(u) = k}

-----------------------------------------------------------------------------
(* ls_open and ls_close on this backend.                                   *)

\* A new file, or an existing one.  What is not HDF5 is refused, which
\* changes nothing.
ls_h5_open ==
    /\ ~opened
    /\ opens < MaxOpens
    /\ file \in {"none", "h5", "unflushed"}
    /\ file' = "open"
    /\ ds' = IF file = "none" THEN << >> ELSE ds
    /\ opened' = TRUE
    /\ opens' = opens + 1
    /\ kept' = << >>
    /\ UNCHANGED <<ids, lk, thread>>

\* H5Fclose: the file is complete on disk if nothing of it was still open;
\* otherwise the library keeps it open and says nothing.  keep = 0 unlinks it,
\* whatever H5Fclose said.
ls_h5_close(keep) ==
    /\ opened
    /\ \A t \in Threads : ~Active(t)
    /\ opened' = FALSE
    /\ \/ /\ file' = CASE ~keep -> "none" [] keep /\ ids = 0 -> "h5" [] OTHER -> "unflushed"
          /\ kept' = IF keep THEN <<ds>> ELSE << >>
       \/ Faults /\ file' = (IF keep THEN "bad" ELSE "none") /\ kept' = << >>
    /\ UNCHANGED <<ds, ids, opens, lk, thread>>

-----------------------------------------------------------------------------
(* Entry points.                                                           *)

\* The bound on records: what the call may make of its own.
InBounds(c) ==
    \A i \in DOMAIN c.segs :
        End(c.segs[i]) + (IF c.op = "append" THEN Size(c.key) ELSE 0) <= MaxSize

\* The lock, and where the entry point starts under it.
FirstStep(c, found) ==
    CASE c.op = "append" /\ found -> "extent"
      [] c.op = "erase" -> "erase"
      [] c.op = "getattr" -> "got"
      [] OTHER -> "open"

\* An accumulate reads before it writes; so does a read, and only that.
FirstDir(c) == IF c.op \in {"read", "acc"} THEN "read" ELSE "write"

\* An append to a record it does not find starts at 0.
Enter(t, c) ==
    /\ opened
    /\ pc[t] = "idle"
    /\ lk = NoThread
    /\ Permitted(t, c)
    /\ InBounds(c)
    /\ lk' = t
    /\ \E found \in h5_dataset_exists(c.key) :
         /\ pc' = [pc EXCEPT ![t] = FirstStep(c, found)]
         /\ misled' = IF c.op = "append" /\ ~found /\ Size(c.key) > 0
                       THEN misled \cup Users(c.key) \cup {t} ELSE misled
    /\ call' = [call EXCEPT ![t] = c]
    /\ dir' = [dir EXCEPT ![t] = FirstDir(c)]
    /\ before' = [before EXCEPT ![t] = [o \in Covers(c) |-> ByteAt(c.key, o)]]
    /\ UNCHANGED <<store, ds, ids, seg, buf, rc>>

ls_h5_rw(t, c) == c.op \in {"read", "write"} /\ Enter(t, c)
ls_h5_append(t, c) == c.op = "append" /\ Enter(t, c)
ls_h5_accumulate(t, c) == c.op = "acc" /\ Enter(t, c)
ls_h5_reserve(t, c) == c.op = "reserve" /\ Enter(t, c)
ls_h5_erase(t, c) == c.op = "erase" /\ Enter(t, c)
ls_h5_set_attr(t, c) == c.op = "attr" /\ Enter(t, c)
ls_h5_get_attr(t, c) == c.op = "getattr" /\ Enter(t, c)

\* The next segment of a vectored call: another entry, another lock.
segv(t) ==
    /\ pc[t] = "next"
    /\ lk = NoThread
    /\ lk' = t
    /\ pc' = [pc EXCEPT ![t] = "open"]
    /\ UNCHANGED <<store, ds, ids, call, dir, seg, buf, before, rc, misled>>

-----------------------------------------------------------------------------
(* Under the lock.                                                         *)

At(t, where) == pc[t] = where
Goto(t, where) == pc' = [pc EXCEPT ![t] = where]

\* Slip: an error on this path returns with the lock held.
LeaveLocked(t, result) ==
    /\ rc' = [rc EXCEPT ![t] = result]
    /\ pc' = [pc EXCEPT ![t] = "fin"]
    /\ lk' = IF result = "LS_ERR_BACKEND" /\ At(t, "extent") THEN lk ELSE NoThread
    /\ UNCHANGED <<call, dir, seg, buf, before>>

\* The lock is given up and the call returns.
Leave(t, result) ==
    /\ rc' = [rc EXCEPT ![t] = result]
    /\ pc' = [pc EXCEPT ![t] = "fin"]
    /\ lk' = NoThread
    /\ UNCHANGED <<call, dir, seg, buf, before>>

\* h5_extent for an append, which goes where the record is said to end.
h5_extent(t) ==
    /\ At(t, "extent")
    /\ \/ \E dims \in Dims(Key(t)) :
            /\ call' = [call EXCEPT ![t].segs[1].off = dims]
            /\ misled' = IF dims < Size(Key(t)) THEN misled \cup Users(Key(t)) ELSE misled
            /\ Goto(t, "open")
            /\ UNCHANGED <<lk, dir, seg, buf, before, rc>>
       \/ /\ Faults
          /\ \E r \in {"LS_ERR_NOKEY", "LS_ERR_BACKEND"} : Leave(t, r)
          /\ UNCHANGED misled
    /\ UNCHANGED <<store, ds, ids>>

\* How long the dataset must be, and whether it may be made.
Need(t) == IF call[t].op = "attr" \/ dir[t] = "read" THEN 0 ELSE End(Seg(t))
Creates(t) == call[t].op = "attr" \/ dir[t] = "write"

\* Slip: what was allocated but never written is left as it is.
SetExtentStale(bytes, n) ==
    IF n < Len(bytes) THEN SubSeq(bytes, 1, n)
    ELSE bytes \o [i \in 1 .. (n - Len(bytes)) |-> Undefined]

\* H5Dset_extent, or H5Dcreate2, with a fill value of zero.
H5Dset_extent(bytes, n) ==
    IF n < Len(bytes) THEN SubSeq(bytes, 1, n) ELSE bytes \o Zeros(n - Len(bytes))

\* h5_open_or_create: the dataset, set to what the call needs if it is said to
\* be shorter; a failure leaves no identifier.
h5_open_or_create(t) ==
    LET k == Key(t)
        old == IF Exists(k) THEN ds[k] ELSE [bytes |-> << >>, attr |-> None]
    IN  /\ At(t, "open")
        /\ Exists(k) \/ Creates(t)
        /\ \E cur \in Dims(k) :
             /\ ds' = Bind(ds, k, [old EXCEPT !.bytes =
                         IF cur < Need(t) THEN H5Dset_extent(@, Need(t)) ELSE @])
             /\ misled' = IF cur < Need(t) /\ Need(t) < Size(k)
                           THEN misled \cup Users(k) ELSE misled
        /\ IF call[t].op = "reserve"
           THEN UNCHANGED ids /\ Leave(t, "LS_OK")
           ELSE /\ ids' = ids + 1
                /\ Goto(t, IF call[t].op = "attr" THEN "attr" ELSE "xfer")
                /\ UNCHANGED <<lk, call, dir, seg, buf, before, rc>>
        /\ UNCHANGED store

\* Some of the call's range is stored.
Stored(t) == \E o \in Covers(call[t]) : o < Size(Key(t))

\* Slip: the dataset is left open.
FreshSpaceOpen(t, left) ==
    /\ dir' = [dir EXCEPT ![t] = "write"]
    /\ buf' = [buf EXCEPT ![t] = [o \in Covers(call[t]) |-> 0]]
    /\ Goto(t, "open")
    /\ misled' = IF Stored(t) THEN misled \cup {t} ELSE misled
    /\ ids' = ids
    /\ UNCHANGED <<lk, call, seg, before, rc>>

\* ls_h5_accumulate takes a record it cannot open, and a range the record is not
\* said to cover, for fresh space: zeros are combined with.
FreshSpace(t, left) ==
    /\ dir' = [dir EXCEPT ![t] = "write"]
    /\ buf' = [buf EXCEPT ![t] = [o \in Covers(call[t]) |-> 0]]
    /\ Goto(t, "open")
    /\ misled' = IF Stored(t) THEN misled \cup {t} ELSE misled
    /\ ids' = ids - left
    /\ UNCHANGED <<lk, call, seg, before, rc>>

\* The dataset is missing, or the library fails.  Reading, the two give the same
\* result.
OpenFails(t) ==
    /\ At(t, "open")
    /\ Faults \/ ~(Exists(Key(t)) \/ Creates(t))
    /\ \/ Creates(t) /\ Leave(t, "LS_ERR_BACKEND") /\ UNCHANGED <<ids, misled>>
       \/ ~Creates(t) /\ call[t].op = "acc" /\ FreshSpace(t, 0)
       \/ /\ ~Creates(t) /\ call[t].op # "acc"
          /\ Leave(t, "LS_ERR_NOKEY") /\ UNCHANGED <<ids, misled>>
    /\ UNCHANGED <<store, ds>>

\* One segment done: the next one, the write half, or the end of the call.
SegmentDone(t) ==
    /\ ids' = ids - 1
    /\ IF call[t].op = "acc" /\ dir[t] = "read"
       THEN dir' = [dir EXCEPT ![t] = "write"] /\ Goto(t, "open") /\ UNCHANGED <<lk, seg>>
       ELSE IF seg[t] + 1 < Len(call[t].segs)
       THEN /\ seg' = [seg EXCEPT ![t] = @ + 1]
            /\ Goto(t, "next")
            /\ lk' = NoThread
            /\ UNCHANGED dir
       ELSE Goto(t, "fin") /\ lk' = NoThread /\ UNCHANGED <<dir, seg>>
    /\ UNCHANGED <<call, before, rc, misled>>

\* h5_transfer, reading: the bytes of the segment, if the record is said to have
\* them.
ReadSegment(t) ==
    LET s == Seg(t)
    IN  /\ At(t, "xfer")
        /\ dir[t] = "read"
        /\ \E dims \in Dims(Key(t)) :
             \/ End(s) > dims /\ call[t].op = "acc" /\ FreshSpace(t, 1)
             \/ /\ End(s) > dims /\ call[t].op # "acc"
                /\ ids' = ids - 1
                /\ Leave(t, "LS_ERR_RANGE")
                /\ UNCHANGED misled
             \/ /\ End(s) <= dims
                /\ buf' = [buf EXCEPT ![t] =
                     Laid([o \in s.off .. (End(s) - 1) |-> ByteAt(Key(t), o)], @)]
                /\ SegmentDone(t)
        /\ UNCHANGED <<store, ds>>

\* Slip: an accumulate writes what the caller passed, not what was combined.
DataUncombined(t, o) == call[t].val

\* What is written at offset o of the record.
Data(t, o) ==
    IF call[t].op = "acc" THEN Combine(buf[t][o], call[t].val) ELSE call[t].val

\* The record with some offsets of the segment written.
Written(t, some) ==
    [ds EXCEPT ![Key(t)].bytes =
        [i \in DOMAIN @ |-> IF i - 1 \in some THEN Data(t, i - 1) ELSE @[i]]]

\* h5_transfer, writing.
WriteSegment(t) ==
    /\ At(t, "xfer")
    /\ dir[t] = "write"
    /\ ds' = Written(t, Seg(t).off .. (End(Seg(t)) - 1))
    /\ SegmentDone(t)
    /\ UNCHANGED <<store, buf>>

\* H5Dread fails, or H5Dwrite does with any of the bytes written.
TransferFails(t) ==
    /\ Faults
    /\ At(t, "xfer")
    /\ \/ dir[t] = "read" /\ UNCHANGED ds
       \/ /\ dir[t] = "write"
          /\ \E some \in SUBSET (Seg(t).off .. (End(Seg(t)) - 1)) :
               ds' = Written(t, some)
    /\ ids' = ids - 1
    /\ Leave(t, "LS_ERR_BACKEND")
    /\ UNCHANGED <<store, misled>>

\* ls_h5_erase: H5Ldelete, which may fail; or nothing is found to delete.
Erase(t) ==
    LET k == Key(t)
    IN  /\ At(t, "erase")
        /\ \/ FALSE \in h5_dataset_exists(k) /\ Leave(t, "LS_ERR_NOKEY") /\ UNCHANGED ds
           \/ /\ Exists(k)
              /\ ds' = Without(ds, k)
              /\ Leave(t, "LS_OK")
           \/ Faults /\ Exists(k) /\ Leave(t, "LS_ERR_BACKEND") /\ UNCHANGED ds
        /\ UNCHANGED <<store, ids, misled>>

\* ls_h5_set_attr: the old attribute is deleted, then the new one is made and
\* written.  When one of the three fails, the old one is left, or none, or one
\* of undefined value.
SetAttr(t) ==
    /\ At(t, "attr")
    /\ \/ /\ ds' = [ds EXCEPT ![Key(t)].attr = <<call[t].val>>]
          /\ Leave(t, "LS_OK")
       \/ /\ Faults
          /\ \E left \in {ds[Key(t)].attr, None, <<Undefined>>} :
               ds' = [ds EXCEPT ![Key(t)].attr = left]
          /\ Leave(t, "LS_ERR_BACKEND")
    /\ ids' = ids - 1
    /\ UNCHANGED <<store, misled>>

\* ls_h5_get_attr: the dataset and the attribute are opened and closed again.
GetAttr(t) ==
    LET k == Key(t)
    IN  /\ At(t, "got")
        /\ \/ FALSE \in h5_dataset_exists(k) /\ Leave(t, "LS_ERR_NOKEY")
           \/ Exists(k) /\ Leave(t, "LS_OK")
           \/ Faults /\ Exists(k) /\ Leave(t, "LS_ERR_BACKEND")
        /\ UNCHANGED <<store, ds, ids, misled>>

\* The caller has its answer.
Return(t) ==
    /\ pc[t] = "fin"
    /\ Goto(t, "idle")
    /\ call' = [call EXCEPT ![t] = NoCall]
    /\ dir' = [dir EXCEPT ![t] = "read"]
    /\ seg' = [seg EXCEPT ![t] = 0]
    /\ buf' = [buf EXCEPT ![t] = << >>]
    /\ before' = [before EXCEPT ![t] = << >>]
    /\ rc' = [rc EXCEPT ![t] = "LS_OK"]
    /\ misled' = misled \ {t}
    /\ UNCHANGED <<store, ds, ids, lk>>

-----------------------------------------------------------------------------
\* What the holder of h5_lk does.
Holder(t) ==
    \/ h5_extent(t) \/ h5_open_or_create(t) \/ OpenFails(t)
    \/ ReadSegment(t) \/ WriteSegment(t) \/ TransferFails(t)
    \/ Erase(t) \/ SetAttr(t) \/ GetAttr(t)

Next ==
    \/ ls_h5_open
    \/ \E keep \in BOOLEAN : ls_h5_close(keep)
    \/ \E t \in Threads :
         \/ \E c \in Calls :
              \/ ls_h5_rw(t, c) \/ ls_h5_append(t, c) \/ ls_h5_accumulate(t, c)
              \/ ls_h5_reserve(t, c) \/ ls_h5_erase(t, c)
              \/ ls_h5_set_attr(t, c) \/ ls_h5_get_attr(t, c)
         \/ segv(t)
         \/ Holder(t)
         \/ Return(t)

Spec == Init /\ [][Next]_vars

\* A thread that holds h5_lk is scheduled: it waits for no other.
FairSpec == Spec /\ \A t \in Threads : WF_vars(Holder(t))

-----------------------------------------------------------------------------
(* Correctness.                                                            *)

Succeeded(t, ops) == pc[t] = "fin" /\ rc[t] = "LS_OK" /\ call[t].op \in ops

Combined(t) ==
    \A o \in Covers(call[t]) :
        ByteAt(Key(t), o) = Combine(before[t][o], call[t].val)

\* libspill.h on ls_accumulate: the caller's bytes are combined into what is
\* stored.
AccumulateCombines == \A t \in Threads : Succeeded(t, {"acc"}) => Combined(t)

\* libspill.h on ls_append: two threads appending to one key get two disjoint
\* ranges.
AppendsDisjoint ==
    \A t, u \in Threads :
        /\ t # u /\ Key(t) = Key(u)
        /\ Succeeded(t, {"append"}) /\ Succeeded(u, {"append"})
        => Covers(call[t]) \cap Covers(call[u]) = {}

\* A call that returns LS_OK has done what it says, and other calls, between
\* its segments and after it, take nothing of it back: a read has returned
\* what is stored, a write is stored, an accumulate has combined the two.  This
\* is so however the library fails, except for a call that took the record for
\* shorter than it is and those in progress on the record when one did.
CallsEffective ==
    \A t \in Threads \ misled :
        /\ Succeeded(t, {"read"}) =>
              \A o \in Covers(call[t]) : buf[t][o] = ByteAt(Key(t), o)
        /\ Succeeded(t, {"write", "append"}) =>
              \A o \in Covers(call[t]) : ByteAt(Key(t), o) = call[t].val
        /\ Succeeded(t, {"acc"}) => Combined(t)

\* A store that ls_close(keep=1) kept without an error is a complete file with
\* the datasets and attributes it had: no path through the backend, failed
\* ones included, leaves an identifier open that would keep HDF5 from closing
\* the file.
KeptClosed == kept # << >> => file = "h5" /\ ds = kept[1]

\* The second backend promises callers what the first one does: while the
\* store is open, a step changes only bytes in the range of a call in
\* progress, to its values, extends a record with zeros, or erases it.  A call
\* that took its record for shorter than it is may do worse, to that record.
Abstract == INSTANCE ByteStore WITH
    content <- [k \in DOMAIN ds |-> ds[k].bytes],
    active <- call,
    InitContent <- << >>

Damages(k) ==
    /\ DOMAIN ds' = DOMAIN ds
    /\ \A j \in DOMAIN ds \ {k} : ds'[j] = ds[j]

StoresBytes ==
    /\ Abstract!Init
    /\ [][opened /\ opened' =>
             Abstract!Next \/ \E t \in misled' : Damages(Key(t))]_(Abstract!vars)

\* h5_lk is always given up again, on every error path.
LockReleased == \A t \in Threads : lk = t ~> lk # t
=============================================================================
