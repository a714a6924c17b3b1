------------------------------- MODULE Mapped -------------------------------
(***************************************************************************)
(* LS_MAPPED: ls_map and ls_unmap, and what they share with every other    *)
(* call on a POSIX store, the arrays in which records keep their extents.  *)
(*                                                                         *)
(* An array is read without toc_lk, through a snapshot of its address and  *)
(* of the number of entries, while other threads add to it.  ext_push      *)
(* therefore never moves one: it makes a larger copy and retires the old   *)
(* array until ls_close.                                                   *)
(*                                                                         *)
(* A mapping is stitched together outside the lock: address space for the  *)
(* whole record first, then the extents, each over its own slice.          *)
(*                                                                         *)
(*   idle --> grow --> io --> idle            idle --> munmap --> idle     *)
(*   idle --> reserve --> stitch --> mapped --> idle                       *)
(*                                                                         *)
(* Only grow runs with the lock held.  Everything is counted in blocks of  *)
(* LS_ALIGN bytes, and what the blocks hold is the Store module's concern. *)
(***************************************************************************)
EXTENDS Integers, Sequences, SequencesExt, FiniteSets, FiniteSetsExt, Tables

CONSTANTS
    Keys,       \* record names
    Threads,    \* caller threads
    NoThread,   \* nobody holds toc_lk
    NoKey,      \* no record
    Blocks,     \* bound: blocks there are for records
    MaxArrays,  \* bound: extent arrays allocated at a time
    Sizes,      \* the sizes callers write records to
    CAP0        \* entries of a record's first array

ASSUME MappedAssumption ==
    /\ NoThread \notin Threads
    /\ NoKey \notin Keys
    /\ Blocks \in Nat /\ MaxArrays \in Nat
    /\ Sizes \subseteq Nat \ {0}
    /\ CAP0 \in Nat \ {0}

VARIABLES
    rec,       \* the table of contents: key -> record
    arr,       \* allocated extent arrays: address -> extents
    retired,   \* s->retired: the addresses of arrays records have outgrown
    free,      \* blocks no record has
    vm,        \* mapped address space: address -> blocks, or PROT_NONE
    closed,    \* ls_close has returned
    lk,        \* holder of toc_lk
    pc,        \* where each thread is
    key,       \* the record its call is about
    need,      \* ls_write: the size asked for; ls_map: the size it found
    snap,      \* its snapshot of the record's array
    base,      \* the mapping it is making or taking down
    slices,    \* extents it has mapped
    handed     \* what ls_map gave callers and ls_unmap has not taken back

space == <<arr, retired, free>>
thread == <<key, need, snap, base, slices>>
vars == <<rec, space, vm, closed, lk, pc, thread, handed>>

NULL == 0
PROT_NONE == 0                      \* address space with nothing behind it

-----------------------------------------------------------------------------
NewRec == [ext |-> NULL, next |-> 0, ncap |-> 0, size |-> 0, busy |-> 0,
           map_addr |-> NULL, map_len |-> 0]

\* An address that is not in use, and the one malloc or mmap picks.
Fresh(used) == CHOOSE a \in 1 .. (Cardinality(used) + 1) : a \notin used

\* The blocks of an extent, and of several, in order.
BlocksOf(e) == [i \in 1 .. e.len |-> e.foff + i - 1]
Shown(exts) == FlattenSeq([i \in DOMAIN exts |-> BlocksOf(exts[i])])

Extents(r) == IF r.ext = NULL THEN << >> ELSE SubSeq(arr[r.ext], 1, r.next)
ext_total(r) == Len(Shown(Extents(r)))

\* munmap of the first len blocks at addr, for each of the spans.
munmap(v, spans) ==
    LET Cut(a, i) == \E s \in spans : s.addr = a /\ i <= s.len
    IN  [a \in {b \in DOMAIN v : ~Cut(b, Len(v[b]))} |->
            [i \in DOMAIN v[a] |-> IF Cut(a, i) THEN PROT_NONE ELSE v[a][i]]]

Init ==
    /\ rec = << >>
    /\ arr = << >> /\ retired = {} /\ free = 1 .. Blocks
    /\ vm = << >>
    /\ closed = FALSE
    /\ lk = NoThread
    /\ pc = [t \in Threads |-> "idle"]
    /\ key = [t \in Threads |-> NoKey]
    /\ need = [t \in Threads |-> 0]
    /\ snap = [t \in Threads |-> [ext |-> NULL, next |-> 0]]
    /\ base = [t \in Threads |-> NULL]
    /\ slices = [t \in Threads |-> 0]
    /\ handed = [k \in Keys |-> {}]

-----------------------------------------------------------------------------
(* Reads and writes, as far as the arrays go.                              *)

Enter(t) == ~closed /\ pc[t] = "idle" /\ lk = NoThread
Users(k) == {t \in Threads : pc[t] # "idle" /\ key[t] = k}
Goto(t, where) == pc' = [pc EXCEPT ![t] = where]

\* A call returns.
Idle(t) ==
    /\ Goto(t, "idle")
    /\ key' = [key EXCEPT ![t] = NoKey]
    /\ need' = [need EXCEPT ![t] = 0]
    /\ snap' = [snap EXCEPT ![t] = [ext |-> NULL, next |-> 0]]
    /\ base' = [base EXCEPT ![t] = NULL]
    /\ slices' = [slices EXCEPT ![t] = 0]

\* The snapshot that goes with busy++.
ls_place_of(r) == [ext |-> r.ext, next |-> r.next]

\* Any transfer of bytes the record has.
ls_read(t, k) ==
    /\ Enter(t)
    /\ k \in DOMAIN rec
    /\ rec[k].size > 0
    /\ rec' = [rec EXCEPT ![k].busy = @ + 1]
    /\ key' = [key EXCEPT ![t] = k]
    /\ snap' = [snap EXCEPT ![t] = ls_place_of(rec[k])]
    /\ Goto(t, "io")
    /\ UNCHANGED <<space, vm, closed, lk, need, base, slices, handed>>

\* One that may need room first: ls_write, ls_append, ls_reserve.
ls_write(t, k, n) ==
    /\ Enter(t)
    /\ rec' = IF k \in DOMAIN rec THEN rec ELSE Bind(rec, k, NewRec)
    /\ key' = [key EXCEPT ![t] = k]
    /\ need' = [need EXCEPT ![t] = n]
    /\ lk' = t
    /\ Goto(t, "grow")
    /\ UNCHANGED <<space, vm, closed, snap, base, slices, handed>>

\* What the allocator gives a record that wants n more: a run of free blocks
\* that finishes the job if there is one, and otherwise a longest one; of
\* several, the first.
Runs(n) ==
    LET fits == {e \in [foff : 1 .. Blocks, len : 1 .. n] :
                    Range(BlocksOf(e)) \subseteq free}
        longest == {e \in fits : \A f \in fits : f.len <= e.len}
    IN  {e \in longest : \A f \in longest : e.foff <= f.foff}

\* Slip: the array is not put on the list.
Forget(old) == retired

\* An array that a record has outgrown is kept for those who still read it.
ext_retire(old) == retired \cup ({old} \ {NULL})

\* The record with one extent more, in the array at p.
Moved(r, p) ==
    [r EXCEPT !.ext = p, !.next = @ + 1, !.ncap = IF @ = 0 THEN CAP0 ELSE 2 * @]

\* Slip: realloc.
PushRealloc(k, e) ==
    LET r == rec[k]
        p == Fresh(DOMAIN arr)
    IN  /\ arr' = Bind(Without(arr, r.ext), p, Append(Extents(r), e))
        /\ rec' = [rec EXCEPT ![k] = Moved(@, p)]
        /\ UNCHANGED retired

\* ext_push on a full array: a copy takes its place.
PushCopy(k, e) ==
    LET r == rec[k]
        p == Fresh(DOMAIN arr)
    IN  /\ arr' = Bind(arr, p, Append(Extents(r), e))
        /\ rec' = [rec EXCEPT ![k] = Moved(@, p)]
        /\ retired' = ext_retire(r.ext)

\* ext_push on an array with room: past the end of every snapshot.
PushInPlace(k, e) ==
    LET r == rec[k]
    IN  /\ arr' = [arr EXCEPT ![r.ext] = Append(Extents(r), e)]
        /\ rec' = [rec EXCEPT ![k].next = @ + 1]
        /\ UNCHANGED retired

\* One round of ensure_extents.
ensure_extents(t) ==
    LET r == rec[key[t]]
    IN  /\ pc[t] = "grow"
        /\ \E e \in Runs(need[t] - ext_total(r)) :
             /\ free' = free \ Range(BlocksOf(e))
             /\ \/ /\ r.next = r.ncap
                   /\ Cardinality(DOMAIN arr) < MaxArrays
                   /\ PushCopy(key[t], e)
                \/ r.next < r.ncap /\ PushInPlace(key[t], e)
        /\ UNCHANGED <<vm, closed, lk, pc, thread, handed>>

\* The extent could not be cleared, or there was no memory for the array: the
\* extent goes back, and the call fails with the ones it had got before.
PushFails(t) ==
    /\ pc[t] = "grow"
    /\ need[t] > ext_total(rec[key[t]])
    /\ lk' = NoThread
    /\ Idle(t)
    /\ UNCHANGED <<rec, space, vm, closed, handed>>

\* The size, busy, the snapshot, and the lock is dropped.
Grown(t) ==
    LET r == rec[key[t]]
    IN  /\ pc[t] = "grow"
        /\ need[t] <= ext_total(r)
        /\ rec' = [rec EXCEPT ![key[t]] =
                     [r EXCEPT !.size = Max({@, need[t]}), !.busy = @ + 1]]
        /\ snap' = [snap EXCEPT ![t] = ls_place_of(r)]
        /\ need' = [need EXCEPT ![t] = 0]
        /\ lk' = NoThread
        /\ Goto(t, "io")
        /\ UNCHANGED <<space, vm, closed, key, base, slices, handed>>

\* The transfer, which reads the array until it ends.
Transferred(t) ==
    /\ pc[t] = "io"
    /\ lk = NoThread
    /\ rec' = [rec EXCEPT ![key[t]].busy = @ - 1]
    /\ Idle(t)
    /\ UNCHANGED <<space, vm, closed, lk, handed>>

-----------------------------------------------------------------------------
(* ls_map and ls_unmap.                                                    *)

\* The caller's side of the contract: calls that overlap on one record are for
\* callers to order, so no two threads map one at once.
MapPermitted(k) == \A u \in Users(k) : pc[u] \notin {"reserve", "stitch", "mapped"}

\* There is a mapping: it is handed back, with the size of now.  outgrown notes
\* that the record is longer than what is mapped.
MapAgain(t, k) ==
    /\ Enter(t)
    /\ k \in DOMAIN rec
    /\ rec[k].size > 0
    /\ rec[k].map_addr # NULL
    /\ handed' = [handed EXCEPT ![k] = @ \cup
                    {[addr |-> rec[k].map_addr, len |-> rec[k].size,
                      outgrown |-> rec[k].size > rec[k].map_len]}]
    /\ UNCHANGED <<rec, space, vm, closed, lk, pc, thread>>

\* There is none: a snapshot, the size of now, and out of the lock.
ls_map(t, k) ==
    /\ Enter(t)
    /\ k \in DOMAIN rec
    /\ MapPermitted(k)
    /\ rec[k].size > 0
    /\ rec[k].map_addr = NULL
    /\ rec' = [rec EXCEPT ![k].busy = @ + 1]
    /\ key' = [key EXCEPT ![t] = k]
    /\ need' = [need EXCEPT ![t] = rec[k].size]
    /\ snap' = [snap EXCEPT ![t] = ls_place_of(rec[k])]
    /\ Goto(t, "reserve")
    /\ UNCHANGED <<space, vm, closed, lk, base, slices, handed>>

\* Entry i of the snapshot's array, as it is now.
Entry(t, i) == arr[snap[t].ext][i]
Before(t, i) == Len(Shown([j \in 1 .. i |-> Entry(t, j)]))

\* ls_os_map_extents: address space for all of it, or an error.
Reserve(t) ==
    LET a == Fresh(DOMAIN vm)
    IN  /\ pc[t] = "reserve"
        /\ \/ /\ vm' = Bind(vm, a, [i \in 1 .. Before(t, snap[t].next) |-> PROT_NONE])
              /\ base' = [base EXCEPT ![t] = a]
              /\ Goto(t, "stitch")
           \/ Goto(t, "mapped") /\ UNCHANGED <<vm, base>>
        /\ UNCHANGED <<rec, space, closed, lk, key, need, snap, slices, handed>>

\* Where in the mapping the next extent goes.
at(t) == Before(t, slices[t])

\* ls_os_map_extents: one extent over its slice.
Stitch(t) ==
    LET bs == BlocksOf(Entry(t, slices[t] + 1))
        from == at(t)
    IN  /\ pc[t] = "stitch"
        /\ vm' = [vm EXCEPT ![base[t]] =
                    [i \in DOMAIN @ |-> IF i - from \in DOMAIN bs THEN bs[i - from] ELSE @[i]]]
        /\ slices' = [slices EXCEPT ![t] = @ + 1]
        /\ Goto(t, IF slices[t] + 1 = snap[t].next THEN "mapped" ELSE "stitch")
        /\ UNCHANGED <<rec, space, closed, lk, key, need, snap, base, handed>>

\* One of them cannot be mapped: the whole goes back.
StitchFails(t) ==
    /\ pc[t] = "stitch"
    /\ vm' = munmap(vm, {[addr |-> base[t], len |-> Before(t, snap[t].next)]})
    /\ base' = [base EXCEPT ![t] = NULL]
    /\ Goto(t, "mapped")
    /\ UNCHANGED <<rec, space, closed, lk, key, need, snap, slices, handed>>

\* Slip: the size is read again.
logical_now(t) == rec[key[t]].size

\* The length the caller is told, and the length that is mapped.
logical(t) == need[t]

total(t) == Before(t, snap[t].next)

\* Under the lock again: the record has its mapping, and so does the caller.
MapDone(t) ==
    LET k == key[t]
        r == rec[k]
        a == base[t]
    IN  /\ pc[t] = "mapped"
        /\ lk = NoThread
        /\ rec' = [rec EXCEPT ![k] =
              [r EXCEPT !.busy = @ - 1,
                        !.map_addr = IF a = NULL THEN @ ELSE a,
                        !.map_len = IF a = NULL THEN @ ELSE total(t)]]
        /\ handed' = [handed EXCEPT ![k] =
              IF a = NULL THEN @ ELSE @ \cup {[addr |-> a, len |-> logical(t), outgrown |-> FALSE]}]
        /\ Idle(t)
        /\ UNCHANGED <<space, vm, closed, lk>>

\* The record gives its mapping up, and then it is taken down.  The caller may
\* use the address no longer.
ls_unmap(t, k) ==
    /\ Enter(t)
    /\ k \in DOMAIN rec
    /\ rec[k].map_addr # NULL
    /\ rec' = [rec EXCEPT ![k].map_addr = NULL, ![k].map_len = 0]
    /\ key' = [key EXCEPT ![t] = k]
    /\ base' = [base EXCEPT ![t] = rec[k].map_addr]
    /\ need' = [need EXCEPT ![t] = rec[k].map_len]
    /\ handed' = [handed EXCEPT ![k] = {}]
    /\ Goto(t, "munmap")
    /\ UNCHANGED <<space, vm, closed, lk, snap, slices>>

ls_os_unmap(t) ==
    /\ pc[t] = "munmap"
    /\ vm' = munmap(vm, {[addr |-> base[t], len |-> need[t]]})
    /\ Idle(t)
    /\ UNCHANGED <<rec, space, closed, lk, handed>>

-----------------------------------------------------------------------------
(* ls_erase and ls_close.                                                  *)

\* Slip: the mappings stay.
StaysMapped(v, rs) == v

\* ls_rec_free: what it leaves of the address space, for each of the records.
Unmapped(v, rs) ==
    munmap(v, {[addr |-> r.map_addr, len |-> r.map_len] :
                  r \in {q \in rs : q.map_addr # NULL}})

\* The record's mapping, its blocks and its array; retired arrays stay.  The
\* caller sees to it that nothing else uses the record.
ls_erase(t, k) ==
    /\ Enter(t)
    /\ k \in DOMAIN rec
    /\ Users(k) = {}
    /\ vm' = Unmapped(vm, {rec[k]})
    /\ free' = free \cup Range(Shown(Extents(rec[k])))
    /\ arr' = Without(arr, rec[k].ext)
    /\ rec' = Without(rec, k)
    /\ handed' = [handed EXCEPT ![k] = {}]
    /\ UNCHANGED <<retired, closed, lk, pc, thread>>

\* Every record is freed, then the retired arrays.
ls_close ==
    /\ ~closed
    /\ \A t \in Threads : pc[t] = "idle"
    /\ closed' = TRUE
    /\ vm' = Unmapped(vm, {rec[k] : k \in DOMAIN rec})
    /\ arr' = [a \in DOMAIN arr \ (retired \cup {rec[k].ext : k \in DOMAIN rec}) |-> arr[a]]
    /\ retired' = {}
    /\ rec' = << >>
    /\ handed' = [k \in Keys |-> {}]
    /\ UNCHANGED <<free, lk, pc, thread>>

-----------------------------------------------------------------------------
Next ==
    \/ \E t \in Threads :
         \/ \E k \in Keys :
              \/ ls_read(t, k)
              \/ \E n \in Sizes : ls_write(t, k, n)
              \/ MapAgain(t, k) \/ ls_map(t, k) \/ ls_unmap(t, k)
              \/ ls_erase(t, k)
         \/ ensure_extents(t) \/ PushFails(t) \/ Grown(t) \/ Transferred(t)
         \/ Reserve(t) \/ Stitch(t) \/ StitchFails(t) \/ MapDone(t)
         \/ ls_os_unmap(t)
    \/ ls_close

Spec == Init /\ [][Next]_vars

-----------------------------------------------------------------------------
(* Correctness.                                                            *)

\* A thread that reads an extent array without the lock reads one that is
\* still allocated, and finds in it the extents that lead the record's list,
\* however often the record grows meanwhile.
SnapshotLive ==
    \A t \in Threads : pc[t] \in {"io", "reserve", "stitch"} =>
        /\ key[t] \in DOMAIN rec
        /\ snap[t].ext \in DOMAIN arr
        /\ IsPrefix(SubSeq(arr[snap[t].ext], 1, snap[t].next), Extents(rec[key[t]]))

\* A record's mapping shows the record: its blocks, from the first, in order,
\* with no gap and none of another record; and no mapping in the process, not
\* one half made or half taken down either, shows a block that is free to go
\* to another record.
MappingsFaithful ==
    /\ \A k \in DOMAIN rec : rec[k].map_addr # NULL =>
          /\ rec[k].map_addr \in DOMAIN vm
          /\ Len(vm[rec[k].map_addr]) = rec[k].map_len
          /\ IsPrefix(vm[rec[k].map_addr], Shown(Extents(rec[k])))
    /\ \A a \in DOMAIN vm : Range(vm[a]) \cap free = {}

\* What ls_map handed to a caller stays mapped, every block of it, until the
\* caller has the record unmapped or erased, or the store closed; and it is as
\* long as the caller was told, unless the record had already outgrown it then.
HandedUsable ==
    \A k \in Keys : \A h \in handed[k] :
        /\ h.addr \in DOMAIN vm
        /\ h.len <= Len(vm[h.addr]) \/ h.outgrown
        /\ PROT_NONE \notin Range(vm[h.addr])

\* The length ls_map reports is covered by the mapping it hands out, as the
\* interface says of the two.
HandedCovered ==
    \A k \in Keys : \A h \in handed[k] :
        /\ h.addr \in DOMAIN vm
        /\ h.len <= Len(vm[h.addr])
        /\ \A i \in 1 .. h.len : vm[h.addr][i] # PROT_NONE

\* ls_close leaves nothing behind: no mapping, and no extent array, current or
\* outgrown.
ClosedClean == closed => vm = << >> /\ arr = << >>
=============================================================================
