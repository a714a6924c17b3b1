# A verification project for libspill

libspill is a C library for out-of-core scratch data: keyed, growing records of
bytes, kept in memory while they fit a budget and in one file otherwise, with
synchronous and asynchronous access from many threads. This directory models
its core in TLA+, model-checks it with TLC and proves most of the safety
properties with TLAPS.
Paths below are relative to the repository.

## The system

| Part | State | Operations | Interacts with |
|---|---|---|---|
| extent allocator, `src/alloc.c` | `fl`, `nfl`, `flcap`, `file_end` under `alloc_lk` | `ls_alloc_best`, `ls_alloc_largest`, `ls_alloc_tail`, `ls_free_extents` | called by the data path with `toc_lk` held; truncates the file |
| table of contents, `src/toc.c` | hash table of records under `toc_lk` | find, insert, unlink, free | all of `store.c` |
| data path, `src/store.c` | per record `size`, `mem`, `mem_cap`, `ext`, `ext_total`, `busy` | `ls_read`, `ls_write`, `ls_readv`, `ls_writev`, `ls_append`, `ls_reserve`, `ls_accumulate`, `ls_erase` | takes `toc_lk`, finds room, snapshots where the bytes are, drops the lock, transfers, takes the lock to count `busy` down |
| memory tier, `src/store.c` | `resident`, LRU list | `ls_evict_to`, `spill`, growth by `realloc` | runs inside any call that needs room, on other calls' records |
| asynchronous layer, `src/async.c` | queue, list of live requests, `stop`, `inflight`, `drain_err` under `q_lk`; each request's `done`, `status` under its own lock | `submit`, `worker`, `ls_wait`, `ls_test`, `ls_pool_start`, `ls_pool_stop` | workers call `ls_rw`; `ls_close` joins them |
| open and close, `src/open.c` | superblock and stored table of contents | `ls_open`, `ls_close`, `ls_unlink_now` | spills all records, writes the table past `file_end`, rebuilds the free list from the gaps |
| extent arrays, `src/store.c` | `ext`, `next`, `ncap` of a record; `retired` | `ext_push`, `ext_retire`, `ls_place_of` | read without the lock, through snapshots, by every transfer and by `ls_map` |
| mapped mode, `src/store.c`, `src/os_posix.c` | `map_addr`, `map_len` | `ls_map`, `ls_unmap` | stitches a record's extents together in address space, outside the lock |
| attributes, keys, `src/store.c` | `attr`, `attrlen` | `ls_set_attr`, `ls_get_attr`, `ls_keys` | stored with the table |
| HDF5 backend, `src/hdf5.c` | an HDF5 file under `h5_lk`, one dataset per key | the same API | replaces extents and tiers; every step is a call into a library that may fail, and not every failure is looked at |
| error reporting, OS layer | none of their own | | |
| bindings (C++, Python, Fortran), crayio | handles | | clients of the API |

What is hard here: bytes are transferred without a lock, on a snapshot, while
other threads evict, grow, erase and reuse space; space is accounted by hand
in several places, and any step of an allocation may fail half-way; the
asynchronous layer frees requests that another thread has just finished with.

What makes each part correct:

* allocator: every byte of the file is in exactly one hole or extent, the list
  stays sorted and merged, the file shrinks back when it is emptied;
* data path: a caller sees only its own changes, whatever moves underneath; a
  successful write is there; new space reads as zero;
* memory tier: the budget holds, its accounts agree, nothing in use moves;
* asynchronous layer: requests are run once, never used after they are freed,
  never dropped; submit, wait and close always get through;
* open and close: what is reopened is what was closed;
* extent arrays: nobody reads one that is freed, and none is left behind;
* mapped mode: a mapping shows its record and nothing else, stays for as long
  as a caller has it, and is released once;
* HDF5 backend: callers get what the POSIX backend promises; no failure keeps
  the lock, or an identifier that keeps the file from being completed.

## Modules

**`ExtentOps`** has the algorithms of `alloc.c` as operators on a free list, a
sequence of `[foff, len]` sorted by offset as in the C array.

**`ExtentAlloc`** is the allocator as a state machine. Each entry point is an
action. `ls_free_extents` gives back several extents one `fl_insert` at a time:
the ones to come are in `freeing`. `FreeOneNoMem` is the failure of
`fl_reserve`, which `ls_free_extents` ignores: that space is in `lost`.
`held` and `lost` are what the callers own, not C state.

**`ExtentAllocProofs`** has the theorems about the allocator.

**`Tables`** has the updates of functions that the other models share: a key
bound, a key removed, bytes laid over others.

**`CommonProofs`** has the lemmas that several proofs use: induction; folds, sums,
minima, flattened sequences and enumerated sets; and what the operators of `ExtentOps`
do to a free list, for any set of owners.

**`Store`** is the data path and the memory tier. `rec` is the table of
contents, `heap` the buffers, `file` the bytes of the file. A call goes through
the states listed at the head of the module; every step between `cap` and
`ready`, and `free`, is taken by the holder of `toc_lk`. Steps are cut where the
code can fail, where it loops, and wherever another thread's unlocked transfer
could see the difference: allocation, zeroing, spilling, each piece of a transfer, both halves
of an `O_DIRECT` read-modify-write. How the store is opened and which calls are
made is a member of `Settings`, chosen in the initial state and kept in
`setting`, so that one run covers several kinds of store. `Permitted` is the
caller's contract. With `SameKey` false, concurrent calls are on distinct keys; with `SameKey` true
they may be on one key, if their ranges are disjoint (`DESIGN.md` 3a and 4b) or
both append. A call that fails its argument checks changes nothing and is
no step. All worker threads of the pool are threads of `Store`.

A buffer that `realloc` moves gets a new address, chosen freely between the old
one and a fresh one. A read from a freed buffer returns anything.

**`StoreProofs`** has the theorems about its accounts, its space and what it asks of the
allocator, **`StoreContentProofs`** those about the bytes.

**`ByteStore`** is what callers are promised: keys bound to runs of bytes, where
a step changes only bytes in the range of a call in progress, to that call's
values, or extends a record with zeros, or erases it. `Store` implements it:
`content` is `Stored`, the bytes of each record wherever they are, and `active`
is `call`. So does `Hdf5`, with the bytes of its datasets as `content`.

**`Async`** is the asynchronous layer. A section under a lock is one step; a
thread in `pthread_cond_wait` is asleep until a signal, a broadcast or a
spurious wakeup. `ls_rw` is one step here that succeeds or fails; `Store` has
its inside. `accepted`, `held` and `late` record the caller's side.

**`AsyncProofs`** has the theorems about it.

**`Persist`** is the life of the file, from `open.c`: `ls_open` of a new, kept
or damaged file, `toc_serialise`, `toc_load` and `rebuild_free_list`,
`ls_unlink_now`, `ls_set_attr`, `ls_close` write by write, and `LS_SHARED`. One
process owns the store, or several share it. `file` is what processes see,
`platter` what the last `fsync` put on the medium. Calls of the data path are
single steps, `Store` having their inside. A cell of the file is a byte of data,
the whole entry of one record in the table, or the superblock, and a CRC is the
sequence of cells it was computed over: it matches exactly when nothing has
changed. `Crash` is the death of the process between any two steps; `PowerLoss`
leaves any mixture of synced and unsynced cells. The superblock is one cell
here: a torn superblock is assumed to fail its own checks. The bytes of records in a
store that was not closed are promised to nobody, in the code or here; the
table is. `kept`, `safe` and `written` record promises made, not C state. As in
`Store`, what a store is and what may go wrong with it is one of `Settings`.
**`PersistProofs`** has the theorems about it.

**`Hdf5`** is the other backend, `hdf5.c`. The HDF5 library is external: a
dataset is a run of bytes with at most one attribute, extended with zeros; any
call of it may fail; and a file is closed only when no identifier of an object
in it is open, for which `ids` counts the ones that are. Every entry point holds
`h5_lk` throughout, and is cut at its calls into the library. The segments of a
vectored call are entries of their own (`segv`), between which the lock is
free. `before` and `kept` record what a call found and what a close promised,
not C state. `Compatible` is the caller's contract, as in `Store`, with one
thing less: no append during a write of the same key. Any call into the library
fails at will (`Faults`), the ones whose result `hdf5.c` does not look at
included: a failing `H5Lexists` is "no such dataset" (`h5_dataset_exists`), and a
failing `H5Dget_space` or `H5Sget_simple_extent_dims` leaves a length of 0
(`Dims`). Those make the backend take a record for shorter than it is: an append
goes to offset 0, `H5Dset_extent` shrinks the record, an accumulate takes stored
bytes for fresh space. `misled`, no C state, has the threads whose call this has
happened to, with the ones that were on the same record then; the properties say
what holds of everybody else.
**`Hdf5Proofs`** has the theorems about it.

**`Mapped`** is `LS_MAPPED`, and the extent arrays of any POSIX store. An array
has an address, `arr` says which are allocated, and a snapshot is an address and
a count: a transfer is a thread in state `io`, which may read the array at any
time until it leaves. `vm` is address space, a sequence of blocks for every
mapping, `PROT_NONE` where nothing is mapped. `ls_map` takes its snapshot under
the lock, reserves, stitches extent by extent without it, and takes it again to
store the address; growth, erasure of other records and other mappings come in
between. `handed` is what callers were given, not C state. The allocator is
reduced to the choice it makes (`Runs`). An address is the lowest that is free,
so that freed ones are used again at once. `MapPermitted` is the caller's contract:
no two threads map one record at the same time, calls on one key that overlap being
the caller's to order (`DESIGN.md:717`). `outgrown`, in what was handed out, marks a
mapping that `ls_map` returned again after the record had outgrown it.
**`MappedProofs`** has the theorems about it.

**`MCExtentAlloc`**, **`MCStore`**, **`MCAsync`**, **`MCPersist`**, **`MCHdf5`**
and **`MCMapped`** are the modules TLC runs.

An operator whose comment begins with *Slip* is the definition after it as a plausible
mistake would have it. No specification uses them: each shows, put in the place of
the right definition, that some property notices.

## Runs

| Run | Configuration | What it shows |
|---|---|---|
| `alloc` | `MCExtentAlloc.cfg` | the allocator's invariants over every sequence of calls in a file of 16 bytes |
| `threads` | `MCStoreThreads.cfg` | two threads on stores of three kinds: a budget for two of three records, where eviction, self-spill, growth, erasure and hole reuse are invisible to callers; no memory tier and one key, where appends are disjoint and disjoint writes survive; `O_DIRECT` on distinct keys, where block writes never touch a neighbour |
| `faults` | `MCStoreFaults.cfg` | a reopened file and a full disk, with every allocation and system call failing at will: accounts stay exact, space comes back or, when `fl_insert` has no memory for its hole, is in nobody's hands, stale bytes never become data, `toc_lk` is always given up again |
| `async` | `MCAsync.cfg` | no use after free, nothing dropped or run twice, no lost wakeup |
| `life` | `MCPersist.cfg` | `O_DIRECT`, attributes: a kept store reopens with the same records and the same holes, and two processes share it in between without harm; failures in every step of `ls_close(keep=1)`, death of the process and of the machine: a durable promise is kept, a file that opens has one whole table, another program's file is not unlinked |
| `hdf5` | `MCHdf5.cfg` | two threads, every library call failing at will, looked at or not, the file closed and opened again: calls that succeed are effective and the backend implements `ByteStore`, except on a record that a failure made look shorter, and other records keep every byte; a kept file is complete, `h5_lk` is always given up again |
| `mapped` | `MCMapped.cfg` | two threads, two records, `mmap` and `malloc` failing at will: snapshots outlive growth, mappings are faithful and stay while a caller has them, as long as the caller was told unless the record had outgrown them, and nothing is left after `ls_close` |
| `grow_race` | `MCStoreRace.cfg` | violation: a growing call moves a busy buffer |
| `direct_race` | `MCStoreDirectShared.cfg` | violation: `O_DIRECT` loses one of two disjoint writes to a block |
| `empty_store` | `MCPersistEmpty.cfg` | violation: a kept store without records is refused as corrupt |
| `h5_accumulate` | `MCHdf5Accumulate.cfg` | violation: an accumulate across the end of a record overwrites what was there |
| `map_grown` | `MCMappedGrown.cfg` | violation: a record that has outgrown its mapping is mapped again, and its new length comes with the old mapping |

The five violations are disagreements between the code and what `DESIGN.md`
and `libspill.h` say of it; `PROJECT.json` quotes the lines.

1. `ensure_cap` (`store.c:319`, `333`) reallocs, or spills and frees, the buffer
   of a record that other calls are using. `busy` stops `ls_evict_to` only.
   The documents call concurrent operations on disjoint ranges of one key safe,
   and the fix made for extent arrays (`DESIGN.md:313-325`) was not made here.
2. `rw_all` (`store.c:71-79`) reads, patches and writes back the block around
   an unaligned range without a lock.
3. `ls_open` (`open.c:417`) takes a table of length zero for one of a version
   that did not store the length, and reads up to the end of the file. A record
   of no extents (`ls_reserve` of 0 bytes, or `ls_set_attr`) is stored by a
   first close; erasing it after the next open gives nothing back, so the file
   is not truncated and the old table stays behind `file_end`; the second close
   writes an empty table, and the third open finds a CRC that does not match.
   `KeptReadable` is therefore stated for stores with records.
4. `ls_h5_accumulate` (`hdf5.c:299`) takes any range the record does not wholly
   cover for fresh space, and combines with zeros what it should combine with
   the record; the POSIX backend extends the record first. No failure is
   needed for this one.
5. `ls_map` of a mapped record (`store.c:856-858`) returns the old mapping with the
   record's new size, so that a single thread that maps, writes more and maps again
   may write past the end of the mapping, where `libspill.h:390-392` speaks of a mapping
   rounded *up* from `len`. `HandedUsable` is therefore stated for mappings that
   were long enough when they were handed out.

The hazards behind 1 and 2 are met in these runs only: the passing ones have no setting
in which callers share a key of a store with a memory tier, or of one with `O_DIRECT`.

Three more are stated and have no run of their own.

* With `Faults` true and `InsideCalls` for `Calls`, `AccumulateCombines` fails in
  `MCHdf5Accumulate.cfg` without a straddling range: line 299 takes `LS_ERR_NOKEY` for
  fresh space, which is what `h5_transfer` returns when a dataset that exists cannot be
  opened (`hdf5.c:161`), and `LS_ERR_RANGE` when its extent cannot be queried
  (`hdf5.c:163-171`). The call returns `LS_OK`.
* With the same constants `AppendsDisjoint` fails: `h5_extent` (`hdf5.c:143-148`) returns
  `LS_OK` and 0 when the extent cannot be queried, and `ls_h5_append` starts at 0 when
  `H5Lexists` fails (`hdf5.c:70`, `277`), over another append's bytes and with `LS_OK`,
  although `libspill.h:350-351` promises disjoint ranges. In `h5_open_or_create`
  (`hdf5.c:104-110`) the same query makes `H5Dset_extent` shrink a record that is longer
  than the call needs.
* As an invariant in `MCAsync.cfg`, `CloseReportsDrainError` fails: `s->drain_err` is set
  (`async.c:54`) and never read, although `libspill.h:270` says that `ls_close` returns
  the first error met while draining.

What `MapPermitted` leaves out is this: two threads find one record unmapped and both
map it; the second address replaces the first (`store.c:873`), which neither
`ls_unmap` nor `ls_erase` nor `ls_close` takes down, though `libspill.h:396` says that
a store closes any mapping it still holds. `MappingsFaithful` then fails when the record
is erased and its blocks can still be written through the lost mapping, and
`ClosedClean` at the close. No run shows it, since `DESIGN.md:717` leaves overlapping calls on
one key to the caller.

Smaller things met in `hdf5.c`, without a run: a dataset that exists and cannot be
opened is `LS_ERR_NOKEY` to a reader; `ls_h5_set_attr` deletes the old attribute before it
has made the new one; `ls_h5_get_attr` reports one that it cannot open as empty;
and a vectored write extends the record segment by segment, giving up the lock in
between, where the POSIX backend extends it once and first.

Two more were met in `Persist` and have no run of their own. `ls_close(keep=1)`
goes on after `ls_spill_all` failed (`open.c:509-512`) and writes a table with the
size of a record and not its extents, so that the file opens again with a record
whose bytes are nowhere (`SpillFails`); `store.c:223-225` says the table
"describes bytes that are actually on disk". The error is returned, and
`KeptReadable` speaks of closes that returned `LS_OK`. And `ls_close` of a shared
store skips the `fsync` (`open.c:500-505`) even with `durable_close` set
(`SharedClose`), so what a sharing process wrote is only as durable as
the page cache.

### Bounds

Alignment and superblock are 2 bytes: small enough for two extents to be
neighbours, large enough for `round_up` to matter and for two ranges to share
a block. `LS_MAX_EXTENTS` is 3 and `LS_MIN_EXTENT` 2, so the tail is taken both
because no hole is worth it and because a record has too many extents.
`CHUNK` is 2: an accumulate of 3 bytes takes two rounds. `Disk` limits the
file, and in `faults` is reached. `MaxEnd` limits the allocator's file, and
`Reqs` the requests: three for two workers, so that one waits in the queue.
`MaxEnd` limits `Persist`'s file as well, and `MaxOpens` is two uses of the store
by an owner: the second starts from a table that was loaded. `Sizes` and `Spots` are
the lengths and bytes that are written: in the setting `reopen` 1 and 3, below and above a
block, so that records get one extent or two; in `close_faults`, which has the memory tier,
1, since every subset of the unsynced cells is a state there; spilling a record to grow
it is left to `Store`'s runs. Records hold the values 0 and 1, and 9 stands for bytes of the superblock and the old table
of contents. `alloc` starts the hole array at 1 slot rather than 16 so that
it is full early, and so does `Store` (`FlCap0`). `LostEnd` limits how far into the
file space may get lost, since what is lost is never used again and the file would
grow for ever: in `faults` it is 8, past the `Disk` of 6, so that any extent may be
lost, one at the end of a full disk included. `Disk` is 10 in `threads`, room for the
largest records of each setting and their holes.

In `hdf5`, `Faults` is true, `MaxSize` is 4, so that a vectored write leaves a gap others write to,
and `MaxOpens` 2. In `mapped` there are 3 blocks, for one record of up to three
extents or two that interleave; arrays begin with 2 entries rather than 4
(`CAP0`), so that the second extent is added in place and the third makes a copy;
and `MaxArrays` is 3: an outgrown array and a current one of each record.
Threads and sharing processes are symmetric, except in runs with liveness.

### Fairness

`Store!FairSpec` assumes that a thread that holds `toc_lk` keeps running: it
waits for nobody. Nothing is assumed of threads that want the lock.
`Hdf5!FairSpec` assumes the same of the holder of `h5_lk`, whose only calls are
into the HDF5 library.
`Async!FairSpec` assumes that workers, threads inside `ls_wait` and the thread
inside `ls_close` keep running; it assumes nothing of spurious wakeups and does
not oblige anyone to call anything. A section under a lock is one step and the
locks are free between steps, so weak fairness is what a scheduler that runs
every runnable thread gives.

## Proofs

Everything here is proved for every value of the constants, under the named
assumptions of the modules and, where the table says so, a hypothesis about how
the store is used.

| Module | Theorem | Property | Hypothesis |
|---|---|---|---|
| `ExtentAllocProofs` | `AllocTypeCorrect`, `AllocPartition`, `AllocOwnersDisjoint`, `AllocFreeList`, `AllocDrains` | `TypeOK`, `SpacePartitioned`, `OwnersDisjoint`, `FreeListCanonical`, `EmptyWhenDrained` | |
| | `AllocAligned`, `AllocLive` | `Aligned`, `LiveIsOwned` | |
| `StoreProofs` | `StoreTypeCorrect`, `StoreAppends`, `StoreMemory`, `StoreSpace` | `TypeOK`, `AppendsDisjoint`, `MemoryAccounted`, `SpaceAccounted` | |
| | `StorePlaces`, `StoreBacked` | `PlaceCurrent`, `RecordsBacked` | `Unmixed` |
| | `StoreAllocator` | `AllocatorUsed` | `Modest` |
| `StoreContentProofs` | `StoreEffective`, `StoreStoresBytes` | `CallsEffective`, `StoresBytes` | `Unmixed`, `Undirected` |
| `AsyncProofs` | `UseAfterFreeFree`, `DrainedBeforeFree`, `EachRunsOnce`, `AsyncTypeCorrect`, `InflightCounts` | `NoUseAfterFree`, `FreedOnlyWhenDone`, `RunOnce`, `TypeOK`, `InflightExact` | |
| `Hdf5Proofs` | `HDF5KeptClosed`, `HDF5StoresBytes`, `HDF5CallsEffective` | `KeptClosed`, `StoresBytes`, `CallsEffective` | |
| `MappedProofs` | `MappedSnapshots`, `MappedFaithful`, `MappedUsable`, `MappedCloses` | `SnapshotLive`, `MappingsFaithful`, `HandedUsable`, `ClosedClean` | |
| `PersistProofs` | `PersistTypeCorrect`, `PersistSpace`, `PersistFreeList`, `PersistShared`, `PersistKept`, `PersistCrash`, `PersistOthers` | `TypeOK`, `SpaceDisjoint`, `FreeListRebuilt`, `SharedCoherent`, `KeptReadable`, `CrashConsistent`, `OthersKept` | |

### The allocator

The assumptions are positive alignment and superblock, positive requests and a
positive first capacity.

The inductive invariant `IInv` is the conjunction of the first four properties.
None of them is inductive alone: that a hole handed out overlaps nobody needs
the partition, that a returned extent fits between two holes needs it too, and
that two merges are enough needs a list with no touching holes. `ByteInv` states the
same byte by byte (each byte below `file_end` is in a hole or has one owner),
which is the form in which the steps are short: lemmas say which bytes
`fl_insert`, `TakeFront` and `RemoveAt` add to or remove from the holes, and
one lemma, `HandOut`, covers the three allocations. `AllocDrains` follows:
with no owner, a hole would have to end where another begins or at `file_end`,
and neither can be. `GridInv` adds that extents, holes and `file_end` are on the
grid of the alignment. `AllocLive` counts: the holes and the owners are two sets
of bytes that share out the file, the sum that `ls_alloc_live` forms over the
array is the size of the one, and so the difference is the size of the other.

The lemmas are stated for any set of owners (`Accounted`); `StoreProofs` and
`PersistProofs` use them for the extents of records.

### Recursion

The library's induction theorems have an operator as a parameter, which the
provers cannot instantiate. `CommonProofs` does induction over a *set* of
naturals instead, and shows of each recursive definition the models use (folds
over sequences, sums over finite sets, flattening) that a function satisfying it
exists, that it is unique, and how it changes when an element is added or taken
away. Only what is asked of a fold is proved: its type, its steps, and the sums.

### The data path

The assumptions, besides sizes, are that threads are finitely many, that calls are
well formed (`CallsAssumption`), and that a reopened file has its records one after
the other (`LoadedAssumption`), as the model's `Init` has them.

The inductive invariant `Safe` has eight parts. `Types` and `Control` say where
threads are and that the holder of `toc_lk` is the one thread in a locked state.
`Holding` is what the holder relies on between two steps: the record it is
spilling is in memory and not in use, space it has allocated and not yet given to
a record is its own. `Space` is the allocator's invariant with the records, the
space being zeroed, the space being freed and the space lost as owners, so that what
is lost stays apart from everything that is used. `Rooms` says that
`ext_total` is the sum of a record's extents and that a record has room for its
size, in the buffer or in the extents. `Memory` ties `resident`, the LRU list, the
buffers and the records together; `Counts` says that `busy` is the number of
calls in transfer; `Appends` that an append begins where its record ended. They
need each other: eviction frees a buffer safely because `busy` is exact, the budget
holds because `resident` is a sum over records, and the sum changes by one
record's capacity because no record is twice in the LRU list.

`PlaceCurrent` and `RecordsBacked` need four more parts (`Sound`): the file reaches
to the end of every extent (`FileSize`), what is still to transfer is well formed
(`Pieces`), a buffer is as long as its record says (`Buffers`), and a thread's
pieces lie inside its place (`Places`). Their hypothesis `Unmixed` says that a
store in which callers run concurrent calls on one key has no memory tier. It is
needed: `grow_race` is the counterexample without it. All settings of the passing
runs have it, and nothing else separates the theorems from the code. The theorems
without hypothesis hold in that race, too: whatever a late transfer writes to
the buffer that has moved, accounts and space stay exact.

`CallsEffective` is about bytes, and its invariant `Effective` follows one byte of
one record (`Byte`) from the buffer to the extents. Every piece a call has still to
transfer lies where the record has those offsets, and inside the call's ranges
(`Tasks`); extents are made of whole blocks (`Grid`), so that a block that
`O_DIRECT` rewrites belongs to the one record; what a thread has read for a
read-modify-write is what the file still holds (`Mirrored`); no two calls in
progress write common bytes (`Unshared`, which for appends is
`AppendsDisjoint`). Two lemmas carry the steps: `ByteKept`, that no step changes a
byte that it does not store, growth, eviction and spilling of its record included,
and `ByteWritten`, that a stored piece has the caller's value. `Effect` is then
inductive: each byte of a call's ranges is in a piece still to come or is already
as the call leaves it. The hypothesis `Undirected` says that callers who share a key
do not open the store with `O_DIRECT`. It is needed: `direct_race` is the
counterexample without it.

`StoresBytes` is the refinement of `ByteStore`, with the bytes that a record has now,
wherever they are, for its content. Its invariant `Exact` adds three things to
`Effective`. `Blank`: a byte that a record, a buffer or an extent has
room for and has not used yet is zero, so that growing `size` shows zeros and nothing of the
hole or of the old table that was there; it holds because `zero_range` comes before the
extent is given to the record, and because a transfer writes inside the size only.
`Fed`: what an accumulate has read is what the record still holds, which is
where the callers' contract is used a second time; its sum is then the value
that `ByteStore` allows. `Grows`: a call that keeps `toc_lk` from one step to the next is not a read, so it is one
that `ByteStore` allows to extend its record. With these each action is matched with one step of
the abstract specification: an erase removes the key; the section under `toc_lk` that
looks the record up may create it empty; growing extends it with zeros; a stored
piece writes the caller's values in the caller's range; a call that begins or ends
changes `active` only; and allocation, zeroing, spilling and eviction are stutters.

### What the data path asks of the allocator

`AllocatorUsed` says that the data path is a legal client of `ExtentAlloc`: every
change of the free list and of `file_end` is what the allocator does for a positive request
or for an extent that the data path owns, gives back once and then no longer owns. `ExtentAlloc` has bounds of its own, for TLC: a set of requests and a largest end. The mapping takes `1 .. Disk` for the
first and `2 * Disk + LostEnd + LS_ALIGN` for the second, and the theorem shows that they are
never reached. `OnDisk` says that extents of records end within the disk, and that
`file_end` is beyond it, and beyond what is lost, at most by one extent that could not
be zeroed and will be given back. `Asks` says
that what a thread is about to request is no more than the disk has. The hypothesis `Modest` says the
latter of the input: budget, calls and the records of a reopened file are no
larger than the disk. All runs have it. Without it the data path does the same, but the
abstract allocator would have to be told of larger requests.

### The HDF5 backend

`KeptClosed` follows from counting identifiers: one is open exactly while a thread is
inside a transfer or sets an attribute (`IdsCounted`), on every error path, so
none is open when the store is closed. That `Hdf5` implements `ByteStore` is proved
step by step: every action either leaves the datasets' bytes alone, extends one
with zeros, or writes a call's range with its values. For an accumulate this
needs `Pending`: what it has read is still what is stored when it writes.
`CallsEffective` adds `Effects`: the segments that a call has finished are as the
call leaves them, although the lock is free between segments. There the caller's
contract (`TogetherOK`) carries the argument, and for appends that a later
one begins behind the earlier (`AppendsFollow`). All of this is about threads that
are not misled; the lemmas show that a call becomes so only by a step that takes its
record for shorter than it is, and that such a step and what follows from it
leave every other record alone. Without the exception the last two theorems are
false: `h5_accumulate` is a counterexample, and so are the two failures described
with the runs.

### Mapped mode

`Live` says that every allocated array has one owner, a record or the list of
retired ones, and that a thread with a snapshot has an array whose first entries
are the first entries of its record's array now. `ext_push` writes behind the
entries that any snapshot covers, or leaves the old array as it was and
retires it; so `SnapshotLive` holds whatever callers do. `Clean` adds that records own
disjoint blocks, that every mapping belongs to one record or to one thread making
or unmaking it, and how far a thread has come with it (`Stitched`). That a record
is being mapped by one thread at most is the contract, `MapPermitted`; without it
`MappingsFaithful` and `ClosedClean` are false, as described above.

### The life of the file

The assumptions are positive sizes, a superblock that is a whole number of blocks,
and that 0, no attribute, is one of the attributes. `PersistInvariant` has the
invariant, `Inv`, and the theorems follow from it, `PersistOthers` from the
control part.

* `SpaceSound`: while an owner has the store open, its records, its free list and
  `file_end` share out the file (`TableOK`, which is the allocator's `Accounted` with
  the extents of records as owners).
* `FilesSound`, of the file and of the medium: *if* the first cell is a superblock, it
  is that of a table which some `ls_close` wrote and which is sound in the same sense.
  Nothing is said of the rest of the file, which is what makes it survive data
  written over an old table, a half-written new one, and a power failure that keeps
  any mixture of cells: the first cell comes from one file or from the other.
* `StageSound`: before the superblock is written the table is in the file, at
  `file_end`; after it, both are; after the `fsync` of a durable store the medium is the
  file. If nothing has failed, no record is in memory any more.
* `KeptSound` and `SafeSound`: what a close promised is the content, the free list and
  the end of one sound table that is whole in the file, and on the medium if the promise
  was durable.
* `SharersSound`: a sharer's table is what the file loads as now.

Two facts about the code carry the rest. `toc_load` inverts `toc_serialise`: when a
file begins with the superblock of a sound table and its CRC matches, `Load` returns
that table, its records on disk (`LoadGives`); when the table is there and has a record,
`Load` succeeds (`LoadOK`). And a free list that is sorted, merged and short of the end
is determined by the bytes it leaves out (`Canonical`); what `rebuild_free_list` makes
is such a list over the gaps between the sorted extents; so it is the list the
store was closed with, hole by hole. A sharer writes only inside extents, which lie
between superblock and table, so neither `Load` nor a promise other than of
the bytes it wrote is touched.

`empty_store` shows where this ends: with no record, the length 0 is taken for that of
an old format, `LoadOK` has no analogue, and `KeptReadable` is stated for stores with
records.

### The asynchronous layer

The assumptions are that the pool has a worker and is finite, that no
thread is both worker and caller, and the caller's contract built into `Async`.
The inductive invariant `LifeInv` says where a request can be. A request is
freed by `ls_wait` when it is done, and then it is neither queued nor run
(`PendingLive`) and has no second waiter or handle (`WaitedOnce`). `ls_close`
frees everything after the join: a worker exits only when `stop` is set and the
queue is empty, nothing is queued after `stop` (`Drained`), and what is accepted
and not done is queued or with a worker (`Located`), so all of it is done.
`CountInv` adds that `inflight` is the length of the queue plus the number of busy
workers; that it is a natural number, and zero after the join, follows. The code only
counts it, nothing waits for it: what keeps `ls_close` from returning early is
`Drained` and `Located`.

TLC found the inductive invariants of `Async` and `Mapped` to be invariants of the
instances of their runs before they were proved.

### Only model-checked

* Liveness: `RequestsComplete`, `WaitsReturn`, `CloseReturns`, and `LockReleased` of
  `Store` and `Hdf5`. Fairness is outside the prover.

Every other property of the passing runs is a theorem above.

## Not modelled

* Hash chains and pointers of the LRU list. In `Store` and `Persist` a record's
  extent list is a value, and a snapshot of it cannot change; `Mapped` has the
  arrays.
* `fl_insert` running out of memory in `Persist`; `ExtentAlloc` and `Store` have it.
  Space lost in this way is a gap, which the next `ls_open` makes a hole again.
* The directory entry of a kept file, which is not synced (`libspill.h:188-189`): after a
  power failure `KeptReadable` says that the file's bytes load, if there is a name to
  find them under.
* Two threads mapping one record at once, see above.
* Short transfers: the buffered path retries them inside one step.
* Widths of integers.
* The layout of the table in bytes and its bounds checks; option checks and the
  making of a path in `ls_open`.
* What pages of a mapping hold (they are the blocks of the file, `MAP_SHARED`),
  `SIGBUS`, and `munmap` failing on a whole mapping.
* The inside of the HDF5 library; chunk sizes; closing an identifier and making a
  property list, taken to succeed; `ls_h5_keys`, which reads; the answer of
  `ls_h5_get_attr`. The identifiers that `ls_h5_get_attr` and `ls_h5_reserve` open they
  also close within one step.
* Windows (`os_win32.c`), which does by other calls what `os_posix.c` does; the
  bindings and crayio, clients of the API of one call per call; error texts; the
  benchmark.

## Plan

Done: all the models planned, and the theorems about the allocator, the data
path's accounts, places, effects and its refinement of `ByteStore`, the asynchronous layer, the HDF5 backend, mapped
mode and the life of the file.

Left, in this order:

1. `round_up`, `ls_reserve` and the range checks modulo 2^w.
2. The lifetime of requests and the shared key buffer of the C++ binding, on top of
   `Async`.
