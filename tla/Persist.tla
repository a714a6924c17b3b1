------------------------------ MODULE Persist ------------------------------
(***************************************************************************)
(* The life of a store's file, from open.c: created, used, closed with its *)
(* table of contents or without, opened again, shared between processes,   *)
(* unlinked, and left behind by a process or a machine that died.          *)
(*                                                                         *)
(* One process at a time uses the store alone (the owner); when nobody     *)
(* does, any number may have it open LS_SHARED.  Calls of the data path    *)
(* are single steps here: Store has their inside.  ls_close is cut at each *)
(* of its writes, because it may die or fail there:                        *)
(*                                                                         *)
(*   none --> open --> spill --> toc --> super --> sync --> end --> none   *)
(*                                                                         *)
(* A cell of the file is a byte of data, the serialised entry of a record, *)
(* or the superblock; a CRC identifies the cells it was computed over.     *)
(***************************************************************************)
EXTENDS ExtentOps, Tables

CONSTANTS
    Keys,             \* record names
    Procs,            \* processes that open the store LS_SHARED
    LS_MIN_EXTENT,    \* a smaller hole is not worth taking
    LS_MAX_EXTENTS,   \* past this many extents, use the tail
    MaxOpens,         \* bound: how often the owner opens the store
    Settings          \* name -> how the store is opened and used, and what
                      \* may go wrong

ASSUME PersistAssumption ==
    /\ LS_MIN_EXTENT \in Nat \ {0}
    /\ LS_MAX_EXTENTS \in Nat \ {0}
    /\ LS_SUPER_SIZE % LS_ALIGN = 0
    /\ MaxOpens \in Nat
    /\ \A s \in DOMAIN Settings :
          /\ Settings[s].Sizes \subseteq Nat /\ Settings[s].Spots \subseteq Nat
          /\ 0 \in Settings[s].Attrs
          /\ Settings[s].MaxEnd \in Nat

VARIABLES
    setting,    \* the name of the setting in force
    file,       \* the cells of the file, as every process sees them
    platter,    \* the cells the last fsync put on the medium
    path,       \* what the store's name refers to: "none", "ours", "theirs"
    at,         \* where the owner is
    named,      \* the owner's s->path is not NULL
    rec,        \* the owner's table of contents
    fl,         \* its free list
    file_end,   \* its s->file_end
    first,      \* the first error ls_close met
    sharer,     \* the table each sharing process has loaded, or Closed
    opens,      \* how often the owner has opened the store
    kept,       \* what the last ls_close(keep=1) promised a reader, or Nothing
    safe,       \* the same, if the power fails
    written     \* the tables some ls_close has written a superblock for

disk == <<file, platter, path>>
owner == <<at, named, rec, fl, file_end, first>>
history == <<opens, kept, safe, written>>
vars == <<setting, disk, owner, sharer, history>>

Sizes == Settings[setting].Sizes              \* sizes records are grown to
Spots == Settings[setting].Spots              \* bytes that are written
Attrs == Settings[setting].Attrs              \* attribute values; 0: none
Shared == Settings[setting].Shared            \* Procs use the store too
Budgeted == Settings[setting].Budgeted        \* there is a memory budget
Direct == Settings[setting].Direct            \* O_DIRECT in force
Durable == Settings[setting].Durable          \* s->o.durable_close
Anonymous == Settings[setting].Anonymous      \* it calls ls_unlink_now
Faults == Settings[setting].Faults            \* system calls may fail
PowerFails == Settings[setting].PowerFails    \* the machine may die
MaxEnd == Settings[setting].MaxEnd            \* bound: how far extents reach

-----------------------------------------------------------------------------
(* Cells.                                                                  *)

Byte(v) == <<"byte", v>>
Entry(e) == <<"entry", e>>
Super(sb) == <<"super", sb>>
Zeros(n) == [i \in 1 .. n |-> Byte(0)]

\* ls_pwrite_all: under O_DIRECT whole blocks are written, and what the block
\* had not reads as zero.
pwrite(f, off, cells) ==
    LET end == IF Direct THEN round_up(off + Len(cells)) ELSE off + Len(cells)
    IN  IF cells = << >> THEN f
        ELSE [i \in 1 .. Max({Len(f), end}) |->
                IF i > off /\ i <= off + Len(cells) THEN cells[i - off]
                ELSE IF i <= Len(f) THEN f[i] ELSE Byte(0)]

ftruncate(f, n) == SubSeq(f, 1, n) \o Zeros(n - Len(f))

-----------------------------------------------------------------------------
(* Records, as far as the file is concerned.                               *)

NULL == << >>
NewRec == [size |-> 0, attr |-> 0, ext |-> << >>, resident |-> FALSE, mem |-> NULL]

ext_total(ext) == FoldLeft(LAMBDA n, e : n + e.len, 0, ext)

\* The offset in the file of each byte that has a place there.
Places(ext) == FlattenSeq([i \in DOMAIN ext |-> [j \in 1 .. ext[i].len |->
                                                    ext[i].foff + j - 1]])

\* The first n bytes of the extents, or as many as there are.
Fetch(f, ext, n) ==
    LET p == Places(ext)
    IN  [i \in 1 .. Min({n, Len(p)}) |-> f[p[i] + 1]]

\* bytes written to the extents from their beginning.
Scatter(f, ext, bytes) ==
    LET p == Places(ext)
    IN  FoldLeft(LAMBDA g, i : [g EXCEPT ![p[i] + 1] = bytes[i]],
                 f, [i \in DOMAIN bytes |-> i])

\* The first size bytes of the buffer: past its end, whatever the heap has.
Buffer(r) == r.mem \o [i \in 1 .. (r.size - Len(r.mem)) |-> Byte(9)]

\* What a reader of the table and the file would see.
Content(toc, f) ==
    [k \in DOMAIN toc |->
        [size |-> toc[k].size, attr |-> toc[k].attr,
         bytes |-> IF toc[k].resident THEN Buffer(toc[k])
                   ELSE Fetch(f, toc[k].ext, toc[k].size)]]

\* One turn of ensure_extents: a hole that finishes the job, else the largest
\* worth having, else the tail; zeroed, whatever was there.
Turn(s, need) ==
    LET lack == need - ext_total(s.ext)
        want == round_up(lack)
        i == BestFit(s.fl, want)
        j == Largest(s.fl)
        Push(e, f, fend) == [ext |-> Append(s.ext, e), fl |-> f, end |-> fend,
                             file |-> pwrite(s.file, e.foff, Zeros(e.len))]
    IN  IF lack <= 0 THEN s
        ELSE IF Fitting(s.fl, want) # {}
        THEN Push([foff |-> s.fl[i].foff, len |-> want],
                  TakeFront(s.fl, i, want), s.end)
        ELSE IF /\ Len(s.ext) + 1 < LS_MAX_EXTENTS
                /\ s.fl # << >>
                /\ s.fl[j].len >= round_up(Min({LS_MIN_EXTENT, lack}))
        THEN Push(s.fl[j], RemoveAt(s.fl, j), s.end)
        ELSE Push([foff |-> s.end, len |-> want], s.fl, s.end + want)

ensure_extents(s, need) ==
    FoldLeft(LAMBDA x, i : Turn(x, need), s, [i \in 1 .. need |-> i])

\* What ensure_extents works on, for record r of the owner.
Space(r) == [ext |-> r.ext, fl |-> fl, end |-> file_end, file |-> file]

\* spill: room in extents for the whole record, and its bytes put there.
spill(r) ==
    LET s == ensure_extents(Space(r), r.size)
    IN  [s EXCEPT !.file = Scatter(@, s.ext, Buffer(r))]

-----------------------------------------------------------------------------
(* The table of contents in the file.                                      *)

\* One entry per record, in the order of the hash table.
toc_serialise(toc) ==
    LET keys == SetToSeq(DOMAIN toc)
    IN  [i \in DOMAIN keys |->
           Entry([key |-> keys[i], size |-> toc[keys[i]].size,
                  attr |-> toc[keys[i]].attr, ext |-> toc[keys[i]].ext])]

\* The superblock: where the table is, how much of it, and what it was.
Superblock(toc, fend) ==
    LET tb == toc_serialise(toc)
    IN  [toc_off |-> fend, toc_n |-> Len(tb), fend |-> fend, crc |-> tb,
         tlen |-> Len(tb)]

\* Slip: the table is what is left of the file.
TlenOfFile(sb, fsize) == fsize - sb.toc_off

\* A length of zero means a store from before it was recorded.
Tlen(sb, fsize) == IF sb.tlen = 0 THEN fsize - sb.toc_off ELSE sb.tlen

\* Slip: the CRC is not compared.
AnyCrc(sb, tb) == TRUE

CrcMatches(sb, tb) == tb = sb.crc

\* A record as an entry of the table describes it: nothing is resident.
LoadedRec(b) ==
    [size |-> b.size, attr |-> b.attr, ext |-> b.ext, resident |-> FALSE, mem |-> NULL]

\* The records of a table that checked out.
toc_load(tb, count) ==
    LET e(i) == tb[i][2]
    IN  [k \in {e(i).key : i \in 1 .. count} |->
           LoadedRec(e(CHOOSE i \in 1 .. count : e(i).key = k))]

AllExtents(toc) == UNION {Range(toc[k].ext) : k \in DOMAIN toc}

\* Slip: the gap before the first extent is overlooked.
InnerGap(cur, e) == e.foff > cur /\ cur # LS_SUPER_SIZE

Gap(cur, e) == e.foff > cur

\* Slip: the next gap is looked for from the front of the extent.
PastNothing(e) == e.foff

Past(e) == End(e)

\* cmp_ext: the extents in the order of their offsets.
Sorted(S) ==
    CHOOSE s \in SetToSeqs(S) :
        \A i, j \in DOMAIN s : i < j => s[i].foff <= s[j].foff

\* The holes are the gaps between extents; an overlap is refused.
rebuild_free_list(toc, fend) ==
    LET all == Sorted(AllExtents(toc))
        Hole(lo, hi) == [foff |-> lo, len |-> hi - lo]
    IN  FoldLeft(LAMBDA s, e :
            [fl  |-> IF Gap(s.cur, e)
                     THEN fl_insert(s.fl, fend, Hole(s.cur, e.foff)).fl
                     ELSE s.fl,
             cur |-> Past(e),
             ok  |-> s.ok /\ e.foff >= s.cur],
            [fl |-> << >>, cur |-> LS_SUPER_SIZE, ok |-> TRUE], all)

Refused == [ok |-> FALSE, rec |-> << >>, fl |-> << >>, end |-> 0]

\* What ls_open makes of a file that is not empty.
Load(f) ==
    LET sb == f[1][2]
        fsize == Len(f)
        tlen == Tlen(sb, fsize)
        tb == SubSeq(f, sb.toc_off + 1, sb.toc_off + tlen)
        toc == toc_load(tb, sb.toc_n)
        free == rebuild_free_list(toc, sb.fend)
    IN  IF /\ fsize >= LS_SUPER_SIZE
           /\ f[1][1] = "super"
           /\ sb.toc_off >= LS_SUPER_SIZE /\ sb.toc_off <= fsize
           /\ tlen <= fsize - sb.toc_off
           /\ CrcMatches(sb, tb)
           /\ \A i \in 1 .. sb.toc_n : tb[i][1] = "entry"
           /\ \A e \in AllExtents(toc) :
                e.foff >= LS_SUPER_SIZE /\ End(e) <= sb.fend
           /\ free.ok
        THEN [ok |-> TRUE, rec |-> toc, fl |-> free.fl, end |-> sb.fend]
        ELSE Refused

Opens(f) == Load(f).ok

-----------------------------------------------------------------------------
(* ls_open by the owner.                                                   *)

Init ==
    /\ setting \in DOMAIN Settings
    /\ file = << >> /\ platter = << >> /\ path = "none"
    /\ at = "none" /\ named = FALSE /\ rec = << >> /\ fl = << >>
    /\ file_end = 0 /\ first = "LS_OK"
    /\ sharer = [p \in Procs |-> << >>]
    /\ opens = 0 /\ kept = << >> /\ safe = << >> /\ written = {}

\* Nobody else may have the store open.
MayOpen ==
    /\ at = "none"
    /\ path # "theirs"
    /\ \A p \in Procs : sharer[p] = << >>
    /\ opens < MaxOpens
    /\ opens' = opens + 1
    /\ kept' = << >>
    /\ safe' = << >>

Begin(toc, f, fend) ==
    /\ at' = "open"
    /\ named' = TRUE
    /\ rec' = toc
    /\ fl' = f
    /\ file_end' = fend
    /\ first' = "LS_OK"

\* There is no file, or an empty one: the superblock's room is made.
ls_open_new ==
    /\ MayOpen
    /\ file = << >>
    /\ path' = "ours"
    /\ \/ file' = Zeros(LS_SUPER_SIZE) /\ Begin(<< >>, << >>, LS_SUPER_SIZE)
       \/ Faults /\ UNCHANGED <<file, owner>>
    /\ UNCHANGED <<platter, sharer, written>>

\* The table is loaded and the free list rebuilt; a file that does not check
\* out is refused, which changes nothing.
ls_open_kept ==
    LET now == Load(file)
    IN  /\ MayOpen
        /\ now.ok
        /\ Begin(now.rec, now.fl, now.end)
        /\ UNCHANGED <<disk, sharer, written>>

-----------------------------------------------------------------------------
(* Calls of the owner.                                                     *)

Found(k) == IF k \in DOMAIN rec THEN rec[k] ELSE NewRec

\* The record is k's now, with the space s.
Update(k, r, s) ==
    /\ rec' = Bind(rec, k, [r EXCEPT !.ext = s.ext])
    /\ fl' = s.fl
    /\ file_end' = s.end
    /\ file' = s.file
    /\ file_end' <= MaxEnd
    /\ UNCHANGED <<platter, path, at, named, first, sharer, history>>

\* ls_reserve, or a write past the end: ensure_cap, then the size.
Grow(k, n) ==
    LET r == Found(k)
        sized == [r EXCEPT !.size = Max({@, n})]
        fits == IF r.resident THEN n <= Len(r.mem) ELSE n <= ext_total(r.ext)
    IN  /\ at = "open"
        /\ \/ fits /\ Update(k, sized, Space(r))
           \/ /\ ~fits /\ Budgeted /\ r.ext = << >>
              /\ Update(k, [sized EXCEPT !.resident = TRUE,
                                         !.mem = r.mem \o Zeros(n - Len(r.mem))],
                        Space(r))
           \/ /\ ~fits
              /\ Update(k, [sized EXCEPT !.resident = FALSE, !.mem = NULL],
                        ensure_extents(IF r.resident THEN spill(r) ELSE Space(r), n))

\* A byte for which there is room is written.
Write(k, i) ==
    /\ at = "open"
    /\ k \in DOMAIN rec
    /\ i \in 1 .. rec[k].size
    /\ IF rec[k].resident
       THEN /\ i <= Len(rec[k].mem)
            /\ rec' = Bind(rec, k, [rec[k] EXCEPT !.mem[i] = Byte(1)])
            /\ UNCHANGED file
       ELSE /\ i <= ext_total(rec[k].ext)
            /\ file' = [file EXCEPT ![Places(rec[k].ext)[i] + 1] = Byte(1)]
            /\ UNCHANGED rec
    /\ UNCHANGED <<platter, path, at, named, fl, file_end, first, sharer, history>>

ls_set_attr(k, a) ==
    /\ at = "open"
    /\ rec' = Bind(rec, k, [Found(k) EXCEPT !.attr = a])
    /\ UNCHANGED <<disk, at, named, fl, file_end, first, sharer, history>>

\* The extents go back one by one.
GiveBack(f, fend, ext) ==
    FoldLeft(LAMBDA x, e : fl_insert(x.fl, x.file_end, e),
             [fl |-> f, file_end |-> fend], ext)

\* The file shrinks with file_end.
ls_erase(k) ==
    LET s == GiveBack(fl, file_end, rec[k].ext)
    IN  /\ at = "open"
        /\ k \in DOMAIN rec
        /\ rec' = Without(rec, k)
        /\ fl' = s.fl
        /\ file_end' = s.file_end
        /\ \/ file' = IF s.file_end < file_end THEN ftruncate(file, s.file_end)
                                               ELSE file
           \/ Faults /\ UNCHANGED file
        /\ UNCHANGED <<platter, path, at, named, first, sharer, history>>

\* Slip: the path is not forgotten.
UnlinkRemembers ==
    /\ Anonymous
    /\ at = "open"
    /\ named
    /\ path' = "none"
    /\ UNCHANGED <<file, platter, owner, sharer, history>>

\* The file loses its name and is the owner's until it closes.
ls_unlink_now ==
    /\ Anonymous
    /\ at = "open"
    /\ named
    /\ path' = "none"
    /\ named' = FALSE
    /\ UNCHANGED <<file, platter, at, rec, fl, file_end, first, sharer, history>>

\* The name is free, and another program makes a file of that name.
OtherFile ==
    /\ at # "none"
    /\ path = "none"
    /\ path' = "theirs"
    /\ UNCHANGED <<file, platter, owner, sharer, history>>

-----------------------------------------------------------------------------
(* ls_close by the owner.                                                  *)

Residents == {k \in DOMAIN rec : rec[k].resident}

Step(from, to) == at = from /\ at' = to

\* The first error is the one returned.
Note(error) == first' = IF first = "LS_OK" THEN error ELSE first

\* The process no longer has the store: nor does anyone, if it has no name.
Gone ==
    /\ at' = "none"
    /\ named' = FALSE
    /\ rec' = << >> /\ fl' = << >> /\ file_end' = 0 /\ first' = "LS_OK"

\* keep = 0: the file is unlinked, unless ls_unlink_now has done it.  If that
\* fails nobody is told.
ls_close_drop ==
    /\ at = "open"
    /\ \/ /\ path' = IF named THEN "none" ELSE path
          /\ file' = << >>
          /\ platter' = << >>
       \/ named /\ Faults /\ UNCHANGED disk
    /\ Gone
    /\ UNCHANGED <<sharer, history>>

\* keep = 1 begins.
ls_close_keep ==
    /\ Step("open", "spill")
    /\ UNCHANGED <<disk, named, rec, fl, file_end, first, sharer, history>>

\* ls_spill_all: one resident record after another.
SpillOne(k) ==
    LET s == spill(rec[k])
    IN  /\ Step("spill", "spill")
        /\ k \in Residents
        /\ s.end <= MaxEnd
        /\ rec' = Bind(rec, k, [rec[k] EXCEPT !.ext = s.ext, !.resident = FALSE,
                                              !.mem = NULL])
        /\ fl' = s.fl
        /\ file_end' = s.end
        /\ file' = s.file
        /\ UNCHANGED <<platter, path, named, first, sharer, history>>

\* It stops at the first that fails: with no room for the record, or with
\* room that has not been written to.  ls_close goes on.
SpillFails(k) ==
    LET s == ensure_extents(Space(rec[k]), rec[k].size)
    IN  /\ Step("spill", "toc")
        /\ Faults
        /\ k \in Residents
        /\ Note("error")
        /\ \/ UNCHANGED <<rec, fl, file_end, file>>
           \/ /\ s.end <= MaxEnd
              /\ rec' = Bind(rec, k, [rec[k] EXCEPT !.ext = s.ext])
              /\ fl' = s.fl
              /\ file_end' = s.end
              /\ file' = s.file
        /\ UNCHANGED <<platter, path, named, sharer, history>>

SpilledAll ==
    /\ Step("spill", "toc")
    /\ Residents = {}
    /\ UNCHANGED <<disk, named, rec, fl, file_end, first, sharer, history>>

\* The table goes to file_end, past every extent.
WriteToc ==
    /\ Step("toc", "super")
    /\ file' = pwrite(file, file_end, toc_serialise(rec))
    /\ UNCHANGED <<platter, path, named, rec, fl, file_end, first, sharer, history>>

\* It is written in part, or cannot be serialised at all.
TocFails ==
    /\ Step("toc", "end")
    /\ Faults
    /\ \E n \in 0 .. Cardinality(DOMAIN rec) :
         file' = pwrite(file, file_end, SubSeq(toc_serialise(rec), 1, n))
    /\ Note("error")
    /\ UNCHANGED <<platter, path, named, rec, fl, file_end, sharer, history>>

\* The superblock follows: from here on the file is the new store.
WriteSuper ==
    /\ Step("super", "sync")
    /\ file' = pwrite(file, 0, <<Super(Superblock(rec, file_end))>>
                                 \o Zeros(LS_SUPER_SIZE - 1))
    /\ written' = written \cup {toc_serialise(rec)}
    /\ UNCHANGED <<platter, path, named, rec, fl, file_end, first, sharer,
                   opens, kept, safe>>

SuperFails ==
    /\ Step("super", "end")
    /\ Faults
    /\ Note("error")
    /\ UNCHANGED <<disk, named, rec, fl, file_end, sharer, history>>

\* fsync, if durable_close asks for it.
Sync ==
    /\ Step("sync", "end")
    /\ platter' = IF Durable THEN file ELSE platter
    /\ UNCHANGED <<file, path, named, rec, fl, file_end, first, sharer, history>>

SyncFails ==
    /\ Step("sync", "end")
    /\ Durable /\ Faults
    /\ Note("error")
    /\ UNCHANGED <<disk, named, rec, fl, file_end, sharer, history>>

\* What a kept close that returns LS_OK promises of the file.
Promise == [content |-> Content(rec, file), fl |-> fl, end |-> file_end]

\* Teardown.  A store without a name goes with its last descriptor.
Finish ==
    /\ at = "end"
    /\ kept' = IF first = "LS_OK" /\ named THEN <<Promise>> ELSE << >>
    /\ safe' = IF Durable THEN kept' ELSE << >>
    /\ IF named THEN UNCHANGED <<file, platter>> ELSE file' = << >> /\ platter' = << >>
    /\ Gone
    /\ UNCHANGED <<path, sharer, opens, written>>

-----------------------------------------------------------------------------
(* LS_SHARED.                                                              *)

\* A store to share must be there.  If none is, the attempt leaves an empty
\* file.
SharedOpen(p) ==
    /\ Shared
    /\ at = "none"
    /\ sharer[p] = << >>
    /\ path # "theirs"
    /\ \/ /\ file = << >>
          /\ path' = "ours"
          /\ UNCHANGED sharer
       \/ /\ Opens(file)
          /\ sharer' = [sharer EXCEPT ![p] = <<Load(file).rec>>]
          /\ UNCHANGED path
    /\ UNCHANGED <<file, platter, owner, history>>

\* A byte inside an existing record; anything else is refused.
SharedWrite(p, k, i) ==
    LET r == sharer[p][1][k]
    IN  /\ sharer[p] # << >>
        /\ k \in DOMAIN sharer[p][1]
        /\ i \in 1 .. Min({r.size, ext_total(r.ext)})
        /\ file' = [file EXCEPT ![Places(r.ext)[i] + 1] = Byte(1)]
        /\ kept' = IF kept = << >> THEN kept
                   ELSE [kept EXCEPT ![1].content[k].bytes[i] = Byte(1)]
        /\ safe' = << >>
        /\ UNCHANGED <<platter, path, owner, sharer, opens, written>>

\* Slip: keep = 0 is taken at its word.
SharedDrop(p) ==
    /\ sharer[p] # << >>
    /\ sharer' = [sharer EXCEPT ![p] = << >>]
    /\ path' = "none"
    /\ UNCHANGED <<file, platter, owner, history>>

\* The store is kept and nothing is written or synced, whatever was asked for.
SharedClose(p) ==
    /\ sharer[p] # << >>
    /\ sharer' = [sharer EXCEPT ![p] = << >>]
    /\ UNCHANGED <<disk, owner, history>>

-----------------------------------------------------------------------------
(* The owner, or the machine, dies.                                        *)

Crash ==
    /\ at # "none"
    /\ IF named THEN UNCHANGED <<file, platter>> ELSE file' = << >> /\ platter' = << >>
    /\ Gone
    /\ UNCHANGED <<path, sharer, history>>

\* A file of which any of the cells that differ, and perhaps the length, are
\* from g.
Mixes(f, g) ==
    LET cell(h, i) == IF i <= Len(h) THEN h[i] ELSE Byte(0)
        differ(n) == {i \in 1 .. n : cell(f, i) # cell(g, i)}
    IN  UNION {{[i \in 1 .. n |-> IF i \in old THEN cell(g, i) ELSE cell(f, i)]
                    : old \in SUBSET differ(n)} : n \in {Len(f), Len(g)}}

\* What was not synced may be on the medium or not.
PowerLoss ==
    /\ PowerFails
    /\ path = "ours"
    /\ file # platter
    /\ file' \in Mixes(file, platter)
    /\ platter' = file'
    /\ Gone
    /\ sharer' = [p \in Procs |-> << >>]
    /\ kept' = safe
    /\ UNCHANGED <<path, opens, safe, written>>

-----------------------------------------------------------------------------
Steps ==
    \/ ls_open_new \/ ls_open_kept
    \/ \E k \in Keys :
         \/ \E n \in Sizes : Grow(k, n)
         \/ \E i \in Spots : Write(k, i)
         \/ \E a \in Attrs : ls_set_attr(k, a)
         \/ ls_erase(k)
         \/ SpillOne(k) \/ SpillFails(k)
    \/ ls_unlink_now \/ OtherFile
    \/ ls_close_drop \/ ls_close_keep \/ SpilledAll \/ WriteToc \/ TocFails
    \/ WriteSuper \/ SuperFails \/ Sync \/ SyncFails \/ Finish
    \/ \E p \in Procs :
         \/ SharedOpen(p) \/ SharedClose(p)
         \/ \E k \in Keys, i \in Spots : SharedWrite(p, k, i)
    \/ Crash \/ PowerLoss

Next == Steps /\ UNCHANGED setting

Spec == Init /\ [][Next]_vars

-----------------------------------------------------------------------------
(* Correctness.                                                            *)

TypeOK ==
    /\ setting \in DOMAIN Settings
    /\ path \in {"none", "ours", "theirs"}
    /\ at \in {"none", "open", "spill", "toc", "super", "sync", "end"}
    /\ named \in BOOLEAN
    /\ DOMAIN rec \subseteq Keys
    /\ \A k \in DOMAIN rec :
         /\ rec[k].size \in Nat /\ rec[k].attr \in Attrs
         /\ \A i \in DOMAIN rec[k].ext : rec[k].ext[i] \in Extent
         /\ rec[k].resident <=> rec[k].mem # NULL
    /\ \A i \in DOMAIN fl : fl[i] \in Extent
    /\ first \in {"LS_OK", "error"}
    /\ DOMAIN sharer = Procs
    /\ opens \in 0 .. MaxOpens
    /\ path = "none" /\ at = "none" => file = << >>

\* The file that ls_close(keep=1) has kept loads with the records, sizes,
\* attributes and bytes the store had, and those sharing processes wrote since,
\* for as long as nobody else opens it; after a power failure too, if
\* durable_close was set.  The directory entry, which ls_close does not sync,
\* is taken to have survived.
KeptReadable ==
    kept # << >> /\ DOMAIN kept[1].content # {} =>
        LET now == Load(file)
        IN  now.ok /\ Content(now.rec, file) = kept[1].content

\* The free list ls_open rebuilds from the gaps is the one ls_close had kept
\* up by insertion: no hole is lost or invented over a close.  Here no
\* insertion runs out of memory, which would leave a gap off the list.
FreeListRebuilt ==
    kept # << >> =>
        LET now == Load(file)
        IN  now.ok => now.fl = kept[1].fl /\ now.end = kept[1].end

\* Whatever died, and wherever, a file that opens at all has a table that some
\* ls_close wrote, whole: no half of one and no mixture of two.
CrashConsistent ==
    LET now == Load(file)
    IN  now.ok => toc_serialise(now.rec) \in written

\* The processes that share a store agree with the file on the place of every
\* record, and none of them takes the file away from the others.
SharedCoherent ==
    \A p \in Procs : sharer[p] # << >> =>
        LET now == Load(file)
        IN  path = "ours" /\ now.ok /\ sharer[p][1] = now.rec

\* Extents of records, holes and the end of the file: the owner's records do
\* not overlap each other or a hole, also when the table came from a file.
SpaceDisjoint ==
    at # "none" =>
        LET keys == SetToSeq(DOMAIN rec)
            all == FlattenSeq([i \in DOMAIN keys |-> rec[keys[i]].ext]) \o fl
        IN  \A i, j \in DOMAIN all :
                /\ End(all[i]) <= file_end
                /\ i # j => Bytes(all[i]) \cap Bytes(all[j]) = {}

\* After ls_unlink_now the name may be another program's: ls_close leaves it.
OthersKept == [][path = "theirs" => path' = "theirs"]_vars

\* open.c on the table of contents: it exists so that a scratch file can be
\* reopened.  That includes a store with no records in it.
EmptyReopens == kept # << >> => Opens(file)
=============================================================================
