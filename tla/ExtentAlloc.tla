----------------------------- MODULE ExtentAlloc -----------------------------
(***************************************************************************)
(* The extent allocator of alloc.c as a state machine: one action per      *)
(* entry point, all serialised by alloc_lk.  ls_free_extents keeps the     *)
(* lock while it gives back several extents, one fl_insert each; the ones  *)
(* still to be given back are in freeing, and while there are any the lock *)
(* is taken.                                                               *)
(*                                                                         *)
(* held and lost are what the callers own, not C state: the extents handed *)
(* out and not given back, and the ones fl_insert dropped because the hole *)
(* array could not grow.                                                   *)
(***************************************************************************)
EXTENDS ExtentOps

CONSTANTS Requests,   \* the sizes callers ask for
          FlCap0,     \* first capacity of the hole array (16 in the code)
          MaxEnd      \* bound on file_end

ASSUME RequestsAssumption == Requests \subseteq Nat \ {0}
ASSUME FlCapAssumption == FlCap0 \in Nat \ {0}

VARIABLES
    fl,        \* s->fl, s->nfl
    flcap,     \* s->flcap
    file_end,  \* s->file_end
    freeing,   \* extents ls_free_extents has still to insert
    held,      \* extents callers own
    lost       \* extents whose insertion failed for want of memory

vars == <<fl, flcap, file_end, freeing, held, lost>>

Init ==
    /\ fl = << >>
    /\ flcap = 0
    /\ file_end = LS_SUPER_SIZE
    /\ freeing = {}
    /\ held = {}
    /\ lost = {}

-----------------------------------------------------------------------------
ls_alloc_best(n) ==
    LET need == round_up(n)
        i    == BestFit(fl, need)
    IN  /\ freeing = {}
        /\ Fitting(fl, need) # {}
        /\ held' = held \cup {[foff |-> fl[i].foff, len |-> need]}
        /\ fl' = TakeFront(fl, i, need)
        /\ UNCHANGED <<flcap, file_end, freeing, lost>>

ls_alloc_largest(least) ==
    LET i == Largest(fl)
    IN  /\ freeing = {}
        /\ fl # << >>
        /\ fl[i].len >= round_up(least)
        /\ held' = held \cup {fl[i]}
        /\ fl' = RemoveAt(fl, i)
        /\ UNCHANGED <<flcap, file_end, freeing, lost>>

ls_alloc_tail(n) ==
    /\ freeing = {}
    /\ file_end + round_up(n) <= MaxEnd
    /\ held' = held \cup {[foff |-> file_end, len |-> round_up(n)]}
    /\ file_end' = file_end + round_up(n)
    /\ UNCHANGED <<fl, flcap, freeing, lost>>

\* A record's extents go back together, under one alloc_lk.
ls_free_extents(es) ==
    /\ freeing = {}
    /\ es # {}
    /\ freeing' = es
    /\ held' = held \ es
    /\ UNCHANGED <<fl, flcap, file_end, lost>>

-----------------------------------------------------------------------------
\* What fl_reserve grows the array to: doubled until it holds want holes,
\* which one doubling does, since nfl never exceeds flcap.
GrownCap == IF flcap = 0 THEN FlCap0 ELSE 2 * flcap

FreeOne(e) ==
    LET grow == NeedsSlot(fl, e) /\ Len(fl) + 1 > flcap
        r    == fl_insert(fl, file_end, e)
    IN  /\ e \in freeing
        /\ fl' = r.fl
        /\ file_end' = r.file_end
        /\ flcap' = IF grow THEN GrownCap ELSE flcap
        /\ freeing' = freeing \ {e}
        /\ UNCHANGED <<held, lost>>

\* fl_reserve returns -ENOMEM and ls_free_extents ignores it.
FreeOneNoMem(e) ==
    /\ e \in freeing
    /\ NeedsSlot(fl, e)
    /\ Len(fl) + 1 > flcap
    /\ freeing' = freeing \ {e}
    /\ lost' = lost \cup {e}
    /\ UNCHANGED <<fl, flcap, file_end, held>>

Next ==
    \/ \E n \in Requests : ls_alloc_best(n)
    \/ \E n \in Requests : ls_alloc_largest(n)
    \/ \E n \in Requests : ls_alloc_tail(n)
    \/ \E es \in SUBSET held : ls_free_extents(es)
    \/ \E e \in freeing : FreeOne(e)
    \/ \E e \in freeing : FreeOneNoMem(e)

Spec == Init /\ [][Next]_vars

\* uint64_t ls_alloc_live(ls_store *s)
ls_alloc_live ==
    file_end - LS_SUPER_SIZE
        - FoldLeft(LAMBDA sum, h : sum + h.len, 0, fl)

-----------------------------------------------------------------------------
(* Correctness.                                                            *)

Owned == held \cup freeing \cup lost

TypeOK ==
    /\ fl \in Seq(Extent)
    /\ flcap \in Nat
    /\ file_end \in Nat
    /\ freeing \subseteq Extent
    /\ held \subseteq Extent
    /\ lost \subseteq Extent

\* The free list is sorted, its holes are disjoint and no two of them touch
\* (fl_insert has merged every pair that did), and none reaches the end of
\* the file (fl_insert hands such space back).  The scan of fl_insert and its
\* two-neighbour merge are right only for such a list.
FreeListCanonical ==
    /\ \A i, j \in DOMAIN fl : i < j => End(fl[i]) < fl[j].foff
    /\ \A i \in DOMAIN fl : End(fl[i]) < file_end

\* Every byte between the superblock and file_end is in a hole or in an
\* extent some caller owns, never in both: nothing is handed out twice,
\* nothing disappears, nothing lies over the superblock or past the end, and
\* giving back the tail never cuts into the superblock.
SpacePartitioned ==
    /\ LS_SUPER_SIZE <= file_end
    /\ HoleBytes(fl) \cup UNION {Bytes(e) : e \in Owned}
          = LS_SUPER_SIZE .. (file_end - 1)
    /\ HoleBytes(fl) \cap UNION {Bytes(e) : e \in Owned} = {}

\* No byte belongs to two owners: two extents handed out never overlap, and
\* an extent being given back is nobody's.
OwnersDisjoint ==
    /\ \A d, e \in Owned : d # e => Bytes(d) \cap Bytes(e) = {}
    /\ held \cap freeing = {}
    /\ held \cap lost = {}
    /\ freeing \cap lost = {}

\* Once everything has been given back the file is its superblock again,
\* however allocations and releases were interleaved (the file does not keep
\* its high-water mark).
EmptyWhenDrained ==
    Owned = {} => fl = << >> /\ file_end = LS_SUPER_SIZE

\* ls_alloc_live, which the tests read, is the space callers own.
LiveIsOwned == ls_alloc_live = MapThenSumSet(LAMBDA e : e.len, Owned)

\* Extents and holes start and end on LS_ALIGN boundaries (O_DIRECT needs
\* it), provided the superblock is a whole number of them.
Aligned ==
    \A e \in Owned \cup Range(fl) :
        (e.foff - LS_SUPER_SIZE) % LS_ALIGN = 0 /\ e.len % LS_ALIGN = 0
=============================================================================
