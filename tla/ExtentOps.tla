------------------------------ MODULE ExtentOps ------------------------------
(***************************************************************************)
(* The free-list algorithms of alloc.c as operators on values.  A free     *)
(* list is a sequence of extents [foff, len] ordered by file offset (the   *)
(* C array s->fl[0..nfl-1]); indices are one higher than in the C code.    *)
(* The state machines that own a free list (ExtentAlloc, Store) apply      *)
(* these operators to their variables.                                     *)
(***************************************************************************)
EXTENDS Integers, Sequences, SequencesExt

CONSTANTS LS_ALIGN,        \* extent alignment
          LS_SUPER_SIZE    \* the superblock, and the first data offset

ASSUME AlignAssumption == LS_ALIGN \in Nat \ {0}
ASSUME SuperAssumption == LS_SUPER_SIZE \in Nat \ {0}

Extent == [foff : Nat, len : Nat \ {0}]

End(e) == e.foff + e.len
Bytes(e) == e.foff .. (End(e) - 1)

\* Slip: sizes are not rounded.
NotRounded(n) == n

round_up(n) ==
    LET x == n + (LS_ALIGN - 1) IN x - (x % LS_ALIGN)

-----------------------------------------------------------------------------
(* fl_insert: where the new hole goes, and what it merges with.            *)

\* The scan stops at the first hole at or above foff.
InsertPos(f, foff) ==
    Min({i \in 1 .. (Len(f) + 1) : i = Len(f) + 1 \/ f[i].foff >= foff})

MergesLeft(f, i, foff) == i > 1 /\ End(f[i - 1]) = foff

InsertOrMergeLeft(f, i, e) ==
    IF MergesLeft(f, i, e.foff)
    THEN [f EXCEPT ![i - 1] = [foff |-> @.foff, len |-> @.len + e.len]]
    ELSE InsertAt(f, i, e)

\* Slip: the hole on the right is never looked at.
NoMergeRight(f, i) == f

MergeRight(f, i) ==
    IF i < Len(f) /\ End(f[i]) = f[i + 1].foff
    THEN RemoveAt([f EXCEPT ![i] = [foff |-> @.foff,
                                    len  |-> @.len + f[i + 1].len]], i + 1)
    ELSE f

Coalesce(f, e) ==
    LET i == InsertPos(f, e.foff)
        k == IF MergesLeft(f, i, e.foff) THEN i - 1 ELSE i
    IN  MergeRight(InsertOrMergeLeft(f, i, e), k)

\* Slip: the file keeps its high-water mark.
NoTrailingHole(f, fend) == FALSE

\* A hole that runs to the end of the file is not a hole, it is the end.
TrailingHole(f, fend) == f # << >> /\ End(f[Len(f)]) = fend

\* The free list and the end of file after e has been given back.
fl_insert(f, fend, e) ==
    LET g == IF e.len = 0 THEN f ELSE Coalesce(f, e)
    IN  IF e.len # 0 /\ TrailingHole(g, fend)
        THEN [fl |-> SubSeq(g, 1, Len(g) - 1), file_end |-> g[Len(g)].foff]
        ELSE [fl |-> g, file_end |-> fend]

\* Only an insertion that merges left needs no new slot in the array.
NeedsSlot(f, e) == ~MergesLeft(f, InsertPos(f, e.foff), e.foff)

-----------------------------------------------------------------------------
(* The two hole searches, and how a hole is taken.                         *)

Fitting(f, need) == {i \in DOMAIN f : f[i].len >= need}

\* The first of the smallest holes that cover need.
BestFit(f, need) ==
    LET fit == Fitting(f, need)
    IN  CHOOSE i \in fit : \A j \in fit :
            f[i].len < f[j].len \/ (f[i].len = f[j].len /\ i <= j)

\* The first of the largest holes.
Largest(f) ==
    CHOOSE i \in DOMAIN f : \A j \in DOMAIN f :
        f[i].len > f[j].len \/ (f[i].len = f[j].len /\ i <= j)

\* Slips: an exact fit leaves an empty hole; the rest of the hole is dropped;
\* the hole stays as it was.
TakeKeepsEmpty(f, i, need) ==
    [f EXCEPT ![i] = [foff |-> @.foff + need, len |-> @.len - need]]
TakeDropsRest(f, i, need) == RemoveAt(f, i)
TakeNothing(f, i, need) == f

\* The front of hole i is handed out; an exact fit leaves no hole behind.
TakeFront(f, i, need) ==
    IF f[i].len = need
    THEN RemoveAt(f, i)
    ELSE [f EXCEPT ![i] = [foff |-> @.foff + need, len |-> @.len - need]]

HoleBytes(f) == UNION {Bytes(f[i]) : i \in DOMAIN f}
=============================================================================
