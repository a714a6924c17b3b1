------------------------------ MODULE MCStore ------------------------------
(* Store for TLC: the calls threads make in each run, in bytes.             *)
EXTENDS Store, TLC

CONSTANTS k1, k2, k3, t1, t2

MCKeys == {k1, k2, k3}
MCThreads == {t1, t2}
Symmetric == Permutations(MCThreads)

Seg(off, n) == [off |-> off, n |-> n]
CallOf(op, k, segs) == [op |-> op, key |-> k, segs |-> segs, val |-> 1]

Empty == << >>

\* Three records of which the budget holds two.  k2 fits at first and outgrows
\* the budget; to let it in, both others may have to go.  Calls on k1 have
\* two segments, and k2 is written past its end.
TierCalls ==
    {CallOf("write", k1, <<Seg(0, 1), Seg(2, 1)>>),
     CallOf("read", k1, <<Seg(0, 1), Seg(2, 1)>>),
     CallOf("erase", k1, << >>),
     CallOf("write", k2, <<Seg(0, 1)>>),
     CallOf("acc", k2, <<Seg(0, 3)>>),
     CallOf("write", k2, <<Seg(4, 1)>>),
     CallOf("read", k2, <<Seg(1, 1)>>),
     CallOf("write", k3, <<Seg(0, 1)>>),
     CallOf("erase", k3, << >>)}

\* A reopened file with k1 in it and the old table of contents behind, one
\* record that wants more than there is left of the disk, and reserved space.
FaultCalls ==
    {CallOf("write", k1, <<Seg(1, 2)>>),
     CallOf("erase", k1, << >>),
     CallOf("write", k2, <<Seg(1, 1)>>),
     CallOf("reserve", k2, <<Seg(0, 4)>>),
     CallOf("erase", k2, << >>)}
Reopened == <<[key |-> k1, size |-> 1, ext |-> [foff |-> 2, len |-> 2]]>>

\* Calls that threads may make on one key at a time: disjoint ranges, also of
\* one block, and appends.
SharedCalls ==
    {CallOf("append", k1, <<Seg(0, 1)>>),
     CallOf("write", k1, <<Seg(0, 1)>>),
     CallOf("acc", k1, <<Seg(1, 3)>>),
     CallOf("read", k1, <<Seg(0, 2)>>),
     CallOf("erase", k1, << >>)}

\* Unaligned ranges of two records that lie next to each other.
DirectCalls ==
    {CallOf("write", k1, <<Seg(1, 2)>>),
     CallOf("acc", k1, <<Seg(0, 2)>>),
     CallOf("read", k1, <<Seg(1, 2)>>),
     CallOf("write", k2, <<Seg(0, 1)>>),
     CallOf("write", k2, <<Seg(3, 1)>>),
     CallOf("erase", k2, << >>)}

\* How a store is opened, and what its callers do with it.
Use(budget, direct, same_key, calls) ==
    [memory_budget |-> budget, direct |-> direct, same_key |-> same_key,
     calls |-> calls]

\* The combinations for which the documents' promises hold.
ThreadSettings ==
    "tiers" :> Use(4, FALSE, FALSE, TierCalls)
      @@ "shared" :> Use(0, FALSE, TRUE, SharedCalls)
      @@ "direct" :> Use(0, TRUE, FALSE, DirectCalls)
FaultSettings == "faults" :> Use(3, FALSE, FALSE, FaultCalls)

\* One key at a time, with a memory tier, and with O_DIRECT.
RaceSettings == "race" :> Use(4, FALSE, TRUE, SharedCalls)
DirectRaceSettings == "direct_race" :> Use(0, TRUE, TRUE, SharedCalls)
============================================================================
