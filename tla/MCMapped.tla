------------------------------ MODULE MCMapped ------------------------------
(* Mapped for TLC: two records, two threads.                                *)
EXTENDS Mapped

CONSTANTS k1, k2, t1, t2

MCKeys == {k1, k2}
MCThreads == {t1, t2}
Symmetric == Permutations(MCKeys) \cup Permutations(MCThreads)
=============================================================================
