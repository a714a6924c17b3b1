------------------------------- MODULE MCHdf5 -------------------------------
(* Hdf5 for TLC: the calls threads make, in bytes.                          *)
EXTENDS Hdf5

CONSTANTS k1, k2, t1, t2

MCKeys == {k1, k2}
MCThreads == {t1, t2}

Range1(off, n) == <<[off |-> off, n |-> n]>>
Range2(o, m, p, n) == Range1(o, m) \o Range1(p, n)
Call(op, k, segs) == [op |-> op, key |-> k, segs |-> segs, val |-> 1]

\* A vectored write with a gap, into which others write, read and accumulate;
\* appends; and a second record that comes and goes.
MCCalls ==
    {Call("write", k1, Range2(0, 1, 3, 1)),
     Call("write", k1, Range1(1, 1)),
     Call("read", k1, Range2(0, 1, 2, 1)),
     Call("acc", k1, Range1(1, 2)),
     Call("append", k1, Range1(0, 2)),
     Call("reserve", k1, Range1(0, 3)),
     Call("erase", k1, << >>),
     Call("attr", k2, << >>),
     Call("getattr", k2, << >>),
     Call("erase", k2, << >>)}

\* A record of one byte and an accumulate that goes past it.
StraddleCalls ==
    {Call("write", k1, Range1(0, 1)), Call("acc", k1, Range1(0, 2))}

\* A record of one byte, an accumulate on that, and appends.
InsideCalls ==
    {Call("write", k1, Range1(0, 1)), Call("acc", k1, Range1(0, 1)),
     Call("append", k1, Range1(0, 1))}
=============================================================================
