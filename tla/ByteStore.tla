----------------------------- MODULE ByteStore -----------------------------
(***************************************************************************)
(* What a store promises its callers: keyed, growing runs of bytes.  Which *)
(* tier a record is in, where its extents are and what is being evicted do *)
(* not exist here.                                                         *)
(*                                                                         *)
(* The bytes of a call in progress change in any order and any grouping,   *)
(* and a call that fails may have changed some of them; what it may never  *)
(* do is change anything else.                                             *)
(***************************************************************************)
EXTENDS Integers, Sequences

CONSTANTS Keys, Threads, Combine(_, _), InitContent

VARIABLES content,   \* key -> bytes
          active     \* thread -> the call it is in

vars == <<content, active>>

Grow == {"write", "append", "acc", "reserve"}

Zeros(n) == [i \in 1 .. n |-> 0]

\* The ends of a call's ranges.
Ends(c) == {c.segs[i].off + c.segs[i].n : i \in DOMAIN c.segs}

InRange(c, o) ==
    \E i \in DOMAIN c.segs : c.segs[i].off <= o /\ o < c.segs[i].off + c.segs[i].n

Init ==
    /\ content = InitContent
    /\ \A t \in Threads : active[t].op = "none"

\* A thread enters or leaves a call.
Caller(t) ==
    /\ UNCHANGED content
    /\ \A u \in Threads \ {t} : active'[u] = active[u]

\* A call that writes, or sets an attribute, binds a new key to an empty
\* record, or to zeros for its range.
Create(t) ==
    LET k == active'[t].key
    IN  /\ active'[t].op \in Grow \cup {"attr"}
        /\ k \notin DOMAIN content
        /\ \E n \in {0} \cup Ends(active'[t]) :
             content' = [j \in DOMAIN content \cup {k} |->
                           IF j = k THEN Zeros(n) ELSE content[j]]
        /\ \A u \in Threads \ {t} : active'[u] = active[u]

\* A record grows to the end of the call's range, with zeros.
Extend(t) ==
    LET k == active[t].key
    IN  /\ active[t].op \in Grow
        /\ k \in DOMAIN content
        /\ \E n \in Ends(active[t]) :
             /\ n > Len(content[k])
             /\ content' = [content EXCEPT ![k] = @ \o Zeros(n - Len(@))]
        /\ \A u \in Threads \ {t} : active'[u] = active[u]

\* Some bytes inside the call's range get their new value.
Put(t) ==
    LET c == active[t]
        k == c.key
        old == content[k]
        new == content'[k]
    IN  /\ c.op \in {"write", "append", "acc"}
        /\ k \in DOMAIN content
        /\ content' = [content EXCEPT ![k] = new]
        /\ Len(new) = Len(old)
        /\ \A i \in 1 .. Len(old) :
             new[i] # old[i] =>
                /\ InRange(c, i - 1)
                /\ new[i] = IF c.op = "acc" THEN Combine(old[i], c.val) ELSE c.val
        /\ UNCHANGED active

Erase(t) ==
    LET k == active'[t].key
    IN  /\ active'[t].op = "erase"
        /\ k \in DOMAIN content
        /\ content' = [j \in DOMAIN content \ {k} |-> content[j]]
        /\ \A u \in Threads \ {t} : active'[u] = active[u]

Next == \E t \in Threads :
    Caller(t) \/ Create(t) \/ Extend(t) \/ Put(t) \/ Erase(t)

Spec == Init /\ [][Next]_vars
============================================================================
