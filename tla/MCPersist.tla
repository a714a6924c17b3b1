----------------------------- MODULE MCPersist -----------------------------
(* Persist for TLC: records below and above a block, and empty ones.        *)
EXTENDS Persist, TLC

\* Nothing tells sharing processes apart; keys have an order in the table.
Symmetric == Permutations(Procs)

\* Nothing goes wrong, except that the owner may die.  Records are below and
\* above a block, so that they get one extent or two.
Reopening ==
    [Sizes |-> {1, 3}, Spots |-> {3}, Attrs |-> {0}, Shared |-> TRUE,
     Budgeted |-> FALSE, Direct |-> TRUE, Durable |-> FALSE,
     Anonymous |-> FALSE, Faults |-> FALSE, PowerFails |-> FALSE, MaxEnd |-> 8]

\* Attributes, of records with and without bytes.
Describing ==
    [Reopening EXCEPT !.Sizes = {1}, !.Spots = {1}, !.Attrs = {0, 1}]

\* Everything goes wrong, to a store with a memory tier and durable_close.
Failing ==
    [Sizes |-> {1}, Spots |-> {1}, Attrs |-> {0}, Shared |-> FALSE,
     Budgeted |-> TRUE, Direct |-> FALSE, Durable |-> TRUE,
     Anonymous |-> TRUE, Faults |-> TRUE, PowerFails |-> TRUE, MaxEnd |-> 6]

\* Records without extents, and nothing else out of the ordinary.
Emptying ==
    [Reopening EXCEPT !.Sizes = {0, 1}, !.Spots = {1}, !.Attrs = {0},
                      !.Shared = FALSE, !.Direct = FALSE]

LifeSettings == "reopen" :> Reopening @@ "attrs" :> Describing
                  @@ "close_faults" :> Failing
EmptySettings == "empty" :> Emptying
============================================================================
