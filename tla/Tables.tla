------------------------------- MODULE Tables -------------------------------
(* How the models update the tables they keep as functions: records by key, *)
(* buffers by name, bytes by offset.                                        *)

\* f, with k bound to v.
Bind(f, k, v) == [j \in DOMAIN f \cup {k} |-> IF j = k THEN v ELSE f[j]]

\* f without k.
Without(f, k) == [j \in DOMAIN f \ {k} |-> f[j]]

\* f, with the points of g laid over it.
Laid(g, f) == [j \in DOMAIN g \cup DOMAIN f |-> IF j \in DOMAIN g THEN g[j] ELSE f[j]]
=============================================================================
