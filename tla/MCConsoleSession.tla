--------------------------- MODULE MCConsoleSession ---------------------------
(* ConsoleSession on small instances. *)
EXTENDS ConsoleSession

CONSTANTS u1, p1

(* Only one user pins more than one page. *)
OneCollector == \A u \in Users \ {u1} : pins[u] \subseteq {p1}
=============================================================================
