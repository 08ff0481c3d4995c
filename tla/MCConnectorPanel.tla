--------------------------- MODULE MCConnectorPanel ---------------------------
(* The connectors panel, with two registrations. *)
EXTENDS ConnectorPanel, TLC

Symmetric == Permutations(Connectors)

(* Two of the loads, saves and deletions are under way at a time, or a save and a sync. *)
Removals == Cardinality({c \in Connectors : removal[c] # NoRemoval})
Loads == IF load = NoLoad THEN 0 ELSE 1
Saves == IF save = NoSave THEN 0 ELSE 1
TwoAtOnce == IF sync = NoSync THEN Removals + Loads + Saves <= 2 ELSE Removals + Loads = 0
=============================================================================
