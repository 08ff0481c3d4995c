--------------------------- MODULE MCInventoryLists ---------------------------
(* InventoryLists on small instances. *)
EXTENDS InventoryLists
=============================================================================
