--------------------------- MODULE MCAdministrators ---------------------------
(* Administrators on small instances. *)
EXTENDS Administrators, TLC

Symmetric == Permutations(Users) \cup Permutations(Requests)
=============================================================================
