-------------------------- MODULE MCTemplateDefaults --------------------------
(* TemplateDefaults on small instances. *)
EXTENDS TemplateDefaults, TLC

CONSTANTS t1, t2, t3, u1, p1, p2, rack, device

Racks == {t1, t2, t3}
TypesOfTemplates == [t \in Templates |-> IF t \in Racks THEN rack ELSE device]

Symmetric == Permutations(Racks \cap Templates) \cup Permutations(Requests)
=============================================================================
