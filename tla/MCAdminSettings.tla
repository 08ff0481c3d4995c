---------------------------- MODULE MCAdminSettings ----------------------------
(* AdminSettings on small instances. *)
EXTENDS AdminSettings
=============================================================================
