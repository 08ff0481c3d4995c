---------------------------- MODULE MCRecordForms ----------------------------
(* RecordForms needs no bounds: every page and every kind of field is an
   initial state. *)
EXTENDS RecordForms
=============================================================================
