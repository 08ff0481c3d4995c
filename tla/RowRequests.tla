------------------------------ MODULE RowRequests ------------------------------
(***************************************************************************)
(* Requests of the back end that read rows without locks and write them    *)
(* when they commit: every request has a session of its own                *)
(* (nims/db.py, get_db), and another may commit between its reads and its  *)
(* writes.                                                                 *)
(***************************************************************************)

CONSTANTS
  Requests,   \* concurrent requests
  None        \* no row; a field that a body leaves out

VARIABLES
  req,        \* the requests in progress
  (* history variables *)
  overtaken,  \* requests in progress under which another has changed what they have read
  raced       \* an overtaken request has written what it should not have
=============================================================================
