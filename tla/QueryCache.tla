------------------------------ MODULE QueryCache ------------------------------
(***************************************************************************)
(* An entry of the web console's query cache (@tanstack/react-query 5, set *)
(* up in src/platform/web/src/main.tsx).  The library is not part of the   *)
(* repository: these are the rules its users in src/ rely on.  Whether a   *)
(* request is under way is kept by the module that uses the entry.         *)
(***************************************************************************)

CONSTANT NoData     \* the entry has never been filled

Blank == [data |-> NoData, status |-> "pending", old |-> FALSE]

Entry(D) == [data : D \cup {NoData}, status : {"pending", "success", "error"},
             old : BOOLEAN]     \* invalidated, failed, or older than staleTime

(* isLoading while a request is under way: neither data nor an error yet. *)
Loading(e) == e.status = "pending"

(* A component that starts to observe the entry, or a window that gets the
   focus back, makes the cache ask again. *)
Wants(e) == e.data = NoData \/ e.old

(* A new request hides the last error only if there is nothing to show. *)
Asked(e) == IF e.data = NoData THEN [e EXCEPT !.status = "pending"] ELSE e

Answered(d) == [data |-> d, status |-> "success", old |-> FALSE]

(* The data of an earlier answer stay. *)
Failed(e) == [e EXCEPT !.status = "error", !.old = TRUE]

(* staleTime passes. *)
Outdated(e) == [e EXCEPT !.old = TRUE]

(* invalidateQueries makes an entry that is observed ask at once, but it cancels a
   request under way only if the entry has data.  A request of the first load goes
   on, like one that nobody observes, and its answer is taken for fresh. *)
Refetches(e, observed, idle) == observed /\ (idle \/ e.data # NoData)
Invalidated(e, observed) == Outdated(IF observed THEN Asked(e) ELSE e)
=============================================================================
