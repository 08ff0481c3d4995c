---------------------------- MODULE InventoryLists ----------------------------
(***************************************************************************)
(* The list pages of the web console: a cached GET of all rows, and what a *)
(* page changes without a form: rows are deleted, copied, added in place   *)
(* (the legs of a circuit), or imported from a file (components/           *)
(* PageActionsMenu.tsx; on the server routers/v1/bulk.py and services/     *)
(* catalog_io.py).  A behaviour is about one list, one file and one tab.   *)
(***************************************************************************)
EXTENDS QueryCache, Naturals, FiniteSets, Sequences

CONSTANTS
  NoRow,      \* no row is being copied
  MaxRows,    \* bound on the rows that are ever created
  MaxLines,   \* bound on the lines of the file
  MaxBusy     \* bound on the changes that are under way at once

ASSUME BoundsAssumption == MaxRows \in Nat \ {0} /\ MaxLines \in Nat /\ MaxBusy \in Nat \ {0}

VARIABLES
  list,       \* the page: what it offers
  rows,       \* server: the live rows
  born,       \* rows so far
  line,       \* history: the line of the file a row was made of, 0 for none
  entry,      \* the cache entry of the list
  fetch,      \* the GET under way
  mounted,    \* the page is shown
  deleting,   \* the DELETE of each row
  copy,       \* the copy, or the addition, under way
  import,     \* the import under way
  file,       \* the file the user has, until it is imported
  told,       \* history: the changes of this page that it was told have been made
  unheard     \* history: some answer about an import was lost

vars == <<list, rows, born, line, entry, fetch, mounted, deleting, copy, import, file, told, unheard>>

-----------------------------------------------------------------------------
(* `copies`: a row is read again and posted, posted as the list shows it, or added
   without a model.  `imports`: by the transaction, by the row, or not at all. *)
Inventory == [deletes |-> TRUE, copies |-> "read", imports |-> "transaction"]
LocationsPage == Inventory
RacksPage == Inventory
DevicesPage == Inventory
VrfsPage == [deletes |-> FALSE, copies |-> "shown", imports |-> "transaction"]
Catalog == [deletes |-> FALSE, copies |-> "none", imports |-> "row"]
PrefixesPage == Catalog
IpAddressesPage == Catalog
VlansPage == Catalog
ProvidersPage == Catalog
ServicesPage == Catalog
CatalogListPage == Catalog
CircuitsPage == [deletes |-> TRUE, copies |-> "added", imports |-> "none"]
ObjectTemplatesPage == CircuitsPage
UsersPage == [deletes |-> FALSE, copies |-> "added", imports |-> "none"]
ApiTokensPage == UsersPage
JobsPage == [deletes |-> FALSE, copies |-> "none", imports |-> "none"]
JobRunsPage == JobsPage

Pages == {LocationsPage, RacksPage, DevicesPage, VrfsPage, PrefixesPage, IpAddressesPage, VlansPage,
          ProvidersPage, ServicesPage, CatalogListPage, CircuitsPage, ObjectTemplatesPage, UsersPage,
          ApiTokensPage, JobsPage, JobRunsPage}

Rows == 1..MaxRows
Lines == {"good", "bad"}
Files == UNION {[1..n -> Lines] : n \in 1..MaxLines}

Fetch == [stage : {"none", "sent", "served"}, answer : SUBSET Rows,
          late : BOOLEAN]    \* history: a change became known too late for the answer
NoFetch == [stage |-> "none", answer |-> {}, late |-> FALSE]
Sent == [NoFetch EXCEPT !.stage = "sent"]

NoCopy == [stage |-> "none", of |-> NoRow]
Copying == [stage : {"none", "reading", "posted", "served"}, of : Rows \cup {NoRow}]

NoImport == [stage |-> "none", by |-> "nobody", skip |-> FALSE, lines |-> <<>>, at |-> 0,
             counted |-> 0, flushed |-> {}, kept |-> {}, skipped |-> FALSE]
IsImport(i) ==
  /\ i.stage \in {"none", "running", "answered", "failed"}
  /\ i.by \in {"page", "other", "nobody"}      \* who waits for the answer
  /\ i.skip \in BOOLEAN /\ i.skipped \in BOOLEAN
  /\ i.lines \in Files \cup {<<>>} /\ i.at \in 0..Len(i.lines)
  /\ i.counted \in 0..i.at
  /\ i.flushed \subseteq Rows /\ i.kept \subseteq Rows

TypeOK == /\ list \in Pages
          /\ rows \subseteq 1..born /\ born \in 0..MaxRows
          /\ line \in [Rows -> 0..MaxLines]
          /\ entry.data \in (SUBSET (1..born)) \cup {NoData} /\ entry.old \in BOOLEAN
          /\ fetch \in Fetch
          /\ mounted \in BOOLEAN
          /\ deleting \in [Rows -> {"none", "sent", "served"}]
          /\ copy \in Copying
          /\ IsImport(import)
          /\ file \in Files \cup {<<>>}
          /\ told \in [created : SUBSET (1..born), deleted : SUBSET (1..born), late : BOOLEAN]
          /\ unheard \in BOOLEAN

Init == /\ list \in Pages
        /\ rows \in {{}, {1}} /\ born = Cardinality(rows)
        /\ line = [r \in Rows |-> 0]
        /\ entry = Blank
        /\ fetch = NoFetch
        /\ mounted = FALSE
        /\ deleting = [r \in Rows |-> "none"]
        /\ copy = NoCopy
        /\ import = NoImport
        /\ file \in IF list.imports = "none" THEN {<<>>} ELSE Files
        /\ told = [created |-> {}, deleted |-> {}, late |-> FALSE]
        /\ unheard = FALSE

server == <<rows, born, line>>
cache == <<entry, fetch>>
history == <<told, unheard>>

-----------------------------------------------------------------------------
Asks == fetch.stage = "none" /\ Wants(entry)

(* The page is opened, or the window gets the focus back. *)
Open ==
  /\ mounted' = TRUE
  /\ entry' = IF Asks THEN Asked(entry) ELSE entry
  /\ fetch' = IF Asks THEN Sent ELSE fetch
  /\ UNCHANGED <<list, server, deleting, copy, import, file, history>>

Leave ==
  /\ mounted
  /\ mounted' = FALSE
  /\ UNCHANGED <<list, server, cache, deleting, copy, import, file, history>>

ServeList ==
  /\ fetch.stage = "sent"
  /\ fetch' = [fetch EXCEPT !.stage = "served", !.answer = rows]
  /\ UNCHANGED <<list, server, entry, mounted, deleting, copy, import, file, history>>

TakeList ==
  /\ fetch.stage = "served"
  /\ entry' = Answered(fetch.answer)
  /\ told' = [told EXCEPT !.late = fetch.late]
  /\ fetch' = NoFetch
  /\ UNCHANGED <<list, server, mounted, deleting, copy, import, file, unheard>>

FailList ==
  /\ fetch.stage # "none"
  /\ entry' = Failed(entry)
  /\ fetch' = NoFetch
  /\ UNCHANGED <<list, server, mounted, deleting, copy, import, file, history>>

(* 30 seconds pass. *)
Age ==
  /\ entry.status = "success" /\ ~entry.old
  /\ entry' = Outdated(entry)
  /\ UNCHANGED <<list, server, fetch, mounted, deleting, copy, import, file, history>>

(* Shown with its rows, the list is asked for again and an earlier answer is
   dropped.  A page that is left, or that still waits for its first rows, takes the
   answer that is under way for fresh. *)
Unstoppable == fetch.stage = "served" /\ (~mounted \/ entry.data = NoData)

Invalidate ==
  LET again == Refetches(entry, mounted, fetch.stage = "none") IN
  /\ entry' = Invalidated(entry, mounted)
  /\ fetch' = IF again THEN Sent ELSE [fetch EXCEPT !.late = @ \/ Unstoppable]

Shown == IF mounted /\ entry.data # NoData THEN entry.data ELSE {}

UnderWay == {<<"delete", r>> : r \in {s \in Rows : deleting[s] # "none"}}
            \cup (IF copy = NoCopy THEN {} ELSE {<<"copy">>})
            \cup (IF import = NoImport THEN {} ELSE {<<"import">>})
Free == Cardinality(UnderWay) < MaxBusy

(* A row is created from a line of the file, or from nothing. *)
Create(l) ==
  /\ born < MaxRows
  /\ born' = born + 1
  /\ line' = [line EXCEPT ![born + 1] = l]

-----------------------------------------------------------------------------
(* Archive and Delete are the same; so is Remove for a leg. *)
Delete(r) ==
  /\ list.deletes /\ r \in Shown /\ deleting[r] = "none" /\ Free
  /\ deleting' = [deleting EXCEPT ![r] = "sent"]
  /\ UNCHANGED <<list, server, cache, mounted, copy, import, file, history>>

ServeDelete(r) ==
  /\ deleting[r] = "sent" /\ r \in rows
  /\ rows' = rows \ {r}
  /\ deleting' = [deleting EXCEPT ![r] = "served"]
  /\ UNCHANGED <<list, born, line, cache, mounted, copy, import, file, history>>

(* Mutant: the row's own entry is invalidated instead of the list. *)
DeleteDone_Detail(r) ==
  /\ deleting[r] = "served"
  /\ deleting' = [deleting EXCEPT ![r] = "none"]
  /\ told' = [told EXCEPT !.deleted = @ \cup {r}]
  /\ UNCHANGED <<list, server, cache, mounted, copy, import, file, unheard>>

DeleteDone(r) ==
  /\ deleting[r] = "served"
  /\ deleting' = [deleting EXCEPT ![r] = "none"]
  /\ told' = [told EXCEPT !.deleted = @ \cup {r}]
  /\ Invalidate
  /\ UNCHANGED <<list, server, mounted, copy, import, file, unheard>>

(* The row is gone or in use, or the request or its answer is lost. *)
DeleteFails(r) ==
  /\ deleting[r] # "none"
  /\ deleting' = [deleting EXCEPT ![r] = "none"]
  /\ UNCHANGED <<list, server, cache, mounted, copy, import, file, history>>

-----------------------------------------------------------------------------
Copy(r) ==
  /\ list.copies \in {"read", "shown"} /\ r \in Shown /\ copy = NoCopy /\ Free
  /\ copy' = [stage |-> IF list.copies = "read" THEN "reading" ELSE "posted", of |-> r]
  /\ UNCHANGED <<list, server, cache, mounted, deleting, import, file, history>>

Add ==
  /\ list.copies = "added" /\ mounted /\ entry.data # NoData /\ copy = NoCopy /\ Free
  /\ copy' = [stage |-> "posted", of |-> NoRow]
  /\ UNCHANGED <<list, server, cache, mounted, deleting, import, file, history>>

ServeRead ==
  /\ copy.stage = "reading" /\ copy.of \in rows
  /\ copy' = [copy EXCEPT !.stage = "posted"]
  /\ UNCHANGED <<list, server, cache, mounted, deleting, import, file, history>>

ServeCopy ==
  /\ copy.stage = "posted"
  /\ Create(0)
  /\ rows' = rows \cup {born'}
  /\ copy' = [stage |-> "served", of |-> born']
  /\ UNCHANGED <<list, cache, mounted, deleting, import, file, history>>

(* The console goes to the form of the copy, wherever the user is. *)
CopyDone ==
  /\ copy.stage = "served"
  /\ told' = [told EXCEPT !.created = @ \cup {copy.of}]
  /\ copy' = NoCopy
  /\ Invalidate
  /\ mounted' = (mounted /\ list.copies = "added")
  /\ UNCHANGED <<list, server, deleting, import, file, unheard>>

CopyFails ==
  /\ copy # NoCopy
  /\ copy' = NoCopy
  /\ UNCHANGED <<list, server, cache, mounted, deleting, import, file, history>>

-----------------------------------------------------------------------------
(* The page never asks to skip lines; other clients can, with files of theirs. *)
Import ==
  /\ mounted /\ import = NoImport /\ Free /\ file # <<>>
  /\ import' = [NoImport EXCEPT !.stage = "running", !.by = "page", !.lines = file]
  /\ UNCHANGED <<list, server, cache, mounted, deleting, copy, file, history>>

ImportOfOthers(lines, skip) ==
  /\ list.imports # "none" /\ import = NoImport /\ Free
  /\ import' = [NoImport EXCEPT !.stage = "running", !.by = "other", !.skip = skip, !.lines = lines]
  /\ UNCHANGED <<list, server, cache, mounted, deleting, copy, file, history>>

NextLine == import.lines[import.at + 1]
LineOf == IF import.by = "other" THEN 0 ELSE import.at + 1

(* Mutant: every row is committed on its own. *)
GoodLine_Commits ==
  /\ import.stage = "running" /\ import.at < Len(import.lines) /\ NextLine = "good"
  /\ Create(LineOf)
  /\ rows' = rows \cup {born'}
  /\ import' = [import EXCEPT !.at = @ + 1, !.counted = @ + 1, !.kept = @ \cup {born'}]
  /\ UNCHANGED <<list, cache, mounted, deleting, copy, file, history>>

(* Mutant: the same line is taken again. *)
GoodLine_Again ==
  /\ import.stage = "running" /\ import.at < Len(import.lines) /\ NextLine = "good"
  /\ Create(LineOf)
  /\ import' = [import EXCEPT !.counted = @ + 1, !.flushed = @ \cup {born'}]
  /\ UNCHANGED <<list, rows, cache, mounted, deleting, copy, file, history>>

(* A line that is accepted: bulk_import_json flushes it, catalog_import_rows
   commits it. *)
GoodLine ==
  /\ import.stage = "running" /\ import.at < Len(import.lines) /\ NextLine = "good"
  /\ Create(LineOf)
  /\ IF list.imports = "transaction"
     THEN /\ import' = [import EXCEPT !.at = @ + 1, !.counted = @ + 1, !.flushed = @ \cup {born'}]
          /\ UNCHANGED rows
     ELSE /\ import' = [import EXCEPT !.at = @ + 1, !.counted = @ + 1, !.kept = @ \cup {born'}]
          /\ rows' = rows \cup {born'}
  /\ UNCHANGED <<list, cache, mounted, deleting, copy, file, history>>

(* Mutant: the error is answered without the rollback, and the rest is committed. *)
BadLine_Flushed ==
  /\ import.stage = "running" /\ import.at < Len(import.lines) /\ NextLine = "bad"
  /\ import' = [import EXCEPT !.at = @ + 1, !.flushed = {}, !.skipped = TRUE,
                              !.kept = @ \cup import.flushed,
                              !.stage = IF import.skip THEN "running" ELSE "failed"]
  /\ rows' = rows \cup import.flushed
  /\ UNCHANGED <<list, born, line, cache, mounted, deleting, copy, file, history>>

(* The rollback takes back all that is not committed; the counter stays. *)
BadLine ==
  /\ import.stage = "running" /\ import.at < Len(import.lines) /\ NextLine = "bad"
  /\ import' = [import EXCEPT !.at = @ + 1, !.flushed = {}, !.skipped = TRUE,
                              !.stage = IF import.skip THEN "running" ELSE "failed"]
  /\ UNCHANGED <<list, server, cache, mounted, deleting, copy, file, history>>

ImportCommits ==
  /\ import.stage = "running" /\ import.at = Len(import.lines)
  /\ rows' = rows \cup import.flushed
  /\ import' = [import EXCEPT !.stage = "answered", !.flushed = {}, !.kept = @ \cup import.flushed]
  /\ UNCHANGED <<list, born, line, cache, mounted, deleting, copy, file, history>>

(* The server stops. *)
ImportCrashes ==
  /\ import.stage = "running"
  /\ import' = [import EXCEPT !.stage = "failed", !.flushed = {}]
  /\ UNCHANGED <<list, server, cache, mounted, deleting, copy, file, history>>

(* The page gives up, the server goes on. *)
AnswerLost ==
  /\ import.stage # "none" /\ import.by = "page"
  /\ import' = [import EXCEPT !.by = "nobody"]
  /\ unheard' = TRUE
  /\ UNCHANGED <<list, server, cache, mounted, deleting, copy, file, told>>

(* "Imported n row(s).", and onBulkSuccess. *)
ImportDone ==
  /\ import.stage = "answered"
  /\ import' = NoImport
  /\ IF import.by = "page"
     THEN file' = <<>> /\ told' = [told EXCEPT !.created = @ \cup import.kept] /\ Invalidate
     ELSE UNCHANGED <<file, told, cache>>
  /\ UNCHANGED <<list, server, mounted, deleting, copy, unheard>>

(* The error is shown, nothing is asked for again; the user mends the file. *)
ImportFails ==
  /\ import.stage = "failed"
  /\ import' = NoImport
  /\ file' = IF import.by = "page" THEN [l \in DOMAIN file |-> "good"] ELSE file
  /\ UNCHANGED <<list, server, cache, mounted, deleting, copy, history>>

OthersDelete(r) ==
  /\ r \in rows
  /\ rows' = rows \ {r}
  /\ UNCHANGED <<list, born, line, cache, mounted, deleting, copy, import, file, history>>

Next == \/ Open \/ Leave \/ ServeList \/ TakeList \/ FailList \/ Age
        \/ \E r \in Rows : \/ Delete(r) \/ ServeDelete(r) \/ DeleteDone(r) \/ DeleteFails(r)
                           \/ Copy(r) \/ OthersDelete(r)
        \/ Add \/ ServeRead \/ ServeCopy \/ CopyDone \/ CopyFails
        \/ Import \/ \E f \in Files, skip \in BOOLEAN : ImportOfOthers(f, skip)
        \/ GoodLine \/ BadLine \/ ImportCommits \/ ImportCrashes \/ AnswerLost
        \/ ImportDone \/ ImportFails

Spec == Init /\ [][Next]_vars

-----------------------------------------------------------------------------
Fresh == entry.status = "success" /\ ~entry.old /\ fetch.stage = "none"

(* A list that is shown as fresh has every change of the page's own that the page
   was told of: no row it deleted, all it made or imported that are still there.
   The exception is an answer that had left the server when the change became known
   and that nothing could stop, because the page was not shown or waited for its
   first rows (a file can be imported then): the cache takes it for fresh. *)
ListShowsOwnChanges ==
  Fresh /\ ~told.late => /\ told.deleted \cap entry.data = {}
                         /\ told.created \cap rows \subseteq entry.data

(* What an import says is what it did.  By the row, the answer counts what is
   stored, also when lines were skipped.  By the transaction, a failure leaves
   nothing, and an answer counts more than what is stored only if a line was
   skipped behind one that was accepted. *)
ImportsAddUp ==
  /\ list.imports = "row" => import.counted = Cardinality(import.kept)
  /\ list.imports = "transaction" /\ import.stage = "failed" => import.kept = {}
  /\ import.stage = "answered" /\ ~import.skipped => import.counted = Cardinality(import.kept)

(* Whoever mends a file and imports it again has each line once, if the import is
   one transaction and its answer was not lost. *)
RetriesAreSafe ==
  list.imports = "transaction" /\ ~unheard =>
    \A r, s \in rows : line[r] = line[s] /\ line[r] # 0 => r = s
=============================================================================
