-------------------------- MODULE InventoryListsProofs --------------------------
(***************************************************************************)
(* Proofs about imports, for files, lists and loads of any size: what an   *)
(* import counts is what it made, and a file that is mended and sent again *)
(* leaves each of its lines once, if the import is one transaction.        *)
(***************************************************************************)
EXTENDS InventoryLists, FiniteSetTheorems, TLAPS

ImportShape == [stage : {"none", "running", "answered", "failed"}, by : {"page", "other", "nobody"},
                skip : BOOLEAN, lines : Files \cup {<<>>}, at : Nat, counted : Nat,
                flushed : SUBSET Rows, kept : SUBSET Rows, skipped : BOOLEAN]

(* What the arguments need of the types: rows are numbered as they are made. *)
Numbered == /\ born \in 0..MaxRows /\ rows \subseteq 1..born
            /\ line \in [Rows -> Nat]
            /\ import \in ImportShape
            /\ import.flushed \subseteq 1..born /\ import.kept \subseteq 1..born
            /\ file \in Files \cup {<<>>}

(* A transaction that ends has flushed nothing more. *)
Closed == import.stage # "running" => import.flushed = {}

Base == Numbered /\ Closed

(* The next row is a new one. *)
LEMMA CreateNew ==
  ASSUME Base, NEW l \in Nat, Create(l)
  PROVE  /\ born' = born + 1 /\ born' \in Rows /\ born' \in 0..MaxRows
         /\ born' \notin rows \cup import.flushed \cup import.kept
         /\ rows \cup {born'} \subseteq 1..born'
         /\ import.flushed \cup {born'} \subseteq 1..born' /\ import.kept \cup {born'} \subseteq 1..born'
         /\ 1..born \subseteq Rows
         /\ line' \in [Rows -> Nat] /\ line'[born'] = l
         /\ \A r \in 1..born : line'[r] = line[r]
<1>1. born \in Nat /\ born < MaxRows /\ born' = born + 1 /\ line' = [line EXCEPT ![born + 1] = l]
  BY BoundsAssumption DEF Base, Numbered, Create
<1>2. born' \in Rows /\ 1..born \subseteq Rows /\ born' \notin 1..born /\ born' \in 0..MaxRows
      /\ 1..born' = (1..born) \cup {born'}
  BY <1>1, BoundsAssumption DEF Rows
<1> QED
  BY <1>1, <1>2 DEF Base, Numbered

LEMMA InitBase == Init => Base
<1> SUFFICES ASSUME Init PROVE Base
  OBVIOUS
<1>1. born \in 0..MaxRows /\ rows \subseteq 1..born
  <2>1. CASE rows = {}
    BY <2>1, BoundsAssumption, FS_EmptySet DEF Init
  <2>2. CASE rows = {1}
    <3>1. born = 1
      BY <2>2, FS_Singleton DEF Init
    <3> QED
      BY <2>2, <3>1, BoundsAssumption
  <2> QED
    BY <2>1, <2>2 DEF Init
<1>2. import = NoImport
  BY DEF Init
<1>3. import \in ImportShape /\ import.flushed = {} /\ import.kept = {}
  BY <1>2 DEF NoImport, ImportShape
<1>4. line \in [Rows -> Nat] /\ file \in Files \cup {<<>>}
  BY DEF Init
<1> QED
  BY <1>1, <1>3, <1>4 DEF Base, Numbered, Closed

LEMMA BaseStep == Base /\ [Next]_vars => Base'
<1> SUFFICES ASSUME Base, [Next]_vars PROVE Base'
  OBVIOUS
<1> USE DEF Base, Numbered, Closed, server, cache, history
<1>0. NoImport \in ImportShape /\ NoImport.flushed = {} /\ NoImport.kept = {}
  BY DEF NoImport, ImportShape
<1>a. import.at + 1 \in Nat /\ import.counted + 1 \in Nat
  BY DEF ImportShape
<1>1. ASSUME NEW r \in Rows, ServeDelete(r) \/ OthersDelete(r) PROVE Base'
  BY <1>1 DEF ServeDelete, OthersDelete
<1>2. CASE ServeCopy
  BY <1>2, CreateNew DEF ServeCopy
<1>3. CASE Import
  BY <1>0, <1>3 DEF Import, NoImport, ImportShape
<1>4. ASSUME NEW f \in Files, NEW skip \in BOOLEAN, ImportOfOthers(f, skip) PROVE Base'
  BY <1>0, <1>4 DEF ImportOfOthers, NoImport, ImportShape
<1>5. CASE GoodLine
  <2>1. LineOf \in Nat /\ Create(LineOf) /\ UNCHANGED file
    BY <1>5 DEF GoodLine, LineOf, ImportShape
  <2>2. CASE list.imports = "transaction"
    <3>1. /\ import' = [import EXCEPT !.at = @ + 1, !.counted = @ + 1, !.flushed = @ \cup {born'}]
          /\ rows' = rows /\ import.stage = "running"
      BY <1>5, <2>2 DEF GoodLine
    <3>2. import.flushed \cup {born'} \subseteq Rows
      BY <2>1, CreateNew
    <3>3. import' \in ImportShape /\ import'.stage = "running"
          /\ import'.flushed = import.flushed \cup {born'} /\ import'.kept = import.kept
      BY <1>a, <3>1, <3>2 DEF ImportShape
    <3> QED
      BY <2>1, <3>1, <3>3, CreateNew
  <2>3. CASE list.imports # "transaction"
    <3>1. /\ import' = [import EXCEPT !.at = @ + 1, !.counted = @ + 1, !.kept = @ \cup {born'}]
          /\ rows' = rows \cup {born'} /\ import.stage = "running"
      BY <1>5, <2>3 DEF GoodLine
    <3>2. import.kept \cup {born'} \subseteq Rows
      BY <2>1, CreateNew
    <3>3. import' \in ImportShape /\ import'.stage = "running"
          /\ import'.kept = import.kept \cup {born'} /\ import'.flushed = import.flushed
      BY <1>a, <3>1, <3>2 DEF ImportShape
    <3> QED
      BY <2>1, <3>1, <3>3, CreateNew
  <2> QED
    BY <2>2, <2>3
<1>6. CASE BadLine
  <2>1. \E stage \in {"running", "failed"} :
          import' = [import EXCEPT !.at = @ + 1, !.flushed = {}, !.skipped = TRUE, !.stage = stage]
    BY <1>6 DEF BadLine
  <2>2. import' \in ImportShape /\ import'.flushed = {} /\ import'.kept = import.kept
    BY <1>a, <2>1 DEF ImportShape
  <2> QED
    BY <1>6, <2>2 DEF BadLine
<1>7. CASE ImportCommits
  BY <1>7 DEF ImportCommits, ImportShape
<1>8. CASE ImportCrashes
  BY <1>8 DEF ImportCrashes, ImportShape
<1>9. CASE AnswerLost
  BY <1>9 DEF AnswerLost, ImportShape
<1>10. CASE ImportDone
  BY <1>0, <1>10 DEF ImportDone
<1>11. CASE ImportFails
  <2>1. [l \in DOMAIN file |-> "good"] \in Files \cup {<<>>}
    <3>1. CASE file = <<>>
      BY <3>1
    <3>2. CASE file \in Files
      BY <3>2 DEF Files, Lines
    <3> QED
      BY <3>1, <3>2
  <2> QED
    BY <1>0, <1>11, <2>1 DEF ImportFails
<1>12. CASE UNCHANGED <<rows, born, line, import, file>>
  BY <1>12
<1> QED
  BY <1>1, <1>2, <1>3, <1>4, <1>5, <1>6, <1>7, <1>8, <1>9, <1>10, <1>11, <1>12
     DEF Next, vars, Open, Leave, ServeList, TakeList, FailList, Age, Delete, DeleteDone, DeleteFails,
         Copy, Add, ServeRead, CopyDone, CopyFails

-----------------------------------------------------------------------------
(* What an import counts is what it has made, flushed or committed. *)
CountedIsMade ==
  /\ IsFiniteSet(import.kept) /\ IsFiniteSet(import.flushed)
  /\ list.imports # "transaction" =>
       import.flushed = {} /\ import.counted = Cardinality(import.kept)
  /\ list.imports = "transaction" /\ import.stage # "answered" => import.kept = {}
  /\ list.imports = "transaction" /\ ~import.skipped /\ import.stage = "running" =>
       import.counted = Cardinality(import.flushed)
  /\ list.imports = "transaction" /\ ~import.skipped /\ import.stage = "answered" =>
       import.counted = Cardinality(import.kept)

CountInv == Base /\ CountedIsMade

LEMMA NothingCounted == ASSUME import.stage = "none" \/ import.stage = "running", import.counted = 0,
                               import.kept = {}, import.flushed = {}
                        PROVE  CountedIsMade
BY FS_EmptySet DEF CountedIsMade

LEMMA CountStep == CountInv /\ [Next]_vars => CountedIsMade'
<1> SUFFICES ASSUME CountInv, [Next]_vars PROVE CountedIsMade'
  OBVIOUS
<1> USE DEF CountInv, CountedIsMade, server, cache, history
<1>0. import \in ImportShape
  BY DEF Base, Numbered
<1>1. ASSUME import'.counted = 0, import'.kept = {}, import'.flushed = {}, import'.stage # "answered"
      PROVE  CountedIsMade'
  BY <1>1, FS_EmptySet
<1>2. CASE GoodLine
  <2>1. LineOf \in Nat /\ Create(LineOf) /\ UNCHANGED list /\ import.stage = "running"
    BY <1>0, <1>2 DEF GoodLine, LineOf, ImportShape
  <2>2. born' \notin import.flushed \cup import.kept
    BY <2>1, CreateNew
  <2>3. CASE list.imports = "transaction"
    <3>1. import' = [import EXCEPT !.at = @ + 1, !.counted = @ + 1, !.flushed = @ \cup {born'}]
      BY <1>2, <2>3 DEF GoodLine
    <3>2. /\ IsFiniteSet(import.flushed \cup {born'})
          /\ Cardinality(import.flushed \cup {born'}) = Cardinality(import.flushed) + 1
      BY <2>2, FS_AddElement
    <3> QED
      BY <1>0, <2>1, <2>3, <3>1, <3>2 DEF ImportShape
  <2>4. CASE list.imports # "transaction"
    <3>1. import' = [import EXCEPT !.at = @ + 1, !.counted = @ + 1, !.kept = @ \cup {born'}]
      BY <1>2, <2>4 DEF GoodLine
    <3>2. /\ IsFiniteSet(import.kept \cup {born'})
          /\ Cardinality(import.kept \cup {born'}) = Cardinality(import.kept) + 1
      BY <2>2, FS_AddElement
    <3> QED
      BY <1>0, <2>1, <2>4, <3>1, <3>2 DEF ImportShape
  <2> QED
    BY <2>3, <2>4
<1>3. CASE BadLine
  BY <1>0, <1>3, FS_EmptySet DEF BadLine, ImportShape
<1>4. CASE ImportCommits
  <2>1. import' = [import EXCEPT !.stage = "answered", !.flushed = {}, !.kept = @ \cup import.flushed]
        /\ UNCHANGED list /\ import.stage = "running"
    BY <1>4 DEF ImportCommits
  <2>2. IsFiniteSet(import.kept \cup import.flushed)
    BY FS_Union
  <2> QED
    BY <1>0, <2>1, <2>2, FS_EmptySet DEF ImportShape
<1>5. CASE ImportCrashes
  BY <1>0, <1>5, FS_EmptySet DEF ImportCrashes, ImportShape
<1>6. CASE AnswerLost
  BY <1>0, <1>6 DEF AnswerLost, ImportShape
<1>7. CASE Import
  BY <1>1, <1>7 DEF Import, NoImport
<1>8. ASSUME NEW f \in Files, NEW skip \in BOOLEAN, ImportOfOthers(f, skip) PROVE CountedIsMade'
  BY <1>1, <1>8 DEF ImportOfOthers, NoImport
<1>9. CASE ImportDone \/ ImportFails
  BY <1>1, <1>9 DEF ImportDone, ImportFails, NoImport
<1>10. CASE UNCHANGED <<list, import>>
  BY <1>10
<1> QED
  BY <1>2, <1>3, <1>4, <1>5, <1>6, <1>7, <1>8, <1>9, <1>10
     DEF Next, vars, Open, Leave, ServeList, TakeList, FailList, Age, Delete, DeleteDone, DeleteFails,
         Copy, Add, ServeRead, CopyDone, CopyFails, ServeDelete, OthersDelete, ServeCopy

(* What an import says is what it did. *)
THEOREM ImportsCount == Spec => []ImportsAddUp
<1>1. Init => CountInv
  <2>1. Init => import = NoImport
    BY DEF Init
  <2> QED
    BY <2>1, InitBase, NothingCounted DEF CountInv, NoImport
<1>2. CountInv /\ [Next]_vars => CountInv'
  BY BaseStep, CountStep DEF CountInv
<1>3. CountInv => ImportsAddUp
  <2> SUFFICES ASSUME CountInv PROVE ImportsAddUp
    OBVIOUS
  <2>1. list.imports = "row" => list.imports # "transaction"
    OBVIOUS
  <2> QED
    BY <2>1 DEF CountInv, CountedIsMade, ImportsAddUp
<1> QED
  BY <1>1, <1>2, <1>3, PTL DEF Spec

-----------------------------------------------------------------------------
(* As long as every answer is heard: nothing of the file is stored before it has
   been imported, and what the import under way has flushed are lines it has
   passed. *)
LinesAreOnce ==
  list.imports = "transaction" /\ ~unheard =>
    /\ import.stage # "none" => import.by # "nobody"
    /\ import.by = "page" => file # <<>>
    /\ file # <<>> /\ ~(import.by = "page" /\ import.stage = "answered") =>
         \A r \in rows : line[r] = 0
    /\ \A r \in import.flushed : line[r] <= import.at /\ (import.by # "page" => line[r] = 0)
    /\ \A r, s \in rows \cup import.flushed : line[r] = line[s] /\ line[r] # 0 => r = s

LineInv == Base /\ LinesAreOnce

LEMMA LineStep == LineInv /\ [Next]_vars => LinesAreOnce'
<1> SUFFICES ASSUME LineInv, [Next]_vars, list'.imports = "transaction", ~unheard'
             PROVE  LinesAreOnce'
  BY DEF LinesAreOnce
<1>0. import \in ImportShape /\ UNCHANGED list /\ ~unheard
  <2>1. import \in ImportShape
    BY DEF LineInv, Base, Numbered
  <2>2. UNCHANGED list
    BY DEF Next, vars, Open, Leave, ServeList, TakeList, FailList, Age, Delete, ServeDelete, DeleteDone,
           DeleteFails, Copy, Add, ServeRead, ServeCopy, CopyDone, CopyFails, Import, ImportOfOthers,
           GoodLine, BadLine, ImportCommits, ImportCrashes, AnswerLost, ImportDone, ImportFails,
           OthersDelete, history
  <2>3. UNCHANGED unheard \/ unheard' = TRUE
    BY DEF Next, vars, Open, Leave, ServeList, TakeList, FailList, Age, Delete, ServeDelete, DeleteDone,
           DeleteFails, Copy, Add, ServeRead, ServeCopy, CopyDone, CopyFails, Import, ImportOfOthers,
           GoodLine, BadLine, ImportCommits, ImportCrashes, AnswerLost, ImportDone, ImportFails,
           OthersDelete, history
  <2> QED
    BY <2>1, <2>2, <2>3
<1> USE <1>0 DEF LineInv, LinesAreOnce, server, cache, history
<1>1. ASSUME NEW r \in Rows, ServeDelete(r) \/ OthersDelete(r) PROVE LinesAreOnce'
  BY <1>1 DEF ServeDelete, OthersDelete
<1>2. CASE ServeCopy
  <2>1. Create(0) /\ rows' = rows \cup {born'} /\ UNCHANGED <<import, file>>
    BY <1>2 DEF ServeCopy
  <2>2. line'[born'] = 0 /\ \A r \in rows \cup import.flushed : line'[r] = line[r]
    BY <2>1, CreateNew DEF Base, Numbered
  <2> QED
    BY <2>1, <2>2
<1>3. CASE Import
  <2>1. import'.stage = "running" /\ import'.by = "page" /\ import'.flushed = {}
    BY <1>3 DEF Import, NoImport
  <2>2. import.by = "nobody" /\ file # <<>> /\ UNCHANGED <<rows, line, file>>
    BY <1>3 DEF Import, NoImport
  <2> QED
    BY <2>1, <2>2
<1>4. ASSUME NEW f \in Files, NEW skip \in BOOLEAN, ImportOfOthers(f, skip) PROVE LinesAreOnce'
  <2>1. import'.stage = "running" /\ import'.by = "other" /\ import'.flushed = {}
    BY <1>4 DEF ImportOfOthers, NoImport
  <2>2. import.by = "nobody" /\ UNCHANGED <<rows, line, file>>
    BY <1>4 DEF ImportOfOthers, NoImport
  <2> QED
    BY <2>1, <2>2
<1>5. CASE GoodLine
  <2>1. /\ import.stage = "running" /\ Create(LineOf) /\ UNCHANGED <<rows, file>>
        /\ import' = [import EXCEPT !.at = @ + 1, !.counted = @ + 1, !.flushed = @ \cup {born'}]
    BY <1>5 DEF GoodLine
  <2>2. /\ import'.stage = "running" /\ import'.by = import.by /\ import'.at = import.at + 1
        /\ import'.flushed = import.flushed \cup {born'} /\ import.at \in Nat
    BY <2>1 DEF ImportShape
  <2>3. /\ LineOf \in Nat /\ LineOf <= import.at + 1 /\ (import.by # "page" => LineOf = 0)
        /\ LineOf # 0 => LineOf > import.at
    BY <2>1, <2>2 DEF LineOf, ImportShape
  <2>4. line'[born'] = LineOf /\ \A r \in rows \cup import.flushed : line'[r] = line[r]
    BY <2>1, <2>3, CreateNew DEF Base, Numbered
  <2>5. \A r \in rows \cup import.flushed : line[r] \in Nat
    BY <2>1, <2>3, CreateNew DEF Base, Numbered
  <2>6. \A r \in rows \cup import.flushed : line[r] = LineOf => LineOf = 0
    BY <2>1, <2>2, <2>3, <2>5
  <2>7. \A r, s \in rows' \cup import'.flushed : line'[r] = line'[s] /\ line'[r] # 0 => r = s
    BY <2>1, <2>2, <2>4, <2>6
  <2>8. \A r \in import'.flushed : line'[r] <= import'.at /\ (import'.by # "page" => line'[r] = 0)
    BY <2>2, <2>3, <2>4, <2>5
  <2> QED
    BY <2>1, <2>2, <2>4, <2>7, <2>8
<1>6. CASE BadLine
  <2>1. /\ import'.flushed = {} /\ import'.by = import.by
        /\ import'.stage # "answered" /\ import.stage = "running"
    BY <1>6 DEF BadLine, ImportShape
  <2> QED
    BY <1>6, <2>1 DEF BadLine
<1>7. CASE ImportCommits
  <2>1. /\ import.stage = "running" /\ rows' = rows \cup import.flushed /\ UNCHANGED <<line, file>>
        /\ import'.stage = "answered" /\ import'.flushed = {} /\ import'.by = import.by
    BY <1>7 DEF ImportCommits, ImportShape
  <2> QED
    BY <2>1
<1>8. CASE ImportCrashes
  <2>1. import'.flushed = {} /\ import'.by = import.by /\ import'.stage = "failed" /\ import.stage = "running"
    BY <1>8 DEF ImportCrashes, ImportShape
  <2> QED
    BY <1>8, <2>1 DEF ImportCrashes
<1>9. CASE AnswerLost
  BY <1>9 DEF AnswerLost
<1>10. CASE ImportDone
  <2>1. /\ import.stage = "answered" /\ import' = NoImport /\ UNCHANGED <<rows, line>>
        /\ IF import.by = "page" THEN file' = <<>> ELSE file' = file
    BY <1>10 DEF ImportDone
  <2> QED
    BY <2>1 DEF NoImport
<1>11. CASE ImportFails
  <2>1. /\ import.stage = "failed" /\ import' = NoImport /\ UNCHANGED <<rows, line>>
        /\ import.by # "page" => file' = file
    BY <1>11 DEF ImportFails
  <2> QED
    BY <2>1 DEF NoImport
<1>12. CASE UNCHANGED <<rows, line, import, file>>
  BY <1>12
<1> QED
  BY <1>1, <1>2, <1>3, <1>4, <1>5, <1>6, <1>7, <1>8, <1>9, <1>10, <1>11, <1>12
     DEF Next, vars, Open, Leave, ServeList, TakeList, FailList, Age, Delete, DeleteDone, DeleteFails,
         Copy, Add, ServeRead, CopyDone, CopyFails

(* A file that failed, was mended and sent again leaves each line once. *)
THEOREM RetriesStaySafe == Spec => []RetriesAreSafe
<1>1. Init => LineInv
  <2>1. Init => import = NoImport /\ \A r \in Rows : line[r] = 0
    BY DEF Init
  <2>2. Base => rows \subseteq Rows
    BY BoundsAssumption DEF Base, Numbered, Rows
  <2> QED
    BY <2>1, <2>2, InitBase DEF LineInv, LinesAreOnce, NoImport
<1>2. LineInv /\ [Next]_vars => LineInv'
  BY BaseStep, LineStep DEF LineInv
<1>3. LineInv => RetriesAreSafe
  BY DEF LineInv, LinesAreOnce, RetriesAreSafe
<1> QED
  BY <1>1, <1>2, <1>3, PTL DEF Spec

-----------------------------------------------------------------------------
(* The rows the page knows, or will be told, to be gone, and to have been made. *)
Gone == told.deleted \cup {r \in Rows : deleting[r] = "served"}
Copied == IF copy.stage = "served" THEN {copy.of} ELSE {}
Made == told.created \cup Copied \cup import.kept

PageTypes == /\ entry \in Entry(SUBSET Rows)
             /\ fetch \in Fetch
             /\ deleting \in [Rows -> {"none", "sent", "served"}]
             /\ copy \in Copying
             /\ told \in [created : SUBSET (1..born), deleted : SUBSET (1..born), late : BOOLEAN]

(* What is gone does not come back, and what a transaction has flushed is not
   known to anybody yet. *)
RowsAreApart ==
  /\ Gone \cup Made \subseteq 1..born
  /\ Gone \cap (rows \cup import.flushed) = {}
  /\ import.flushed \cap (rows \cup Made) = {}

(* An answer on its way has the changes of the page's own, unless one became known
   when nothing could stop the answer any more. *)
AnswerHasOwn ==
  fetch.stage = "served" /\ ~fetch.late => /\ told.deleted \cap fetch.answer = {}
                                           /\ told.created \cap rows \subseteq fetch.answer

ListInv == Base /\ PageTypes /\ RowsAreApart /\ AnswerHasOwn /\ ListShowsOwnChanges

LEMMA InitList == Init => ListInv
<1> SUFFICES ASSUME Init PROVE ListInv
  OBVIOUS
<1>1. Base
  BY InitBase
<1>2. import.flushed = {} /\ import.kept = {} /\ fetch = NoFetch /\ copy = NoCopy
      /\ told = [created |-> {}, deleted |-> {}, late |-> FALSE] /\ deleting = [r \in Rows |-> "none"]
  BY DEF Init, NoImport
<1>3. PageTypes
  <2>1. entry \in Entry(SUBSET Rows)
    BY DEF Init, Blank, Entry
  <2> QED
    BY <1>2, <2>1 DEF PageTypes, NoFetch, Fetch, NoCopy, Copying
<1>4. RowsAreApart
  BY <1>2 DEF RowsAreApart, Gone, Made, Copied, NoCopy
<1> QED
  BY <1>1, <1>2, <1>3, <1>4 DEF ListInv, AnswerHasOwn, ListShowsOwnChanges, NoFetch

(* An import that somebody else starts. *)
OtherImport == \E f \in Files, skip \in BOOLEAN : ImportOfOthers(f, skip)

LEMMA OtherImportStep ==
  OtherImport => /\ import'.kept = {} /\ import'.flushed = {}
                 /\ UNCHANGED <<rows, born, entry, fetch, deleting, copy, told>>
<1>1. ASSUME NEW f \in Files, NEW skip \in BOOLEAN, ImportOfOthers(f, skip)
      PROVE  /\ import'.kept = {} /\ import'.flushed = {}
             /\ UNCHANGED <<rows, born, entry, fetch, deleting, copy, told>>
  BY <1>1 DEF ImportOfOthers, NoImport, server, cache, history
<1> QED
  BY <1>1 DEF OtherImport

(* The numbers of rows only grow. *)
LEMMA BornGrows == Base /\ [Next]_vars => 1..born \subseteq 1..born' /\ 1..born' \subseteq Rows
<1> SUFFICES ASSUME Base, [Next]_vars PROVE 1..born \subseteq 1..born' /\ 1..born' \subseteq Rows
  OBVIOUS
<1>0. Base'
  BY BaseStep
<1>1. born \in Nat /\ born' \in 0..MaxRows
  BY <1>0, BoundsAssumption DEF Base, Numbered
<1>2. born' = born \/ born' = born + 1
  <2>1. ServeCopy \/ GoodLine \/ UNCHANGED born
    BY OtherImportStep
       DEF Next, vars, server, Open, Leave, ServeList, TakeList, FailList, Age, Delete, ServeDelete,
           DeleteDone, DeleteFails, Copy, Add, ServeRead, CopyDone, CopyFails, Import, OtherImport,
           BadLine, ImportCommits, ImportCrashes, AnswerLost, ImportDone, ImportFails, OthersDelete,
           history
  <2> QED
    BY <2>1 DEF ServeCopy, GoodLine, Create
<1> QED
  BY <1>1, <1>2, BoundsAssumption DEF Rows

LEMMA PageTypesStep == ListInv /\ [Next]_vars => PageTypes'
<1> SUFFICES ASSUME ListInv, [Next]_vars PROVE PageTypes'
  OBVIOUS
<1>0. /\ Base /\ PageTypes /\ RowsAreApart
      /\ 1..born \subseteq 1..born' /\ 1..born' \subseteq Rows /\ rows \subseteq 1..born
      /\ import.kept \subseteq 1..born
  BY BornGrows DEF ListInv, Base, Numbered
<1> DEFINE Told == [created : SUBSET (1..born'), deleted : SUBSET (1..born'), late : BOOLEAN]
<1>a. /\ told \in Told
      /\ \A d \in SUBSET Rows, b \in BOOLEAN :
           d \subseteq 1..born => /\ [told EXCEPT !.deleted = @ \cup d] \in Told
                                  /\ [told EXCEPT !.created = @ \cup d] \in Told
                                  /\ [told EXCEPT !.late = b] \in Told
  BY <1>0 DEF PageTypes
<1>b. /\ Asked(entry) \in Entry(SUBSET Rows) /\ Failed(entry) \in Entry(SUBSET Rows)
      /\ Outdated(entry) \in Entry(SUBSET Rows)
      /\ \A d \in SUBSET Rows : Answered(d) \in Entry(SUBSET Rows)
  <2>1. entry \in Entry(SUBSET Rows)
    BY <1>0 DEF PageTypes
  <2>2. Asked(entry) \in Entry(SUBSET Rows)
    BY <2>1 DEF Entry, Asked
  <2>3. Failed(entry) \in Entry(SUBSET Rows) /\ Outdated(entry) \in Entry(SUBSET Rows)
    BY <2>1 DEF Entry, Failed, Outdated
  <2>4. \A d \in SUBSET Rows : Answered(d) \in Entry(SUBSET Rows)
    BY DEF Entry, Answered
  <2> QED
    BY <2>2, <2>3, <2>4
<1>c. /\ NoFetch \in Fetch /\ Sent \in Fetch
      /\ [fetch EXCEPT !.late = @ \/ Unstoppable] \in Fetch
  <2>1. Unstoppable \in BOOLEAN
    BY DEF Unstoppable
  <2> QED
    BY <1>0, <2>1 DEF PageTypes, Fetch, NoFetch, Sent
<1>d. Invalidate => entry' \in Entry(SUBSET Rows) /\ fetch' \in Fetch
  <2>1. Outdated(Asked(entry)) \in Entry(SUBSET Rows)
    BY <1>b DEF Entry, Outdated
  <2> QED
    BY <1>b, <1>c, <2>1 DEF Invalidate, Invalidated
<1> USE <1>0 DEF PageTypes, server, cache, history
<1>1. CASE Open
  BY <1>1, <1>a, <1>b, <1>c DEF Open
<1>2. CASE ServeList
  <2>1. fetch' \in Fetch
    BY <1>2 DEF ServeList, Fetch
  <2> QED
    BY <1>2, <1>a, <2>1 DEF ServeList
<1>3. CASE TakeList
  <2>1. fetch.answer \in SUBSET Rows /\ fetch.late \in BOOLEAN
    BY DEF Fetch
  <2> QED
    BY <1>3, <1>a, <1>b, <1>c, <2>1 DEF TakeList
<1>4. CASE FailList \/ Age
  BY <1>4, <1>a, <1>b, <1>c DEF FailList, Age
<1>5. ASSUME NEW r \in Rows, Delete(r) \/ ServeDelete(r) \/ DeleteFails(r) PROVE PageTypes'
  BY <1>5, <1>a DEF Delete, ServeDelete, DeleteFails
<1>6. ASSUME NEW r \in Rows, DeleteDone(r) PROVE PageTypes'
  <2>1. {r} \subseteq 1..born
    BY <1>6 DEF DeleteDone, RowsAreApart, Gone
  <2> QED
    BY <1>6, <1>a, <1>d, <2>1 DEF DeleteDone
<1>7. ASSUME NEW r \in Rows, Copy(r) PROVE PageTypes'
  BY <1>7, <1>a DEF Copy, Copying
<1>8. CASE Add \/ ServeRead \/ CopyFails
  BY <1>8, <1>a DEF Add, ServeRead, CopyFails, NoCopy, Copying
<1>9. CASE ServeCopy
  <2>1. born' \in Rows
    BY <1>9, CreateNew DEF ServeCopy
  <2> QED
    BY <1>9, <1>a, <2>1 DEF ServeCopy, Copying
<1>10. CASE CopyDone
  <2>1. {copy.of} \subseteq 1..born
    BY <1>10 DEF CopyDone, RowsAreApart, Made, Copied
  <2> QED
    BY <1>10, <1>a, <1>d, <2>1 DEF CopyDone, NoCopy, Copying
<1>11. CASE ImportDone
  BY <1>11, <1>a, <1>d DEF ImportDone
<1>12. CASE UNCHANGED <<entry, fetch, deleting, copy, told>>
  BY <1>12, <1>a
<1>13. \/ Open \/ ServeList \/ TakeList \/ FailList \/ Age
       \/ \E r \in Rows : Delete(r) \/ ServeDelete(r) \/ DeleteDone(r) \/ DeleteFails(r) \/ Copy(r)
       \/ Add \/ ServeRead \/ ServeCopy \/ CopyDone \/ CopyFails \/ ImportDone
       \/ UNCHANGED <<entry, fetch, deleting, copy, told>>
  BY OtherImportStep
     DEF Next, vars, Leave, Import, OtherImport, GoodLine, BadLine, ImportCommits, ImportCrashes,
         AnswerLost, ImportFails, OthersDelete
<1> HIDE <1>0 DEF PageTypes, server, cache, history
<1> QED
  BY <1>1, <1>2, <1>3, <1>4, <1>5, <1>6, <1>7, <1>8, <1>9, <1>10, <1>11, <1>12, <1>13

LEMMA ApartStep == ListInv /\ [Next]_vars => RowsAreApart'
<1> SUFFICES ASSUME ListInv, [Next]_vars PROVE RowsAreApart'
  OBVIOUS
<1>0. /\ Base /\ PageTypes /\ RowsAreApart
      /\ 1..born \subseteq 1..born' /\ 1..born' \subseteq Rows /\ rows \subseteq 1..born
      /\ import.kept \subseteq 1..born /\ import.flushed \subseteq 1..born /\ import \in ImportShape
  BY BornGrows DEF ListInv, Base, Numbered
<1> USE <1>0 DEF server, cache, history
(* What a step does to the four sets. *)
<1>a. ASSUME Gone' \subseteq Gone, Made' \subseteq Made, rows' \subseteq rows,
             import'.flushed \subseteq import.flushed
      PROVE  RowsAreApart'
  BY <1>a DEF RowsAreApart
<1>b. ASSUME UNCHANGED <<deleting, told>> PROVE Gone' = Gone
  BY <1>b DEF Gone
<1>c. ASSUME UNCHANGED <<copy, told>> PROVE Copied' = Copied /\ told'.created = told.created
  BY <1>c DEF Copied
<1>1. ASSUME NEW r \in Rows, ServeDelete(r) PROVE RowsAreApart'
  <2>1. Gone' \subseteq Gone \cup {r} /\ Made' = Made /\ UNCHANGED import
        /\ r \in rows /\ rows' = rows \ {r}
    BY <1>1 DEF ServeDelete, Gone, Made, Copied, PageTypes
  <2> QED
    BY <2>1 DEF RowsAreApart
<1>2. ASSUME NEW r \in Rows, Delete(r) \/ DeleteDone(r) \/ DeleteFails(r) PROVE RowsAreApart'
  <2>1. Made' = Made /\ UNCHANGED <<rows, import>>
    BY <1>2 DEF Delete, DeleteDone, DeleteFails, Made, Copied, PageTypes
  <2>2. Gone' \subseteq Gone
    BY <1>2 DEF Delete, DeleteDone, DeleteFails, Gone, PageTypes
  <2> QED
    BY <1>a, <2>1, <2>2
<1>3. CASE ServeCopy
  <2>1. Create(0) /\ rows' = rows \cup {born'} /\ UNCHANGED import
        /\ Gone' = Gone /\ Made' \subseteq Made \cup {born'}
    BY <1>3, <1>b DEF ServeCopy, Made, Copied
  <2>2. born' \notin 1..born /\ born' \in 1..born'
    BY <2>1, BoundsAssumption DEF Create, Base, Numbered
  <2> HIDE <1>0
  <2> QED
    BY <1>0, <2>1, <2>2 DEF RowsAreApart
<1>4. ASSUME NEW r \in Rows, Copy(r) PROVE RowsAreApart'
  <2>1. Made' \subseteq Made
    BY <1>4 DEF Copy, Made, Copied
  <2> QED
    BY <1>4, <1>a, <1>b, <2>1 DEF Copy
<1>5. CASE Add \/ ServeRead \/ CopyFails
  <2>1. Made' \subseteq Made
    BY <1>5 DEF Add, ServeRead, CopyFails, NoCopy, Made, Copied, PageTypes, Copying
  <2> QED
    BY <1>5, <1>a, <1>b, <2>1 DEF Add, ServeRead, CopyFails
<1>6. CASE CopyDone
  <2>1. Made' = Made /\ Gone' = Gone
    BY <1>6 DEF CopyDone, NoCopy, Made, Copied, Gone, PageTypes
  <2> QED
    BY <1>6, <1>a, <2>1 DEF CopyDone
<1>7. CASE Import \/ OtherImport
  <2>1. import'.kept = {} /\ import'.flushed = {} /\ UNCHANGED <<rows, deleting, copy, told>>
    BY <1>7, OtherImportStep DEF Import, NoImport
  <2>2. Made' \subseteq Made
    BY <1>c, <2>1 DEF Made
  <2> QED
    BY <1>a, <1>b, <2>1, <2>2
<1>8. CASE GoodLine
  <2>1. Create(LineOf) /\ UNCHANGED <<deleting, copy, told>>
    BY <1>8 DEF GoodLine
  <2>2. Gone' = Gone /\ Copied' = Copied /\ told'.created = told.created
    BY <1>b, <1>c, <2>1
  <2>3. \/ /\ rows' = rows /\ import'.kept = import.kept
           /\ import'.flushed = import.flushed \cup {born'}
        \/ /\ rows' = rows \cup {born'} /\ import'.kept = import.kept \cup {born'}
           /\ import'.flushed = import.flushed
    BY <1>8 DEF GoodLine, ImportShape
  <2>4. \/ /\ rows' = rows /\ Made' = Made
           /\ import'.flushed = import.flushed \cup {born'}
        \/ /\ rows' = rows \cup {born'} /\ Made' = Made \cup {born'}
           /\ import'.flushed = import.flushed
    BY <2>2, <2>3 DEF Made
  <2>5. born' \notin 1..born /\ born' \in 1..born'
    BY <2>1, BoundsAssumption DEF Create, Base, Numbered
  <2> HIDE <1>0
  <2> QED
    BY <1>0, <2>2, <2>4, <2>5 DEF RowsAreApart
<1>9. CASE BadLine \/ ImportCrashes
  <2>1. import'.flushed = {} /\ import'.kept = import.kept /\ UNCHANGED <<rows, deleting, copy, told>>
    BY <1>9 DEF BadLine, ImportCrashes, ImportShape
  <2>2. Made' = Made
    BY <1>c, <2>1 DEF Made
  <2> QED
    BY <1>a, <1>b, <2>1, <2>2
<1>10. CASE ImportCommits
  <2>1. /\ import'.flushed = {} /\ import'.kept = import.kept \cup import.flushed
        /\ rows' = rows \cup import.flushed /\ UNCHANGED <<deleting, copy, told>>
    BY <1>10 DEF ImportCommits, ImportShape
  <2>2. Gone' = Gone /\ Made' = Made \cup import.flushed
    BY <1>b, <1>c, <2>1 DEF Made
  <2> QED
    BY <2>1, <2>2 DEF RowsAreApart
<1>11. CASE ImportDone
  <2>1. import'.flushed = {} /\ import'.kept = {} /\ UNCHANGED <<rows, deleting, copy>>
    BY <1>11 DEF ImportDone, NoImport
  <2>2. told'.created \subseteq told.created \cup import.kept /\ told'.deleted = told.deleted
    BY <1>11 DEF ImportDone, PageTypes
  <2>3. Gone' = Gone /\ Made' \subseteq Made
    BY <2>1, <2>2 DEF Gone, Made, Copied
  <2> QED
    BY <1>a, <2>1, <2>3
<1>12. CASE ImportFails
  <2>1. import'.flushed = {} /\ import'.kept = {} /\ UNCHANGED <<rows, deleting, copy, told>>
    BY <1>12 DEF ImportFails, NoImport
  <2>2. Made' \subseteq Made
    BY <1>c, <2>1 DEF Made
  <2> QED
    BY <1>a, <1>b, <2>1, <2>2
<1>13. CASE AnswerLost
  <2>1. import'.flushed = import.flushed /\ import'.kept = import.kept
        /\ UNCHANGED <<rows, deleting, copy, told>>
    BY <1>13 DEF AnswerLost, ImportShape
  <2>2. Made' = Made
    BY <1>c, <2>1 DEF Made
  <2> QED
    BY <1>a, <1>b, <2>1, <2>2
<1>14. CASE TakeList
  <2>1. told'.created = told.created /\ told'.deleted = told.deleted
    BY <1>14 DEF TakeList, PageTypes
  <2> QED
    BY <1>14, <1>a, <2>1 DEF TakeList, Gone, Made, Copied
<1>15. ASSUME NEW r \in Rows, OthersDelete(r) PROVE RowsAreApart'
  <2>1. rows' \subseteq rows /\ UNCHANGED <<import, deleting, copy, told>>
    BY <1>15 DEF OthersDelete
  <2> QED
    BY <1>a, <1>b, <1>c, <2>1 DEF Made
<1>16. CASE UNCHANGED <<rows, import, deleting, copy, told>>
  BY <1>16, <1>a, <1>b, <1>c DEF Made
<1> QED
  BY <1>1, <1>2, <1>3, <1>4, <1>5, <1>6, <1>7, <1>8, <1>9, <1>10, <1>11, <1>12, <1>13, <1>14, <1>15, <1>16
     DEF Next, vars, Open, Leave, ServeList, FailList, Age, OtherImport

LEMMA HeardStep == ListInv /\ [Next]_vars => AnswerHasOwn' /\ ListShowsOwnChanges'
<1> SUFFICES ASSUME ListInv, [Next]_vars PROVE AnswerHasOwn' /\ ListShowsOwnChanges'
  OBVIOUS
<1>0. Base /\ PageTypes /\ RowsAreApart /\ AnswerHasOwn /\ ListShowsOwnChanges
  BY DEF ListInv
<1> USE <1>0 DEF AnswerHasOwn, ListShowsOwnChanges, Fresh, server, cache, history
(* Rows nobody has been told of change nothing. *)
<1>a. ASSUME UNCHANGED <<entry, fetch, told>>, rows' \cap told.created \subseteq rows
      PROVE  AnswerHasOwn' /\ ListShowsOwnChanges'
  BY <1>a
(* Once it is invalidated, the list is not fresh, nor is an answer on its way. *)
<1>b. ASSUME Invalidate PROVE AnswerHasOwn' /\ ListShowsOwnChanges'
  <2>1. entry'.old = TRUE
    BY <1>b DEF Invalidate, Invalidated, Asked, Outdated, PageTypes, Entry
  <2>2. CASE fetch' = Sent
    BY <2>1, <2>2 DEF Sent, NoFetch
  <2>3. CASE fetch' = [fetch EXCEPT !.late = @ \/ Unstoppable]
    <3>1. ~Refetches(entry, mounted, fetch.stage = "none") \/ fetch' = Sent
      BY <1>b DEF Invalidate
    <3>2. fetch'.stage = "served" => fetch' = Sent \/ fetch'.late = TRUE
      BY <2>3, <3>1 DEF Refetches, Unstoppable, PageTypes, Fetch
    <3> QED
      BY <2>1, <2>2, <3>2
  <2> QED
    BY <1>b, <2>2, <2>3 DEF Invalidate
<1>1. CASE Open
  <2>1. UNCHANGED <<entry, fetch, told, rows>> \/ (fetch' = Sent /\ UNCHANGED <<told, rows>>)
    BY <1>1 DEF Open
  <2> QED
    BY <1>a, <2>1 DEF Sent, NoFetch
<1>2. CASE ServeList
  <2>1. fetch'.stage = "served" /\ fetch'.answer = rows /\ UNCHANGED <<told, rows>>
    BY <1>2 DEF ServeList, PageTypes, Fetch
  <2> QED
    BY <2>1 DEF RowsAreApart, Gone
<1>3. CASE TakeList
  <2>1. /\ entry'.data = fetch.answer /\ fetch.stage = "served" /\ fetch'.stage = "none"
        /\ told'.late = fetch.late /\ told'.deleted = told.deleted /\ told'.created = told.created
        /\ UNCHANGED rows
    BY <1>3 DEF TakeList, Answered, NoFetch, PageTypes
  <2> QED
    BY <2>1
<1>4. CASE FailList
  <2>1. entry'.status = "error" /\ fetch'.stage = "none"
    BY <1>4 DEF FailList, Failed, NoFetch, PageTypes, Entry
  <2> QED
    BY <2>1
<1>5. CASE Age
  <2>1. entry'.old = TRUE /\ UNCHANGED <<fetch, told, rows>>
    BY <1>5 DEF Age, Outdated, PageTypes, Entry
  <2> QED
    BY <2>1
<1>6. ASSUME NEW r \in Rows, DeleteDone(r) PROVE AnswerHasOwn' /\ ListShowsOwnChanges'
  BY <1>6, <1>b DEF DeleteDone
<1>7. ASSUME NEW r \in Rows, ServeDelete(r) \/ OthersDelete(r)
      PROVE  AnswerHasOwn' /\ ListShowsOwnChanges'
  BY <1>7, <1>a DEF ServeDelete, OthersDelete
<1>8. CASE CopyDone
  BY <1>8, <1>b DEF CopyDone
<1>9. CASE ServeCopy
  <2>1. Create(0) /\ rows' = rows \cup {born'} /\ UNCHANGED <<entry, fetch, told>>
    BY <1>9 DEF ServeCopy
  <2>2. born' \notin told.created
    BY <2>1 DEF Create, RowsAreApart, Made, Base, Numbered
  <2> QED
    BY <1>a, <2>1, <2>2
<1>10. CASE GoodLine
  <2>1. Create(LineOf) /\ rows' \subseteq rows \cup {born'} /\ UNCHANGED <<entry, fetch, told>>
    BY <1>10 DEF GoodLine
  <2>2. born' \notin told.created
    BY <2>1 DEF Create, RowsAreApart, Made, Base, Numbered
  <2> QED
    BY <1>a, <2>1, <2>2
<1>11. CASE ImportCommits
  <2>1. rows' = rows \cup import.flushed /\ UNCHANGED <<entry, fetch, told>>
    BY <1>11 DEF ImportCommits
  <2>2. import.flushed \cap told.created = {}
    BY DEF RowsAreApart, Made
  <2> QED
    BY <1>a, <2>1, <2>2
<1>12. CASE ImportDone
  <2>1. Invalidate \/ UNCHANGED <<entry, fetch, told, rows>>
    BY <1>12 DEF ImportDone
  <2> QED
    BY <1>a, <1>b, <2>1
<1>13. CASE UNCHANGED <<entry, fetch, told, rows>>
  BY <1>13, <1>a
<1>14. \/ Open \/ ServeList \/ TakeList \/ FailList \/ Age
       \/ \E r \in Rows : DeleteDone(r) \/ ServeDelete(r) \/ OthersDelete(r)
       \/ CopyDone \/ ServeCopy \/ GoodLine \/ ImportCommits \/ ImportDone
       \/ UNCHANGED <<entry, fetch, told, rows>>
  BY OtherImportStep
     DEF Next, vars, Leave, Delete, DeleteFails, Copy, Add, ServeRead, CopyFails, Import, OtherImport,
         BadLine, ImportCrashes, AnswerLost, ImportFails
<1> HIDE <1>0 DEF AnswerHasOwn, ListShowsOwnChanges, Fresh, server, cache, history
<1> QED
  BY <1>1, <1>2, <1>3, <1>4, <1>5, <1>6, <1>7, <1>8, <1>9, <1>10, <1>11, <1>12, <1>13, <1>14

(* A list that is shown as fresh has every change its page was told of. *)
THEOREM ListsStayOwn == Spec => []ListShowsOwnChanges
<1>1. ListInv /\ [Next]_vars => ListInv'
  BY BaseStep, PageTypesStep, ApartStep, HeardStep DEF ListInv
<1>2. ListInv => ListShowsOwnChanges
  BY DEF ListInv
<1> QED
  BY <1>1, <1>2, InitList, PTL DEF Spec

-----------------------------------------------------------------------------
(* The rest of the types: an import never leaves its file, and a list shows rows
   that were made. *)
Rest == /\ list \in Pages /\ mounted \in BOOLEAN /\ unheard \in BOOLEAN
        /\ entry.data \in (SUBSET (1..born)) \cup {NoData} /\ fetch.answer \subseteq 1..born
        /\ line \in [Rows -> 0..MaxLines]
        /\ import.at <= Len(import.lines) /\ import.counted <= import.at

TypeInv == ListInv /\ Rest

LEMMA FilesFit == \A f \in Files \cup {<<>>} : Len(f) \in 0..MaxLines
<1>1. ASSUME NEW n \in 1..MaxLines, NEW f \in [1..n -> Lines] PROVE Len(f) \in 0..MaxLines
  <2>1. n \in Nat /\ f \in Seq(Lines)
    BY <1>1, BoundsAssumption
  <2>2. DOMAIN f = 1..n /\ DOMAIN f = 1..Len(f) /\ Len(f) \in Nat
    BY <2>1
  <2> QED
    BY <2>1, <2>2, BoundsAssumption
<1>2. Len(<<>>) = 0
  OBVIOUS
<1> QED
  BY <1>1, <1>2, BoundsAssumption DEF Files

LEMMA InitRest == Init => Rest
<1> SUFFICES ASSUME Init PROVE Rest
  OBVIOUS
<1>1. import.at = 0 /\ import.counted = 0 /\ import.lines = <<>> /\ fetch.answer = {} /\ entry.data = NoData
  BY DEF Init, NoImport, NoFetch, Blank
<1>2. list \in Pages /\ mounted = FALSE /\ unheard = FALSE /\ line = [r \in Rows |-> 0]
  BY DEF Init
<1>3. 0 \in 0..MaxLines
  BY BoundsAssumption
<1>4. line \in [Rows -> 0..MaxLines]
  BY <1>2, <1>3
<1>5. Len(<<>>) = 0
  OBVIOUS
<1>6. import.at <= Len(import.lines) /\ import.counted <= import.at
  BY <1>1, <1>5
<1> QED
  BY <1>1, <1>2, <1>4, <1>6 DEF Rest

(* The imports. *)
LEMMA ImportRest ==
  ASSUME TypeInv, [Next]_vars
  PROVE  /\ import'.at <= Len(import'.lines) /\ import'.counted <= import'.at
         /\ line' \in [Rows -> 0..MaxLines]
<1> DEFINE Goal == /\ import'.at <= Len(import'.lines) /\ import'.counted <= import'.at
                   /\ line' \in [Rows -> 0..MaxLines]
<1>0. /\ Base /\ import \in ImportShape /\ line \in [Rows -> 0..MaxLines]
      /\ import.at <= Len(import.lines) /\ import.counted <= import.at
      /\ import.at \in Nat /\ import.counted \in Nat /\ Len(import.lines) \in 0..MaxLines
  BY FilesFit DEF TypeInv, ListInv, Base, Numbered, Rest, ImportShape
<1>1. CASE GoodLine
  <2>1. /\ import'.at = import.at + 1 /\ import'.counted = import.counted + 1
        /\ import'.lines = import.lines /\ import.at < Len(import.lines)
    BY <1>0, <1>1 DEF GoodLine, ImportShape
  <2>2. LineOf \in 0..MaxLines
    BY <1>0, <2>1, BoundsAssumption DEF LineOf
  <2>3. line' \in [Rows -> 0..MaxLines]
    BY <1>0, <1>1, <2>2 DEF GoodLine, Create
  <2> QED
    BY <1>0, <2>1, <2>3
<1>2. CASE BadLine
  <2>1. /\ import'.at = import.at + 1 /\ import'.counted = import.counted
        /\ import'.lines = import.lines /\ import.at < Len(import.lines) /\ line' = line
    <3>1. import.at = Len(import.lines) \/ import.at < Len(import.lines)
      BY <1>0
    <3> QED
      BY <1>0, <1>2, <3>1 DEF BadLine, ImportShape, server
  <2> QED
    BY <1>0, <2>1
<1>3. CASE ImportCommits \/ ImportCrashes \/ AnswerLost
  <2>1. /\ import'.at = import.at /\ import'.counted = import.counted
        /\ import'.lines = import.lines /\ line' = line
    BY <1>0, <1>3 DEF ImportCommits, ImportCrashes, AnswerLost, ImportShape, server
  <2> QED
    BY <1>0, <2>1
<1>4. ASSUME import'.at = 0, import'.counted = 0, Len(import'.lines) \in 0..MaxLines, line' = line
      PROVE  Goal
  BY <1>0, <1>4, BoundsAssumption
<1>5. CASE Import
  <2>1. import'.at = 0 /\ import'.counted = 0 /\ import'.lines = file /\ line' = line
    BY <1>5 DEF Import, NoImport, server
  <2>2. file \in Files \cup {<<>>}
    BY <1>0 DEF Base, Numbered
  <2> QED
    BY <1>4, <2>1, <2>2, FilesFit
<1>6. ASSUME NEW f \in Files, NEW skip \in BOOLEAN, ImportOfOthers(f, skip) PROVE Goal
  <2>1. import'.at = 0 /\ import'.counted = 0 /\ import'.lines = f /\ line' = line
    BY <1>6 DEF ImportOfOthers, NoImport, server
  <2> QED
    BY <1>4, <2>1, FilesFit
<1>7. CASE ImportDone \/ ImportFails
  <2>1. import'.at = 0 /\ import'.counted = 0 /\ import'.lines = <<>> /\ line' = line
    BY <1>7 DEF ImportDone, ImportFails, NoImport, server
  <2> QED
    BY <1>4, <2>1, FilesFit
<1>8. CASE ServeCopy
  <2>1. line' = [line EXCEPT ![born + 1] = 0] /\ import' = import
    BY <1>8 DEF ServeCopy, Create
  <2>2. 0 \in 0..MaxLines
    BY BoundsAssumption
  <2> QED
    BY <1>0, <2>1, <2>2
<1>9. CASE UNCHANGED <<import, line>>
  BY <1>0, <1>9
<1>10. \/ GoodLine \/ BadLine \/ ImportCommits \/ ImportCrashes \/ AnswerLost \/ Import
       \/ \E f \in Files, skip \in BOOLEAN : ImportOfOthers(f, skip)
       \/ ImportDone \/ ImportFails \/ ServeCopy \/ UNCHANGED <<import, line>>
  BY DEF Next, vars, server, Open, Leave, ServeList, TakeList, FailList, Age, Delete, ServeDelete,
         DeleteDone, DeleteFails, Copy, Add, ServeRead, CopyDone, CopyFails, OthersDelete
<1> HIDE DEF Goal
<1>11. Goal
  BY <1>4, <1>5, <1>6, <1>7, <1>10, <1>1, <1>2, <1>3, <1>8, <1>9 DEF Goal
<1> QED
  BY <1>11 DEF Goal

(* The page and its cache. *)
LEMMA CacheRest ==
  ASSUME TypeInv, [Next]_vars
  PROVE  /\ entry'.data \in (SUBSET (1..born')) \cup {NoData} /\ fetch'.answer \subseteq 1..born'
         /\ list' \in Pages /\ mounted' \in BOOLEAN /\ unheard' \in BOOLEAN
<1>0. /\ entry.data \in (SUBSET (1..born)) \cup {NoData} /\ fetch.answer \subseteq 1..born
      /\ entry \in Entry(SUBSET Rows) /\ fetch \in Fetch /\ rows \subseteq 1..born
      /\ list \in Pages /\ mounted \in BOOLEAN /\ unheard \in BOOLEAN
      /\ 1..born \subseteq 1..born'
  BY BornGrows DEF TypeInv, ListInv, Rest, PageTypes, Base, Numbered
<1>1. entry'.data \in {entry.data, fetch.answer} /\ fetch'.answer \subseteq fetch.answer \cup rows
  <2>1. /\ Asked(entry).data = entry.data /\ Failed(entry).data = entry.data
        /\ Outdated(entry).data = entry.data /\ Answered(fetch.answer).data = fetch.answer
        /\ NoFetch.answer = {} /\ Sent.answer = {}
        /\ Invalidated(entry, mounted).data = entry.data
        /\ [fetch EXCEPT !.late = @ \/ Unstoppable].answer = fetch.answer
        /\ [fetch EXCEPT !.stage = "served", !.answer = rows].answer = rows
    BY <1>0 DEF Entry, Fetch, Asked, Failed, Outdated, Invalidated, Answered, NoFetch, Sent
  <2>2. CASE Open
    BY <2>1, <2>2 DEF Open
  <2>3. CASE ServeList
    BY <2>1, <2>3 DEF ServeList
  <2>4. CASE TakeList
    BY <2>1, <2>4 DEF TakeList
  <2>5. CASE FailList
    BY <2>1, <2>5 DEF FailList
  <2>6. CASE Age
    BY <2>1, <2>6 DEF Age
  <2>7. CASE Invalidate
    BY <2>1, <2>7 DEF Invalidate
  <2>8. CASE UNCHANGED <<entry, fetch>>
    BY <2>8
  <2>9. Open \/ ServeList \/ TakeList \/ FailList \/ Age \/ Invalidate \/ UNCHANGED <<entry, fetch>>
    BY OtherImportStep
       DEF Next, vars, cache, Leave, Delete, ServeDelete, DeleteDone, DeleteFails, Copy, Add, ServeRead,
           ServeCopy, CopyDone, CopyFails, Import, OtherImport, GoodLine, BadLine, ImportCommits,
           ImportCrashes, AnswerLost, ImportDone, ImportFails, OthersDelete
  <2> QED
    BY <2>2, <2>3, <2>4, <2>5, <2>6, <2>7, <2>8, <2>9
<1>2. UNCHANGED list
  BY DEF Next, vars, history, Open, Leave, ServeList, TakeList, FailList, Age, Delete, ServeDelete,
         DeleteDone, DeleteFails, Copy, Add, ServeRead, ServeCopy, CopyDone, CopyFails, Import,
         ImportOfOthers, GoodLine, BadLine, ImportCommits, ImportCrashes, AnswerLost, ImportDone,
         ImportFails, OthersDelete
<1>3. mounted' \in {TRUE, FALSE, mounted, mounted /\ list.copies = "added"}
  BY DEF Next, vars, history, Open, Leave, ServeList, TakeList, FailList, Age, Delete, ServeDelete,
         DeleteDone, DeleteFails, Copy, Add, ServeRead, ServeCopy, CopyDone, CopyFails, Import,
         ImportOfOthers, GoodLine, BadLine, ImportCommits, ImportCrashes, AnswerLost, ImportDone,
         ImportFails, OthersDelete
<1>4. UNCHANGED unheard \/ unheard' = TRUE
  BY DEF Next, vars, history, Open, Leave, ServeList, TakeList, FailList, Age, Delete, ServeDelete,
         DeleteDone, DeleteFails, Copy, Add, ServeRead, ServeCopy, CopyDone, CopyFails, Import,
         ImportOfOthers, GoodLine, BadLine, ImportCommits, ImportCrashes, AnswerLost, ImportDone,
         ImportFails, OthersDelete
<1> QED
  BY <1>0, <1>1, <1>2, <1>3, <1>4

(* Type correctness: rows are numbered as they are made, an import stays within its
   file and a list within the rows there have been. *)
THEOREM TypeCorrectness == Spec => []TypeOK
<1>1. Init => TypeInv
  BY InitList, InitRest DEF TypeInv
<1>2. TypeInv /\ [Next]_vars => TypeInv'
  <2> SUFFICES ASSUME TypeInv, [Next]_vars PROVE TypeInv'
    OBVIOUS
  <2>1. ListInv'
    BY BaseStep, PageTypesStep, ApartStep, HeardStep DEF TypeInv, ListInv
  <2>2. Rest'
    BY ImportRest, CacheRest DEF Rest
  <2> QED
    BY <2>1, <2>2 DEF TypeInv
<1>3. TypeInv => TypeOK
  <2> SUFFICES ASSUME TypeInv PROVE TypeOK
    OBVIOUS
  <2>1. IsImport(import)
    <3>1. import \in ImportShape /\ import.at <= Len(import.lines) /\ import.counted <= import.at
      BY DEF TypeInv, ListInv, Base, Numbered, Rest
    <3>2. Len(import.lines) \in Nat
      BY <3>1, FilesFit DEF ImportShape
    <3> QED
      BY <3>1, <3>2 DEF IsImport, ImportShape
  <2>2. entry.old \in BOOLEAN
    BY DEF TypeInv, ListInv, PageTypes, Entry
  <2> QED
    BY <2>1, <2>2 DEF TypeInv, ListInv, Base, Numbered, PageTypes, Rest, TypeOK
<1> QED
  BY <1>1, <1>2, <1>3, PTL DEF Spec
=============================================================================
