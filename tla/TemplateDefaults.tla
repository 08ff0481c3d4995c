--------------------------- MODULE TemplateDefaults ---------------------------
(***************************************************************************)
(* The default object template of each resource type                       *)
(* (nims/routers/v1/templates.py).  A request that makes a template the    *)
(* default clears the old defaults it has read and sets the flag of its    *)
(* own row, unless the copy it has loaded says that the flag is set        *)
(* already: the ORM writes only the columns that change.  Rows are read    *)
(* without locks and written at the commit, so what was read may be out of *)
(* date by then.                                                           *)
(***************************************************************************)

EXTENDS RowRequests

CONSTANTS
  Templates,   \* ids of ObjectTemplate rows
  Types,       \* resource types
  TypeOf       \* the resource type of each template, which no operation changes

ASSUME TypesAssumption == TypeOf \in [Templates -> Types]
ASSUME NoneAssumption == None \notin Templates

VARIABLES
  rows,       \* the committed rows
  flagged,    \* those with isDefault set
  system,     \* those with isSystem set
  used        \* the ids that were ever given to a row

(* overtaken: requests under which another request about their type has
   committed; raced: an overtaken request has set a default. *)

table == <<rows, flagged, system>>
vars == <<rows, flagged, system, used, req, overtaken, raced>>

-----------------------------------------------------------------------------
(* "make" stands for POST set-default and for PATCH with isDefault true,
   "unmake" for PATCH with isDefault false. *)
Request == [pc : {"idle", "clear", "write"},
            op : {"create", "create_default", "make", "unmake", "delete"},
            target : Templates \cup {None},
            loaded : SUBSET Templates,       \* the target, if it was read with isDefault set
            cleared : SUBSET Templates]      \* the old defaults to be cleared
Idle == [pc |-> "idle", op |-> "create", target |-> None, loaded |-> {},
         cleared |-> {}]

TypeOK == /\ used \subseteq Templates
          /\ rows \subseteq used
          /\ flagged \subseteq rows
          /\ system \subseteq rows
          /\ req \in [Requests -> Request]
          /\ overtaken \subseteq Requests
          /\ raced \in BOOLEAN

OfType(ty) == {t \in Templates : TypeOf[t] = ty}
Defaults(ty) == flagged \cap OfType(ty)

(* The seed leaves one system template per type, which is its default. *)
Init == /\ rows \in SUBSET Templates
        /\ \A t, u \in rows : TypeOf[t] = TypeOf[u] => t = u
        /\ flagged = rows
        /\ system = rows
        /\ used = rows
        /\ req = [p \in Requests |-> Idle]
        /\ overtaken = {}
        /\ raced = FALSE

-----------------------------------------------------------------------------
Creates(p) == req[p].op \in {"create", "create_default"}
Makes(p) == req[p].op \in {"create_default", "make"}
Siblings(p) == OfType(TypeOf[req[p].target])

Begin(p, op, t, pc) ==
  /\ req[p].pc = "idle"
  /\ req' = [req EXCEPT ![p] = [pc |-> pc, op |-> op, target |-> t,
                                loaded |-> {t} \cap flagged, cleared |-> {}]]
  /\ UNCHANGED <<table, overtaken, raced>>

(* The slug is free (otherwise the answer is 409 and nothing changes) and the
   row gets an id of its own. *)
BeginCreate(p) ==
  \E t \in Templates \ used, op \in {"create", "create_default"} :
    /\ Begin(p, op, t, IF op = "create" THEN "write" ELSE "clear")
    /\ used' = used \cup {t}

BeginEdit(p) ==
  \E t \in rows, op \in {"make", "unmake"} :
    /\ Begin(p, op, t, IF op = "make" THEN "clear" ELSE "write")
    /\ UNCHANGED used

BeginDelete(p) ==
  \E t \in rows \ system : Begin(p, "delete", t, "write") /\ UNCHANGED used

(* Mutants: defaults are cleared only when an existing template is edited;
   only one of several defaults is cleared; those of every type are. *)
OldDefaults_EditsOnly(p) ==
  IF req[p].op = "make" THEN (flagged \cap Siblings(p)) \ {req[p].target} ELSE {}
OldDefaults_First(p) ==
  LET old == (flagged \cap Siblings(p)) \ {req[p].target}
  IN  IF old = {} THEN {} ELSE {CHOOSE t \in old : TRUE}
OldDefaults_AllTypes(p) == flagged \ {req[p].target}

(* The rows the clearing query finds now.  The target, if it is one of them,
   is cleared and set again in memory, which comes to no change. *)
OldDefaults(p) == (flagged \cap Siblings(p)) \ {req[p].target}

ClearDefaults(p) ==
  /\ req[p].pc = "clear"
  /\ req' = [req EXCEPT ![p] = [@ EXCEPT !.pc = "write", !.cleared = OldDefaults(p)]]
  /\ UNCHANGED <<table, used, overtaken, raced>>

(* The request ends; whoever works on the same type has been overtaken. *)
Finish(p) ==
  /\ req[p].pc = "write"
  /\ req' = [req EXCEPT ![p] = Idle]
  /\ overtaken' = (overtaken \cup {q \in Requests : req[q].pc # "idle"
                                      /\ req[q].target \in Siblings(p)}) \ {p}
  /\ raced' = (raced \/ (p \in overtaken /\ Makes(p)))
  /\ UNCHANGED used

CommitCreate(p) ==
  /\ Creates(p)
  /\ req[p].cleared \subseteq rows
  /\ rows' = rows \cup {req[p].target}
  /\ flagged' = (flagged \ req[p].cleared)
                  \cup (IF Makes(p) THEN {req[p].target} ELSE {})
  /\ UNCHANGED system
  /\ Finish(p)

(* The target's flag is written only if the loaded copy differs. *)
CommitMake(p) ==
  /\ req[p].op = "make"
  /\ req[p].cleared \cup {req[p].target} \subseteq rows
  /\ flagged' = (flagged \ req[p].cleared)
                  \cup ({req[p].target} \ req[p].loaded)
  /\ UNCHANGED <<rows, system>>
  /\ Finish(p)

CommitUnmake(p) ==
  /\ req[p].op = "unmake"
  /\ req[p].target \in rows
  /\ flagged' = flagged \ req[p].loaded
  /\ UNCHANGED <<rows, system>>
  /\ Finish(p)

(* Deleting a row that is gone already is a warning, not an error. *)
CommitDelete(p) ==
  /\ req[p].op = "delete"
  /\ rows' = rows \ {req[p].target}
  /\ flagged' = flagged \ {req[p].target}
  /\ system' = system \ {req[p].target}
  /\ Finish(p)

(* An UPDATE of a row that was deleted meanwhile raises StaleDataError, or the
   process dies: the transaction is gone. *)
Fail(p) ==
  /\ req[p].pc # "idle"
  /\ req' = [req EXCEPT ![p] = Idle]
  /\ overtaken' = overtaken \ {p}
  /\ UNCHANGED <<table, used, raced>>

Commit(p) == CommitCreate(p) \/ CommitMake(p) \/ CommitUnmake(p) \/ CommitDelete(p)

Next == \E p \in Requests : \/ BeginCreate(p) \/ BeginEdit(p) \/ BeginDelete(p)
                            \/ ClearDefaults(p) \/ Commit(p) \/ Fail(p)

Spec == Init /\ [][Next]_vars

-----------------------------------------------------------------------------
(* Properties.                                                             *)

(* Two templates of one type are the default only after a request that makes
   a default was overtaken between its reads and its commit: overlapping
   deletions, creations and "unmake" edits alone never lead there. *)
OneDefaultPerType == \A ty \in Types : \A t, u \in Defaults(ty) : t = u
TwoDefaultsNeedRace == ~raced => OneDefaultPerType

(* A request that makes a default and is not overtaken leaves its target as
   the only one, whatever races had left behind: the state heals. *)
MakingHeals ==
  [][\A p \in Requests : Commit(p) /\ Makes(p) /\ p \notin overtaken
       => flagged' \cap Siblings(p) = {req[p].target}]_vars

(* A default disappears in three ways only: it is unmade or deleted by a
   request about that very template, or a request that makes another template
   of its type the default clears it.  That last one puts its target in its
   place: a type is left without a default only by an unmake, a deletion, or a
   request that found its target to be the default already and was overtaken
   by the one that cleared it, for then the ORM does not write the flag. *)
DefaultsAreReplaced ==
  [][/\ \A t \in flagged \ flagged' :
          \E p \in Requests :
            /\ Commit(p)
            /\ t \in Siblings(p)
            /\ IF req[p].target = t THEN req[p].op \in {"unmake", "delete"} ELSE Makes(p)
     /\ \A ty \in Types : Defaults(ty) # {} /\ Defaults(ty)' = {} =>
          \E p \in Requests :
            /\ Commit(p)
            /\ TypeOf[req[p].target] = ty
            /\ \/ req[p].op \in {"unmake", "delete"}
               \/ req[p].op = "make" /\ p \in overtaken /\ req[p].loaded # {}]_vars

-----------------------------------------------------------------------------
(* The inductive invariant: what a request has read is still so unless it
   was overtaken.                                                          *)

IdleHoldNothing == \A p \in Requests : req[p].pc = "idle" => req[p].target = None
FreshReads ==
  \A p \in Requests : req[p].pc # "idle" =>
    /\ req[p].target \in used \ req[p].cleared
    /\ req[p].cleared \subseteq Siblings(p)
    /\ req[p].loaded \subseteq {req[p].target}
    /\ Makes(p) \/ (req[p].pc = "write" /\ req[p].cleared = {})
    /\ Creates(p) => /\ req[p].target \notin rows
                     /\ \A q \in Requests : req[q].target = req[p].target => q = p
    /\ p \notin overtaken =>
         /\ req[p].loaded = {req[p].target} \cap flagged
         /\ req[p].pc = "write" /\ Makes(p) => req[p].cleared = OldDefaults(p)

IInv == TypeOK /\ IdleHoldNothing /\ FreshReads /\ TwoDefaultsNeedRace

=============================================================================
