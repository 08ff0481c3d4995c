----------------------------- MODULE DcimLifecycle -----------------------------
(***************************************************************************)
(* Locations, racks, devices and interfaces (nims/routers/v1/dcim.py).     *)
(* Every object stands in a parent: a location in a location, a rack in a  *)
(* location, a device in a rack, an interface on a device.  A deletion is  *)
(* a mark on the row, so the foreign keys say nothing about live objects:  *)
(* that a parent is live, and that what is deleted has no dependents, is   *)
(* read before the commit and not locked.                                  *)
(***************************************************************************)
EXTENDS FiniteSets

CONSTANTS
  Objects,    \* ids of Location, Rack, Device and Interface rows
  KindOf,     \* the table each belongs to
  Requests,   \* concurrent requests
  None        \* no object; no kind

Kinds == {"location", "rack", "device", "interface"}

ASSUME KindsAssumption == KindOf \in [Objects -> Kinds]
ASSUME NoneAssumption == None \notin Objects \cup Kinds

VARIABLES
  rows,       \* the rows
  live,       \* those without deletedAt
  parent,     \* parentId, locationId, rackId or deviceId
  extended,   \* the objects that have a ResourceExtension row
  req,        \* the requests in progress
  (* history variables *)
  unchecked,  \* objects whose parent was written by a path without checks
  overtaken,  \* requests whose reads a conflicting commit has outdated
  raced       \* objects that an overtaken request has committed a change about

table == <<rows, live, parent, extended>>
vars == <<rows, live, parent, extended, req, unchecked, overtaken, raced>>

-----------------------------------------------------------------------------
(* A request at "dependents" looks for live objects of the kind "dependents"
   in its target; "conflict" and "raised" are about to answer 409 and 500. *)
Request == [pc : {"idle", "dependents", "write", "conflict", "raised"},
            op : {"create", "update", "delete"},
            target : Objects \cup {None},
            parent : Objects \cup {None},      \* the parent to be written
            loaded : Objects \cup {None},      \* the parent as it was loaded
            extension : {"keep", "insert", "update", "remove"},
            dependents : Kinds \cup {None}]
Idle == [pc |-> "idle", op |-> "create", target |-> None, parent |-> None,
         loaded |-> None, extension |-> "keep", dependents |-> None]

TypeOK == /\ rows \subseteq Objects
          /\ live \subseteq rows
          /\ parent \in [Objects -> Objects \cup {None}]
          /\ extended \subseteq rows
          /\ req \in [Requests -> Request]
          /\ unchecked \subseteq rows
          /\ overtaken \subseteq Requests
          /\ raced \subseteq Objects

Init == /\ rows = {} /\ live = {} /\ extended = {}
        /\ parent = [x \in Objects |-> None]
        /\ req = [p \in Requests |-> Idle]
        /\ unchecked = {} /\ overtaken = {} /\ raced = {}

-----------------------------------------------------------------------------
(* The kinds an object of a kind may stand in; a location and a device may do
   without. *)
ParentKind(kind) == IF kind \in {"location", "rack"} THEN "location"
                    ELSE IF kind = "device" THEN "rack" ELSE "device"
Roots(kind) == IF kind \in {"location", "device"} THEN {None} ELSE {}

(* What delete_location, delete_rack and delete_device look for, in order. *)
FirstDependents(kind) == IF kind = "location" THEN "location"
                         ELSE IF kind = "rack" THEN "device" ELSE "interface"
NextDependents(kind) == IF kind = "location" THEN "rack" ELSE None

In(S, kind) == {x \in S : KindOf[x] = kind}

(* assert_location_in_org, assert_rack_in_org, and the device of an interface. *)
Parents(kind) == In(live, ParentKind(kind)) \cup Roots(kind)

Begin(p, request) == /\ req[p].pc = "idle"
                     /\ req' = [req EXCEPT ![p] = request]
                     /\ UNCHANGED <<table, unchecked, overtaken, raced>>

Create(p, kind, extensions) ==
  \E x \in In(Objects \ rows, kind), y \in Parents(kind), ext \in extensions :
    /\ \A q \in Requests : req[q].target # x     \* uuid4
    /\ Begin(p, [Idle EXCEPT !.pc = "write", !.target = x, !.parent = y,
                             !.extension = ext])

CreateLocation(p) == Create(p, "location", {"keep", "insert"})
CreateRack(p) == Create(p, "rack", {"keep", "insert"})
CreateDevice(p) == Create(p, "device", {"keep", "insert"})
CreateInterface(p) == Create(p, "interface", {"keep"})

(* _apply_extension_patch: what it does follows from what it reads. *)
ExtensionPatches(x) ==
  {"keep"} \cup (IF x \in extended THEN {"update", "remove"} ELSE {"insert"})

(* A body without parent leaves the loaded one, which is not checked then. *)
Update(p, kind) ==
  \E x \in In(live, kind) :
    \E y \in (Parents(kind) \ {x}) \cup {parent[x]}, ext \in ExtensionPatches(x) :
      Begin(p, [Idle EXCEPT !.pc = "write", !.op = "update", !.target = x,
                            !.parent = y, !.loaded = parent[x], !.extension = ext])

UpdateLocation(p) == Update(p, "location")
UpdateRack(p) == Update(p, "rack")
UpdateDevice(p) == Update(p, "device")

Delete(p, kind) ==
  \E x \in In(live, kind) :
    Begin(p, [Idle EXCEPT !.pc = "dependents", !.op = "delete", !.target = x,
                          !.dependents = FirstDependents(kind)])

DeleteLocation(p) == Delete(p, "location")
DeleteRack(p) == Delete(p, "rack")
DeleteDevice(p) == Delete(p, "device")

(* Mutant: the racks of a location are forgotten. *)
Found_NoRacks(p) ==
  {x \in In(live, req[p].dependents) : parent[x] = req[p].target /\ KindOf[x] # "rack"}

Found(p) == {x \in In(live, req[p].dependents) : parent[x] = req[p].target}

(* Mutant: the extension stays. *)
RemovedExtension_None(p) == "keep"

(* The extension that the DELETE statement of a deletion finds. *)
RemovedExtension(p) == IF req[p].target \in extended THEN "remove" ELSE "keep"

(* scalar_one_or_none: one dependent is a conflict, several make it raise. *)
Refusal(p) == IF Cardinality(Found(p)) = 1 THEN "conflict" ELSE "raised"

CheckDependents(p) ==
  LET next == NextDependents(req[p].dependents)
  IN  /\ req[p].pc = "dependents"
      /\ req' = [req EXCEPT ![p] =
                   IF Found(p) # {} THEN [@ EXCEPT !.pc = Refusal(p)]
                   ELSE IF next # None THEN [@ EXCEPT !.dependents = next]
                   ELSE [@ EXCEPT !.pc = "write", !.dependents = None,
                                  !.extension = RemovedExtension(p)]]
      /\ UNCHANGED <<table, unchecked, overtaken, raced>>

-----------------------------------------------------------------------------
(* What a request has read about: its target and the parent it checked. *)
Concerns(p) == {req[p].target, req[p].parent} \ {None}
Conflict(p, q) == /\ req[q].pc # "idle" /\ Concerns(p) \cap Concerns(q) # {}
                  /\ "delete" \in {req[p].op, req[q].op}

Finish(p) ==
  /\ req[p].pc = "write"
  /\ req' = [req EXCEPT ![p] = Idle]
  /\ overtaken' = (overtaken \cup {q \in Requests : Conflict(p, q)}) \ {p}
  /\ raced' = IF p \in overtaken THEN raced \cup Concerns(p) ELSE raced

(* The row of the extension that an UPDATE needs is there, the one that an
   INSERT makes is not. *)
ExtensionHolds(p) == /\ req[p].extension = "insert" => req[p].target \notin extended
                     /\ req[p].extension = "update" => req[p].target \in extended
StoreExtension(p) ==
  extended' = IF req[p].extension = "insert" THEN extended \cup {req[p].target}
              ELSE IF req[p].extension = "remove" THEN extended \ {req[p].target}
              ELSE extended

CommitCreate(p) ==
  /\ req[p].op = "create"
  /\ Finish(p)
  /\ rows' = rows \cup {req[p].target}
  /\ live' = live \cup {req[p].target}
  /\ parent' = [parent EXCEPT ![req[p].target] = req[p].parent]
  /\ StoreExtension(p)
  /\ UNCHANGED unchecked

(* Mutant: the whole row is written, deletedAt included. *)
CommitUpdate_WholeRow(p) ==
  /\ req[p].op = "update"
  /\ Finish(p)
  /\ ExtensionHolds(p)
  /\ live' = live \cup {req[p].target}
  /\ parent' = [parent EXCEPT ![req[p].target] = req[p].parent]
  /\ StoreExtension(p)
  /\ UNCHANGED <<rows, unchecked>>

(* The parent is written only if it differs from the loaded one.  The row may
   have been marked as deleted meanwhile: that does not stop an UPDATE. *)
CommitUpdate(p) ==
  /\ req[p].op = "update"
  /\ Finish(p)
  /\ ExtensionHolds(p)
  /\ IF req[p].parent = req[p].loaded
     THEN UNCHANGED <<parent, unchecked>>
     ELSE /\ parent' = [parent EXCEPT ![req[p].target] = req[p].parent]
          /\ unchecked' = unchecked \ {req[p].target}
  /\ StoreExtension(p)
  /\ UNCHANGED <<rows, live>>

CommitDelete(p) ==
  /\ req[p].op = "delete"
  /\ Finish(p)
  /\ live' = live \ {req[p].target}
  /\ StoreExtension(p)
  /\ UNCHANGED <<rows, parent, unchecked>>

Commit(p) == CommitCreate(p) \/ CommitUpdate(p) \/ CommitDelete(p)

(* The answer of a refused request; or it raises, loses a constraint or a
   deadlock, or its process dies. *)
Abandon(p) ==
  /\ req[p].pc # "idle"
  /\ req' = [req EXCEPT ![p] = Idle]
  /\ overtaken' = overtaken \ {p}
  /\ UNCHANGED <<table, unchecked, raced>>

(* Bulk import (routers/v1/bulk.py) leaves the parent to the foreign key, for
   which a row marked as deleted will do. *)
ImportObject ==
  \E x \in Objects \ rows :
    \E y \in In(rows, ParentKind(KindOf[x])) \cup Roots(KindOf[x]),
       ext \in IF KindOf[x] = "interface" THEN {{}} ELSE SUBSET {x} :
      /\ \A q \in Requests : req[q].target # x
      /\ rows' = rows \cup {x}
      /\ live' = live \cup {x}
      /\ parent' = [parent EXCEPT ![x] = y]
      /\ extended' = extended \cup ext
      /\ unchecked' = unchecked \cup {x}
      /\ UNCHANGED <<req, overtaken, raced>>

(* So does PATCH /catalog/Interface/items/{id}, which sets any column; setting
   deletedAt is the only way to delete an interface. *)
PatchInterface ==
  \E x \in In(live, "interface") :
    /\ \/ \E y \in In(rows, "device") :
             /\ parent' = [parent EXCEPT ![x] = y]
             /\ unchecked' = unchecked \cup {x}
             /\ UNCHANGED live
       \/ live' = live \ {x} /\ UNCHANGED <<parent, unchecked>>
    /\ UNCHANGED <<rows, extended, req, overtaken, raced>>

Next == \/ \E p \in Requests :
             \/ CreateLocation(p) \/ CreateRack(p) \/ CreateDevice(p) \/ CreateInterface(p)
             \/ UpdateLocation(p) \/ UpdateRack(p) \/ UpdateDevice(p)
             \/ DeleteLocation(p) \/ DeleteRack(p) \/ DeleteDevice(p)
             \/ CheckDependents(p) \/ Commit(p) \/ Abandon(p)
        \/ ImportObject
        \/ PatchInterface

Spec == Init /\ [][Next]_vars

-----------------------------------------------------------------------------
(* Properties.                                                             *)

HasLiveParent(x) == parent[x] = None \/ parent[x] \in live

(* A live object stands in a deleted one only if its parent was written by a
   path that does not check, or if a deletion and a change about the parent or
   the object overlapped. *)
OrphansNeedRace ==
  \A x \in live \ unchecked : HasLiveParent(x) \/ {x, parent[x]} \cap raced # {}

(* An object that was deleted has no extension left, unless an edit of it and
   its deletion overlapped. *)
DeletedLoseExtensions == extended \subseteq live \cup raced

(* What was deleted stays deleted: no edit in progress revives it. *)
DeletedStayDeleted == [][rows \ live \subseteq rows' \ live']_vars

-----------------------------------------------------------------------------
(* The inductive invariant.  A request that was not overtaken may still rely
   on what it has read.                                                     *)

InRightKind(kind, y) == y = None \/ KindOf[y] = ParentKind(kind)
ParentsHaveKinds == \A x \in rows : InRightKind(KindOf[x], parent[x])
InterfacesHaveNoExtension == \A x \in extended : KindOf[x] # "interface"

InProgress(r) ==
  /\ r.target \in Objects
  /\ r.op = "create" <=> r.target \notin rows
  /\ r.op \in {"create", "update"} => r.pc = "write"
  /\ InRightKind(KindOf[r.target], r.parent)
  /\ KindOf[r.target] = "interface" => r.op = "create" /\ r.extension = "keep"
  /\ r.op = "delete" => r.parent = None /\ r.extension \in {"keep", "remove"}
  /\ r.pc = "dependents" =>
       r.dependents \in {FirstDependents(KindOf[r.target]),
                         NextDependents(FirstDependents(KindOf[r.target]))} \ {None}

Unseen(r, x) ==   \* dependents that a deletion has not looked for yet
  r.pc = "dependents" /\ KindOf[x] \in {r.dependents, NextDependents(r.dependents)}

Fresh(r) ==
  /\ r.op = "create" \/ (r.op = "update" /\ r.parent # r.loaded) => r.parent \in live \cup {None}
  /\ r.op = "update" => r.target \in live
  /\ r.op = "delete" /\ r.pc \in {"dependents", "write"} =>
       \A x \in live \ unchecked : parent[x] = r.target => Unseen(r, x)
  /\ r.op = "delete" /\ r.pc = "write" /\ r.extension = "keep" => r.target \notin extended

Reads == \A p \in Requests : req[p].pc # "idle" =>
           InProgress(req[p]) /\ (p \notin overtaken => Fresh(req[p]))

(* Only one request creates a row. *)
OneCreator == \A p, q \in Requests :
                req[p].pc # "idle" /\ req[p].op = "create" /\ req[q].target = req[p].target
                  => p = q
IdleHoldNothing == \A p \in Requests : req[p].pc = "idle" => req[p].target = None

IInv == /\ TypeOK /\ ParentsHaveKinds /\ InterfacesHaveNoExtension
        /\ Reads /\ OneCreator /\ IdleHoldNothing
        /\ OrphansNeedRace /\ DeletedLoseExtensions

-----------------------------------------------------------------------------
(* What the code claims and does not ensure.                               *)

(* A deletion that finds dependents answers with a conflict. *)
DependentsAreConflict == \A p \in Requests : req[p].pc # "raised"
=============================================================================
