---------------------------- MODULE ConnectorPanel ----------------------------
(***************************************************************************)
(* Connectors: the registrations on the server (routers/v1/connectors.py), *)
(* the one panel in which the page Plugins & extensions creates, edits and *)
(* deletes them (pages/platform/PluginExtensionsPage.tsx), and the job     *)
(* handler connector.sync, which holds a registration while it probes the  *)
(* network (services/job_runner.py).  The panel reads without the query    *)
(* cache: whatever answer comes last fills its only form.                  *)
(***************************************************************************)
EXTENDS Naturals, FiniteSets

CONSTANTS
  Connectors,   \* ids of registrations
  New,          \* the panel creates a connector
  NoConnector,  \* the panel is closed, or no connector
  Unborn,       \* in place of a row: not created yet
  Deleted,      \* in place of a row: gone
  MaxTyped,     \* bound on what is typed
  MaxOthers     \* bound on the changes others make

ASSUME IdsAssumption == New # NoConnector /\ {New, NoConnector} \cap Connectors = {}
ASSUME BoundsAssumption == MaxTyped \in Nat /\ MaxOthers \in Nat

VARIABLES
  rows,       \* server: the registrations
  editing,    \* editingConnectorId
  form,       \* connForm
  baseline,   \* connBaseline
  load,       \* loadConnectorForEdit
  save,       \* onSaveConnector
  removal,    \* onDeleteConn of each connector
  sync,       \* the connector that connector.sync has read, and its settings then
  typed,      \* edits so far
  others,     \* changes of others so far
  (* history variables *)
  origin,     \* whose content the form was filled with, and what was typed since
  behind      \* which copies lack a change of their connector

panelVars == <<rows, editing, form, baseline, load, save, removal, sync, typed, others, origin, behind>>

-----------------------------------------------------------------------------
(* What is stored.  "sealed" are credentials the server can no longer decrypt. *)
Fields == {"settings", "credentials"}
Row == [settings : {"a", "b"}, credentials : {"none", "s", "sealed"}, healthStatus : {"unknown", "known"}]
ASSUME RowsAssumption == Unborn # Deleted /\ {Unborn, Deleted} \cap Row = {}
Live(c) == rows[c] \notin {Unborn, Deleted}

(* What the form holds; text that is no JSON object is refused before it is sent. *)
Text == [settings : {"a", "b"}, credentials : {"blank", "braces", "s"}]
EmptyConnectorForm == [settings |-> "a", credentials |-> "blank"]

(* An administrator is shown the credentials; null leaves the input empty. *)
Shown(r) == [settings |-> r.settings,
             credentials |-> IF r.credentials = "s" THEN "s" ELSE "blank"]

(* Mutant: empty credentials are stored as they were typed. *)
Patched_Raw(r, t) ==
  [r EXCEPT !.settings = t.settings, !.credentials = t.credentials]

(* A PATCH: no credentials keep the stored ones and {} clears them. *)
Patched(r, t) ==
  [r EXCEPT !.settings = t.settings,
            !.credentials = CASE t.credentials = "blank" -> @
                              [] t.credentials = "braces" -> "none"
                              [] OTHER -> t.credentials]

Created(t) == [settings |-> t.settings, healthStatus |-> "unknown",
               credentials |-> IF t.credentials = "s" THEN "s" ELSE "none"]

Load == [stage : {"none", "sent", "served"}, of : Connectors \cup {NoConnector},
         answer : Text \cup {NoConnector}]
NoLoad == [stage |-> "none", of |-> NoConnector, answer |-> NoConnector]

Save == [stage : {"none", "sent", "served"}, to : Connectors \cup {New, NoConnector}, body : Text,
         (* history *) from : Connectors \cup {New, NoConnector}, touched : SUBSET Fields, crossed : BOOLEAN]
NoSave == [stage |-> "none", to |-> NoConnector, body |-> EmptyConnectorForm,
           from |-> NoConnector, touched |-> {}, crossed |-> FALSE]

Removal == [stage : {"none", "sent", "done"}, closes : BOOLEAN]
NoRemoval == [stage |-> "none", closes |-> FALSE]

Copies == {"load", "form", "save"}
Fresh == [of |-> NoConnector, touched |-> {}, crossed |-> FALSE]

PanelTypeOK == /\ DOMAIN rows = Connectors /\ \A c \in Connectors : Live(c) => rows[c] \in Row
               /\ editing \in Connectors \cup {New, NoConnector}
               /\ form \in Text /\ baseline \in Text
               /\ load \in Load /\ save \in Save
               /\ removal \in [Connectors -> Removal]
               /\ sync.of \in Connectors \cup {NoConnector} /\ sync.probed \in {"a", "b"}
               /\ typed \in 0..MaxTyped /\ others \in 0..MaxOthers
               /\ origin \in [of : Connectors \cup {New, NoConnector}, touched : SUBSET Fields, crossed : BOOLEAN]
               /\ behind \subseteq Copies

NoSync == [of |-> NoConnector, probed |-> "a"]

PanelInit == /\ rows \in [Connectors -> {Unborn} \cup {r \in Row : r.healthStatus = "unknown"}]
             /\ editing = NoConnector
             /\ form = EmptyConnectorForm /\ baseline = EmptyConnectorForm
             /\ load = NoLoad /\ save = NoSave
             /\ removal = [c \in Connectors |-> NoRemoval]
             /\ sync = NoSync
             /\ typed = 0 /\ others = 0
             /\ origin = Fresh /\ behind = {}

panel == <<editing, form, baseline, origin>>
bounds == <<typed, others>>

-----------------------------------------------------------------------------
(* connDetailLoading hides the form and disables the Edit buttons. *)
connDetailLoading == load.stage # "none"

(* Mutant: the form is shown while a connector is loading. *)
FormShown_Loading == editing # NoConnector

FormShown == editing # NoConnector /\ ~connDetailLoading

Dirty == form # baseline

(* loadConnectorForEdit, up to the request.  The list may still show a connector
   that is gone; a save under way disables nothing here. *)
LoadForEdit(c) ==
  /\ rows[c] # Unborn /\ ~connDetailLoading
  /\ editing' = c
  /\ load' = [stage |-> "sent", of |-> c, answer |-> NoConnector]
  /\ origin' = Fresh /\ behind' = behind \ {"load", "form"}
  /\ UNCHANGED <<rows, form, baseline, save, removal, sync, bounds>>

GetConnector ==
  /\ load.stage = "sent" /\ Live(load.of)
  /\ load' = [load EXCEPT !.stage = "served", !.answer = Shown(rows[load.of])]
  /\ UNCHANGED <<rows, panel, save, removal, sync, bounds, behind>>

(* The answer fills the form, whatever the panel is about by now. *)
TakeLoad ==
  /\ load.stage = "served"
  /\ form' = load.answer /\ baseline' = load.answer
  /\ origin' = IF editing = NoConnector THEN Fresh
               ELSE [of |-> load.of, touched |-> {}, crossed |-> editing = New]
  /\ behind' = (behind \ {"load", "form"})
                \cup {c \in {"form"} : "load" \in behind /\ editing # NoConnector}
  /\ load' = NoLoad
  /\ UNCHANGED <<rows, editing, save, removal, sync, bounds>>

(* 404, or the network: the panel is closed. *)
FailLoad ==
  /\ connDetailLoading
  /\ load' = NoLoad
  /\ editing' = NoConnector
  /\ origin' = Fresh /\ behind' = behind \ {"load", "form"}
  /\ UNCHANGED <<rows, form, baseline, save, removal, sync, bounds>>

(* startNewConnector.  It is not disabled while a connector is loading. *)
StartNew ==
  /\ editing # New
  /\ editing' = New
  /\ form' = EmptyConnectorForm /\ baseline' = EmptyConnectorForm
  /\ origin' = [of |-> New, touched |-> {}, crossed |-> connDetailLoading]
  /\ behind' = behind \ {"form"}
  /\ UNCHANGED <<rows, load, save, removal, sync, bounds>>

(* cancelConnectorForm. *)
Closed == /\ editing' = NoConnector
          /\ form' = EmptyConnectorForm /\ baseline' = EmptyConnectorForm
          /\ origin' = Fresh

Cancel ==
  /\ FormShown /\ save.stage = "none"
  /\ Closed
  /\ behind' = behind \ {"form"}
  /\ UNCHANGED <<rows, load, save, removal, sync, bounds>>

(* The inputs are not disabled while a save is under way. *)
Type(f, v) ==
  /\ FormShown /\ typed < MaxTyped
  /\ form' = [form EXCEPT ![f] = v]
  /\ origin' = [origin EXCEPT !.touched = @ \cup {f}]
  /\ typed' = typed + 1
  /\ UNCHANGED <<rows, editing, baseline, load, save, removal, sync, others, behind>>

-----------------------------------------------------------------------------
(* onSaveConnector, up to the request. *)
SaveConnector ==
  /\ FormShown /\ save.stage = "none" /\ (editing # New => Dirty)
  /\ save' = [stage |-> "sent", to |-> editing, body |-> form,
              from |-> origin.of, touched |-> origin.touched, crossed |-> origin.crossed]
  /\ behind' = (behind \ {"save"}) \cup {c \in {"save"} : "form" \in behind}
  /\ UNCHANGED <<rows, panel, load, removal, sync, bounds>>

(* The copies of c that lack a change of it from now on. *)
Overtaken(c) == {k \in Copies : \/ k = "load" /\ load.stage = "served" /\ load.of = c
                                \/ k = "form" /\ origin.of = c
                                \/ k = "save" /\ save.stage = "sent" /\ save.to = c}

(* create_connector and update_connector. *)
ServeSave ==
  /\ save.stage = "sent"
  /\ \E c \in Connectors :
       /\ IF save.to = New THEN rows[c] = Unborn ELSE c = save.to /\ Live(c)
       /\ rows' = [rows EXCEPT ![c] = IF save.to = New THEN Created(save.body)
                                      ELSE Patched(@, save.body)]
       /\ behind' = (behind \cup Overtaken(c)) \ {"save"}
  /\ save' = [save EXCEPT !.stage = "served"]
  /\ UNCHANGED <<panel, load, removal, sync, bounds>>

(* The list has been asked for again: the form is closed, also one that has been
   opened meanwhile. *)
SaveDone ==
  /\ save.stage = "served"
  /\ save' = NoSave
  /\ Closed
  /\ behind' = behind \ {"form"}
  /\ UNCHANGED <<rows, load, removal, sync, bounds>>

(* Refused, or the request or its answer is lost: the form stays. *)
SaveFails ==
  /\ save.stage # "none"
  /\ save' = NoSave
  /\ behind' = behind \ {"save"}
  /\ UNCHANGED <<rows, panel, load, removal, sync, bounds>>

-----------------------------------------------------------------------------
(* onDeleteConn.  Whether the panel is about c is known as it was at the click. *)
Delete(c) ==
  /\ rows[c] # Unborn /\ removal[c].stage = "none"
  /\ removal' = [removal EXCEPT ![c] = [stage |-> "sent", closes |-> editing = c]]
  /\ UNCHANGED <<rows, panel, load, save, sync, bounds, behind>>

(* delete_connector; a refusal looks the same, since nobody looks at the status. *)
ServeDelete(c) ==
  /\ removal[c].stage = "sent"
  /\ removal' = [removal EXCEPT ![c].stage = "done"]
  /\ \/ Live(c) /\ rows' = [rows EXCEPT ![c] = Deleted]
     \/ UNCHANGED rows
  /\ UNCHANGED <<panel, load, save, sync, bounds, behind>>

DeleteDone(c) ==
  /\ removal[c].stage = "done"
  /\ removal' = [removal EXCEPT ![c] = NoRemoval]
  /\ IF removal[c].closes THEN Closed /\ behind' = behind \ {"form"}
     ELSE UNCHANGED <<panel, behind>>
  /\ UNCHANGED <<rows, load, save, sync, bounds>>

DeleteLost(c) ==
  /\ removal[c].stage # "none"
  /\ removal' = [removal EXCEPT ![c] = NoRemoval]
  /\ UNCHANGED <<rows, panel, load, save, sync, bounds, behind>>

-----------------------------------------------------------------------------
(* connector.sync: the row is read, the network is probed, ... *)
SyncRead(c) ==
  /\ sync = NoSync /\ Live(c)
  /\ sync' = [of |-> c, probed |-> rows[c].settings]
  /\ UNCHANGED <<rows, panel, load, save, removal, bounds, behind>>

(* Mutant: the settings are written as they were read. *)
SyncWrite_Row ==
  /\ sync # NoSync
  /\ sync' = NoSync
  /\ rows' = IF Live(sync.of)
             THEN [rows EXCEPT ![sync.of].settings = sync.probed, ![sync.of].healthStatus = "known"]
             ELSE rows
  /\ UNCHANGED <<panel, load, save, removal, bounds, behind>>

(* ... and only the columns of its health are written; if the row is gone the
   flush raises and the run fails. *)
SyncWrite ==
  /\ sync # NoSync
  /\ sync' = NoSync
  /\ rows' = IF Live(sync.of) THEN [rows EXCEPT ![sync.of].healthStatus = "known"] ELSE rows
  /\ UNCHANGED <<panel, load, save, removal, bounds, behind>>

(* Another administrator changes or deletes a connector, or the key that
   encrypted its credentials is taken out of use. *)
ChangedByOthers(c) ==
  /\ Live(c) /\ others < MaxOthers
  /\ rows' \in {[rows EXCEPT ![c] = Patched(@, t)] : t \in Text} \cup {[rows EXCEPT ![c] = Deleted]}
                 \cup {[rows EXCEPT ![c].credentials = IF @ = "none" THEN @ ELSE "sealed"]}
  /\ others' = others + 1
  /\ behind' = behind \cup Overtaken(c)
  /\ UNCHANGED <<panel, load, save, removal, sync, typed>>

PanelNext == \/ \E c \in Connectors : \/ LoadForEdit(c) \/ Delete(c) \/ ServeDelete(c) \/ DeleteDone(c)
                                      \/ DeleteLost(c) \/ SyncRead(c) \/ ChangedByOthers(c)
             \/ GetConnector \/ TakeLoad \/ FailLoad
             \/ StartNew \/ Cancel
             \/ \E f \in Fields : \E t \in Text : Type(f, t[f])
             \/ SaveConnector \/ ServeSave \/ SaveDone \/ SaveFails
             \/ SyncWrite

PanelSpec == PanelInit /\ [][PanelNext]_panelVars

-----------------------------------------------------------------------------
(* The panel has one form for every connector, and answers fill it whenever they
   come.  All the same a PATCH never carries the content of another connector, and
   a POST starts from an empty form unless New was clicked while a connector was
   loading. *)
SavesAreOwn ==
  save.stage = "sent" => save.from = save.to \/ (save.to = New /\ save.crossed)

(* Whoever edits, deletes and syncs at once: a field of a live registration changes
   only because somebody typed it, or because the form that is saved had not seen
   the last change; credentials the form could not show stay, a sync takes no
   setting back, and nothing that was deleted returns. *)
ConfigChangesAreEdits ==
  [][\A c \in Connectors :
       /\ rows[c] = Deleted => rows'[c] = Deleted
       /\ Live(c) /\ Live(c)' => \A f \in Fields : rows'[c][f] # rows[c][f] =>
            \/ others' # others
            \/ /\ save.stage = "sent" /\ save'.stage = "served" /\ save.to = c
               /\ f \in save.touched \/ "save" \in behind]_panelVars
=============================================================================
