----------------------------- MODULE RecordForms -----------------------------
(***************************************************************************)
(* The form pages of the web console (src/platform/web/src/pages): a form  *)
(* is filled from a cached GET, sends all of its fields, and goes on when  *)
(* the lists that show the record have been asked for again.  A behaviour  *)
(* is about one field of one page and one record; the other fields of that *)
(* record are `rest`.                                                      *)
(***************************************************************************)
EXTENDS QueryCache, Naturals

CONSTANTS
  Absent,     \* the record does not exist (yet, or any more)
  NoDraft,    \* no form is filled
  MaxEdits    \* bound on the changes others make

ASSUME BoundsAssumption == MaxEdits \in Nat

VARIABLES
  form,       \* the page and the field: how it behaves, how the field is converted
  stored,     \* server: the record
  detail,     \* the cache entry [kind, id]
  fetch,      \* the GET of the record under way
  page,       \* "edit", "new" or "elsewhere" in the console
  draft,      \* what the form holds
  save,       \* the POST or PATCH under way
  edits,      \* changes others have made so far
  behind      \* history: which changes of the record each copy of it lacks

vars == <<form, stored, detail, fetch, page, draft, save, edits, behind>>

-----------------------------------------------------------------------------
(* What a field can hold, as far as conversions tell values apart: "padded1"
   is "text1" with blanks around it, "digits" a string that reads as a number. *)
Values == {"null", "blank", "text1", "text2", "padded1", "digits", "number"}

(* How the forms write null and numbers into an input. *)
Show(v) == CASE v = "null" -> "blank" [] v = "number" -> "digits" [] OTHER -> v

Trimmed(t) == IF t = "padded1" THEN "text1" ELSE t

(* How a text is sent, by kind of field.  A count falls back on a number (the
   height of a rack; a coordinate whose pair is set is sent as 0). *)
Numerals == {"number", "numeral", "count", "attribute"}
Nullables == {"optional", "reference", "number"}

(* Mutant: a cleared field is sent as an empty string. *)
Send_Blank(conv, t) ==
  IF (conv = "count" /\ t = "blank") \/ (conv \in Numerals /\ t = "digits") THEN "number"
  ELSE CASE conv = "optional" \/ (conv = "required" /\ t # "blank") -> Trimmed(t)
         [] conv \in {"choice", "reference", "attribute"} -> t
         [] OTHER -> "refused"

Send(conv, t) ==
  IF conv \in Nullables /\ t = "blank" THEN "null"
  ELSE IF (conv = "count" /\ t = "blank") \/ (conv \in Numerals /\ t = "digits") THEN "number"
  ELSE CASE conv = "optional" \/ (conv = "required" /\ t # "blank") -> Trimmed(t)
         [] conv \in {"choice", "reference", "attribute"} -> t
         [] OTHER -> "refused"

(* What the console itself can have written into such a field, and a save that
   does not touch the field has to leave alone. *)
OwnWriting(conv) ==
  CASE conv = "required" -> {"text1", "text2"}
    [] conv \in {"optional", "reference"} -> {"null", "text1", "text2"}
    [] conv = "choice" -> {"text1", "text2"}
    [] conv = "number" -> {"null", "number"}
    [] conv \in {"numeral", "count"} -> {"number"}
    [] conv = "attribute" -> {"blank", "text1", "padded1", "number"}

(* Other clients and imports do not trim, and attributes are any JSON. *)
Storable(conv) ==
  OwnWriting(conv) \cup
  (CASE conv \in {"required", "optional"} -> {"padded1"}
     [] conv = "attribute" -> {"null", "digits"}
     [] OTHER -> {})

(* Selects and checkboxes offer what there is. *)
Typable(conv) ==
  CASE conv = "choice" -> {"text1", "text2"}
    [] conv = "reference" -> {"blank", "text1", "text2"}
    [] conv \in {"number", "numeral", "count"} -> {"blank", "text1", "digits"}
    [] OTHER -> {"blank", "text1", "padded1"}

-----------------------------------------------------------------------------
(* The pages.  `discipline`: the form is filled when it mounts, or by an effect
   whenever the data change.  `modes`: what the page is for.  `refreshes`: a
   PATCH invalidates the record's own entry.  `insists`: the page navigates when
   its save is done even if the user has left it. *)
Hydrates(modes, fields) == [discipline |-> "hydrates", modes |-> modes,
                            refreshes |-> FALSE, insists |-> TRUE, fields |-> fields]
Mounts(fields) == [discipline |-> "mounts", modes |-> {"new", "edit"},
                   refreshes |-> TRUE, insists |-> TRUE, fields |-> fields]
Both == {"new", "edit"}

PrefixForm == Hydrates(Both, [vrfId |-> "required", cidr |-> "required",
                              description |-> "optional", parentId |-> "reference"])
VrfForm == [Hydrates(Both, [name |-> "required", rd |-> "optional"]) EXCEPT !.refreshes = TRUE]
VlanForm == Hydrates(Both, [vid |-> "numeral", name |-> "required", vlanGroupId |-> "reference"])
IpAddressForm == Hydrates(Both, [prefixId |-> "required", address |-> "required",
                                 description |-> "optional", interfaceId |-> "optional"])
CircuitFields == [providerId |-> "required", cid |-> "required", bandwidthMbps |-> "number",
                  status |-> "choice", circuitDiversityGroupId |-> "reference",
                  aSideNotes |-> "optional", zSideNotes |-> "optional"]
CircuitForm == Hydrates(Both, CircuitFields)
ProviderForm == Hydrates(Both, [name |-> "required", asn |-> "number"])
ServiceForm == Hydrates(Both, [name |-> "required", serviceType |-> "required",
                               customerRef |-> "optional", metadata |-> "optional"])
JobForm == Hydrates(Both, [key |-> "required", name |-> "required", description |-> "optional",
                           requiresApproval |-> "choice", enabled |-> "choice"])
JobRunForm == Hydrates({"new"}, [job |-> "choice", input |-> "optional", idempotencyKey |-> "optional"])
ObjectTemplateEditPage == Hydrates({"edit"}, [name |-> "required", description |-> "optional",
                                             definition |-> "choice", isDefault |-> "choice"])
CatalogItemEdit == Hydrates({"edit"}, [text |-> "optional", json |-> "optional"])
CatalogItemCreate == [Hydrates({"new"}, CatalogItemEdit.fields) EXCEPT !.insists = FALSE]
LocationForm == Mounts([name |-> "required", slug |-> "required", locationTypeId |-> "choice",
                        description |-> "optional", parentId |-> "reference",
                        latitudeAlone |-> "number", latitude |-> "count",
                        templateId |-> "reference", customAttribute |-> "attribute"])
DeviceForm == Mounts([name |-> "required", deviceTypeId |-> "choice", deviceRoleId |-> "choice",
                      rackId |-> "reference", serialNumber |-> "optional", positionU |-> "number",
                      face |-> "reference", status |-> "choice",
                      templateId |-> "reference", customAttribute |-> "attribute"])
RackForm == Mounts([name |-> "required", locationId |-> "choice", uHeight |-> "count",
                    templateId |-> "reference", customAttribute |-> "attribute"])

Pages == {PrefixForm, VrfForm, VlanForm, IpAddressForm, CircuitForm, ProviderForm, ServiceForm,
          JobForm, JobRunForm, ObjectTemplateEditPage, CatalogItemEdit, CatalogItemCreate,
          LocationForm, DeviceForm, RackForm}

(* What the steps below depend on: pages and fields that agree in it behave alike. *)
Forms == UNION {{[discipline |-> p.discipline, modes |-> p.modes, refreshes |-> p.refreshes,
                  insists |-> p.insists, conv |-> p.fields[f]] : f \in DOMAIN p.fields} : p \in Pages}

-----------------------------------------------------------------------------
Rests == {0, 1}
Items == [value : Values, rest : Rests]
Copies == {"detail", "fetch", "draft", "save"}
Draft == [value : Values, rest : Rests, typed : BOOLEAN,
          hasty : BOOLEAN,      \* filled while a request about the record was under way
          done : BOOLEAN]       \* a record was created from it, and the page knows
Save == [stage : {"none", "sent", "served", "listing", "refreshing"},
         to : Both \cup {"other"}, value : Values, rest : Rests, touched : BOOLEAN, repeat : BOOLEAN,
         mine : BOOLEAN]        \* the form that sent it is still there

ASSUME NothingAssumption == NoDraft \notin Draft /\ {Absent, NoData} \cap Items = {}

TypeOK == /\ form \in Forms
          /\ stored \in Items \cup {Absent}
          /\ detail \in Entry(Items)
          /\ fetch \in [stage : {"none", "sent", "served"}, answer : Items \cup {Absent}]
          /\ page \in Both \cup {"elsewhere"}
          /\ draft \in Draft \cup {NoDraft}
          /\ (page = "elsewhere" => draft = NoDraft) /\ (page = "new" => draft # NoDraft)
          /\ save \in Save
          /\ edits \in 0..MaxEdits
          /\ behind \in [Copies -> SUBSET {"own", "untold"}]

NoFetch == [stage |-> "none", answer |-> Absent]
Sent == [stage |-> "sent", answer |-> Absent]
NoSave == [stage |-> "none", to |-> "edit", value |-> "null", rest |-> 0,
           touched |-> FALSE, repeat |-> FALSE, mine |-> FALSE]

Init == /\ form \in Forms
        /\ stored \in [value : Storable(form.conv), rest : {0}] \cup {Absent}
        /\ detail = Blank
        /\ fetch = NoFetch
        /\ page = "elsewhere"
        /\ draft = NoDraft
        /\ save = NoSave
        /\ edits = 0
        /\ behind = [c \in Copies |-> {}]

-----------------------------------------------------------------------------
Filled(item, hasty) == [value |-> Show(item.value), rest |-> item.rest,
                        typed |-> FALSE, hasty |-> hasty /\ form.discipline = "mounts", done |-> FALSE]

(* Mutant: the form is filled again by every answer. *)
Adopted_Always(d, e, busy) ==
  IF form.discipline = "hydrates" THEN IF e.data # NoData THEN Filled(e.data, busy) ELSE d
  ELSE IF e.status # "success" THEN NoDraft
  ELSE IF d = NoDraft THEN Filled(e.data, busy) ELSE d

(* What becomes of the edit form when the entry becomes e.  The inner form of a
   page that mounts is replaced by the loader and by the error; data that are
   deeply equal to the old ones are the old ones, and no effect runs. *)
Adopted(d, e, busy) ==
  IF form.discipline = "hydrates"
  THEN IF e.data # NoData /\ (d = NoDraft \/ e.data # detail.data) THEN Filled(e.data, busy) ELSE d
  ELSE IF e.status # "success" THEN NoDraft
  ELSE IF d = NoDraft THEN Filled(e.data, busy) ELSE d

(* The history of a form that is filled from the entry. *)
Taken(d) == IF d = NoDraft THEN {} ELSE IF d = draft THEN behind.draft ELSE behind.detail

InputsShown == page = "new" \/ (page = "edit" /\ detail.status = "success")

Asks == fetch.stage = "none" /\ Wants(detail)

(* The edit page of the record is opened, or its window gets the focus back. *)
OpenEdit ==
  /\ "edit" \in form.modes /\ page \in {"elsewhere", "edit"}
  /\ stored # Absent \/ detail.data # NoData
  /\ page' = "edit"
  /\ detail' = IF Asks THEN Asked(detail) ELSE detail
  /\ fetch' = IF Asks THEN Sent ELSE fetch
  /\ draft' = Adopted(draft, detail', fetch'.stage # "none" \/ save.stage # "none")
  /\ behind' = [behind EXCEPT !.draft = Taken(draft')]
  /\ UNCHANGED <<edits, form, stored, save>>

Default(conv) == CASE conv = "choice" -> "text1" [] conv = "count" -> "digits" [] OTHER -> "blank"

(* There is no such record so far: a form can be sent again after an answer was
   lost, and then creates another one. *)
Unborn == stored = Absent /\ detail = Blank /\ fetch.stage = "none" /\ page # "edit"

OpenNew ==
  /\ "new" \in form.modes /\ page = "elsewhere"
  /\ Unborn
  /\ page' = "new"
  /\ draft' = Filled([value |-> Default(form.conv), rest |-> 0], FALSE)
  /\ behind' = [behind EXCEPT !.draft = {}]
  /\ UNCHANGED <<edits, form, stored, detail, fetch, save>>

Leave ==
  /\ page # "elsewhere"
  /\ page' = "elsewhere"
  /\ draft' = NoDraft
  /\ save' = [save EXCEPT !.mine = FALSE]
  /\ behind' = [behind EXCEPT !.draft = {}]
  /\ UNCHANGED <<edits, form, stored, detail, fetch>>

(* Only the buttons are disabled while a save is under way. *)
Type(t) ==
  /\ InputsShown
  /\ draft' = [draft EXCEPT !.value = t, !.typed = TRUE]
  /\ UNCHANGED <<form, stored, detail, fetch, page, save, edits, behind>>

ServeDetail ==
  /\ fetch.stage = "sent"
  /\ fetch' = [stage |-> "served", answer |-> stored]
  /\ behind' = [behind EXCEPT !.fetch = {}]
  /\ UNCHANGED <<edits, form, stored, detail, page, draft, save>>

(* Mutant: the answer is not looked at. *)
TakeDetail_Any ==
  /\ fetch.stage = "served"
  /\ detail' = Answered(fetch.answer)
  /\ fetch' = NoFetch
  /\ draft' = IF page = "edit" /\ fetch.answer # Absent
              THEN Adopted(draft, detail', save.stage # "none") ELSE draft
  /\ behind' = [behind EXCEPT !.detail = behind.fetch, !.fetch = {}]
  /\ UNCHANGED <<edits, form, stored, page, save>>

TakeDetail ==
  /\ fetch.stage = "served" /\ fetch.answer # Absent
  /\ detail' = Answered(fetch.answer)
  /\ fetch' = NoFetch
  /\ draft' = IF page = "edit" THEN Adopted(draft, detail', save.stage # "none") ELSE draft
  /\ LET b == [behind EXCEPT !.detail = behind.fetch, !.fetch = {}]
     IN behind' = IF draft' = draft /\ form.discipline = "mounts" THEN b
                  ELSE [b EXCEPT !.draft = IF draft' = NoDraft THEN {} ELSE b.detail]
  /\ UNCHANGED <<edits, form, stored, page, save>>

(* 404, or the network fails after the last retry. *)
FailDetail ==
  /\ fetch.stage # "none"
  /\ detail' = Failed(detail)
  /\ fetch' = NoFetch
  /\ draft' = IF page = "edit" THEN Adopted(draft, detail', save.stage # "none") ELSE draft
  /\ behind' = [behind EXCEPT !.draft = Taken(draft'), !.fetch = {}]
  /\ UNCHANGED <<edits, form, stored, page, save>>

(* 30 seconds pass. *)
Age ==
  /\ detail.status = "success" /\ ~detail.old
  /\ detail' = Outdated(detail)
  /\ UNCHANGED <<form, stored, fetch, page, draft, save, edits, behind>>

(* Five minutes pass without an observer. *)
Forget ==
  /\ page # "edit" /\ fetch.stage = "none" /\ detail # Blank
  /\ detail' = Blank
  /\ behind' = [behind EXCEPT !.detail = {}]
  /\ UNCHANGED <<edits, form, stored, fetch, page, draft, save>>

-----------------------------------------------------------------------------
(* Mutant: the button works again while the lists are asked for. *)
Submit_Early ==
  /\ InputsShown /\ save.stage \in {"none", "listing"} /\ Send(form.conv, draft.value) # "refused"
  /\ save' = [stage |-> "sent", to |-> page, value |-> Send(form.conv, draft.value),
              rest |-> draft.rest, touched |-> draft.typed, repeat |-> draft.done, mine |-> TRUE]
  /\ behind' = [behind EXCEPT !.save = behind.draft]
  /\ UNCHANGED <<edits, form, stored, detail, fetch, page, draft>>

(* onSubmit; a form that was opened meanwhile would not wait for the save of an
   earlier one, this model does. *)
Submit ==
  /\ InputsShown /\ save.stage = "none" /\ Send(form.conv, draft.value) # "refused"
  /\ save' = [stage |-> "sent", to |-> page, value |-> Send(form.conv, draft.value),
              rest |-> draft.rest, touched |-> draft.typed, repeat |-> draft.done, mine |-> TRUE]
  /\ behind' = [behind EXCEPT !.save = behind.draft]
  /\ UNCHANGED <<edits, form, stored, detail, fetch, page, draft>>

(* Which copies lack a change of the record from now on. *)
Missed(kind, unaware) ==
  [c \in Copies |->
     IF c \notin unaware \/ (c = "detail" /\ detail.data = NoData)
        \/ (c = "fetch" /\ fetch.stage # "served") \/ (c = "draft" /\ page # "edit")
        \/ (c = "draft" /\ draft = NoDraft) \/ (c = "save" /\ save.stage # "sent")
     THEN behind[c] ELSE behind[c] \cup {kind}]

(* The form still holds what is being saved, but for what was typed since. *)
Covered == /\ save.mine /\ draft # NoDraft /\ draft.rest = save.rest
           /\ draft.typed \/ Send(form.conv, draft.value) = save.value

(* The POST creates a record, the PATCH replaces every field the form has. *)
ServeSave ==
  /\ save.stage = "sent"
  /\ save.to = "edit" => stored # Absent
  /\ IF save.to = "new" /\ ~Unborn
     THEN /\ save' = [NoSave EXCEPT !.stage = "served", !.to = "other", !.mine = save.mine]
          /\ behind' = [behind EXCEPT !.save = {}]
          /\ UNCHANGED stored
     ELSE /\ stored' = [value |-> save.value, rest |-> save.rest]
          /\ save' = [NoSave EXCEPT !.stage = "served", !.to = save.to, !.mine = save.mine]
          /\ behind' = [Missed("own", {"detail", "fetch"} \cup IF Covered THEN {} ELSE {"draft"})
                          EXCEPT !.save = {}]
  /\ UNCHANGED <<edits, form, detail, fetch, page, draft>>

(* The record is gone, the server finds fault with it, or the request or its
   answer is lost.  No onError invalidates anything, though a save whose answer was
   lost has been stored. *)
SaveFails ==
  /\ save.stage \in {"sent", "served"}
  /\ save' = NoSave
  /\ behind' = IF save.stage # "served" THEN [behind EXCEPT !.save = {}]
               ELSE [c \in Copies |-> IF "own" \in behind[c] THEN {"untold"} ELSE behind[c]]
  /\ UNCHANGED <<edits, form, stored, detail, fetch, page, draft>>

(* invalidateQueries of the record's entry: shown, it is asked for again and the
   answer to an earlier request is dropped; while nobody looks, or the page has been
   opened anew and waits for its first data, a request under way goes on, and its
   answer is taken for fresh. *)
Invalidate ==
  LET again == Refetches(detail, page = "edit", fetch.stage = "none") IN
  /\ detail' = Invalidated(detail, page = "edit")
  /\ fetch' = IF again THEN Sent ELSE fetch
  /\ behind' = [behind EXCEPT !.fetch = IF again THEN {}
                                        ELSE IF "own" \in @ THEN {"untold"} ELSE @]

(* Mutant: only the list is invalidated. *)
SaveDone_List ==
  /\ save.stage = "served"
  /\ save' = IF form.discipline = "mounts" /\ save.to = "edit" THEN NoSave
             ELSE [save EXCEPT !.stage = "listing"]
  /\ draft' = IF save.mine /\ save.to # "edit" THEN [draft EXCEPT !.done = TRUE] ELSE draft
  /\ UNCHANGED <<edits, form, stored, detail, fetch, page, behind>>

(* onSuccess: the lists are invalidated; a PATCH of a page that mounts also
   invalidates the record and is done, the others wait for the lists. *)
SaveDone ==
  /\ save.stage = "served"
  /\ IF form.discipline = "mounts" /\ save.to = "edit"
     THEN save' = NoSave /\ Invalidate
     ELSE save' = [save EXCEPT !.stage = "listing"] /\ UNCHANGED <<detail, fetch, behind>>
  /\ draft' = IF save.mine /\ save.to # "edit" THEN [draft EXCEPT !.done = TRUE] ELSE draft
  /\ UNCHANGED <<edits, form, stored, page>>

(* The lists have arrived (or failed): some go on with the record. *)
ListsDone ==
  /\ save.stage = "listing" /\ form.refreshes /\ save.to = "edit"
  /\ save' = [save EXCEPT !.stage = "refreshing"]
  /\ Invalidate
  /\ UNCHANGED <<edits, form, stored, page, draft>>

(* navigate: to the view of the record, or to its edit page. *)
Navigate ==
  /\ \/ save.stage = "listing" /\ ~(form.refreshes /\ save.to = "edit")
     \/ save.stage = "refreshing" /\ (page # "edit" \/ fetch.stage = "none")
  /\ save' = NoSave
  /\ IF ~(save.mine \/ form.insists) THEN UNCHANGED <<detail, fetch, page, draft, behind>>
     ELSE /\ draft' = NoDraft
          /\ behind' = [behind EXCEPT !.draft = {}]
          /\ IF form.discipline = "hydrates" \/ save.to = "other" \/ stored = Absent
             THEN page' = "elsewhere" /\ UNCHANGED <<detail, fetch>>
             ELSE page' = "edit" /\ detail' = Blank /\ fetch' = Sent
  /\ UNCHANGED <<edits, form, stored>>

(* Somebody else, or another tab, edits or deletes the record. *)
EditElsewhere ==
  /\ stored # Absent
  /\ stored' \in ([value : Storable(form.conv), rest : Rests] \cup {Absent}) \ {stored}
  /\ behind' = Missed("untold", Copies)
  /\ edits < MaxEdits /\ edits' = edits + 1
  /\ UNCHANGED <<form, detail, fetch, page, draft, save>>

Next == \/ OpenEdit \/ OpenNew \/ Leave
        \/ \E t \in Typable(form.conv) : Type(t)
        \/ ServeDetail \/ TakeDetail \/ FailDetail \/ Age \/ Forget
        \/ Submit \/ ServeSave \/ SaveFails \/ SaveDone
        \/ ListsDone \/ Navigate
        \/ EditElsewhere

Spec == Init /\ [][Next]_vars

-----------------------------------------------------------------------------
(* A save writes every field of the form.  A field the user has not touched
   keeps its value all the same, if the form had seen every change of the record
   and the value is one the console writes: what it shows for a value and what it
   sends for the text belong together on every page. *)
UntouchedFieldsStay ==
  [][save.stage = "sent" /\ save'.stage = "served" /\ save.to = "edit" /\ ~save.touched
     /\ behind.save = {} /\ stored.value \in OwnWriting(form.conv) => stored' = stored]_vars

(* A form does not show a record as it was before a save of the console's own,
   if its page refreshes the record's entry: until the refreshed record is in,
   something is still under way.  The exception are forms that are filled only
   once, and were while a request about the record was under way. *)
OwnSavesAreShown ==
  form.refreshes /\ "own" \in behind.draft =>
    \/ save.stage \in {"served", "listing", "refreshing"}
    \/ detail.old \/ fetch.stage # "none"
    \/ form.discipline = "mounts" /\ draft.hasty

(* What was typed into an edit form that stays open is lost only when the
   refreshed record differs from the one the form was filled from, or when an
   error takes the place of a form that is filled once. *)
TypedTextStays ==
  [][draft # NoDraft /\ page = "edit" /\ page' = "edit" /\ draft.typed =>
       \/ draft' # NoDraft /\ draft'.typed
       \/ form.discipline = "hydrates" /\ detail'.data # detail.data
       \/ form.discipline = "mounts" /\ detail'.status # "success"]_vars

(* A form whose record was created, and which has been told so, is not sent a
   second time: it goes away before the button works again. *)
CreatedOnce == save.stage = "sent" /\ save.to = "new" => ~save.repeat
=============================================================================
