--------------------------- MODULE RecordFormsProofs ---------------------------
(***************************************************************************)
(* Proofs about the form pages of the console, for any number of changes   *)
(* that others make: types, the fields a save leaves alone, the saves of   *)
(* the console's own that a form shows, the text that was typed, and the   *)
(* records that are created once.                                          *)
(***************************************************************************)
EXTENDS RecordForms, TLAPS

-----------------------------------------------------------------------------
(* How fields are converted. *)
Conversions == {"required", "optional", "reference", "choice", "number", "numeral", "count", "attribute"}
Texts == Values \ {"null", "number"}

IsPage(p) == /\ p.discipline \in {"hydrates", "mounts"} /\ p.modes \subseteq Both
             /\ p.refreshes \in BOOLEAN /\ p.insists \in BOOLEAN
             /\ \A g \in DOMAIN p.fields : p.fields[g] \in Conversions

LEMMA FormShape ==
  ASSUME NEW f \in Forms
  PROVE  /\ f.discipline \in {"hydrates", "mounts"} /\ f.modes \subseteq Both
         /\ f.refreshes \in BOOLEAN /\ f.insists \in BOOLEAN /\ f.conv \in Conversions
<1> USE DEF IsPage, Hydrates, Mounts, Both, Conversions
<1>1. IsPage(PrefixForm)
  BY DEF PrefixForm
<1>2. IsPage(VlanForm)
  BY DEF VlanForm
<1>3. IsPage(IpAddressForm)
  BY DEF IpAddressForm
<1>4. IsPage(CircuitForm)
  BY DEF CircuitForm, CircuitFields
<1>5. IsPage(ProviderForm)
  BY DEF ProviderForm
<1>6. IsPage(ServiceForm)
  BY DEF ServiceForm
<1>7. IsPage(JobForm)
  BY DEF JobForm
<1>8. IsPage(VrfForm)
  BY DEF VrfForm
<1>9. IsPage(JobRunForm)
  BY DEF JobRunForm
<1>10. IsPage(ObjectTemplateEditPage)
  BY DEF ObjectTemplateEditPage
<1>11. IsPage(CatalogItemEdit)
  BY DEF CatalogItemEdit
<1>12. IsPage(CatalogItemCreate)
  BY DEF CatalogItemCreate, CatalogItemEdit
<1>13. IsPage(LocationForm)
  BY DEF LocationForm
<1>14. IsPage(DeviceForm)
  BY DEF DeviceForm
<1>15. IsPage(RackForm)
  BY DEF RackForm
<1>16. \A p \in Pages : IsPage(p)
  BY <1>1, <1>2, <1>3, <1>4, <1>5, <1>6, <1>7, <1>8,
     <1>9, <1>10, <1>11, <1>12, <1>13, <1>14, <1>15 DEF Pages
<1>17. PICK p \in Pages : f \in {[discipline |-> p.discipline, modes |-> p.modes, refreshes |-> p.refreshes,
                                insists |-> p.insists, conv |-> p.fields[g]] : g \in DOMAIN p.fields}
  BY DEF Forms
<1> QED
  BY <1>16, <1>17

LEMMA ShownIsText == \A v \in Values : Show(v) \in Texts
BY DEF Values, Show, Texts

LEMMA TypedIsText == \A c \in Conversions : Typable(c) \subseteq Texts
BY DEF Conversions, Typable, Texts, Values

LEMMA DefaultIsText == \A c \in Conversions : Default(c) \in Texts
BY DEF Conversions, Default, Texts, Values

LEMMA StoredIsValue == \A c \in Conversions : Storable(c) \subseteq Values
BY DEF Conversions, Storable, OwnWriting, Values

LEMMA SentIsValue == \A c \in Conversions, t \in Values : Send(c, t) # "refused" => Send(c, t) \in Values
BY DEF Conversions, Send, Trimmed, Texts, Values, Nullables, Numerals

(* What the form shows of a value the console writes is sent as that value. *)
LEMMA RoundTrip == \A c \in Conversions : \A v \in OwnWriting(c) : Send(c, Show(v)) = v
BY DEF Conversions, OwnWriting, Send, Show, Trimmed, Nullables, Numerals

(* What was sent is sent again by a form that shows it. *)
LEMMA SentAgain ==
  \A c \in Conversions, t \in Texts : Send(c, t) # "refused" => Send(c, Show(Send(c, t))) = Send(c, t)
BY DEF Conversions, Send, Show, Trimmed, Texts, Values, Nullables, Numerals

-----------------------------------------------------------------------------
(* What the types rest on: an entry that succeeded has data, and the form of an
   edit page that shows inputs is filled; a form that waits for its own save is
   still the page the save was sent from. *)
FormIsThere ==
  /\ detail.status = "success" => detail.data # NoData
  /\ page = "edit" /\ detail.status = "success" => draft # NoDraft
  /\ page = "edit" /\ form.discipline = "hydrates" /\ detail.data # NoData => draft # NoDraft
  /\ save.mine => /\ save.stage # "none" /\ page # "elsewhere"
                  /\ save.to = "edit" <=> page = "edit"

TypeInv == TypeOK /\ FormIsThere

LEMMA Entries ==
  ASSUME NEW e \in Entry(Items)
  PROVE  /\ Asked(e) \in Entry(Items) /\ Asked(e).data = e.data /\ Asked(e).old = e.old
         /\ Asked(e).status = "success" => Asked(e) = e
         /\ Failed(e) \in Entry(Items) /\ Failed(e).data = e.data /\ Failed(e).old = TRUE
         /\ Failed(e).status = "error"
         /\ Outdated(e) \in Entry(Items) /\ Outdated(e).data = e.data /\ Outdated(e).old = TRUE
         /\ Outdated(e).status = e.status
         /\ \A b \in BOOLEAN : LET i == Invalidated(e, b) IN
              /\ i \in Entry(Items) /\ i.data = e.data /\ i.old = TRUE
              /\ (i.status = "success" => e.status = "success")
              /\ (e.status = "success" /\ e.data # NoData => i.status = "success")
<1>1. /\ Asked(e) \in Entry(Items) /\ Asked(e).data = e.data /\ Asked(e).old = e.old
      /\ Asked(e).status = "success" => Asked(e) = e
  BY DEF Entry, Asked
<1>2. /\ Failed(e) \in Entry(Items) /\ Failed(e).data = e.data /\ Failed(e).old = TRUE
      /\ Failed(e).status = "error"
  BY DEF Entry, Failed
<1>3. /\ Outdated(e) \in Entry(Items) /\ Outdated(e).data = e.data /\ Outdated(e).old = TRUE
      /\ Outdated(e).status = e.status
  BY DEF Entry, Outdated
<1>4. ASSUME NEW b \in BOOLEAN
      PROVE  LET i == Invalidated(e, b) IN
              /\ i \in Entry(Items) /\ i.data = e.data /\ i.old = TRUE
              /\ (i.status = "success" => e.status = "success")
              /\ (e.status = "success" /\ e.data # NoData => i.status = "success")
  <2>1. CASE b = TRUE
    BY <2>1 DEF Entry, Asked, Outdated, Invalidated
  <2>2. CASE b = FALSE
    BY <1>3, <2>2 DEF Invalidated
  <2> QED
    BY <2>1, <2>2
<1> QED
  BY <1>1, <1>2, <1>3, <1>4

LEMMA Answers == /\ Blank \in Entry(Items) /\ Blank.data = NoData /\ Blank.status = "pending"
                 /\ Blank.old = FALSE
                 /\ \A i \in Items : /\ Answered(i) \in Entry(Items) /\ Answered(i).data = i
                                     /\ Answered(i).status = "success" /\ Answered(i).old = FALSE
                                     /\ i # NoData
BY NothingAssumption DEF Blank, Answered, Entry

LEMMA Filling ==
  ASSUME form \in Forms, NEW i \in Items, NEW b \in BOOLEAN
  PROVE  /\ Filled(i, b) \in Draft /\ Filled(i, b) # NoDraft
         /\ Filled(i, b).value = Show(i.value) /\ Filled(i, b).rest = i.rest
         /\ Filled(i, b).typed = FALSE /\ Filled(i, b).done = FALSE
         /\ Filled(i, b).hasty = (b /\ form.discipline = "mounts")
<1>1. Show(i.value) \in Values /\ i.rest \in Rests
  BY ShownIsText DEF Items, Texts
<1>2. (b /\ form.discipline = "mounts") \in BOOLEAN
  OBVIOUS
<1>3. Filled(i, b) \in Draft
  BY <1>1, <1>2 DEF Filled, Draft
<1>4. /\ Filled(i, b).value = Show(i.value) /\ Filled(i, b).rest = i.rest
      /\ Filled(i, b).typed = FALSE /\ Filled(i, b).done = FALSE
      /\ Filled(i, b).hasty = (b /\ form.discipline = "mounts")
  BY DEF Filled
<1> QED
  BY <1>3, <1>4, NothingAssumption

(* How an edit form follows its entry. *)
LEMMA Adopting ==
  ASSUME TypeInv, NEW e \in Entry(Items), e.status = "success" => e.data # NoData, NEW b \in BOOLEAN
  PROVE  LET d == Adopted(draft, e, b) IN
         /\ d \in Draft \cup {NoDraft}
         /\ e.status = "success" => d # NoDraft
         /\ form.discipline = "hydrates" /\ e.data # NoData => d # NoDraft
         /\ \/ /\ d = draft
               /\ form.discipline = "hydrates" => d = NoDraft \/ e.data = detail.data \/ e.data = NoData
            \/ d = NoDraft /\ form.discipline = "mounts" /\ e.status # "success"
            \/ e.data \in Items /\ d = Filled(e.data, b)
               /\ (form.discipline = "mounts" => draft = NoDraft /\ e.status = "success")
               /\ (draft = NoDraft \/ e.data # detail.data)
<1>1. form.discipline \in {"hydrates", "mounts"} /\ form \in Forms /\ draft \in Draft \cup {NoDraft}
  BY FormShape DEF TypeInv, TypeOK
<1>2. e.data # NoData => e.data \in Items
  BY DEF Entry
<1>3. e.data # NoData => Filled(e.data, b) \in Draft /\ Filled(e.data, b) # NoDraft
  BY <1>1, <1>2, Filling
<1> QED
  BY <1>1, <1>2, <1>3 DEF Adopted

(* The history of the copies. *)
Lacks == [Copies -> SUBSET {"own", "untold"}]

LEMMA CopiesNamed == /\ "detail" \in Copies /\ "fetch" \in Copies /\ "draft" \in Copies /\ "save" \in Copies
                     /\ \A c \in Copies : c \in {"detail", "fetch", "draft", "save"}
BY DEF Copies

LEMMA MissedTyped ==
  ASSUME behind \in Lacks, NEW kind \in {"own", "untold"}, NEW unaware
  PROVE  Missed(kind, unaware) \in Lacks
BY DEF Missed, Lacks

(* A save that was answered keeps where it goes and whether its form is there. *)
Served(t, m) == [stage |-> "served", to |-> t, value |-> "null", rest |-> 0,
                 touched |-> FALSE, repeat |-> FALSE, mine |-> m]

LEMMA ServedSave ==
  ASSUME NEW t \in Both \cup {"other"}, NEW m \in BOOLEAN
  PROVE  /\ Served(t, m) \in Save
         /\ Served(t, m).stage = "served" /\ Served(t, m).to = t /\ Served(t, m).mine = m
<1>1. "null" \in Values /\ 0 \in Rests
  BY DEF Values, Rests
<1> QED
  BY <1>1 DEF Served, Save

LEMMA InitTypes == Init => TypeInv
<1> SUFFICES ASSUME Init PROVE TypeInv
  OBVIOUS
<1>1. form.conv \in Conversions
  BY FormShape DEF Init
<1>2. Storable(form.conv) \subseteq Values
  BY <1>1, StoredIsValue
<1>3. stored \in Items \cup {Absent}
  BY <1>2 DEF Init, Items, Rests
<1>4. NoSave \in Save /\ NoSave.mine = FALSE
  BY DEF NoSave, Save, Both, Values, Rests
<1>5. NoFetch \in [stage : {"none", "sent", "served"}, answer : Items \cup {Absent}]
  BY DEF NoFetch
<1>6. [c \in Copies |-> {}] \in Lacks
  BY DEF Lacks
<1>7. 0 \in 0..MaxEdits
  BY BoundsAssumption
<1> QED
  BY <1>3, <1>4, <1>5, <1>6, <1>7, Answers DEF Init, TypeInv, TypeOK, FormIsThere, Lacks

LEMMA TypeStep == TypeInv /\ [Next]_vars => TypeInv'
<1> SUFFICES ASSUME TypeInv, [Next]_vars PROVE TypeInv'
  OBVIOUS
<1> DEFINE Fetches == [stage : {"none", "sent", "served"}, answer : Items \cup {Absent}]
<1>0. /\ form \in Forms /\ form.conv \in Conversions /\ form.discipline \in {"hydrates", "mounts"}
      /\ stored \in Items \cup {Absent} /\ detail \in Entry(Items) /\ fetch \in Fetches
      /\ page \in Both \cup {"elsewhere"} /\ draft \in Draft \cup {NoDraft}
      /\ (page = "elsewhere" => draft = NoDraft) /\ (page = "new" => draft # NoDraft)
      /\ save \in Save /\ edits \in 0..MaxEdits /\ behind \in Lacks
      /\ FormIsThere
  BY FormShape DEF TypeInv, TypeOK, Lacks
<1>a. NoSave \in Save /\ NoSave.mine = FALSE /\ NoFetch \in Fetches /\ Sent \in Fetches
  BY DEF NoSave, Save, Both, Values, Rests, NoFetch, Sent
<1>b. \A c \in Copies, S \in SUBSET {"own", "untold"} : [behind EXCEPT ![c] = S] \in Lacks
  BY <1>0 DEF Lacks
<1>c. \A c \in Copies : behind[c] \in SUBSET {"own", "untold"}
  BY <1>0 DEF Lacks
<1>d. \A S, T \in SUBSET {"own", "untold"} : \A c, d \in Copies :
        [behind EXCEPT ![c] = S, ![d] = T] \in Lacks
  BY <1>0 DEF Lacks
<1> HIDE DEF Fetches
<1>e. ASSUME form' \in Forms, stored' \in Items \cup {Absent}, detail' \in Entry(Items), fetch' \in Fetches,
             page' \in Both \cup {"elsewhere"}, draft' \in Draft \cup {NoDraft},
             page' = "elsewhere" => draft' = NoDraft, page' = "new" => draft' # NoDraft,
             save' \in Save, edits' \in 0..MaxEdits, behind' \in Lacks, FormIsThere'
      PROVE  TypeInv'
  BY <1>e DEF TypeInv, TypeOK, Lacks, Fetches
<1>1. CASE OpenEdit
  <2>1. detail' = Asked(detail) \/ detail' = detail
    BY <1>1 DEF OpenEdit
  <2>2. /\ detail' \in Entry(Items) /\ detail'.data = detail.data
        /\ detail'.status = "success" => detail'.data # NoData
    <3>1. Asked(detail) \in Entry(Items) /\ Asked(detail).data = detail.data
      BY <1>0, Entries
    <3>2. Asked(detail).status = "success" => Asked(detail) = detail
      BY <1>0, Entries
    <3>3. detail.status = "success" => detail.data # NoData
      BY <1>0 DEF FormIsThere
    <3> QED
      BY <1>0, <2>1, <3>1, <3>2, <3>3
  <2>3. PICK b \in BOOLEAN : draft' = Adopted(draft, detail', b)
    BY <1>1 DEF OpenEdit
  <2>4. /\ draft' \in Draft \cup {NoDraft} /\ (detail'.status = "success" => draft' # NoDraft)
        /\ form.discipline = "hydrates" /\ detail'.data # NoData => draft' # NoDraft
    BY <2>2, <2>3, Adopting
  <2>5. behind' \in Lacks
    BY <1>1, <1>b, <1>c, CopiesNamed DEF OpenEdit, Taken
  <2>6. page' = "edit" /\ fetch' \in Fetches /\ UNCHANGED <<edits, form, stored, save>>
    BY <1>0, <1>1, <1>a DEF OpenEdit
  <2>7. save.mine => page = "edit"
    BY <1>0, <1>1 DEF OpenEdit, FormIsThere
  <2>8. FormIsThere'
    BY <1>0, <2>2, <2>4, <2>6, <2>7 DEF FormIsThere
  <2> QED
    BY <1>0, <1>e, <2>2, <2>4, <2>5, <2>6, <2>8 DEF Both
<1>2. CASE OpenNew
  <2>1. [value |-> Default(form.conv), rest |-> 0] \in Items
    BY <1>0, DefaultIsText DEF Items, Rests, Texts
  <2>2. draft' \in Draft /\ draft' # NoDraft
    BY <1>0, <1>2, <2>1, Filling DEF OpenNew
  <2>3. page' = "new" /\ page = "elsewhere" /\ UNCHANGED <<edits, form, stored, detail, fetch, save>>
    BY <1>2 DEF OpenNew
  <2>4. behind' \in Lacks
    BY <1>2, <1>b, CopiesNamed DEF OpenNew
  <2>5. FormIsThere'
    BY <1>0, <2>3 DEF FormIsThere
  <2> QED
    BY <1>0, <1>e, <2>2, <2>3, <2>4, <2>5 DEF Both
<1>3. CASE Leave
  <2>1. save' \in Save /\ save'.mine = FALSE
    BY <1>0, <1>3 DEF Leave, Save
  <2>2. behind' \in Lacks
    BY <1>3, <1>b, CopiesNamed DEF Leave
  <2>3. FormIsThere'
    BY <1>0, <1>3, <2>1 DEF FormIsThere, Leave
  <2> QED
    BY <1>0, <1>3, <1>e, <2>1, <2>2, <2>3 DEF Leave
<1>4. ASSUME NEW t \in Typable(form.conv), Type(t) PROVE TypeInv'
  <2>1. draft \in Draft
    BY <1>0, <1>4 DEF Type, InputsShown, FormIsThere
  <2>2. t \in Values
    BY <1>0, TypedIsText DEF Texts
  <2>3. draft' \in Draft
    BY <1>4, <2>1, <2>2 DEF Type, Draft
  <2>4. draft' # NoDraft /\ UNCHANGED <<form, stored, detail, fetch, page, save, edits, behind>>
    BY <1>4, <2>3, NothingAssumption DEF Type
  <2>5. FormIsThere'
    BY <1>0, <2>4 DEF FormIsThere
  <2> QED
    BY <1>0, <1>e, <2>1, <2>3, <2>4, <2>5, NothingAssumption
<1>5. CASE ServeDetail
  <2>1. fetch' \in Fetches
    BY <1>0, <1>5 DEF ServeDetail, Fetches
  <2>2. behind' \in Lacks
    BY <1>5, <1>b, CopiesNamed DEF ServeDetail
  <2>3. UNCHANGED <<edits, form, stored, detail, page, draft, save>>
    BY <1>5 DEF ServeDetail
  <2>4. FormIsThere'
    BY <1>0, <2>3 DEF FormIsThere
  <2> QED
    BY <1>0, <1>e, <2>1, <2>2, <2>3, <2>4
<1>6. CASE TakeDetail
  <2>1. fetch.answer \in Items
    BY <1>0, <1>6 DEF TakeDetail, Fetches
  <2>2. /\ detail' \in Entry(Items) /\ detail'.data # NoData /\ fetch' \in Fetches
        /\ UNCHANGED <<edits, form, stored, page, save>>
    BY <1>6, <1>a, <2>1, Answers DEF TakeDetail
  <2>3. page = "edit" => draft' \in Draft /\ draft' # NoDraft
    BY <1>6, <2>1, <2>2, Adopting, Answers DEF TakeDetail
  <2>4. page # "edit" => draft' = draft
    BY <1>6 DEF TakeDetail
  <2>5. behind' \in Lacks
    BY <1>6, <1>0 DEF TakeDetail, Lacks, Copies
  <2>6. FormIsThere'
    BY <1>0, <2>2, <2>3 DEF FormIsThere
  <2> QED
    BY <1>0, <1>e, <2>2, <2>3, <2>4, <2>5, <2>6
<1>7. CASE FailDetail
  <2>1. /\ detail' \in Entry(Items) /\ detail'.status = "error" /\ detail'.data = detail.data
        /\ fetch' \in Fetches /\ UNCHANGED <<edits, form, stored, page, save>>
    BY <1>0, <1>7, <1>a, Entries DEF FailDetail
  <2>2. page = "edit" => /\ draft' \in Draft \cup {NoDraft}
                         /\ form.discipline = "hydrates" /\ detail'.data # NoData => draft' # NoDraft
    BY <1>7, <2>1, Adopting DEF FailDetail
  <2>3. page # "edit" => draft' = draft
    BY <1>7 DEF FailDetail
  <2>4. behind' \in Lacks
    BY <1>0, <1>7 DEF FailDetail, Taken, Lacks, Copies
  <2>5. FormIsThere'
    BY <1>0, <2>1, <2>2 DEF FormIsThere
  <2> QED
    BY <1>0, <1>e, <2>1, <2>2, <2>3, <2>4, <2>5
<1>8. CASE Age
  <2>1. detail' \in Entry(Items) /\ detail'.status = detail.status /\ detail'.data = detail.data
        /\ UNCHANGED <<form, stored, fetch, page, draft, save, edits, behind>>
    BY <1>0, <1>8, Entries DEF Age
  <2>2. FormIsThere'
    BY <1>0, <2>1 DEF FormIsThere
  <2> QED
    BY <1>0, <1>e, <2>1, <2>2
<1>9. CASE Forget
  <2>1. /\ detail' \in Entry(Items) /\ detail'.status = "pending" /\ detail'.data = NoData
        /\ UNCHANGED <<edits, form, stored, fetch, page, draft, save>>
    BY <1>9, Answers DEF Forget
  <2>2. behind' \in Lacks
    BY <1>9, <1>b, CopiesNamed DEF Forget
  <2>3. FormIsThere'
    BY <1>0, <2>1 DEF FormIsThere
  <2> QED
    BY <1>0, <1>e, <2>1, <2>2, <2>3
<1>10. CASE Submit
  <2>1. draft \in Draft /\ page \in Both
    BY <1>0, <1>10 DEF Submit, InputsShown, FormIsThere, Both
  <2>2. Send(form.conv, draft.value) \in Values
    BY <1>0, <1>10, <2>1, SentIsValue DEF Submit, Draft
  <2>3. save' \in Save /\ save'.stage = "sent" /\ save'.to = page
    BY <1>10, <2>1, <2>2 DEF Submit, Save, Draft
  <2>4. behind' \in Lacks
    BY <1>10, <1>b, <1>c, CopiesNamed DEF Submit
  <2>5. UNCHANGED <<edits, form, stored, detail, fetch, page, draft>>
    BY <1>10 DEF Submit
  <2>6. FormIsThere'
    BY <1>0, <2>1, <2>3, <2>5 DEF FormIsThere, Both
  <2> QED
    BY <1>0, <1>e, <2>3, <2>4, <2>5, <2>6
<1>11. CASE ServeSave
  <2>1. /\ save' \in Save /\ save'.mine = save.mine /\ save'.stage = "served"
        /\ save'.to = save.to \/ (save.to = "new" /\ save'.to = "other")
    <3>1. save.to \in Both \cup {"other"} /\ save.mine \in BOOLEAN
      BY <1>0 DEF Save
    <3>2. CASE save.to = "new" /\ ~Unborn
      <4>1. save' = [NoSave EXCEPT !.stage = "served", !.to = "other", !.mine = save.mine]
        BY <1>11, <3>2, Zenon DEF ServeSave
      <4>2. save' = Served("other", save.mine)
        BY <4>1 DEF NoSave, Served
      <4> QED
        BY <3>1, <3>2, <4>2, ServedSave
    <3>3. CASE ~(save.to = "new" /\ ~Unborn)
      <4>1. save' = [NoSave EXCEPT !.stage = "served", !.to = save.to, !.mine = save.mine]
        BY <1>11, <3>3, Zenon DEF ServeSave
      <4>2. save' = Served(save.to, save.mine)
        BY <4>1 DEF NoSave, Served
      <4> QED
        BY <3>1, <4>2, ServedSave
    <3> QED
      BY <3>2, <3>3
  <2>2. stored' \in Items \cup {Absent}
    BY <1>0, <1>11 DEF ServeSave, Save, Items
  <2>3. behind' \in Lacks
    <3>1. \A u : Missed("own", u) \in Lacks
      BY <1>0, MissedTyped
    <3>2. \A m \in Lacks : [m EXCEPT !.save = {}] \in Lacks
      BY DEF Lacks
    <3> QED
      BY <1>0, <1>11, <3>1, <3>2 DEF ServeSave
  <2>4. UNCHANGED <<edits, form, detail, fetch, page, draft>>
    BY <1>11 DEF ServeSave
  <2>5. FormIsThere'
    BY <1>0, <1>11, <2>1, <2>4 DEF FormIsThere, ServeSave
  <2> QED
    BY <1>0, <1>e, <2>1, <2>2, <2>3, <2>4, <2>5
<1>12. CASE SaveFails
  <2>1. UNCHANGED <<edits, form, stored, detail, fetch, page, draft>> /\ save' = NoSave
    BY <1>12 DEF SaveFails
  <2>2. behind' \in Lacks
    BY <1>0, <1>12, <1>b, <1>c, CopiesNamed DEF SaveFails, Lacks
  <2>3. FormIsThere'
    BY <1>0, <1>a, <2>1 DEF FormIsThere
  <2> QED
    BY <1>0, <1>a, <1>e, <2>1, <2>2, <2>3
<1>f. ASSUME Invalidate
      PROVE  /\ detail' \in Entry(Items) /\ detail'.data = detail.data
             /\ (detail'.status = "success" <=> detail.status = "success")
             /\ fetch' \in Fetches /\ behind' \in Lacks
  <2>1. /\ detail' \in Entry(Items) /\ detail'.data = detail.data
        /\ (detail'.status = "success" <=> detail.status = "success")
    BY <1>0, <1>f, Entries DEF Invalidate, FormIsThere
  <2>2. fetch' \in Fetches
    BY <1>0, <1>a, <1>f DEF Invalidate
  <2>3. behind' \in Lacks
    BY <1>0, <1>f DEF Invalidate, Lacks, Copies
  <2> QED
    BY <2>1, <2>2, <2>3
<1>13. CASE SaveDone
  <2>1. /\ detail' \in Entry(Items) /\ detail'.data = detail.data
        /\ (detail'.status = "success" <=> detail.status = "success")
        /\ fetch' \in Fetches /\ behind' \in Lacks
    BY <1>0, <1>13, <1>f DEF SaveDone
  <2>2. /\ save' \in Save /\ UNCHANGED <<edits, form, stored, page>>
        /\ save'.mine => save.mine /\ save'.stage # "none" /\ save'.to = save.to
    BY <1>0, <1>13, <1>a DEF SaveDone, Save
  <2>3. draft' = draft \/ (draft \in Draft /\ draft' \in Draft)
    BY <1>0, <1>13 DEF SaveDone, FormIsThere, Both, Draft
  <2>4. FormIsThere'
    BY <1>0, <2>1, <2>2, <2>3, NothingAssumption DEF FormIsThere
  <2> QED
    BY <1>0, <1>e, <2>1, <2>2, <2>3, <2>4, NothingAssumption
<1>14. CASE ListsDone
  <2>1. /\ detail' \in Entry(Items) /\ detail'.data = detail.data
        /\ (detail'.status = "success" <=> detail.status = "success")
        /\ fetch' \in Fetches /\ behind' \in Lacks /\ UNCHANGED <<edits, form, stored, page, draft>>
    BY <1>14, <1>f DEF ListsDone
  <2>2. save' \in Save /\ save'.mine = save.mine /\ save'.stage = "refreshing" /\ save'.to = save.to
    BY <1>0, <1>14 DEF ListsDone, Save
  <2>3. FormIsThere'
    BY <1>0, <2>1, <2>2 DEF FormIsThere
  <2> QED
    BY <1>0, <1>e, <2>1, <2>2, <2>3
<1>15. CASE Navigate
  <2>1. save' = NoSave /\ UNCHANGED <<edits, form, stored>>
    BY <1>15 DEF Navigate
  <2>2. \/ UNCHANGED <<detail, fetch, page, draft, behind>>
        \/ /\ draft' = NoDraft /\ behind' \in Lacks
           /\ \/ page' = "elsewhere" /\ UNCHANGED <<detail, fetch>>
              \/ page' = "edit" /\ detail' = Blank /\ fetch' = Sent
    <3>1. [behind EXCEPT !.draft = {}] \in Lacks
      BY <1>b, CopiesNamed
    <3>2. CASE save.mine \/ form.insists
      BY <1>15, <3>1, <3>2 DEF Navigate
    <3>3. CASE ~(save.mine \/ form.insists)
      BY <1>15, <3>3 DEF Navigate
    <3> QED
      BY <3>2, <3>3
  <2>3. FormIsThere'
    BY <1>0, <1>a, <2>1, <2>2, Answers DEF FormIsThere
  <2> QED
    BY <1>0, <1>a, <1>e, <2>1, <2>2, <2>3, Answers DEF Both
<1>16. CASE EditElsewhere
  <2>1. stored' \in Items \cup {Absent}
    BY <1>0, <1>16, StoredIsValue DEF EditElsewhere, Items
  <2>2. behind' \in Lacks
    BY <1>0, <1>16, MissedTyped DEF EditElsewhere
  <2>3. edits' \in 0..MaxEdits /\ UNCHANGED <<form, detail, fetch, page, draft, save>>
    BY <1>0, <1>16, BoundsAssumption DEF EditElsewhere
  <2>4. FormIsThere'
    BY <1>0, <2>3 DEF FormIsThere
  <2> QED
    BY <1>0, <1>e, <2>1, <2>2, <2>3, <2>4
<1>17. CASE UNCHANGED vars
  BY <1>17 DEF vars, TypeInv, TypeOK, FormIsThere
<1> QED
  BY <1>1, <1>2, <1>3, <1>4, <1>5, <1>6, <1>7, <1>8, <1>9, <1>10, <1>11, <1>12, <1>13, <1>14, <1>15,
     <1>16, <1>17 DEF Next

(* Every variable keeps its type. *)
THEOREM TypeCorrectness == Spec => []TypeOK
<1>1. TypeInv => TypeOK
  BY DEF TypeInv
<1> QED
  BY <1>1, InitTypes, TypeStep, PTL DEF Spec

-----------------------------------------------------------------------------
(* The effects of the actions, field by field. *)
Kept(copies) == \A c \in copies : behind'[c] = behind[c]

LEMMA TypesOfFields ==
  ASSUME TypeInv
  PROVE  /\ form \in Forms /\ form.conv \in Conversions /\ form.discipline \in {"hydrates", "mounts"}
         /\ detail \in Entry(Items) /\ draft \in Draft \cup {NoDraft} /\ save \in Save /\ behind \in Lacks
         /\ stored \in Items \cup {Absent}
         /\ fetch \in [stage : {"none", "sent", "served"}, answer : Items \cup {Absent}]
         /\ page \in Both \cup {"elsewhere"}
         /\ (page = "elsewhere" => draft = NoDraft) /\ (page = "new" => draft # NoDraft)
         /\ detail.status = "success" => detail.data # NoData
BY FormShape DEF TypeInv, TypeOK, FormIsThere, Lacks

LEMMA OpenEditEffect ==
  ASSUME TypeInv, OpenEdit
  PROVE  /\ page \in {"elsewhere", "edit"} /\ page' = "edit" /\ UNCHANGED <<edits, form, stored, save>>
         /\ detail' \in Entry(Items) /\ detail'.data = detail.data /\ detail'.old = detail.old
         /\ detail'.status = "success" => detail'.data # NoData
         /\ \/ fetch' = fetch /\ (fetch.stage # "none" \/ ~Wants(detail))
            \/ fetch.stage = "none" /\ fetch'.stage = "sent"
         /\ draft' = Adopted(draft, detail', fetch'.stage # "none" \/ save.stage # "none")
         /\ behind'.draft = Taken(draft') /\ Kept({"detail", "fetch", "save"})
<1>1. /\ page \in {"elsewhere", "edit"} /\ page' = "edit" /\ UNCHANGED <<edits, form, stored, save>>
      /\ draft' = Adopted(draft, detail', fetch'.stage # "none" \/ save.stage # "none")
      /\ detail' = Asked(detail) \/ detail' = detail
  BY DEF OpenEdit
<1>2. Asked(detail) \in Entry(Items) /\ Asked(detail).data = detail.data /\ Asked(detail).old = detail.old
  BY TypesOfFields, Entries
<1>3. Asked(detail).status = "success" => Asked(detail) = detail
  BY TypesOfFields, Entries
<1>4. /\ detail' \in Entry(Items) /\ detail'.data = detail.data /\ detail'.old = detail.old
      /\ detail'.status = "success" => detail'.data # NoData
  BY <1>1, <1>2, <1>3, TypesOfFields
<1>5. \/ fetch' = fetch /\ (fetch.stage # "none" \/ ~Wants(detail))
      \/ fetch.stage = "none" /\ fetch'.stage = "sent"
  BY DEF OpenEdit, Asks, Sent
<1>6. behind'.draft = Taken(draft') /\ Kept({"detail", "fetch", "save"})
  BY TypesOfFields, CopiesNamed DEF OpenEdit, Kept, Lacks
<1> QED
  BY <1>1, <1>4, <1>5, <1>6

LEMMA OpenNewEffect ==
  ASSUME TypeInv, OpenNew
  PROVE  /\ page' = "new" /\ UNCHANGED <<edits, form, stored, detail, fetch, save>> /\ Unborn
         /\ draft' \in Draft /\ draft' # NoDraft /\ draft'.value \in Texts /\ draft'.done = FALSE
         /\ behind'.draft = {} /\ Kept({"detail", "fetch", "save"})
<1> DEFINE item == [value |-> Default(form.conv), rest |-> 0]
<1>1. item \in Items /\ item.value \in Values
  BY TypesOfFields, DefaultIsText DEF Items, Rests, Texts
<1>2. draft' = Filled(item, FALSE)
  BY DEF OpenNew
<1> HIDE DEF item
<1>3. draft' \in Draft /\ draft' # NoDraft /\ draft'.value \in Texts /\ draft'.done = FALSE
  BY <1>1, <1>2, TypesOfFields, Filling, ShownIsText
<1>4. behind'.draft = {} /\ Kept({"detail", "fetch", "save"})
  BY TypesOfFields, CopiesNamed DEF OpenNew, Kept, Lacks
<1> QED
  BY <1>3, <1>4 DEF OpenNew

LEMMA LeaveEffect ==
  ASSUME TypeInv, Leave
  PROVE  /\ page' = "elsewhere" /\ draft' = NoDraft /\ UNCHANGED <<edits, form, stored, detail, fetch>>
         /\ save'.stage = save.stage /\ save'.to = save.to /\ save'.value = save.value
         /\ save'.rest = save.rest /\ save'.touched = save.touched /\ save'.repeat = save.repeat
         /\ behind'.draft = {} /\ Kept({"detail", "fetch", "save"})
<1>1. /\ save'.stage = save.stage /\ save'.to = save.to /\ save'.value = save.value
      /\ save'.rest = save.rest /\ save'.touched = save.touched /\ save'.repeat = save.repeat
  BY TypesOfFields DEF Leave, Save
<1>2. behind'.draft = {} /\ Kept({"detail", "fetch", "save"})
  BY TypesOfFields, CopiesNamed DEF Leave, Kept, Lacks
<1> QED
  BY <1>1, <1>2 DEF Leave

LEMMA TypeEffect ==
  ASSUME TypeInv, NEW t \in Typable(form.conv), Type(t)
  PROVE  /\ UNCHANGED <<form, stored, detail, fetch, page, save, edits, behind>>
         /\ draft \in Draft /\ draft # NoDraft /\ draft' \in Draft /\ draft' # NoDraft
         /\ draft'.value \in Texts /\ draft'.rest = draft.rest /\ draft'.typed = TRUE
         /\ draft'.hasty = draft.hasty /\ draft'.done = draft.done
<1>1. draft \in Draft /\ draft # NoDraft
  BY NothingAssumption DEF TypeInv, TypeOK, FormIsThere, Type, InputsShown
<1>2. t \in Texts /\ t \in Values
  BY TypesOfFields, TypedIsText DEF Texts
<1>3. /\ draft' \in Draft /\ draft'.value = t /\ draft'.rest = draft.rest /\ draft'.typed = TRUE
      /\ draft'.hasty = draft.hasty /\ draft'.done = draft.done
  BY <1>1, <1>2 DEF Type, Draft
<1> QED
  BY <1>1, <1>2, <1>3, NothingAssumption DEF Type

LEMMA ServeDetailEffect ==
  ASSUME TypeInv, ServeDetail
  PROVE  /\ UNCHANGED <<edits, form, stored, detail, page, draft, save>>
         /\ fetch'.stage = "served" /\ fetch'.answer = stored /\ fetch.stage = "sent"
         /\ behind'.fetch = {} /\ Kept({"detail", "draft", "save"})
BY TypesOfFields, CopiesNamed DEF ServeDetail, Kept, Lacks

LEMMA TakeDetailEffect ==
  ASSUME TypeInv, TakeDetail
  PROVE  /\ UNCHANGED <<edits, form, stored, page, save>>
         /\ fetch.stage = "served" /\ fetch.answer \in Items /\ fetch'.stage = "none"
         /\ detail' \in Entry(Items) /\ detail'.data = fetch.answer /\ detail'.data # NoData
         /\ detail'.status = "success" /\ detail'.old = FALSE
         /\ page = "edit" => draft' = Adopted(draft, detail', save.stage # "none")
         /\ page # "edit" => draft' = draft
         /\ behind'.detail = behind.fetch /\ behind'.fetch = {} /\ behind'.save = behind.save
         /\ behind'.draft = IF draft' = draft /\ form.discipline = "mounts" THEN behind.draft
                            ELSE IF draft' = NoDraft THEN {} ELSE behind.fetch
<1>1. fetch.stage = "served" /\ fetch.answer \in Items /\ fetch'.stage = "none"
  BY TypesOfFields DEF TakeDetail, NoFetch
<1>2. /\ detail' \in Entry(Items) /\ detail'.data = fetch.answer /\ detail'.data # NoData
      /\ detail'.status = "success" /\ detail'.old = FALSE
  BY <1>1, Answers DEF TakeDetail
<1>3. /\ behind'.detail = behind.fetch /\ behind'.fetch = {} /\ behind'.save = behind.save
      /\ behind'.draft = IF draft' = draft /\ form.discipline = "mounts" THEN behind.draft
                         ELSE IF draft' = NoDraft THEN {} ELSE behind.fetch
  <2> DEFINE b == [behind EXCEPT !.detail = behind.fetch, !.fetch = {}]
             free == draft' = draft /\ form.discipline = "mounts"
             mark == IF draft' = NoDraft THEN {} ELSE b.detail
  <2>1. /\ b.detail = behind.fetch /\ b.fetch = {} /\ b.save = behind.save /\ b.draft = behind.draft
        /\ DOMAIN b = Copies
    BY TypesOfFields, CopiesNamed DEF Lacks
  <2>2. behind' = IF free THEN b ELSE [b EXCEPT !.draft = mark]
    BY DEF TakeDetail
  <2> HIDE DEF b
  <2> QED
    BY <2>1, <2>2, CopiesNamed
<1> QED
  BY <1>1, <1>2, <1>3 DEF TakeDetail

LEMMA FailDetailEffect ==
  ASSUME TypeInv, FailDetail
  PROVE  /\ UNCHANGED <<edits, form, stored, page, save>>
         /\ fetch.stage # "none" /\ fetch'.stage = "none"
         /\ detail' \in Entry(Items) /\ detail'.data = detail.data
         /\ detail'.status = "error" /\ detail'.old = TRUE
         /\ page = "edit" => draft' = Adopted(draft, detail', save.stage # "none")
         /\ page # "edit" => draft' = draft
         /\ behind'.draft = Taken(draft') /\ behind'.fetch = {} /\ Kept({"detail", "save"})
<1>1. /\ detail' \in Entry(Items) /\ detail'.data = detail.data
      /\ detail'.status = "error" /\ detail'.old = TRUE
  BY TypesOfFields, Entries DEF FailDetail
<1>2. behind'.draft = Taken(draft') /\ behind'.fetch = {} /\ Kept({"detail", "save"})
  BY TypesOfFields, CopiesNamed DEF FailDetail, Kept, Lacks
<1> QED
  BY <1>1, <1>2 DEF FailDetail, NoFetch

LEMMA AgeEffect ==
  ASSUME TypeInv, Age
  PROVE  /\ UNCHANGED <<form, stored, fetch, page, draft, save, edits, behind>>
         /\ detail'.data = detail.data /\ detail'.status = detail.status /\ detail'.old = TRUE
BY TypesOfFields, Entries DEF Age

LEMMA ForgetEffect ==
  ASSUME TypeInv, Forget
  PROVE  /\ UNCHANGED <<edits, form, stored, fetch, page, draft, save>>
         /\ page # "edit" /\ detail'.data = NoData
         /\ behind'.detail = {} /\ Kept({"fetch", "draft", "save"})
BY TypesOfFields, CopiesNamed, Answers DEF Forget, Kept, Lacks

LEMMA SubmitEffect ==
  ASSUME TypeInv, Submit
  PROVE  /\ UNCHANGED <<edits, form, stored, detail, fetch, page, draft>>
         /\ draft \in Draft /\ draft # NoDraft /\ page \in Both /\ Send(form.conv, draft.value) # "refused"
         /\ save.stage = "none" /\ save'.stage = "sent" /\ save'.to = page /\ save'.mine = TRUE
         /\ save'.value = Send(form.conv, draft.value) /\ save'.rest = draft.rest
         /\ save'.touched = draft.typed /\ save'.repeat = draft.done
         /\ behind'.save = behind.draft /\ Kept({"detail", "fetch", "draft"})
<1>1. draft \in Draft /\ draft # NoDraft /\ page \in Both
  BY NothingAssumption DEF TypeInv, TypeOK, FormIsThere, Submit, InputsShown, Both
<1>2. behind'.save = behind.draft /\ Kept({"detail", "fetch", "draft"})
  BY TypesOfFields, CopiesNamed DEF Submit, Kept, Lacks
<1> QED
  BY <1>1, <1>2 DEF Submit

(* Which copies lack a change that is made now. *)
LEMMA Missing ==
  ASSUME TypeInv, NEW kind \in {"own", "untold"}, NEW unaware
  PROVE  /\ Missed(kind, unaware) \in Lacks
         /\ Missed(kind, unaware).detail =
              IF "detail" \notin unaware \/ detail.data = NoData THEN behind.detail
              ELSE behind.detail \cup {kind}
         /\ Missed(kind, unaware).fetch =
              IF "fetch" \notin unaware \/ fetch.stage # "served" THEN behind.fetch
              ELSE behind.fetch \cup {kind}
         /\ Missed(kind, unaware).draft =
              IF "draft" \notin unaware \/ page # "edit" \/ draft = NoDraft THEN behind.draft
              ELSE behind.draft \cup {kind}
         /\ Missed(kind, unaware).save =
              IF "save" \notin unaware \/ save.stage # "sent" THEN behind.save ELSE behind.save \cup {kind}
<1>1. Missed(kind, unaware) \in Lacks
  BY TypesOfFields, MissedTyped
<1> QED
  BY <1>1, CopiesNamed DEF Missed

LEMMA ServeSaveEffect ==
  ASSUME TypeInv, ServeSave
  PROVE  /\ UNCHANGED <<edits, form, detail, fetch, page, draft>>
         /\ save.stage = "sent" /\ save'.stage = "served" /\ save'.mine = save.mine
         /\ save.to = "edit" => stored # Absent
         /\ \/ /\ save.to = "new" /\ save'.to = "other" /\ UNCHANGED stored
               /\ Kept({"detail", "fetch", "draft"})
            \/ /\ save'.to = save.to /\ (save.to = "new" => Unborn)
               /\ stored' = [value |-> save.value, rest |-> save.rest]
               /\ behind'.detail = IF detail.data = NoData THEN behind.detail ELSE behind.detail \cup {"own"}
               /\ behind'.fetch = IF fetch.stage # "served" THEN behind.fetch ELSE behind.fetch \cup {"own"}
               /\ behind'.draft = IF Covered \/ page # "edit" \/ draft = NoDraft THEN behind.draft
                                  ELSE behind.draft \cup {"own"}
<1>1. save.to \in Both \cup {"other"} /\ save.mine \in BOOLEAN
  BY TypesOfFields DEF Save
<1>2. CASE save.to = "new" /\ ~Unborn
  <2>1. save' = [NoSave EXCEPT !.stage = "served", !.to = "other", !.mine = save.mine]
    BY <1>2, Zenon DEF ServeSave
  <2>2. save' = Served("other", save.mine)
    BY <2>1 DEF NoSave, Served
  <2>3. behind' = [behind EXCEPT !.save = {}] /\ UNCHANGED stored
    BY <1>2, Zenon DEF ServeSave
  <2>4. Kept({"detail", "fetch", "draft"})
    BY <2>3, TypesOfFields, CopiesNamed DEF Kept, Lacks
  <2>5. save.stage = "sent" /\ UNCHANGED <<edits, form, detail, fetch, page, draft>>
    BY Zenon DEF ServeSave
  <2> QED
    BY <1>1, <1>2, <2>2, <2>3, <2>4, <2>5, ServedSave
<1>3. CASE ~(save.to = "new" /\ ~Unborn)
  <2> DEFINE unaware == {"detail", "fetch"} \cup IF Covered THEN {} ELSE {"draft"}
             m == Missed("own", unaware)
  <2>1. save' = [NoSave EXCEPT !.stage = "served", !.to = save.to, !.mine = save.mine]
    BY <1>3, Zenon DEF ServeSave
  <2>2. save' = Served(save.to, save.mine)
    BY <2>1 DEF NoSave, Served
  <2>3. behind' = [m EXCEPT !.save = {}] /\ stored' = [value |-> save.value, rest |-> save.rest]
    BY <1>3, Zenon DEF ServeSave
  <2>4. save.stage = "sent" /\ UNCHANGED <<edits, form, detail, fetch, page, draft>>
        /\ (save.to = "edit" => stored # Absent)
    BY Zenon DEF ServeSave
  <2>5. /\ m \in Lacks
        /\ m.detail = IF "detail" \notin unaware \/ detail.data = NoData THEN behind.detail
                      ELSE behind.detail \cup {"own"}
        /\ m.fetch = IF "fetch" \notin unaware \/ fetch.stage # "served" THEN behind.fetch
                     ELSE behind.fetch \cup {"own"}
        /\ m.draft = IF "draft" \notin unaware \/ page # "edit" \/ draft = NoDraft THEN behind.draft
                     ELSE behind.draft \cup {"own"}
    BY Missing
  <2>6. "detail" \in unaware /\ "fetch" \in unaware /\ ("draft" \in unaware <=> ~Covered)
    OBVIOUS
  <2> HIDE DEF m, unaware
  <2>7. behind'.detail = m.detail /\ behind'.fetch = m.fetch /\ behind'.draft = m.draft
    BY <2>3, <2>5, CopiesNamed DEF Lacks
  <2> QED
    BY <1>1, <1>3, <2>2, <2>3, <2>4, <2>5, <2>6, <2>7, ServedSave
<1> QED
  BY <1>2, <1>3

LEMMA SaveFailsEffect ==
  ASSUME TypeInv, SaveFails
  PROVE  /\ UNCHANGED <<edits, form, stored, detail, fetch, page, draft>>
         /\ save.stage \in {"sent", "served"} /\ save'.stage = "none" /\ save'.mine = FALSE
         /\ \/ save.stage = "sent" /\ Kept({"detail", "fetch", "draft"})
            \/ /\ save.stage = "served"
               /\ \A c \in Copies : "own" \notin behind'[c] /\ (behind'[c] = {} <=> behind[c] = {})
<1>1. CASE save.stage = "sent"
  BY <1>1, TypesOfFields, CopiesNamed DEF SaveFails, NoSave, Kept, Lacks
<1>2. CASE save.stage = "served"
  <2>1. behind' = [c \in Copies |-> IF "own" \in behind[c] THEN {"untold"} ELSE behind[c]]
    BY <1>2 DEF SaveFails
  <2>2. \A c \in Copies : "own" \notin behind'[c] /\ (behind'[c] = {} <=> behind[c] = {})
    BY <2>1
  <2> QED
    BY <1>2, <2>2 DEF SaveFails, NoSave
<1> QED
  BY <1>1, <1>2 DEF SaveFails

LEMMA InvalidateEffect ==
  ASSUME TypeInv, Invalidate
  PROVE  /\ detail' \in Entry(Items) /\ detail'.data = detail.data /\ detail'.old = TRUE
         /\ (detail'.status = "success" <=> detail.status = "success")
         /\ Kept({"detail", "draft", "save"}) /\ "own" \notin behind'.fetch
         /\ \/ page = "edit" /\ fetch'.stage = "sent" /\ behind'.fetch = {}
            \/ fetch' = fetch /\ (behind'.fetch = {} <=> behind.fetch = {})
<1> DEFINE again == Refetches(detail, page = "edit", fetch.stage = "none")
<1>1. /\ detail' \in Entry(Items) /\ detail'.data = detail.data /\ detail'.old = TRUE
      /\ (detail'.status = "success" <=> detail.status = "success")
  BY TypesOfFields, Entries DEF Invalidate
<1>2. Kept({"detail", "draft", "save"})
  BY TypesOfFields, CopiesNamed DEF Invalidate, Kept, Lacks
<1>3. behind'.fetch = IF again THEN {} ELSE IF "own" \in behind.fetch THEN {"untold"} ELSE behind.fetch
  BY TypesOfFields, CopiesNamed DEF Invalidate, Lacks
<1>4. fetch' = (IF again THEN Sent ELSE fetch) /\ (again => page = "edit")
  BY DEF Invalidate, Refetches
<1> HIDE DEF again
<1> QED
  BY <1>1, <1>2, <1>3, <1>4 DEF Sent

LEMMA SaveDoneEffect ==
  ASSUME TypeInv, SaveDone
  PROVE  /\ UNCHANGED <<edits, form, stored, page>> /\ save.stage = "served"
         /\ \/ form.discipline = "mounts" /\ save.to = "edit" /\ save'.stage = "none" /\ Invalidate
            \/ /\ ~(form.discipline = "mounts" /\ save.to = "edit") /\ UNCHANGED <<detail, fetch, behind>>
               /\ save'.stage = "listing" /\ save'.to = save.to /\ save'.mine = save.mine
         /\ \/ draft' = draft /\ ~(save.mine /\ save.to # "edit")
            \/ /\ save.mine /\ save.to # "edit" /\ draft' \in Draft /\ draft \in Draft
               /\ draft # NoDraft /\ draft' # NoDraft /\ draft'.value = draft.value
               /\ draft'.rest = draft.rest /\ draft'.typed = draft.typed /\ draft'.hasty = draft.hasty
<1>1. /\ UNCHANGED <<edits, form, stored, page>> /\ save.stage = "served"
      /\ \/ form.discipline = "mounts" /\ save.to = "edit" /\ save'.stage = "none" /\ Invalidate
         \/ /\ ~(form.discipline = "mounts" /\ save.to = "edit") /\ UNCHANGED <<detail, fetch, behind>>
            /\ save'.stage = "listing" /\ save'.to = save.to /\ save'.mine = save.mine
  BY TypesOfFields DEF SaveDone, NoSave, Save
<1>2. save.mine /\ save.to # "edit" => draft # NoDraft /\ draft \in Draft
  BY TypesOfFields DEF TypeInv, FormIsThere, Both
<1>3. \/ draft' = draft /\ ~(save.mine /\ save.to # "edit")
      \/ save.mine /\ save.to # "edit" /\ draft' = [draft EXCEPT !.done = TRUE]
  BY DEF SaveDone
<1>4. draft \in Draft => LET d == [draft EXCEPT !.done = TRUE] IN
                         /\ d \in Draft /\ d.value = draft.value /\ d.rest = draft.rest
                         /\ d.typed = draft.typed /\ d.hasty = draft.hasty
  BY DEF Draft
<1> QED
  BY <1>1, <1>2, <1>3, <1>4, NothingAssumption

LEMMA ListsDoneEffect ==
  ASSUME TypeInv, ListsDone
  PROVE  /\ UNCHANGED <<edits, form, stored, page, draft>> /\ Invalidate
         /\ save.stage = "listing" /\ form.refreshes /\ save.to = "edit"
         /\ save'.stage = "refreshing" /\ save'.to = "edit" /\ save'.mine = save.mine
BY TypesOfFields DEF ListsDone, Save

LEMMA NavigateEffect ==
  ASSUME TypeInv, Navigate
  PROVE  /\ UNCHANGED <<edits, form, stored>> /\ save'.stage = "none" /\ save'.mine = FALSE
         /\ \/ save.stage = "listing" /\ ~(form.refreshes /\ save.to = "edit")
            \/ save.stage = "refreshing"
         /\ \/ ~save.mine /\ UNCHANGED <<detail, fetch, page, draft, behind>>
            \/ /\ draft' = NoDraft /\ behind'.draft = {} /\ Kept({"detail", "fetch", "save"})
               /\ \/ page' = "elsewhere" /\ UNCHANGED <<detail, fetch>>
                  \/ /\ form.discipline = "mounts" /\ save.to # "other"
                     /\ page' = "edit" /\ detail' = Blank /\ fetch'.stage = "sent"
<1>1. /\ UNCHANGED <<edits, form, stored>> /\ save' = NoSave
      /\ (save.stage = "listing" /\ ~(form.refreshes /\ save.to = "edit")) \/ save.stage = "refreshing"
  BY DEF Navigate
<1>2. CASE save.mine \/ form.insists
  <2>1. behind'.draft = {} /\ Kept({"detail", "fetch", "save"}) /\ draft' = NoDraft
    BY <1>2, TypesOfFields, CopiesNamed DEF Navigate, Kept, Lacks
  <2>2. \/ page' = "elsewhere" /\ UNCHANGED <<detail, fetch>>
        \/ /\ form.discipline = "mounts" /\ save.to # "other"
           /\ page' = "edit" /\ detail' = Blank /\ fetch'.stage = "sent"
    BY <1>2, TypesOfFields DEF Navigate, Sent
  <2> QED
    BY <1>1, <2>1, <2>2 DEF NoSave
<1>3. CASE ~(save.mine \/ form.insists)
  BY <1>1, <1>3 DEF Navigate, NoSave
<1> QED
  BY <1>2, <1>3

LEMMA EditElsewhereEffect ==
  ASSUME TypeInv, EditElsewhere
  PROVE  /\ UNCHANGED <<form, detail, fetch, page, draft, save>>
         /\ behind'.detail = IF detail.data = NoData THEN behind.detail ELSE behind.detail \cup {"untold"}
         /\ behind'.fetch = IF fetch.stage # "served" THEN behind.fetch ELSE behind.fetch \cup {"untold"}
         /\ behind'.draft = IF page # "edit" \/ draft = NoDraft THEN behind.draft
                            ELSE behind.draft \cup {"untold"}
         /\ behind'.save = IF save.stage # "sent" THEN behind.save ELSE behind.save \cup {"untold"}
BY Missing, CopiesNamed DEF EditElsewhere

-----------------------------------------------------------------------------
(* A form that knows of the record it created waits for the lists of that save:
   it is gone before another save can be sent. *)
DoneIsAwaited == draft # NoDraft /\ draft.done =>
                   save.stage = "listing" /\ save.mine /\ save.to # "edit"

CreatedInv == TypeInv /\ DoneIsAwaited /\ CreatedOnce

LEMMA InitCreated == Init => CreatedInv
<1>1. Init => draft = NoDraft /\ save.stage = "none"
  BY DEF Init, NoSave
<1> QED
  BY <1>1, InitTypes DEF CreatedInv, DoneIsAwaited, CreatedOnce

LEMMA CreatedStep == CreatedInv /\ [Next]_vars => CreatedInv'
<1> SUFFICES ASSUME CreatedInv, [Next]_vars PROVE (DoneIsAwaited /\ CreatedOnce)'
  BY TypeStep DEF CreatedInv
<1>0. TypeInv /\ DoneIsAwaited /\ CreatedOnce
  BY DEF CreatedInv
<1>a. ASSUME NEW e \in Entry(Items), e.status = "success" => e.data # NoData, NEW b \in BOOLEAN,
             draft' = Adopted(draft, e, b), UNCHANGED save
      PROVE  (DoneIsAwaited /\ CreatedOnce)'
  <2>1. draft' = draft \/ draft' = NoDraft \/ (e.data \in Items /\ draft' = Filled(e.data, b))
    BY <1>0, <1>a, Adopting
  <2>2. e.data \in Items => Filled(e.data, b).done = FALSE
    BY <1>0, Filling, TypesOfFields
  <2> QED
    BY <1>0, <1>a, <2>1, <2>2 DEF DoneIsAwaited, CreatedOnce
<1>b. ASSUME UNCHANGED <<draft, save>> PROVE (DoneIsAwaited /\ CreatedOnce)'
  BY <1>0, <1>b DEF DoneIsAwaited, CreatedOnce
<1>1. CASE OpenEdit
  BY <1>0, <1>1, <1>a, OpenEditEffect
<1>2. CASE OpenNew
  BY <1>0, <1>2, OpenNewEffect DEF DoneIsAwaited, CreatedOnce
<1>3. CASE Leave
  BY <1>0, <1>3, LeaveEffect DEF DoneIsAwaited, CreatedOnce
<1>4. ASSUME NEW t \in Typable(form.conv), Type(t) PROVE (DoneIsAwaited /\ CreatedOnce)'
  BY <1>0, <1>4, TypeEffect DEF DoneIsAwaited, CreatedOnce
<1>5. CASE ServeDetail
  BY <1>0, <1>5, <1>b, ServeDetailEffect
<1>6. CASE TakeDetail
  BY <1>0, <1>6, <1>a, <1>b, TakeDetailEffect
<1>7. CASE FailDetail
  BY <1>0, <1>7, <1>a, <1>b, FailDetailEffect
<1>8. CASE Age
  BY <1>0, <1>8, <1>b, AgeEffect
<1>9. CASE Forget
  BY <1>0, <1>9, <1>b, ForgetEffect
<1>10. CASE Submit
  <2>1. draft.done \in BOOLEAN /\ ~draft.done
    BY <1>0, <1>10, SubmitEffect DEF DoneIsAwaited, Draft
  <2> QED
    BY <1>0, <1>10, <2>1, SubmitEffect DEF DoneIsAwaited, CreatedOnce
<1>11. CASE ServeSave
  BY <1>0, <1>11, ServeSaveEffect DEF DoneIsAwaited, CreatedOnce
<1>12. CASE SaveFails
  BY <1>0, <1>12, SaveFailsEffect DEF DoneIsAwaited, CreatedOnce
<1>13. CASE SaveDone
  BY <1>0, <1>13, SaveDoneEffect DEF DoneIsAwaited, CreatedOnce
<1>14. CASE ListsDone
  BY <1>0, <1>14, ListsDoneEffect DEF DoneIsAwaited, CreatedOnce
<1>15. CASE Navigate
  BY <1>0, <1>15, NavigateEffect, TypesOfFields DEF DoneIsAwaited, CreatedOnce
<1>16. CASE EditElsewhere
  BY <1>0, <1>16, <1>b, EditElsewhereEffect
<1>17. CASE UNCHANGED vars
  BY <1>17, <1>b DEF vars
<1> QED
  BY <1>1, <1>2, <1>3, <1>4, <1>5, <1>6, <1>7, <1>8, <1>9, <1>10, <1>11, <1>12, <1>13, <1>14, <1>15,
     <1>16, <1>17 DEF Next

(* A record is not created a second time from a form that has been told of the
   first one: the buttons of the create pages stay disabled from the first click
   until the page goes away. *)
THEOREM CreatedOnceHolds == Spec => []CreatedOnce
<1>1. CreatedInv => CreatedOnce
  BY DEF CreatedInv
<1> QED
  BY <1>1, InitCreated, CreatedStep, PTL DEF Spec

-----------------------------------------------------------------------------
(* One step of TypedTextStays. *)
TextStays ==
  draft # NoDraft /\ page = "edit" /\ page' = "edit" /\ draft.typed =>
    \/ draft' # NoDraft /\ draft'.typed
    \/ form.discipline = "hydrates" /\ detail'.data # detail.data
    \/ form.discipline = "mounts" /\ detail'.status # "success"

LEMMA TextStep == TypeInv /\ [Next]_vars => TextStays
<1> SUFFICES ASSUME TypeInv, [Next]_vars PROVE TextStays
  OBVIOUS
<1>a. ASSUME detail' \in Entry(Items), detail'.status = "success" => detail'.data # NoData, NEW b \in BOOLEAN,
             draft' = Adopted(draft, detail', b)
      PROVE  TextStays
  <2>1. \/ draft' = draft
        \/ draft' = NoDraft /\ form.discipline = "mounts" /\ detail'.status # "success"
        \/ /\ form.discipline = "mounts" => draft = NoDraft
           /\ draft = NoDraft \/ detail'.data # detail.data
    BY <1>a, Adopting
  <2> QED
    BY <2>1, TypesOfFields DEF TextStays
<1>b. ASSUME UNCHANGED draft PROVE TextStays
  BY <1>b DEF TextStays
<1>1. CASE OpenEdit
  BY <1>1, <1>a, OpenEditEffect
<1>2. CASE OpenNew
  BY <1>2, OpenNewEffect DEF TextStays
<1>3. CASE Leave
  BY <1>3, LeaveEffect DEF TextStays
<1>4. ASSUME NEW t \in Typable(form.conv), Type(t) PROVE TextStays
  BY <1>4, TypeEffect DEF TextStays
<1>5. CASE ServeDetail
  BY <1>5, <1>b, ServeDetailEffect
<1>6. CASE TakeDetail
  BY <1>6, <1>a, <1>b, TakeDetailEffect
<1>7. CASE FailDetail
  BY <1>7, <1>a, <1>b, FailDetailEffect
<1>8. CASE Age
  BY <1>8, <1>b, AgeEffect
<1>9. CASE Forget
  BY <1>9, <1>b, ForgetEffect
<1>10. CASE Submit
  BY <1>10, <1>b, SubmitEffect
<1>11. CASE ServeSave
  BY <1>11, <1>b, ServeSaveEffect
<1>12. CASE SaveFails
  BY <1>12, <1>b, SaveFailsEffect
<1>13. CASE SaveDone
  BY <1>13, SaveDoneEffect DEF TextStays
<1>14. CASE ListsDone
  BY <1>14, <1>b, ListsDoneEffect
<1>15. CASE Navigate
  BY <1>15, NavigateEffect, Answers DEF TextStays
<1>16. CASE EditElsewhere
  BY <1>16, <1>b, EditElsewhereEffect
<1>17. CASE UNCHANGED vars
  BY <1>17, <1>b DEF vars
<1> QED
  BY <1>1, <1>2, <1>3, <1>4, <1>5, <1>6, <1>7, <1>8, <1>9, <1>10, <1>11, <1>12, <1>13, <1>14, <1>15,
     <1>16, <1>17 DEF Next

(* What was typed into an edit form that stays open goes away only with a record
   that came back different, or with an error that takes the form's place. *)
THEOREM TypedText == Spec => TypedTextStays
<1>1. TypeInv /\ [Next]_vars => [TextStays]_vars
  BY TextStep
<1> QED
  BY <1>1, InitTypes, TypeStep, PTL DEF Spec, TypedTextStays, TextStays

-----------------------------------------------------------------------------
(* A copy that lacks no change of the record agrees with it.  For a form that the
   user has not touched, and for what it sent, this is agreement after sending:
   the text of a form and the value of a record are told apart by conversions. *)
Agrees(text, item) == Send(form.conv, text) = Send(form.conv, Show(item.value))

DetailIsTrue == detail.data # NoData /\ behind.detail = {} => detail.data = stored
FetchIsTrue == fetch.stage = "served" /\ behind.fetch = {} => fetch.answer = stored
DraftIsTrue == page = "edit" /\ draft # NoDraft /\ behind.draft = {} =>
                 /\ stored # Absent /\ draft.rest = stored.rest
                 /\ ~draft.typed => Agrees(draft.value, stored)
SaveIsTrue == save.stage = "sent" /\ save.to = "edit" /\ behind.save = {} =>
                /\ stored # Absent /\ save.rest = stored.rest
                /\ ~save.touched => save.value = Send(form.conv, Show(stored.value))

(* A form that follows its entry shows the entry, but for what was typed; every
   form holds a text; and a saved value that is shown again is sent again. *)
FormShowsEntry ==
  form.discipline = "hydrates" /\ page = "edit" /\ draft # NoDraft =>
    /\ detail.data # NoData /\ draft.rest = detail.data.rest
    /\ ~draft.typed => draft.value = Show(detail.data.value)
FormHoldsText == draft # NoDraft => draft.value \in Texts
SendIsStable == save.stage = "sent" => Send(form.conv, Show(save.value)) = save.value

CopiesAreTrue == DetailIsTrue /\ FetchIsTrue /\ DraftIsTrue /\ SaveIsTrue
ShownIsSent == FormShowsEntry /\ FormHoldsText /\ SendIsStable

(* What the entry gives a form of an edit page, when it becomes e. *)
LEMMA AdoptedDraft ==
  ASSUME TypeInv, page \in {"elsewhere", "edit"}, FormShowsEntry, FormHoldsText,
         NEW e \in Entry(Items), e.status = "success" => e.data # NoData, NEW b \in BOOLEAN
  PROVE  LET d == Adopted(draft, e, b) IN
         \/ d = NoDraft
         \/ /\ d = draft /\ page = "edit"
            /\ form.discipline = "hydrates" =>
                 /\ e.data = detail.data \/ e.data = NoData
                 /\ detail.data # NoData /\ draft.rest = detail.data.rest
                 /\ ~draft.typed => draft.value = Show(detail.data.value)
         \/ /\ e.data \in Items /\ d # NoDraft /\ d.value = Show(e.data.value) /\ d.rest = e.data.rest
            /\ d.value \in Texts /\ d.typed = FALSE /\ d.hasty = (b /\ form.discipline = "mounts")
            /\ form.discipline = "mounts" => draft = NoDraft
<1> DEFINE d == Adopted(draft, e, b)
<1>1. \/ d = draft /\ (form.discipline = "hydrates" => d = NoDraft \/ e.data = detail.data \/ e.data = NoData)
      \/ d = NoDraft
      \/ e.data \in Items /\ d = Filled(e.data, b) /\ (form.discipline = "mounts" => draft = NoDraft)
  BY Adopting
<1> HIDE DEF d
<1>2. e.data \in Items => Show(e.data.value) \in Texts
  BY ShownIsText DEF Items
<1>3. e.data \in Items /\ d = Filled(e.data, b) =>
        /\ d # NoDraft /\ d.value = Show(e.data.value) /\ d.rest = e.data.rest
        /\ d.value \in Texts /\ d.typed = FALSE /\ d.hasty = (b /\ form.discipline = "mounts")
  <2> SUFFICES ASSUME e.data \in Items
               PROVE  LET f == Filled(e.data, b) IN
                      /\ f # NoDraft /\ f.value = Show(e.data.value) /\ f.rest = e.data.rest
                      /\ f.value \in Texts /\ f.typed = FALSE /\ f.hasty = (b /\ form.discipline = "mounts")
    OBVIOUS
  <2> QED
    BY <1>2, Filling, TypesOfFields
<1>4. page = "elsewhere" => draft = NoDraft
  BY TypesOfFields
<1>5. d = draft /\ d # NoDraft => page = "edit"
  BY <1>4
<1>6. CASE d = NoDraft
  BY <1>6 DEF d
<1>7. CASE e.data \in Items /\ d = Filled(e.data, b) /\ (form.discipline = "mounts" => draft = NoDraft)
  BY <1>3, <1>7 DEF d
<1>8. CASE d = draft /\ d # NoDraft /\ (form.discipline = "hydrates" => e.data = detail.data \/ e.data = NoData)
  BY <1>5, <1>8 DEF d, FormShowsEntry
<1> QED
  BY <1>1, <1>6, <1>7, <1>8

LEMMA ShownStep == TypeInv /\ ShownIsSent /\ [Next]_vars => ShownIsSent'
<1> SUFFICES ASSUME TypeInv, FormShowsEntry, FormHoldsText, SendIsStable, [Next]_vars PROVE ShownIsSent'
  BY DEF ShownIsSent
<1> USE DEF ShownIsSent
<1>0. UNCHANGED form => (SendIsStable' <=>
        (save'.stage = "sent" => Send(form.conv, Show(save'.value)) = save'.value))
  BY DEF SendIsStable, Send, Trimmed, Show
<1>a. ASSUME page \in {"elsewhere", "edit"}, detail' \in Entry(Items),
             detail'.status = "success" => detail'.data # NoData, NEW b \in BOOLEAN,
             draft' = Adopted(draft, detail', b), detail'.data # NoData \/ detail'.data = detail.data,
             UNCHANGED <<form, save>>
      PROVE  ShownIsSent'
  <2>1. \/ draft' = NoDraft
        \/ /\ draft' = draft /\ page = "edit"
           /\ form.discipline = "hydrates" =>
                /\ detail'.data = detail.data \/ detail'.data = NoData
                /\ detail.data # NoData /\ draft.rest = detail.data.rest
                /\ ~draft.typed => draft.value = Show(detail.data.value)
        \/ /\ detail'.data \in Items /\ draft'.value = Show(detail'.data.value)
           /\ draft'.rest = detail'.data.rest /\ draft'.value \in Texts
    BY <1>a, AdoptedDraft
  <2>2. detail'.data \in Items => detail'.data # NoData
    BY Answers
  <2>3. SendIsStable'
    BY <1>0, <1>a DEF SendIsStable
  <2>4. FormHoldsText'
    BY <2>1 DEF FormHoldsText
  <2>5. FormShowsEntry'
    BY <1>a, <2>1, <2>2 DEF FormShowsEntry, Show
  <2> QED
    BY <2>3, <2>4, <2>5
<1>b. ASSUME UNCHANGED <<form, draft, page>>, page = "edit" => detail'.data = detail.data,
             save'.stage = "sent" => save'.stage = save.stage /\ save'.value = save.value
      PROVE  ShownIsSent'
  <2>1. SendIsStable'
    BY <1>0, <1>b DEF SendIsStable
  <2> QED
    BY <1>b, <2>1 DEF FormShowsEntry, FormHoldsText, Show
<1>1. CASE OpenEdit
  BY <1>1, <1>a, OpenEditEffect
<1>2. CASE OpenNew
  <2>1. SendIsStable'
    BY <1>0, <1>2, OpenNewEffect DEF SendIsStable
  <2> QED
    BY <1>2, <2>1, OpenNewEffect DEF FormShowsEntry, FormHoldsText
<1>3. CASE Leave
  <2>1. SendIsStable'
    BY <1>0, <1>3, LeaveEffect DEF SendIsStable
  <2> QED
    BY <1>3, <2>1, LeaveEffect DEF FormShowsEntry, FormHoldsText
<1>4. ASSUME NEW t \in Typable(form.conv), Type(t) PROVE ShownIsSent'
  <2>1. SendIsStable'
    BY <1>0, <1>4, TypeEffect DEF SendIsStable
  <2> QED
    BY <1>4, <2>1, TypeEffect DEF FormShowsEntry, FormHoldsText
<1>5. CASE ServeDetail
  BY <1>5, <1>b, ServeDetailEffect
<1>6. CASE TakeDetail
  <2>1. page = "edit" => ShownIsSent'
    BY <1>6, <1>a, TakeDetailEffect
  <2> QED
    BY <1>6, <1>b, <2>1, TakeDetailEffect
<1>7. CASE FailDetail
  <2>1. page = "edit" => ShownIsSent'
    BY <1>7, <1>a, FailDetailEffect
  <2> QED
    BY <1>7, <1>b, <2>1, FailDetailEffect
<1>8. CASE Age
  BY <1>8, <1>b, AgeEffect
<1>9. CASE Forget
  BY <1>9, <1>b, ForgetEffect
<1>10. CASE Submit
  <2>1. draft.value \in Texts
    BY <1>10, SubmitEffect DEF FormHoldsText
  <2>2. Send(form.conv, Show(save'.value)) = save'.value
    BY <1>10, <2>1, SubmitEffect, SentAgain, TypesOfFields
  <2>3. SendIsStable'
    BY <1>0, <1>10, <2>2, SubmitEffect
  <2> QED
    BY <1>10, <2>3, SubmitEffect DEF FormShowsEntry, FormHoldsText, Show
<1>11. CASE ServeSave
  BY <1>11, <1>b, ServeSaveEffect
<1>12. CASE SaveFails
  BY <1>12, <1>b, SaveFailsEffect
<1>13. CASE SaveDone
  <2>1. detail'.data = detail.data
    BY <1>13, SaveDoneEffect, InvalidateEffect
  <2>2. SendIsStable'
    BY <1>0, <1>13, SaveDoneEffect
  <2> QED
    BY <1>13, <2>1, <2>2, SaveDoneEffect DEF FormShowsEntry, FormHoldsText, Show
<1>14. CASE ListsDone
  BY <1>14, <1>b, ListsDoneEffect, InvalidateEffect
<1>15. CASE Navigate
  <2>1. SendIsStable'
    BY <1>0, <1>15, NavigateEffect
  <2> QED
    BY <1>15, <2>1, NavigateEffect DEF FormShowsEntry, FormHoldsText, Show
<1>16. CASE EditElsewhere
  BY <1>16, <1>b, EditElsewhereEffect
<1>17. CASE UNCHANGED vars
  BY <1>17, <1>b DEF vars
<1> QED
  BY <1>1, <1>2, <1>3, <1>4, <1>5, <1>6, <1>7, <1>8, <1>9, <1>10, <1>11, <1>12, <1>13, <1>14, <1>15,
     <1>16, <1>17 DEF Next

TrueInv == TypeInv /\ ShownIsSent /\ CopiesAreTrue

LEMMA InitTrue == Init => TrueInv
<1> SUFFICES ASSUME Init PROVE TrueInv
  OBVIOUS
<1>1. /\ draft = NoDraft /\ save.stage = "none" /\ detail.data = NoData /\ fetch.stage = "none"
  BY Answers DEF Init, NoSave, NoFetch
<1> QED
  BY <1>1, InitTypes DEF TrueInv, ShownIsSent, CopiesAreTrue, FormShowsEntry, FormHoldsText, SendIsStable,
       DetailIsTrue, FetchIsTrue, DraftIsTrue, SaveIsTrue

LEMMA TrueStep == TypeInv /\ ShownIsSent /\ CopiesAreTrue /\ [Next]_vars => CopiesAreTrue'
<1> SUFFICES ASSUME TypeInv, FormShowsEntry, FormHoldsText, SendIsStable,
                    DetailIsTrue, FetchIsTrue, DraftIsTrue, SaveIsTrue, [Next]_vars
             PROVE  CopiesAreTrue'
  BY DEF ShownIsSent, CopiesAreTrue
<1> USE DEF CopiesAreTrue, Kept
<1>s. ASSUME UNCHANGED <<form, stored>>,
             save'.stage = "sent" => /\ save'.stage = save.stage /\ save'.to = save.to /\ save'.rest = save.rest
                                     /\ save'.value = save.value /\ save'.touched = save.touched
                                     /\ behind'.save = behind.save
      PROVE  SaveIsTrue'
  BY <1>s DEF SaveIsTrue, Send, Trimmed, Show
<1>d. ASSUME UNCHANGED <<form, stored, draft, page>>, behind'.draft = behind.draft
      PROVE  DraftIsTrue'
  BY <1>d DEF DraftIsTrue, Agrees, Send, Trimmed, Show
<1>a. ASSUME page \in {"elsewhere", "edit"}, detail' \in Entry(Items),
             detail'.status = "success" => detail'.data # NoData, NEW b \in BOOLEAN,
             draft' = Adopted(draft, detail', b), detail'.data = detail.data,
             UNCHANGED <<form, stored>>, behind'.draft = Taken(draft')
      PROVE  DraftIsTrue'
  <2>1. \/ draft' = NoDraft
        \/ draft' = draft /\ page = "edit"
        \/ /\ detail.data \in Items /\ draft'.value = Show(detail.data.value)
           /\ draft'.rest = detail.data.rest /\ draft'.value \in Texts
    BY <1>a, AdoptedDraft
  <2>2. detail.data \in Items => detail.data # NoData /\ detail.data # Absent
    BY NothingAssumption
  <2>3. CASE draft' = NoDraft
    BY <2>3 DEF DraftIsTrue
  <2>4. CASE draft' = draft /\ page = "edit" /\ draft' # NoDraft
    <3>1. behind'.draft = behind.draft
      BY <1>a, <2>4 DEF Taken
    <3> QED
      BY <1>a, <2>4, <3>1 DEF DraftIsTrue, Agrees, Send, Trimmed, Show
  <2>5. CASE /\ detail.data \in Items /\ draft'.value = Show(detail.data.value)
             /\ draft'.rest = detail.data.rest /\ draft' # NoDraft /\ draft' # draft
    <3>1. behind'.draft = behind.detail
      BY <1>a, <2>5 DEF Taken
    <3>2. behind'.draft = {} => stored = detail.data /\ stored # Absent
      BY <2>2, <2>5, <3>1 DEF DetailIsTrue
    <3> QED
      BY <1>a, <2>5, <3>2 DEF DraftIsTrue, Agrees, Send, Trimmed, Show
  <2>6. draft' = draft /\ draft' # NoDraft => page = "edit"
    BY <1>a, TypesOfFields
  <2> QED
    BY <2>1, <2>3, <2>4, <2>5, <2>6
<1>1. CASE OpenEdit
  <2>1. DetailIsTrue' /\ FetchIsTrue'
    BY <1>1, OpenEditEffect DEF DetailIsTrue, FetchIsTrue
  <2>2. DraftIsTrue'
    BY <1>1, <1>a, OpenEditEffect
  <2> QED
    BY <1>1, <1>s, <2>1, <2>2, OpenEditEffect
<1>2. CASE OpenNew
  <2>1. DetailIsTrue' /\ FetchIsTrue' /\ DraftIsTrue'
    BY <1>2, OpenNewEffect DEF DetailIsTrue, FetchIsTrue, DraftIsTrue
  <2> QED
    BY <1>2, <1>s, <2>1, OpenNewEffect
<1>3. CASE Leave
  <2>1. DetailIsTrue' /\ FetchIsTrue' /\ DraftIsTrue'
    BY <1>3, LeaveEffect DEF DetailIsTrue, FetchIsTrue, DraftIsTrue
  <2> QED
    BY <1>3, <1>s, <2>1, LeaveEffect
<1>4. ASSUME NEW t \in Typable(form.conv), Type(t) PROVE CopiesAreTrue'
  <2>1. DetailIsTrue' /\ FetchIsTrue' /\ DraftIsTrue'
    BY <1>4, TypeEffect DEF DetailIsTrue, FetchIsTrue, DraftIsTrue
  <2> QED
    BY <1>4, <1>s, <2>1, TypeEffect
<1>5. CASE ServeDetail
  <2>1. DetailIsTrue' /\ FetchIsTrue'
    BY <1>5, ServeDetailEffect DEF DetailIsTrue, FetchIsTrue
  <2> QED
    BY <1>5, <1>d, <1>s, <2>1, ServeDetailEffect
<1>6. CASE TakeDetail
  <2>1. DetailIsTrue' /\ FetchIsTrue'
    BY <1>6, TakeDetailEffect DEF DetailIsTrue, FetchIsTrue
  <2>2. SaveIsTrue'
    BY <1>6, <1>s, TakeDetailEffect
  <2>3. page # "edit" => DraftIsTrue'
    BY <1>6, TakeDetailEffect DEF DraftIsTrue
  <2>4. ASSUME page = "edit" PROVE DraftIsTrue'
    <3>1. \/ draft' = NoDraft
          \/ /\ draft' = draft
             /\ form.discipline = "hydrates" =>
                  /\ fetch.answer = detail.data /\ draft.rest = detail.data.rest
                  /\ ~draft.typed => draft.value = Show(detail.data.value)
          \/ /\ draft'.value = Show(fetch.answer.value) /\ draft'.rest = fetch.answer.rest
             /\ form.discipline = "mounts" => draft = NoDraft
      BY <1>6, <2>4, AdoptedDraft, TakeDetailEffect
    <3>2. CASE draft' = NoDraft
      BY <3>2 DEF DraftIsTrue
    <3>3. CASE draft' # NoDraft /\ draft' = draft /\ form.discipline = "mounts"
      BY <1>6, <1>d, <3>3, TakeDetailEffect
    <3>4. CASE draft' # NoDraft /\ ~(draft' = draft /\ form.discipline = "mounts")
      <4>1. behind'.draft = behind.fetch
        BY <1>6, <3>4, TakeDetailEffect
      <4>2. behind'.draft = {} => stored = fetch.answer /\ stored # Absent
        BY <1>6, <4>1, TakeDetailEffect, NothingAssumption DEF FetchIsTrue
      <4>3. draft'.rest = fetch.answer.rest /\ (~draft'.typed => draft'.value = Show(fetch.answer.value))
        BY <3>1, <3>4, TypesOfFields
      <4> QED
        BY <1>6, <4>2, <4>3, TakeDetailEffect DEF DraftIsTrue, Agrees, Send, Trimmed, Show
    <3> QED
      BY <3>2, <3>3, <3>4
  <2> QED
    BY <2>1, <2>2, <2>3, <2>4
<1>7. CASE FailDetail
  <2>1. DetailIsTrue' /\ FetchIsTrue'
    BY <1>7, FailDetailEffect DEF DetailIsTrue, FetchIsTrue
  <2>2. page = "edit" => DraftIsTrue'
    BY <1>7, <1>a, FailDetailEffect
  <2>3. page # "edit" => DraftIsTrue'
    BY <1>7, FailDetailEffect DEF DraftIsTrue
  <2> QED
    BY <1>7, <1>s, <2>1, <2>2, <2>3, FailDetailEffect
<1>8. CASE Age
  <2>1. DetailIsTrue' /\ FetchIsTrue'
    BY <1>8, AgeEffect DEF DetailIsTrue, FetchIsTrue
  <2> QED
    BY <1>8, <1>d, <1>s, <2>1, AgeEffect
<1>9. CASE Forget
  <2>1. DetailIsTrue' /\ FetchIsTrue'
    BY <1>9, ForgetEffect DEF DetailIsTrue, FetchIsTrue
  <2> QED
    BY <1>9, <1>d, <1>s, <2>1, ForgetEffect
<1>10. CASE Submit
  <2>1. DetailIsTrue' /\ FetchIsTrue'
    BY <1>10, SubmitEffect DEF DetailIsTrue, FetchIsTrue
  <2>2. DraftIsTrue'
    BY <1>10, <1>d, SubmitEffect
  <2>3. SaveIsTrue'
    BY <1>10, SubmitEffect DEF SaveIsTrue, DraftIsTrue, Agrees, Send, Trimmed, Show
  <2> QED
    BY <2>1, <2>2, <2>3
<1>11. CASE ServeSave
  <2>1. SaveIsTrue'
    BY <1>11, ServeSaveEffect DEF SaveIsTrue
  <2>2. CASE UNCHANGED stored /\ Kept({"detail", "fetch", "draft"})
    <3>1. DetailIsTrue' /\ FetchIsTrue'
      BY <1>11, <2>2, ServeSaveEffect DEF DetailIsTrue, FetchIsTrue
    <3> QED
      BY <1>11, <1>d, <2>1, <2>2, <3>1, ServeSaveEffect
  <2>3. CASE /\ stored' = [value |-> save.value, rest |-> save.rest]
             /\ behind'.detail = IF detail.data = NoData THEN behind.detail ELSE behind.detail \cup {"own"}
             /\ behind'.fetch = IF fetch.stage # "served" THEN behind.fetch ELSE behind.fetch \cup {"own"}
             /\ behind'.draft = IF Covered \/ page # "edit" \/ draft = NoDraft THEN behind.draft
                                ELSE behind.draft \cup {"own"}
    <3>1. DetailIsTrue' /\ FetchIsTrue'
      BY <1>11, <2>3, ServeSaveEffect DEF DetailIsTrue, FetchIsTrue
    <3>2. stored'.value = save.value /\ stored'.rest = save.rest /\ stored' # Absent
      <4>1. save.value \in Values /\ save.rest \in Rests
        BY TypesOfFields DEF Save
      <4> QED
        BY <2>3, <4>1, NothingAssumption DEF Items
    <3>3. Send(form.conv, Show(stored'.value)) = save.value
      BY <1>11, <3>2, ServeSaveEffect DEF SendIsStable
    <3>4. page = "edit" /\ draft # NoDraft /\ behind'.draft = {} => Covered
      BY <2>3
    <3>5. Covered => draft.rest = save.rest /\ (draft.typed \/ Send(form.conv, draft.value) = save.value)
      BY DEF Covered
    <3>6. DraftIsTrue'
      BY <1>11, <3>2, <3>3, <3>4, <3>5, ServeSaveEffect DEF DraftIsTrue, Agrees, Send, Trimmed, Show
    <3> QED
      BY <2>1, <3>1, <3>6
  <2> QED
    BY <1>11, <2>2, <2>3, ServeSaveEffect
<1>12. CASE SaveFails
  <2>1. DetailIsTrue' /\ FetchIsTrue'
    BY <1>12, SaveFailsEffect, CopiesNamed DEF DetailIsTrue, FetchIsTrue
  <2>2. behind'.draft = {} <=> behind.draft = {}
    BY <1>12, SaveFailsEffect, CopiesNamed
  <2>3. DraftIsTrue'
    BY <1>12, <2>2, SaveFailsEffect DEF DraftIsTrue, Agrees, Send, Trimmed, Show
  <2> QED
    BY <1>12, <1>s, <2>1, <2>3, SaveFailsEffect
<1>i. ASSUME Invalidate, UNCHANGED stored PROVE DetailIsTrue' /\ FetchIsTrue' /\ behind'.draft = behind.draft
  BY <1>i, InvalidateEffect DEF DetailIsTrue, FetchIsTrue
<1>13. CASE SaveDone
  <2>1. DetailIsTrue' /\ FetchIsTrue' /\ behind'.draft = behind.draft
    BY <1>13, <1>i, SaveDoneEffect DEF DetailIsTrue, FetchIsTrue
  <2>2. \/ draft' = draft
        \/ /\ draft # NoDraft /\ draft'.value = draft.value
           /\ draft'.rest = draft.rest /\ draft'.typed = draft.typed
    BY <1>13, SaveDoneEffect
  <2>3. DraftIsTrue'
    BY <1>13, <2>1, <2>2, SaveDoneEffect DEF DraftIsTrue, Agrees, Send, Trimmed, Show
  <2> QED
    BY <1>13, <1>s, <2>1, <2>3, SaveDoneEffect
<1>14. CASE ListsDone
  BY <1>14, <1>d, <1>i, <1>s, ListsDoneEffect
<1>15. CASE Navigate
  <2>1. DetailIsTrue' /\ FetchIsTrue'
    BY <1>15, NavigateEffect, Answers DEF DetailIsTrue, FetchIsTrue
  <2>2. DraftIsTrue'
    <3>1. draft' = NoDraft => DraftIsTrue'
      BY DEF DraftIsTrue
    <3> QED
      BY <1>15, <1>d, <3>1, NavigateEffect
  <2> QED
    BY <1>15, <1>s, <2>1, <2>2, NavigateEffect
<1>16. CASE EditElsewhere
  BY <1>16, EditElsewhereEffect DEF DetailIsTrue, FetchIsTrue, DraftIsTrue, SaveIsTrue
<1>17. CASE UNCHANGED vars
  <2>1. DetailIsTrue' /\ FetchIsTrue'
    BY <1>17 DEF vars, DetailIsTrue, FetchIsTrue
  <2> QED
    BY <1>17, <1>d, <1>s, <2>1 DEF vars
<1> QED
  BY <1>1, <1>2, <1>3, <1>4, <1>5, <1>6, <1>7, <1>8, <1>9, <1>10, <1>11, <1>12, <1>13, <1>14, <1>15,
     <1>16, <1>17 DEF Next

LEMMA TrueInvStep == TrueInv /\ [Next]_vars => TrueInv'
BY TypeStep, ShownStep, TrueStep DEF TrueInv

(* One step of UntouchedFieldsStay. *)
FieldStays ==
  save.stage = "sent" /\ save'.stage = "served" /\ save.to = "edit" /\ ~save.touched
    /\ behind.save = {} /\ stored.value \in OwnWriting(form.conv) => stored' = stored

LEMMA FieldStep == TrueInv /\ [Next]_vars => FieldStays
<1> SUFFICES ASSUME TypeInv, SaveIsTrue, [Next]_vars, save.stage = "sent", save'.stage = "served",
                    save.to = "edit", ~save.touched, behind.save = {}, stored.value \in OwnWriting(form.conv)
             PROVE  stored' = stored
  BY DEF TrueInv, CopiesAreTrue, FieldStays
<1>1. ServeSave
  <2>1. save' # save
    OBVIOUS
  <2>2. ASSUME NEW t \in Typable(form.conv), Type(t) PROVE FALSE
    BY <2>1, <2>2, TypeEffect
  <2>3. ~OpenEdit /\ ~OpenNew /\ ~ServeDetail /\ ~TakeDetail /\ ~FailDetail /\ ~Age /\ ~Forget
        /\ ~EditElsewhere /\ ~UNCHANGED vars
    BY <2>1 DEF OpenEdit, OpenNew, ServeDetail, TakeDetail, FailDetail, Age, Forget, EditElsewhere, vars
  <2>4. ~Leave /\ ~Submit /\ ~SaveFails /\ ~SaveDone /\ ~ListsDone /\ ~Navigate
    BY LeaveEffect, SubmitEffect, SaveFailsEffect, SaveDoneEffect, ListsDoneEffect, NavigateEffect
  <2> QED
    BY <2>2, <2>3, <2>4 DEF Next
<1>2. stored \in Items /\ save.rest = stored.rest /\ save.value = Send(form.conv, Show(stored.value))
  BY TypesOfFields DEF SaveIsTrue
<1>3. save.value = stored.value
  BY <1>2, RoundTrip, TypesOfFields
<1>4. stored' = [value |-> save.value, rest |-> save.rest]
  BY <1>1, ServeSaveEffect
<1>5. stored = [value |-> stored.value, rest |-> stored.rest]
  BY <1>2 DEF Items
<1> QED
  BY <1>2, <1>3, <1>4, <1>5

(* A save leaves alone the fields the user has not touched, on every page and for
   every kind of field, whatever else happens between the GET and the PATCH. *)
THEOREM UntouchedFields == Spec => UntouchedFieldsStay
<1>1. TrueInv /\ [Next]_vars => [FieldStays]_vars
  BY FieldStep
<1> QED
  BY <1>1, InitTrue, TrueInvStep, PTL DEF Spec, UntouchedFieldsStay, FieldStays

-----------------------------------------------------------------------------
(* A save of the console's own that a copy lacks is still being announced, or the
   copy is known to be out of date. *)
Pending == save.stage \in {"served", "listing"} /\ save.to = "edit"

EntryIsTold == "own" \in behind.detail => detail.data # NoData /\ (detail.old \/ Pending)
AnswerIsDropped == "own" \in behind.fetch => Pending
FormIsTold == "own" \in behind.draft =>
                IF form.discipline = "mounts" THEN draft.hasty ELSE detail.old \/ Pending

(* A form that is filled once, with nothing under way, still holds what it sends;
   a created record is not in the entry yet. *)
SentIsHeld == form.discipline = "mounts" /\ page = "edit" /\ draft # NoDraft /\ ~draft.hasty
              /\ save.stage = "sent" /\ save.to = "edit" => Covered
CreatedIsNew == save.stage \in {"served", "listing"} /\ save.to = "new" => "own" \notin behind.detail

(* Where the stages of a save and the requests can be. *)
StagesFollow ==
  /\ save.stage = "sent" => save.to # "other"
  /\ save.stage = "refreshing" => save.to = "edit" /\ form.discipline = "hydrates"
  /\ form.discipline = "mounts" /\ save.stage = "listing" => save.to # "edit"
  /\ page = "new" => fetch.stage = "none"
  /\ behind.fetch # {} => fetch.stage # "none"
  /\ page # "edit" => behind.draft = {}

ToldInv == EntryIsTold /\ AnswerIsDropped /\ FormIsTold /\ SentIsHeld /\ CreatedIsNew
UnderWayInv == TypeInv /\ StagesFollow /\ (form.refreshes => ToldInv)

LEMMA InitUnderWay == Init => UnderWayInv
<1> SUFFICES ASSUME Init PROVE UnderWayInv
  OBVIOUS
<1>1. /\ draft = NoDraft /\ save.stage = "none" /\ detail.data = NoData
      /\ fetch.stage = "none" /\ page = "elsewhere"
  BY Answers DEF Init, NoSave, NoFetch
<1>2. behind.detail = {} /\ behind.fetch = {} /\ behind.draft = {}
  BY CopiesNamed DEF Init
<1> QED
  BY <1>1, <1>2, InitTypes DEF UnderWayInv, StagesFollow, ToldInv, EntryIsTold, AnswerIsDropped, FormIsTold,
       SentIsHeld, CreatedIsNew

LEMMA StagesStep == TypeInv /\ StagesFollow /\ [Next]_vars => StagesFollow'
<1> SUFFICES ASSUME TypeInv, StagesFollow, [Next]_vars PROVE StagesFollow'
  OBVIOUS
<1> USE DEF StagesFollow, Kept
<1>1. CASE OpenEdit
  BY <1>1, OpenEditEffect
<1>2. CASE OpenNew
  BY <1>2, OpenNewEffect DEF Unborn
<1>3. CASE Leave
  BY <1>3, LeaveEffect
<1>4. ASSUME NEW t \in Typable(form.conv), Type(t) PROVE StagesFollow'
  BY <1>4, TypeEffect
<1>5. CASE ServeDetail
  BY <1>5, ServeDetailEffect
<1>6. CASE TakeDetail
  <2>1. page # "edit" => draft' = NoDraft /\ behind'.draft = {}
    BY <1>6, TakeDetailEffect, TypesOfFields DEF Both
  <2> QED
    BY <1>6, <2>1, TakeDetailEffect
<1>7. CASE FailDetail
  <2>1. page # "edit" => behind'.draft = {}
    BY <1>7, FailDetailEffect DEF Taken
  <2> QED
    BY <1>7, <2>1, FailDetailEffect
<1>8. CASE Age
  BY <1>8, AgeEffect
<1>9. CASE Forget
  BY <1>9, ForgetEffect
<1>10. CASE Submit
  BY <1>10, SubmitEffect DEF Both
<1>11. CASE ServeSave
  BY <1>11, ServeSaveEffect
<1>12. CASE SaveFails
  BY <1>12, SaveFailsEffect, CopiesNamed
<1>13. CASE SaveDone
  BY <1>13, SaveDoneEffect, InvalidateEffect
<1>14. CASE ListsDone
  BY <1>14, ListsDoneEffect, InvalidateEffect, TypesOfFields
<1>15. CASE Navigate
  BY <1>15, NavigateEffect
<1>16. CASE EditElsewhere
  BY <1>16, EditElsewhereEffect
<1>17. CASE UNCHANGED vars
  BY <1>17 DEF vars
<1> QED
  BY <1>1, <1>2, <1>3, <1>4, <1>5, <1>6, <1>7, <1>8, <1>9, <1>10, <1>11, <1>12, <1>13, <1>14, <1>15,
     <1>16, <1>17 DEF Next

LEMMA AdoptedDraftOf ==
  ASSUME TypeInv, NEW e \in Entry(Items), e.status = "success" => e.data # NoData, NEW b \in BOOLEAN
  PROVE  LET d == Adopted(draft, e, b) IN
         \/ d = NoDraft
         \/ d = draft /\ page # "elsewhere"
         \/ d # NoDraft /\ d.hasty = (b /\ form.discipline = "mounts")
<1> DEFINE d == Adopted(draft, e, b)
<1>1. d = draft \/ d = NoDraft \/ (e.data \in Items /\ d = Filled(e.data, b))
  BY Adopting
<1>2. e.data \in Items => /\ Filled(e.data, b) # NoDraft
                          /\ Filled(e.data, b).hasty = (b /\ form.discipline = "mounts")
  BY Filling, TypesOfFields
<1> HIDE DEF d
<1>3. page = "elsewhere" => draft = NoDraft
  BY TypesOfFields
<1>4. d = NoDraft \/ (d = draft /\ page # "elsewhere")
      \/ (d # NoDraft /\ d.hasty = (b /\ form.discipline = "mounts"))
  BY <1>1, <1>2, <1>3
<1> QED
  BY <1>4 DEF d

LEMMA ToldStep == TypeInv /\ StagesFollow /\ form.refreshes /\ ToldInv /\ [Next]_vars => ToldInv'
<1> SUFFICES ASSUME TypeInv, StagesFollow, EntryIsTold, AnswerIsDropped, FormIsTold, SentIsHeld, CreatedIsNew,
                    [Next]_vars, form.refreshes
             PROVE  ToldInv'
  BY DEF ToldInv
<1> USE DEF ToldInv, Kept
<1>p. form.discipline \in {"hydrates", "mounts"} /\ (page = "elsewhere" => draft = NoDraft)
  BY TypesOfFields
<1>h. ASSUME UNCHANGED <<form, draft, page>>,
             save'.stage = "sent" => save'.stage = save.stage /\ save'.to = save.to /\ save'.value = save.value
                                     /\ save'.rest = save.rest /\ save'.mine = save.mine
      PROVE  SentIsHeld'
  BY <1>h DEF SentIsHeld, Covered, Send, Trimmed
<1>1. CASE OpenEdit
  <2> DEFINE b == fetch'.stage # "none" \/ save.stage # "none"
  <2>1. AnswerIsDropped' /\ EntryIsTold' /\ CreatedIsNew'
    BY <1>1, OpenEditEffect DEF AnswerIsDropped, EntryIsTold, CreatedIsNew, Pending
  <2>2. \/ draft' = NoDraft
        \/ draft' = draft /\ page = "edit"
        \/ draft' # NoDraft /\ draft'.hasty = (b /\ form.discipline = "mounts")
    <3>1. b \in BOOLEAN
      OBVIOUS
    <3>2. PICK c \in BOOLEAN : c = b
      BY <3>1
    <3> HIDE DEF b
    <3>3. draft' = Adopted(draft, detail', c)
      BY <1>1, <3>2, OpenEditEffect DEF b
    <3> QED
      BY <1>1, <3>2, <3>3, OpenEditEffect, AdoptedDraftOf
  <2>3. "own" \in behind.detail /\ form.discipline = "mounts" => b
    BY <1>1, OpenEditEffect DEF EntryIsTold, Pending, Wants
  <2>4. draft' # NoDraft /\ draft' # draft => behind'.draft = behind.detail
    BY <1>1, OpenEditEffect DEF Taken
  <2>5. draft' = draft \/ draft' = NoDraft => behind'.draft = behind.draft \/ behind'.draft = {}
    BY <1>1, OpenEditEffect DEF Taken
  <2>6. /\ UNCHANGED <<form, save>> /\ detail'.old = detail.old /\ detail'.data = detail.data
    BY <1>1, OpenEditEffect
  <2> HIDE DEF b
  <2>7. FormIsTold'
    <3>1. CASE draft' = draft \/ draft' = NoDraft
      <4>1. "own" \in behind'.draft => "own" \in behind.draft /\ draft' = draft
        BY <1>1, <2>5, <3>1, OpenEditEffect DEF Taken
      <4> QED
        BY <2>6, <4>1 DEF FormIsTold, Pending
    <3>2. CASE draft' # draft /\ draft' # NoDraft
      <4>1. draft'.hasty = (b /\ form.discipline = "mounts") /\ behind'.draft = behind.detail
        BY <2>2, <2>4, <3>2
      <4>2. form.discipline = "mounts" /\ "own" \in behind'.draft => draft'.hasty
        BY <2>3, <4>1
      <4>3. "own" \in behind'.draft => detail'.old \/ Pending'
        BY <2>6, <4>1 DEF EntryIsTold, Pending
      <4> QED
        BY <2>6, <4>2, <4>3 DEF FormIsTold
    <3> QED
      BY <3>1, <3>2
  <2>8. SentIsHeld'
    <3>1. CASE draft' = draft /\ page = "edit"
      BY <1>1, <1>h, <3>1, OpenEditEffect
    <3>2. CASE draft' = NoDraft
      BY <3>2 DEF SentIsHeld
    <3>3. CASE draft' # NoDraft /\ draft'.hasty = (b /\ form.discipline = "mounts")
      BY <1>1, <3>3, OpenEditEffect DEF SentIsHeld, b
    <3> QED
      BY <2>2, <3>1, <3>2, <3>3
  <2> QED
    BY <2>1, <2>7, <2>8
<1>2. CASE OpenNew
  BY <1>2, OpenNewEffect DEF EntryIsTold, AnswerIsDropped, FormIsTold, SentIsHeld, CreatedIsNew, Pending
<1>3. CASE Leave
  BY <1>3, LeaveEffect DEF EntryIsTold, AnswerIsDropped, FormIsTold, SentIsHeld, CreatedIsNew, Pending
<1>4. ASSUME NEW t \in Typable(form.conv), Type(t) PROVE ToldInv'
  BY <1>4, TypeEffect DEF EntryIsTold, AnswerIsDropped, FormIsTold, SentIsHeld, CreatedIsNew, Pending, Covered
<1>5. CASE ServeDetail
  <2>1. SentIsHeld'
    BY <1>5, <1>h, ServeDetailEffect
  <2> QED
    BY <1>5, <2>1, ServeDetailEffect DEF EntryIsTold, AnswerIsDropped, FormIsTold, CreatedIsNew, Pending
<1>6. CASE TakeDetail
  <2>1. EntryIsTold' /\ AnswerIsDropped' /\ CreatedIsNew'
    BY <1>6, TakeDetailEffect DEF EntryIsTold, AnswerIsDropped, CreatedIsNew, Pending
  <2>2. page # "edit" => draft = NoDraft /\ draft' = NoDraft /\ behind'.draft = {}
    BY <1>6, <1>p, TakeDetailEffect, TypesOfFields DEF StagesFollow, Both
  <2>3. page = "edit" => \/ draft' = NoDraft
                         \/ draft' = draft
                         \/ /\ draft' # NoDraft
                            /\ draft'.hasty = (save.stage # "none" /\ form.discipline = "mounts")
    <3>1. PICK c \in BOOLEAN : c = (save.stage # "none")
      OBVIOUS
    <3>2. page = "edit" => draft' = Adopted(draft, detail', c)
      BY <1>6, <3>1, TakeDetailEffect
    <3> QED
      BY <1>6, <3>1, <3>2, TakeDetailEffect, AdoptedDraftOf
  <2>4. "own" \in behind'.draft =>
          \/ draft' = draft /\ form.discipline = "mounts" /\ behind'.draft = behind.draft
          \/ draft' # NoDraft /\ "own" \in behind.fetch
             /\ ~(draft' = draft /\ form.discipline = "mounts")
    BY <1>6, TakeDetailEffect
  <2>5. FormIsTold'
    BY <1>6, <1>p, <2>2, <2>3, <2>4, TakeDetailEffect DEF FormIsTold, AnswerIsDropped, Pending
  <2>6. SentIsHeld'
    <3>1. CASE draft' = draft
      BY <1>6, <1>h, <3>1, TakeDetailEffect
    <3>2. CASE draft' # draft
      BY <1>6, <2>2, <2>3, <3>2, TakeDetailEffect DEF SentIsHeld
    <3> QED
      BY <3>1, <3>2
  <2> QED
    BY <2>1, <2>5, <2>6
<1>7. CASE FailDetail
  <2>1. EntryIsTold' /\ AnswerIsDropped' /\ CreatedIsNew'
    BY <1>7, FailDetailEffect DEF EntryIsTold, AnswerIsDropped, CreatedIsNew, Pending
  <2>2. page # "edit" => draft' = draft /\ behind'.draft = {}
    BY <1>7, FailDetailEffect DEF StagesFollow, Taken
  <2>3. page = "edit" /\ form.discipline = "mounts" => draft' = NoDraft
    BY <1>7, FailDetailEffect DEF Adopted
  <2>4. draft' = NoDraft => behind'.draft = {}
    BY <1>7, FailDetailEffect DEF Taken
  <2>5. FormIsTold'
    BY <1>7, <1>p, <2>2, <2>3, <2>4, FailDetailEffect DEF FormIsTold
  <2>6. SentIsHeld'
    BY <1>7, <2>3, FailDetailEffect DEF SentIsHeld
  <2> QED
    BY <2>1, <2>5, <2>6
<1>8. CASE Age
  <2>1. SentIsHeld'
    BY <1>8, <1>h, AgeEffect
  <2> QED
    BY <1>8, <2>1, AgeEffect DEF EntryIsTold, AnswerIsDropped, FormIsTold, CreatedIsNew, Pending
<1>9. CASE Forget
  <2>1. SentIsHeld'
    BY <1>9, <1>h, ForgetEffect
  <2> QED
    BY <1>9, <2>1, ForgetEffect
       DEF EntryIsTold, AnswerIsDropped, FormIsTold, CreatedIsNew, Pending, StagesFollow
<1>10. CASE Submit
  <2>1. EntryIsTold' /\ AnswerIsDropped' /\ FormIsTold' /\ CreatedIsNew'
    BY <1>10, SubmitEffect DEF EntryIsTold, AnswerIsDropped, FormIsTold, CreatedIsNew, Pending
  <2>2. SentIsHeld'
    BY <1>10, SubmitEffect DEF SentIsHeld, Covered, Send, Trimmed
  <2> QED
    BY <2>1, <2>2
<1>11. CASE ServeSave
  <2>0. UNCHANGED <<form, detail, fetch, page, draft>> /\ save.stage = "sent" /\ save'.stage = "served"
        /\ save.to # "other"
    BY <1>11, ServeSaveEffect DEF StagesFollow
  <2>1. SentIsHeld'
    BY <2>0 DEF SentIsHeld
  <2>2. ~Pending
    BY <2>0 DEF Pending
  <2>3. CASE save.to = "new" /\ save'.to = "other" /\ Kept({"detail", "fetch", "draft"})
    <3>1. EntryIsTold' /\ AnswerIsDropped' /\ FormIsTold' /\ CreatedIsNew'
      BY <2>0, <2>2, <2>3 DEF EntryIsTold, AnswerIsDropped, FormIsTold, CreatedIsNew
    <3> QED
      BY <2>1, <3>1
  <2>4. CASE /\ save'.to = save.to /\ (save.to = "new" => Unborn)
             /\ behind'.detail = IF detail.data = NoData THEN behind.detail ELSE behind.detail \cup {"own"}
             /\ behind'.fetch = IF fetch.stage # "served" THEN behind.fetch ELSE behind.fetch \cup {"own"}
             /\ behind'.draft = IF Covered \/ page # "edit" \/ draft = NoDraft THEN behind.draft
                                ELSE behind.draft \cup {"own"}
    <3>1. CASE save.to = "new"
      <4>1. detail.data = NoData /\ fetch.stage = "none" /\ page # "edit"
        BY <2>4, <3>1, Answers DEF Unborn
      <4>2. "own" \notin behind.detail /\ behind'.fetch = {} /\ behind'.draft = {}
        BY <2>4, <4>1 DEF EntryIsTold, StagesFollow
      <4> QED
        BY <2>1, <2>4, <4>1, <4>2 DEF EntryIsTold, AnswerIsDropped, FormIsTold, CreatedIsNew
    <3>2. CASE save.to = "edit"
      <4>1. Pending'
        BY <2>0, <2>4, <3>2 DEF Pending
      <4>2. EntryIsTold'
        BY <2>0, <2>4, <4>1 DEF EntryIsTold
      <4>3. FormIsTold'
        BY <1>p, <2>0, <2>4, <3>2, <4>1 DEF FormIsTold, SentIsHeld
      <4>4. CreatedIsNew'
        BY <2>4, <3>2 DEF CreatedIsNew
      <4> QED
        BY <2>1, <4>1, <4>2, <4>3, <4>4 DEF AnswerIsDropped
    <3> QED
      BY <2>0, <3>1, <3>2, TypesOfFields DEF Save, Both
  <2> QED
    BY <1>11, <2>3, <2>4, ServeSaveEffect
<1>12. CASE SaveFails
  <2>1. SentIsHeld'
    BY <1>12, SaveFailsEffect DEF SentIsHeld
  <2>2. CASE save.stage = "sent" /\ Kept({"detail", "fetch", "draft"})
    BY <1>12, <2>1, <2>2, SaveFailsEffect DEF EntryIsTold, AnswerIsDropped, FormIsTold, CreatedIsNew, Pending
  <2>3. CASE \A c \in Copies : "own" \notin behind'[c]
    BY <2>1, <2>3, CopiesNamed DEF EntryIsTold, AnswerIsDropped, FormIsTold, CreatedIsNew
  <2> QED
    BY <1>12, <2>2, <2>3, SaveFailsEffect
<1>13. CASE SaveDone
  <2>1. SentIsHeld'
    BY <1>13, SaveDoneEffect DEF SentIsHeld
  <2>2. draft' = draft \/ draft'.hasty = draft.hasty
    BY <1>13, SaveDoneEffect
  <2>3. CASE form.discipline = "mounts" /\ save'.stage = "none" /\ Invalidate
    BY <1>13, <2>1, <2>2, <2>3, SaveDoneEffect, InvalidateEffect
       DEF EntryIsTold, AnswerIsDropped, FormIsTold, CreatedIsNew
  <2>4. CASE UNCHANGED <<detail, fetch, behind>> /\ save'.stage = "listing" /\ save'.to = save.to
    BY <1>13, <2>1, <2>2, <2>4, SaveDoneEffect
       DEF EntryIsTold, AnswerIsDropped, FormIsTold, CreatedIsNew, Pending
  <2> QED
    BY <1>13, <2>3, <2>4, SaveDoneEffect
<1>14. CASE ListsDone
  <2>1. SentIsHeld'
    BY <1>14, ListsDoneEffect DEF SentIsHeld
  <2> QED
    BY <1>14, <2>1, ListsDoneEffect, InvalidateEffect DEF EntryIsTold, AnswerIsDropped, FormIsTold, CreatedIsNew
<1>15. CASE Navigate
  <2>1. SentIsHeld'
    BY <1>15, NavigateEffect DEF SentIsHeld
  <2>2. ~Pending
    BY <1>15, NavigateEffect DEF Pending
  <2>3. CASE UNCHANGED <<detail, draft, behind>>
    BY <1>15, <2>1, <2>2, <2>3, NavigateEffect DEF EntryIsTold, AnswerIsDropped, FormIsTold, CreatedIsNew
  <2>4. CASE behind'.draft = {} /\ Kept({"detail", "fetch", "save"}) /\ UNCHANGED detail
    BY <1>15, <2>1, <2>2, <2>4, NavigateEffect DEF EntryIsTold, AnswerIsDropped, FormIsTold, CreatedIsNew
  <2>5. CASE /\ behind'.draft = {} /\ Kept({"detail", "fetch", "save"})
             /\ form.discipline = "mounts" /\ save.to # "other"
    <3>1. save.stage = "listing" /\ save.to = "new"
      BY <1>15, <2>5, NavigateEffect, TypesOfFields DEF StagesFollow, Save, Both
    <3>2. "own" \notin behind.detail
      BY <3>1 DEF CreatedIsNew
    <3> QED
      BY <1>15, <2>1, <2>2, <2>5, <3>2, NavigateEffect
         DEF EntryIsTold, AnswerIsDropped, FormIsTold, CreatedIsNew
  <2> QED
    BY <1>15, <2>3, <2>4, <2>5, NavigateEffect
<1>16. CASE EditElsewhere
  <2>1. SentIsHeld'
    BY <1>16, <1>h, EditElsewhereEffect
  <2> QED
    BY <1>16, <2>1, EditElsewhereEffect DEF EntryIsTold, AnswerIsDropped, FormIsTold, CreatedIsNew, Pending
<1>17. CASE UNCHANGED vars
  <2>1. SentIsHeld'
    BY <1>17, <1>h DEF vars
  <2> QED
    BY <1>17, <2>1 DEF vars, EntryIsTold, AnswerIsDropped, FormIsTold, CreatedIsNew, Pending
<1> QED
  BY <1>1, <1>2, <1>3, <1>4, <1>5, <1>6, <1>7, <1>8, <1>9, <1>10, <1>11, <1>12, <1>13, <1>14, <1>15,
     <1>16, <1>17 DEF Next

LEMMA UnderWayStep == UnderWayInv /\ [Next]_vars => UnderWayInv'
<1> SUFFICES ASSUME UnderWayInv, [Next]_vars PROVE UnderWayInv'
  OBVIOUS
<1>1. TypeInv' /\ StagesFollow'
  BY TypeStep, StagesStep DEF UnderWayInv
<1>2. form' = form
  <2>1. CASE OpenEdit \/ OpenNew \/ Leave \/ ServeDetail
    BY <2>1 DEF OpenEdit, OpenNew, Leave, ServeDetail
  <2>2. CASE TakeDetail \/ FailDetail \/ Age \/ Forget \/ Submit
    BY <2>2 DEF TakeDetail, FailDetail, Age, Forget, Submit
  <2>3. CASE ServeSave
    BY <2>3, ServeSaveEffect DEF UnderWayInv
  <2>4. CASE SaveFails \/ SaveDone \/ ListsDone \/ Navigate \/ EditElsewhere
    BY <2>4 DEF SaveFails, SaveDone, ListsDone, Navigate, EditElsewhere
  <2>5. CASE \E t \in Typable(form.conv) : Type(t)
    BY <2>5 DEF Type
  <2>6. CASE UNCHANGED vars
    BY <2>6 DEF vars
  <2> QED
    BY <2>1, <2>2, <2>3, <2>4, <2>5, <2>6 DEF Next
<1>3. form.refreshes => ToldInv'
  BY ToldStep DEF UnderWayInv
<1> QED
  BY <1>1, <1>2, <1>3 DEF UnderWayInv

(* While a form shows a record as it was before a save of the console's own,
   something is still under way that corrects it, on every page that refreshes the
   record; a form that is filled once is excepted if it was filled too early. *)
THEOREM OwnSaves == Spec => []OwnSavesAreShown
<1>1. UnderWayInv => OwnSavesAreShown
  BY FormShape DEF UnderWayInv, ToldInv, FormIsTold, Pending, OwnSavesAreShown, TypeInv, TypeOK
<1> QED
  BY <1>1, InitUnderWay, UnderWayStep, PTL DEF Spec
=============================================================================
