----------------------------- MODULE ConsoleProofs -----------------------------
(***************************************************************************)
(* Proofs about two parts of the web console.  Its session, for any users, *)
(* pages and number of lost requests: types, what is shown as up to date,  *)
(* and what a toggle of a pinned page changes.  The connectors panel, for  *)
(* any number of connectors: types, the owner of what a save carries, and  *)
(* what may change a registration.                                         *)
(***************************************************************************)
EXTENDS ConsoleSession, ConnectorPanel, TLAPS

-----------------------------------------------------------------------------
(* The session. *)
LEMMA InitTypes == Init => TypeOK
<1>1. Blank \in Entry(Profile) /\ Sent \in Fetch /\ NoPatch \in Patch
  BY DEF Blank, Entry, Sent, Fetch, NoPatch, Patch
<1>2. 0 \in 0..MaxFailures
  BY FailuresAssumption
<1>3. ASSUME Init PROVE pins \in [Users -> SUBSET Pages] /\ patch \in [Controls -> Patch]
  BY <1>1, <1>3 DEF Init
<1> QED
  BY <1>1, <1>2, <1>3 DEF Init, TypeOK

LEMMA OpenTypes ==
  ASSUME TypeOK, NEW r \in {"login", "console", "admin"}, Open(r)
  PROVE  me' \in Entry(Profile) /\ fetch' \in Fetch /\ route' \in {"login", "console", "admin"}
<1>1. Asked(me) \in Entry(Profile)
  BY DEF TypeOK, Asked, Entry
<1> QED
  BY <1>1 DEF TypeOK, Open, Admit, Sent, Fetch

LEMMA TypeStep == TypeOK /\ [Next]_vars => TypeOK'
<1> SUFFICES ASSUME TypeOK, [Next]_vars PROVE TypeOK'
  OBVIOUS
<1> USE FailuresAssumption
<1>0. \A e \in Entry(Profile) : Outdated(e) \in Entry(Profile) /\ Failed(e) \in Entry(Profile)
  BY DEF Outdated, Failed, Entry
<1>a. \A e \in Entry(Profile), b \in BOOLEAN : Invalidated(e, b) \in Entry(Profile)
  <2>1. \A e \in Entry(Profile) : Asked(e) \in Entry(Profile)
    BY DEF Asked, Entry
  <2> QED
    BY <1>0, <2>1 DEF Invalidated
<1>1. ASSUME NEW r \in {"console", "admin"}, Navigate(r) PROVE TypeOK'
  BY <1>1, OpenTypes DEF Navigate, TypeOK
<1>2. CASE ServeMe
  BY <1>2 DEF ServeMe, TypeOK, Fetch, Stored, Profile
<1>3. CASE AnswerMe
  BY <1>3 DEF AnswerMe, TypeOK, Fetch, NoFetch, Answered, Entry, Admit
<1>4. CASE FailMe
  BY <1>0, <1>4 DEF FailMe, TypeOK, Fetch, NoFetch, Admit
<1>5. CASE Age
  BY <1>0, <1>5 DEF Age, TypeOK
<1>6. ASSUME NEW c \in Controls, NEW page \in Pages, TogglePin(c, page) PROVE TypeOK'
  <2>1. Toggled(me.data.pins, page) \in SUBSET Pages
    BY <1>6 DEF TogglePin, TypeOK, Entry, Profile, Toggled
  <2> QED
    BY <1>6, <2>1 DEF TogglePin, TypeOK, Patch
<1>7. ASSUME NEW c \in Controls, ServePatch(c) PROVE TypeOK'
  BY <1>7 DEF ServePatch, TypeOK, Patch, NoPatch
<1>8. ASSUME NEW c \in Controls, PatchDone(c) PROVE TypeOK'
  <2>1. me' \in Entry(Profile)
    BY <1>a, <1>8 DEF PatchDone, TypeOK, Observed
  <2>2. fetch' \in Fetch
    BY <1>8 DEF PatchDone, TypeOK, Restarted, Sent, Fetch
  <2> QED
    BY <1>8, <2>1, <2>2 DEF PatchDone, TypeOK, Patch, NoPatch
<1>9. ASSUME NEW c \in Controls, PatchFails(c) PROVE TypeOK'
  BY <1>9 DEF PatchFails, TypeOK, Patch, NoPatch
<1>10. ASSUME NEW u \in Users, SignIn(u) PROVE TypeOK'
  BY <1>10, OpenTypes DEF SignIn, Moved, TypeOK
<1>11. CASE SignOut
  BY <1>11 DEF SignOut, Moved, TypeOK
<1>12. CASE SessionEnds
  BY <1>12 DEF SessionEnds, Moved, TypeOK
<1>13. ASSUME NEW page \in Pages, PinElsewhere(page) PROVE TypeOK'
  BY <1>13 DEF PinElsewhere, Moved, TypeOK, Toggled
<1>14. CASE UNCHANGED vars
  BY <1>14 DEF vars, TypeOK
<1> QED
  BY <1>1, <1>2, <1>3, <1>4, <1>5, <1>6, <1>7, <1>8, <1>9, <1>10, <1>11, <1>12, <1>13, <1>14 DEF Next

(* Every variable keeps its type. *)
THEOREM TypeCorrectness == Spec => []TypeOK
BY InitTypes, TypeStep, PTL DEF Spec

-----------------------------------------------------------------------------
(* No change of the console's own waits to be invalidated. *)
Settled == \A c \in Controls : patch[c].stage # "served"

(* The profile that a GET would return now. *)
Now == IF session = Nobody THEN Nobody ELSE Stored

(* An answer on its way, or taken with nothing asked since, is what the server
   has, unless something untold has changed or will be invalidated. *)
AnswerIsTrue == fetch.stage = "served" /\ ~drifted /\ Settled => fetch.answer = Now
EntryIsTrue == Current /\ Settled => session # Nobody /\ me.data = Stored

(* The page for administrators shows somebody else only while it is loading. *)
AdmittedIsAdmin == /\ me.status = "pending" => me.data = NoData
                   /\ route = "admin" /\ me.data # NoData => me.data.user \in Admins

(* A list that is on its way, and was not overtaken, is what the server has but for
   the page that was clicked. *)
ListsAreTrue ==
  \A c \in Controls : patch[c].stage = "sent" /\ c \notin overtaken /\ session # Nobody =>
    patch[c].list = Toggled(pins[session], patch[c].page)

(* A page is pinned, or a pin removed, only once there is a profile, which stays. *)
UsedHasData == \A c \in Controls : patch[c].stage # "none" => me.data # NoData

IInv == TypeOK /\ AnswerIsTrue /\ EntryIsTrue /\ AdmittedIsAdmin /\ ListsAreTrue /\ UsedHasData

LEMMA InitIInv == Init => IInv
BY InitTypes DEF Init, IInv, AnswerIsTrue, EntryIsTrue, AdmittedIsAdmin, ListsAreTrue, UsedHasData, Current,
   Blank, Sent, NoPatch

(* Opening a page keeps what is shown, or asks. *)
LEMMA OpenEntry ==
  ASSUME IInv, NEW r \in {"console", "admin"}, Open(r)
  PROVE  /\ AdmittedIsAdmin'
         /\ (me' = me /\ fetch' = fetch) \/ fetch'.stage = "sent"
<1>1. me' = me \/ (me.data = NoData /\ me'.status = "pending" /\ me'.data = me.data)
  BY DEF Open, Asked, IInv, TypeOK, Entry
<1>2. (me' = me /\ fetch' = fetch) \/ fetch'.stage = "sent"
  BY DEF Open, Sent
<1>3. route' = "admin" => me'.status = "pending" \/ me'.data.user \in Admins
  BY DEF Open, Admit, Loading
<1> QED
  BY <1>1, <1>2, <1>3 DEF IInv, AdmittedIsAdmin

LEMMA AdmittedStep == IInv /\ [Next]_vars => AdmittedIsAdmin'
<1> SUFFICES ASSUME IInv, [Next]_vars PROVE AdmittedIsAdmin'
  OBVIOUS
<1> USE DEF IInv, AdmittedIsAdmin
<1>1. ASSUME NEW r \in {"console", "admin"}, Open(r) PROVE AdmittedIsAdmin'
  BY <1>1, OpenEntry
<1>2. CASE AnswerMe
  BY <1>2 DEF AnswerMe, Answered, Admit, Loading
<1>3. CASE FailMe
  BY <1>3 DEF FailMe, Failed, Admit, TypeOK, Entry
<1>4. CASE (me' = Outdated(me) \/ \E b \in BOOLEAN : me' = Invalidated(me, b)) /\ UNCHANGED route
  <2>1. /\ Outdated(me).data = me.data /\ Outdated(me).status = me.status
        /\ Asked(me).data = me.data
        /\ Asked(me).status = IF me.data = NoData THEN "pending" ELSE me.status
        /\ Outdated(Asked(me)).data = Asked(me).data /\ Outdated(Asked(me)).status = Asked(me).status
    BY DEF Outdated, Asked, TypeOK, Entry
  <2>2. me'.data = me.data /\ (me'.status = "pending" => me.status = "pending" \/ me.data = NoData)
    BY <1>4, <2>1 DEF Invalidated
  <2> QED
    BY <1>4, <2>2
<1>6. ASSUME NEW c \in Controls, PatchDone(c) PROVE AdmittedIsAdmin'
  BY <1>4, <1>6 DEF PatchDone, Observed
<1>5. CASE UNCHANGED me /\ (route' = route \/ route' = "login")
  BY <1>5
<1> QED
  BY <1>1, <1>2, <1>3, <1>4, <1>5, <1>6
     DEF Next, vars, Navigate, ServeMe, Age, TogglePin, ServePatch, PatchFails, SignIn,
         SignOut, SessionEnds, PinElsewhere

LEMMA EntryStep == IInv /\ [Next]_vars => AnswerIsTrue' /\ EntryIsTrue'
<1> SUFFICES ASSUME IInv, [Next]_vars PROVE AnswerIsTrue' /\ EntryIsTrue'
  OBVIOUS
<1> USE DEF IInv, AnswerIsTrue, EntryIsTrue, Current, Now, Stored, Settled
<1>1. ASSUME NEW r \in {"console", "admin"}, Navigate(r) PROVE AnswerIsTrue' /\ EntryIsTrue'
  BY <1>1, OpenEntry DEF Navigate
<1>2. CASE ServeMe
  BY <1>2 DEF ServeMe
<1>3. CASE AnswerMe
  BY <1>3 DEF AnswerMe, Answered, NoFetch
<1>4. CASE FailMe
  BY <1>4 DEF FailMe, Failed, NoFetch, TypeOK, Entry
<1>5. CASE Age
  BY <1>5 DEF Age, Outdated, TypeOK, Entry
<1>6. ASSUME NEW c \in Controls, NEW page \in Pages, TogglePin(c, page) PROVE AnswerIsTrue' /\ EntryIsTrue'
  BY <1>6 DEF TogglePin, Quiet, TypeOK
<1>7. ASSUME NEW c \in Controls, ServePatch(c) PROVE AnswerIsTrue' /\ EntryIsTrue'
  <2>1. CASE session = Nobody
    <3>1. UNCHANGED <<session, pins, me, fetch, drifted>> /\ (Settled' => Settled)
      BY <1>7, <2>1 DEF ServePatch, TypeOK, NoPatch
    <3> QED
      BY <3>1
  <2>2. CASE session # Nobody
    <3>1. ~Settled'
      BY <1>7, <2>2 DEF ServePatch, TypeOK, NoPatch
    <3> QED
      BY <3>1
  <2> QED
    BY <2>1, <2>2
<1>8. ASSUME NEW c \in Controls, PatchDone(c) PROVE AnswerIsTrue' /\ EntryIsTrue'
  <2>1. me'.old = TRUE
    <3>1. Asked(me) \in Entry(Profile)
      BY DEF Asked, TypeOK, Entry
    <3>2. \A e \in Entry(Profile) : Outdated(e).old = TRUE
      BY DEF Outdated, Entry
    <3> QED
      BY <1>8, <3>1, <3>2 DEF PatchDone, Invalidated, TypeOK
  <2>2. fetch'.stage = "served" => drifted'
    BY <1>8 DEF PatchDone, Restarted, Refetches, UsedHasData, Sent
  <2> QED
    BY <2>1, <2>2
<1>9. ASSUME NEW c \in Controls, PatchFails(c) PROVE AnswerIsTrue' /\ EntryIsTrue'
  <2>1. CASE patch[c].stage = "served"
    BY <1>9, <2>1 DEF PatchFails
  <2>2. CASE patch[c].stage # "served"
    <3>1. UNCHANGED <<session, pins, me, fetch>> /\ (drifted => drifted') /\ (Settled' => Settled)
      BY <1>9, <2>2 DEF PatchFails, TypeOK, NoPatch
    <3> QED
      BY <3>1
  <2> QED
    BY <2>1, <2>2
<1>10. CASE Moved
  BY <1>10 DEF Moved
<1>11. CASE UNCHANGED vars
  BY <1>11 DEF vars
<1> QED
  BY <1>1, <1>2, <1>3, <1>4, <1>5, <1>6, <1>7, <1>8, <1>9, <1>10, <1>11
     DEF Next, SignIn, SignOut, SessionEnds, PinElsewhere

LEMMA UsedStep == IInv /\ [Next]_vars => UsedHasData'
<1> SUFFICES ASSUME IInv, [Next]_vars PROVE UsedHasData'
  OBVIOUS
<1>1. me.data # NoData => me'.data # NoData
  <2>1. /\ Outdated(me).data = me.data /\ Failed(me).data = me.data /\ Asked(me).data = me.data
        /\ Outdated(Asked(me)).data = Asked(me).data
    BY DEF Outdated, Failed, Asked, IInv, TypeOK, Entry
  <2>2. CASE AnswerMe
    BY <2>2, NoDataAssumption DEF AnswerMe, Answered, IInv, TypeOK, Fetch
  <2>3. CASE FailMe
    BY <2>1, <2>3 DEF FailMe
  <2>4. CASE \E r \in {"console", "admin"} : Open(r)
    BY <2>1, <2>4 DEF Open
  <2>5. ASSUME NEW c \in Controls, PatchDone(c) PROVE me.data # NoData => me'.data # NoData
    BY <2>1, <2>5 DEF PatchDone, Invalidated
  <2>6. CASE me' = Outdated(me) \/ UNCHANGED me
    BY <2>1, <2>6
  <2> QED
    BY <2>2, <2>3, <2>4, <2>5, <2>6
       DEF Next, vars, Navigate, ServeMe, Age, TogglePin, ServePatch, PatchFails, SignIn, SignOut,
           SessionEnds, PinElsewhere
<1>2. ASSUME NEW c \in Controls, patch'[c].stage # "none"
      PROVE  patch[c].stage # "none" \/ me.data # NoData
  <2>1. CASE \E d \in Controls, page \in Pages : TogglePin(d, page)
    BY <2>1 DEF TogglePin
  <2>2. CASE \E d \in Controls : ServePatch(d) \/ PatchDone(d) \/ PatchFails(d)
    BY <1>2, <2>2 DEF ServePatch, PatchDone, PatchFails, NoPatch, IInv, TypeOK
  <2>3. CASE UNCHANGED patch
    BY <1>2, <2>3
  <2> QED
    BY <2>1, <2>2, <2>3
       DEF Next, vars, Navigate, ServeMe, AnswerMe, FailMe, Age, SignIn, SignOut, SessionEnds, PinElsewhere
<1> QED
  BY <1>1, <1>2 DEF IInv, UsedHasData

LEMMA ListsStep == IInv /\ [Next]_vars => ListsAreTrue'
<1> SUFFICES ASSUME IInv, [Next]_vars PROVE ListsAreTrue'
  OBVIOUS
<1> USE DEF IInv, ListsAreTrue
<1>1. ASSUME NEW c \in Controls, NEW page \in Pages, TogglePin(c, page) PROVE ListsAreTrue'
  <2>1. /\ UNCHANGED <<session, pins>>
        /\ \A d \in Controls \ {c} : patch'[d] = patch[d] /\ (d \in overtaken' <=> d \in overtaken)
        /\ patch'[c].list = Toggled(me.data.pins, page) /\ patch'[c].page = page
    BY <1>1 DEF TogglePin, TypeOK
  <2>2. c \notin overtaken' => me.data.pins = pins[session]
    <3>1. c \notin overtaken' => Current /\ Settled
      BY <1>1 DEF TogglePin, Quiet, Settled
    <3> QED
      BY <3>1 DEF EntryIsTrue, Stored
  <2> QED
    BY <2>1, <2>2
<1>2. ASSUME NEW c \in Controls, ServePatch(c) PROVE ListsAreTrue'
  <2>1. UNCHANGED session /\ patch'[c].stage # "sent" /\ \A d \in Controls \ {c} : patch'[d] = patch[d]
    BY <1>2 DEF ServePatch, TypeOK, NoPatch
  <2>2. CASE session = Nobody
    BY <2>1, <2>2
  <2>3. CASE session # Nobody
    BY <1>2, <2>1, <2>3 DEF ServePatch
  <2> QED
    BY <2>2, <2>3
<1>3. ASSUME NEW c \in Controls, PatchDone(c) \/ PatchFails(c) PROVE ListsAreTrue'
  <2>1. /\ UNCHANGED <<session, pins>> /\ patch'[c].stage # "sent"
        /\ \A d \in Controls \ {c} : patch'[d] = patch[d] /\ (d \in overtaken' <=> d \in overtaken)
    BY <1>3 DEF PatchDone, PatchFails, TypeOK, NoPatch
  <2> QED
    BY <2>1
<1>4. CASE Moved /\ UNCHANGED patch
  BY <1>4 DEF Moved
<1>5. CASE UNCHANGED <<session, pins, patch, overtaken>>
  BY <1>5
<1> QED
  BY <1>1, <1>2, <1>3, <1>4, <1>5
     DEF Next, vars, Navigate, ServeMe, AnswerMe, FailMe, Age, SignIn, SignOut, SessionEnds, PinElsewhere

LEMMA IInvStep == IInv /\ [Next]_vars => IInv'
BY TypeStep, AdmittedStep, EntryStep, UsedStep, ListsStep DEF IInv

(* What is shown as up to date is what the server has of who is signed in. *)
THEOREM ShownStaysStored == Spec => []ShownIsStored
<1>1. IInv => ShownIsStored
  BY DEF IInv, EntryIsTrue, Settled, AdmittedIsAdmin, Current, Stored, ShownIsStored
<1> QED
  BY <1>1, InitIInv, IInvStep, PTL DEF Spec

(* A toggle that was not overtaken changes the page that was clicked. *)
THEOREM TogglesStayExact == Spec => TogglesAreExact
<1>1. ASSUME IInv, [Next]_vars, NEW c \in Controls,
             patch[c].stage = "sent", patch'[c].stage = "served", c \notin overtaken
      PROVE  pins' = [pins EXCEPT ![session] = Toggled(@, patch[c].page)]
  <2> USE <1>1 DEF IInv, TypeOK
  <2>1. ServePatch(c) /\ session # Nobody
    <3>1. ASSUME NEW d \in Controls, ServePatch(d) PROVE d = c /\ session # Nobody
      BY <3>1 DEF ServePatch, NoPatch
    <3>2. ASSUME NEW d \in Controls, PatchDone(d) \/ PatchFails(d) PROVE FALSE
      BY <3>2 DEF PatchDone, PatchFails, NoPatch
    <3>3. ASSUME NEW d \in Controls, NEW page \in Pages, TogglePin(d, page) PROVE FALSE
      BY <3>3 DEF TogglePin
    <3>4. CASE UNCHANGED patch
      BY <3>4
    <3> QED
      BY <3>1, <3>2, <3>3, <3>4
         DEF Next, vars, Navigate, ServeMe, AnswerMe, FailMe, Age, SignIn, SignOut, SessionEnds, PinElsewhere
  <2>2. pins' = [pins EXCEPT ![session] = patch[c].list]
    BY <2>1 DEF ServePatch
  <2>3. patch[c].list = Toggled(pins[session], patch[c].page)
    BY <2>1 DEF ListsAreTrue
  <2> QED
    BY <2>2, <2>3
<1>2. IInv /\ [Next]_vars =>
        [\A c \in Controls :
           patch[c].stage = "sent" /\ patch'[c].stage = "served" /\ c \notin overtaken =>
             pins' = [pins EXCEPT ![session] = Toggled(@, patch[c].page)]]_vars
  BY <1>1
<1> QED
  BY <1>2, InitIInv, IInvStep, PTL DEF Spec, TogglesAreExact

-----------------------------------------------------------------------------
(* The connectors panel. *)
LEMMA Ids == New # NoConnector /\ New \notin Connectors /\ NoConnector \notin Connectors
  BY IdsAssumption

LEMMA Rows == Unborn # Deleted /\ Unborn \notin Row /\ Deleted \notin Row
  BY RowsAssumption

(* What the server makes of a text is a row, what it shows of a row a text. *)
LEMMA PatchedRow == ASSUME NEW r \in Row, NEW t \in Text PROVE Patched(r, t) \in Row
<1>1. t.credentials \in {"blank", "braces", "s"} /\ t.settings \in {"a", "b"}
  BY DEF Text
<1>2. CASE t.credentials = "blank"
  BY <1>1, <1>2 DEF Patched, Row
<1>3. CASE t.credentials = "braces"
  BY <1>1, <1>3 DEF Patched, Row
<1>4. CASE t.credentials = "s"
  BY <1>1, <1>4 DEF Patched, Row
<1> QED
  BY <1>1, <1>2, <1>3, <1>4

LEMMA CreatedRow == ASSUME NEW t \in Text PROVE Created(t) \in Row
  BY DEF Created, Row, Text

LEMMA ShownText == ASSUME NEW r \in Row PROVE Shown(r) \in Text
  BY DEF Shown, Row, Text

(* A PATCH with what the form was shown changes nothing. *)
LEMMA ShownStays ==
  ASSUME NEW r \in Row, NEW t \in Text, NEW f \in Fields, t[f] = Shown(r)[f]
  PROVE  Patched(r, t)[f] = r[f]
<1>1. CASE f = "settings"
  BY <1>1 DEF Shown, Row, Patched
<1>2. CASE f = "credentials"
  <2>1. CASE r.credentials = "s"
    BY <1>2, <2>1 DEF Shown, Row, Patched
  <2>2. CASE r.credentials # "s"
    BY <1>2, <2>2 DEF Shown, Row, Patched
  <2> QED
    BY <2>1, <2>2
<1> QED
  BY <1>1, <1>2 DEF Fields

-----------------------------------------------------------------------------
(* The types of everything but the rows. *)
PanelTypes == /\ editing \in Connectors \cup {New, NoConnector}
              /\ form \in Text /\ baseline \in Text
              /\ load \in Load /\ save \in Save
              /\ origin \in [of : Connectors \cup {New, NoConnector}, touched : SUBSET Fields, crossed : BOOLEAN]
              /\ behind \subseteq Copies

CountTypes == /\ removal \in [Connectors -> Removal]
              /\ sync.of \in Connectors \cup {NoConnector} /\ sync.probed \in {"a", "b"}
              /\ typed \in 0..MaxTyped /\ others \in 0..MaxOthers

(* A load under way is that of a connector, and an answer is a text. *)
LoadShape == /\ load.stage # "none" => load.of \in Connectors
             /\ load.stage = "served" => load.answer \in Text

TypeInv == PanelTypeOK /\ LoadShape

RowTypes == DOMAIN rows = Connectors /\ \A c \in Connectors : Live(c) => rows[c] \in Row

LEMMA PanelInitTypes == PanelInit => TypeInv
<1> SUFFICES ASSUME PanelInit PROVE TypeInv
  OBVIOUS
<1>1. RowTypes
  BY Rows DEF PanelInit, RowTypes, Live
<1>2. PanelTypes
  BY DEF PanelInit, PanelTypes, EmptyConnectorForm, Text, NoLoad, Load, NoSave, Save, Fresh
<1>3. CountTypes
  BY BoundsAssumption DEF PanelInit, CountTypes, NoRemoval, Removal, NoSync
<1>4. LoadShape
  BY DEF PanelInit, LoadShape, NoLoad
<1> QED
  BY <1>1, <1>2, <1>3, <1>4 DEF TypeInv, PanelTypeOK, RowTypes, PanelTypes, CountTypes

LEMMA RowTypesStep == PanelTypeOK /\ [PanelNext]_panelVars => RowTypes'
<1> SUFFICES ASSUME PanelTypeOK, [PanelNext]_panelVars PROVE RowTypes'
  OBVIOUS
<1> USE DEF PanelTypeOK, RowTypes, Live
<1>1. CASE ServeSave
  <2>1. save.body \in Text
    BY DEF Save
  <2>2. PICK c \in Connectors :
          /\ IF save.to = New THEN rows[c] = Unborn ELSE c = save.to /\ Live(c)
          /\ rows' = [rows EXCEPT ![c] = IF save.to = New THEN Created(save.body)
                                         ELSE Patched(@, save.body)]
    BY <1>1 DEF ServeSave
  <2>3. rows'[c] \in Row
    BY <2>1, <2>2, CreatedRow, PatchedRow
  <2> QED
    BY <2>2, <2>3
<1>2. ASSUME NEW c \in Connectors, ServeDelete(c) PROVE RowTypes'
  BY <1>2, Rows DEF ServeDelete
<1>3. CASE SyncWrite
  BY <1>3, Rows DEF SyncWrite, Row
<1>4. ASSUME NEW c \in Connectors, ChangedByOthers(c) PROVE RowTypes'
  <2>1. CASE \E t \in Text : rows' = [rows EXCEPT ![c] = Patched(@, t)]
    BY <1>4, <2>1, PatchedRow DEF ChangedByOthers
  <2>2. CASE rows' = [rows EXCEPT ![c] = Deleted]
    BY <1>4, <2>2
  <2>3. CASE rows' = [rows EXCEPT ![c].credentials = IF @ = "none" THEN @ ELSE "sealed"]
    BY <1>4, <2>3 DEF ChangedByOthers, Row
  <2> QED
    BY <1>4, <2>1, <2>2, <2>3 DEF ChangedByOthers
<1>5. CASE UNCHANGED rows
  BY <1>5
<1> QED
  BY <1>1, <1>2, <1>3, <1>4, <1>5
     DEF PanelNext, panelVars, LoadForEdit, Delete, DeleteDone, DeleteLost, SyncRead, GetConnector,
         TakeLoad, FailLoad, StartNew, Cancel, Type, SaveConnector, SaveDone, SaveFails

LEMMA PanelTypesStep == TypeInv /\ [PanelNext]_panelVars => PanelTypes'
<1> SUFFICES ASSUME TypeInv, [PanelNext]_panelVars PROVE PanelTypes'
  OBVIOUS
<1> USE DEF TypeInv, PanelTypeOK, PanelTypes, panel, bounds
<1>0. EmptyConnectorForm \in Text
  BY DEF EmptyConnectorForm, Text
<1>1. ASSUME NEW c \in Connectors, LoadForEdit(c) PROVE PanelTypes'
  BY <1>1 DEF LoadForEdit, Load, Fresh
<1>2. CASE GetConnector
  <2>1. load.of \in Connectors /\ Shown(rows[load.of]) \in Text
    BY <1>2, ShownText DEF GetConnector, LoadShape
  <2>2. load' = [load EXCEPT !.stage = "served", !.answer = Shown(rows[load.of])]
    BY <1>2 DEF GetConnector
  <2>3. load' \in Load
    BY <2>1, <2>2 DEF Load
  <2> QED
    BY <1>2, <2>3 DEF GetConnector
<1>3. CASE TakeLoad
  <2>1. load.of \in Connectors /\ load.answer \in Text
    BY <1>3 DEF TakeLoad, LoadShape
  <2>2. origin' \in [of : Connectors \cup {New, NoConnector}, touched : SUBSET Fields, crossed : BOOLEAN]
    <3>1. CASE editing = NoConnector
      BY <1>3, <3>1 DEF TakeLoad, Fresh
    <3>2. CASE editing # NoConnector
      BY <1>3, <2>1, <3>2 DEF TakeLoad
    <3> QED
      BY <3>1, <3>2
  <2>3. behind' \subseteq Copies
    BY <1>3 DEF TakeLoad, Copies
  <2>4. load' \in Load
    BY <1>3 DEF TakeLoad, NoLoad, Load
  <2> QED
    BY <1>3, <2>1, <2>2, <2>3, <2>4 DEF TakeLoad
<1>4. CASE FailLoad
  BY <1>4 DEF FailLoad, Load, NoLoad, Fresh
<1>5. CASE StartNew
  BY <1>0, <1>5 DEF StartNew, connDetailLoading
<1>6. CASE Cancel \/ SaveDone
  <2>1. Closed /\ load' = load /\ behind' \subseteq Copies
    BY <1>6 DEF Cancel, SaveDone
  <2>2. save' = save \/ save' = NoSave
    BY <1>6 DEF Cancel, SaveDone
  <2>3. NoSave \in Save
    BY <1>0 DEF NoSave, Save
  <2> QED
    BY <1>0, <2>1, <2>2, <2>3 DEF Closed, Fresh
<1>7. ASSUME NEW f \in Fields, NEW t \in Text, Type(f, t[f]) PROVE PanelTypes'
  BY <1>7 DEF Type, Text, Fields
<1>8. CASE SaveConnector
  BY <1>8 DEF SaveConnector, Save, Copies
<1>9. CASE ServeSave
  BY <1>9 DEF ServeSave, Save, Overtaken
<1>10. CASE SaveFails
  BY <1>0, <1>10 DEF SaveFails, Save, NoSave
<1>11. ASSUME NEW c \in Connectors, DeleteDone(c) PROVE PanelTypes'
  <2>1. load' = load /\ save' = save /\ behind' \subseteq Copies
    BY <1>11 DEF DeleteDone
  <2>2. Closed \/ UNCHANGED panel
    BY <1>11 DEF DeleteDone
  <2>3. CASE Closed
    BY <1>0, <2>1, <2>3 DEF Closed, Fresh
  <2>4. CASE UNCHANGED panel
    BY <2>1, <2>4
  <2> QED
    BY <2>2, <2>3, <2>4
<1>12. ASSUME NEW c \in Connectors, ChangedByOthers(c) PROVE PanelTypes'
  BY <1>12 DEF ChangedByOthers, Overtaken
<1>13. CASE UNCHANGED <<editing, form, baseline, load, save, origin, behind>>
  BY <1>13
<1> QED
  BY <1>1, <1>2, <1>3, <1>4, <1>5, <1>6, <1>7, <1>8, <1>9, <1>10, <1>11, <1>12, <1>13
     DEF PanelNext, panelVars, Delete, ServeDelete, DeleteLost, SyncRead, SyncWrite

LEMMA CountTypesStep == PanelTypeOK /\ [PanelNext]_panelVars => CountTypes'
<1> SUFFICES ASSUME PanelTypeOK, [PanelNext]_panelVars PROVE CountTypes'
  OBVIOUS
<1> USE BoundsAssumption DEF PanelTypeOK, CountTypes, panel, bounds
<1>1. ASSUME NEW c \in Connectors, Delete(c) \/ ServeDelete(c) \/ DeleteDone(c) \/ DeleteLost(c)
      PROVE CountTypes'
  <2>1. PICK x \in Removal : removal' = [removal EXCEPT ![c] = x]
    <3>1. CASE Delete(c)
      BY <3>1 DEF Delete, Removal
    <3>2. CASE ServeDelete(c)
      <4>1. [removal[c] EXCEPT !.stage = "done"] \in Removal
        BY DEF Removal
      <4> QED
        BY <3>2, <4>1 DEF ServeDelete
    <3>3. CASE DeleteDone(c) \/ DeleteLost(c)
      BY <3>3 DEF DeleteDone, DeleteLost, NoRemoval, Removal
    <3> QED
      BY <1>1, <3>1, <3>2, <3>3
  <2>2. UNCHANGED <<sync, typed, others>>
    BY <1>1 DEF Delete, ServeDelete, DeleteDone, DeleteLost
  <2> QED
    BY <2>1, <2>2
<1>2. ASSUME NEW c \in Connectors, SyncRead(c) PROVE CountTypes'
  BY <1>2 DEF SyncRead, Live, Row
<1>3. CASE SyncWrite
  BY <1>3 DEF SyncWrite, NoSync
<1>4. ASSUME NEW c \in Connectors, ChangedByOthers(c) PROVE CountTypes'
  BY <1>4 DEF ChangedByOthers
<1>5. ASSUME NEW f \in Fields, NEW t \in Text, Type(f, t[f]) PROVE CountTypes'
  BY <1>5 DEF Type
<1>6. CASE UNCHANGED <<removal, sync, typed, others>>
  BY <1>6
<1> QED
  BY <1>1, <1>2, <1>3, <1>4, <1>5, <1>6
     DEF PanelNext, panelVars, LoadForEdit, GetConnector, TakeLoad, FailLoad, StartNew, Cancel, SaveConnector,
         ServeSave, SaveDone, SaveFails

LEMMA LoadShapeStep == TypeInv /\ [PanelNext]_panelVars => LoadShape'
<1> SUFFICES ASSUME TypeInv, [PanelNext]_panelVars PROVE LoadShape'
  OBVIOUS
<1> USE DEF TypeInv, LoadShape, panel, bounds
<1>1. ASSUME NEW c \in Connectors, LoadForEdit(c) PROVE LoadShape'
  BY <1>1 DEF LoadForEdit
<1>2. CASE GetConnector
  <2>1. load.of \in Connectors /\ Shown(rows[load.of]) \in Text
    BY <1>2, ShownText DEF GetConnector, PanelTypeOK
  <2>2. load' = [load EXCEPT !.stage = "served", !.answer = Shown(rows[load.of])] /\ load \in Load
    BY <1>2 DEF GetConnector, PanelTypeOK
  <2> QED
    BY <2>1, <2>2 DEF Load
<1>3. CASE TakeLoad \/ FailLoad
  BY <1>3 DEF TakeLoad, FailLoad, NoLoad
<1>4. CASE UNCHANGED load
  BY <1>4
<1> QED
  BY <1>1, <1>2, <1>3, <1>4
     DEF PanelNext, panelVars, StartNew, Cancel, Type, SaveConnector, ServeSave, SaveDone, SaveFails, Delete,
         ServeDelete, DeleteDone, DeleteLost, SyncRead, SyncWrite, ChangedByOthers

LEMMA TypeInvStep == TypeInv /\ [PanelNext]_panelVars => TypeInv'
<1>1. TypeInv => PanelTypeOK
  BY DEF TypeInv
<1> QED
  BY <1>1, RowTypesStep, PanelTypesStep, CountTypesStep, LoadShapeStep
     DEF TypeInv, PanelTypeOK, RowTypes, PanelTypes, CountTypes

(* Every variable keeps its type. *)
THEOREM PanelTypeCorrectness == PanelSpec => []PanelTypeOK
<1>1. TypeInv => PanelTypeOK
  BY DEF TypeInv
<1> QED
  BY <1>1, PanelInitTypes, TypeInvStep, PTL DEF PanelSpec

-----------------------------------------------------------------------------
(* While a connector is loading, the panel is about it, about a new one, or
   closed; otherwise the form holds what belongs to the connector it is about. *)
FormIsOwn ==
  /\ connDetailLoading => editing \in {load.of, New, NoConnector}
  /\ connDetailLoading /\ editing = New => origin.crossed
  /\ ~connDetailLoading /\ editing \in Connectors => origin.of = editing
  /\ ~connDetailLoading /\ editing = New => origin.of = New \/ origin.crossed

OwnInv == TypeInv /\ FormIsOwn /\ SavesAreOwn

LEMMA FormIsOwnStep == OwnInv /\ [PanelNext]_panelVars => FormIsOwn'
<1> SUFFICES ASSUME OwnInv, [PanelNext]_panelVars PROVE FormIsOwn'
  OBVIOUS
<1> USE Ids DEF OwnInv, FormIsOwn, connDetailLoading, panel, bounds
<1>1. ASSUME NEW c \in Connectors, LoadForEdit(c) PROVE FormIsOwn'
  BY <1>1 DEF LoadForEdit
<1>2. CASE GetConnector
  BY <1>2 DEF GetConnector, TypeInv, PanelTypeOK, Load
<1>3. CASE TakeLoad
  <2>1. load.of \in Connectors
    BY <1>3 DEF TakeLoad, TypeInv, LoadShape
  <2> QED
    BY <1>3, <2>1 DEF TakeLoad, NoLoad
<1>4. CASE FailLoad
  BY <1>4 DEF FailLoad, NoLoad
<1>5. CASE StartNew
  BY <1>5 DEF StartNew
<1>6. ASSUME Closed, load' = load PROVE FormIsOwn'
  BY <1>6 DEF Closed
<1>7. ASSUME NEW f \in Fields, NEW t \in Text, Type(f, t[f]) PROVE FormIsOwn'
  BY <1>7 DEF Type, TypeInv, PanelTypeOK
<1>8. CASE UNCHANGED <<load, panel>>
  BY <1>8
<1> QED
  BY <1>1, <1>2, <1>3, <1>4, <1>5, <1>6, <1>7, <1>8
     DEF PanelNext, panelVars, Cancel, SaveConnector, ServeSave, SaveDone, SaveFails, Delete,
         ServeDelete, DeleteDone, DeleteLost, SyncRead, SyncWrite, ChangedByOthers

LEMMA SavesAreOwnStep == OwnInv /\ [PanelNext]_panelVars => SavesAreOwn'
<1> SUFFICES ASSUME OwnInv, [PanelNext]_panelVars PROVE SavesAreOwn'
  OBVIOUS
<1> USE DEF OwnInv, SavesAreOwn
<1>1. CASE SaveConnector
  BY <1>1 DEF SaveConnector, FormShown, FormIsOwn, TypeInv, PanelTypeOK
<1>2. CASE ServeSave
  BY <1>2 DEF ServeSave, TypeInv, PanelTypeOK, Save
<1>3. CASE SaveDone \/ SaveFails
  BY <1>3 DEF SaveDone, SaveFails, NoSave
<1>4. CASE UNCHANGED save
  BY <1>4
<1> QED
  BY <1>1, <1>2, <1>3, <1>4
     DEF PanelNext, panelVars, LoadForEdit, GetConnector, TakeLoad, FailLoad, StartNew, Cancel, Type, Delete,
         ServeDelete, DeleteDone, DeleteLost, SyncRead, SyncWrite, ChangedByOthers

(* A save carries what belongs to the connector it is for. *)
THEOREM SavesStayOwn == PanelSpec => []SavesAreOwn
<1>1. PanelInit => OwnInv
  BY Ids, PanelInitTypes DEF PanelInit, OwnInv, FormIsOwn, connDetailLoading, NoLoad, SavesAreOwn, NoSave
<1>2. OwnInv /\ [PanelNext]_panelVars => OwnInv'
  BY TypeInvStep, FormIsOwnStep, SavesAreOwnStep DEF OwnInv
<1>3. OwnInv => SavesAreOwn
  BY DEF OwnInv
<1> QED
  BY <1>1, <1>2, <1>3, PTL DEF PanelSpec

-----------------------------------------------------------------------------
(* What a copy that is not behind holds of a live connector, and nobody typed
   over, is what the server shows of it. *)
UpToDate(t, touched, c) == \A f \in Fields \ touched : t[f] = Shown(rows[c])[f]

LoadIsTrue == load.stage = "served" /\ "load" \notin behind /\ Live(load.of)
                => load.answer = Shown(rows[load.of])
FormIsTrue == origin.of \in Connectors /\ "form" \notin behind /\ Live(origin.of)
                => UpToDate(form, origin.touched, origin.of)
SaveIsTrue == save.stage = "sent" /\ save.to \in Connectors /\ "save" \notin behind /\ Live(save.to)
                => UpToDate(save.body, save.touched, save.to)

PanelIInv == OwnInv /\ LoadIsTrue /\ FormIsTrue /\ SaveIsTrue

(* What the panel does is not seen by the server, ... *)
LEMMA PanelSteps ==
  ASSUME PanelIInv, UNCHANGED rows,
         \/ \E c \in Connectors : LoadForEdit(c) \/ DeleteDone(c)
         \/ GetConnector \/ TakeLoad \/ FailLoad \/ StartNew \/ Cancel
         \/ \E f \in Fields : \E t \in Text : Type(f, t[f])
         \/ SaveConnector \/ SaveDone \/ SaveFails
  PROVE  LoadIsTrue' /\ FormIsTrue' /\ SaveIsTrue'
<1> USE Ids DEF PanelIInv, LoadIsTrue, FormIsTrue, SaveIsTrue, UpToDate, Live, panel, bounds
<1>1. ASSUME NEW c \in Connectors, LoadForEdit(c) PROVE LoadIsTrue' /\ FormIsTrue' /\ SaveIsTrue'
  BY <1>1 DEF LoadForEdit, Fresh
<1>2. CASE GetConnector
  BY <1>2 DEF GetConnector, OwnInv, TypeInv, PanelTypeOK, Load
<1>3. CASE TakeLoad
  <2>1. CASE editing = NoConnector
    BY <1>3, <2>1 DEF TakeLoad, NoLoad, Fresh
  <2>2. CASE editing # NoConnector
    <3>1. "form" \notin behind' => "load" \notin behind
      BY <1>3, <2>2 DEF TakeLoad
    <3>2. /\ load.stage = "served" /\ origin'.of = load.of /\ form' = load.answer
          /\ load'.stage = "none" /\ save' = save /\ ("save" \in behind' <=> "save" \in behind)
      BY <1>3, <2>2 DEF TakeLoad, NoLoad
    <3> QED
      BY <3>1, <3>2
  <2> QED
    BY <2>1, <2>2
<1>4. CASE FailLoad
  BY <1>4 DEF FailLoad, NoLoad, Fresh
<1>5. CASE StartNew
  BY <1>5 DEF StartNew
<1>6. CASE Cancel
  BY <1>6 DEF Cancel, Closed, Fresh
<1>7. ASSUME NEW f \in Fields, NEW t \in Text, Type(f, t[f]) PROVE LoadIsTrue' /\ FormIsTrue' /\ SaveIsTrue'
  <2>1. form' = [form EXCEPT ![f] = t[f]] /\ origin' = [origin EXCEPT !.touched = @ \cup {f}]
    BY <1>7 DEF Type
  <2>2. \A g \in Fields \ {f} : form'[g] = form[g]
    BY <2>1 DEF OwnInv, TypeInv, PanelTypeOK, Text, Fields
  <2>3. origin'.of = origin.of /\ origin'.touched = origin.touched \cup {f}
    BY <2>1 DEF OwnInv, TypeInv, PanelTypeOK
  <2>4. UNCHANGED <<load, save, behind>>
    BY <1>7 DEF Type
  <2> QED
    BY <2>2, <2>3, <2>4
<1>8. CASE SaveConnector
  <2>1. /\ save'.to = editing /\ save'.body = form /\ save'.touched = origin.touched
        /\ UNCHANGED <<load, form, origin>>
        /\ "save" \notin behind' => "form" \notin behind
        /\ \A k \in {"load", "form"} : k \in behind' <=> k \in behind
    BY <1>8 DEF SaveConnector
  <2>2. editing \in Connectors => origin.of = editing
    BY <1>8 DEF SaveConnector, FormShown, OwnInv, FormIsOwn
  <2> QED
    BY <2>1, <2>2
<1>9. CASE SaveDone \/ SaveFails
  BY <1>9 DEF SaveDone, SaveFails, Closed, Fresh, NoSave
<1>10. ASSUME NEW c \in Connectors, DeleteDone(c) PROVE LoadIsTrue' /\ FormIsTrue' /\ SaveIsTrue'
  BY <1>10 DEF DeleteDone, Closed, Fresh
<1> QED
  BY <1>1, <1>2, <1>3, <1>4, <1>5, <1>6, <1>7, <1>8, <1>9, <1>10

(* ... and where a connector changes, its copies fall behind. *)
LEMMA ServerSteps ==
  ASSUME PanelIInv, NEW c \in Connectors, UNCHANGED <<form, origin>>, load' = load,
         save' = save \/ save'.stage = "served",
         \A d \in Connectors \ {c} : rows'[d] = rows[d],
         (behind \cup Overtaken(c)) \ behind' \subseteq {k \in {"save"} : save'.stage = "served"}
  PROVE  LoadIsTrue' /\ FormIsTrue' /\ SaveIsTrue'
<1> USE DEF PanelIInv, LoadIsTrue, FormIsTrue, SaveIsTrue, UpToDate, Live, Overtaken, Copies
<1>1. LoadIsTrue'
  BY DEF OwnInv, TypeInv, LoadShape
<1>2. FormIsTrue'
  OBVIOUS
<1>3. SaveIsTrue'
  OBVIOUS
<1> QED
  BY <1>1, <1>2, <1>3

(* Health is no part of what is shown, nor what is deleted. *)
LEMMA OtherSteps ==
  ASSUME PanelIInv, UNCHANGED <<form, origin, load, save, behind>>,
         \A d \in Connectors : Live(d)' => Live(d) /\ Shown(rows[d])' = Shown(rows[d])
  PROVE  LoadIsTrue' /\ FormIsTrue' /\ SaveIsTrue'
BY DEF PanelIInv, LoadIsTrue, FormIsTrue, SaveIsTrue, UpToDate, OwnInv, TypeInv, LoadShape

LEMMA PanelIInvStep == PanelIInv /\ [PanelNext]_panelVars => PanelIInv'
<1> SUFFICES ASSUME PanelIInv, [PanelNext]_panelVars PROVE PanelIInv'
  OBVIOUS
<1>0. OwnInv'
  BY TypeInvStep, FormIsOwnStep, SavesAreOwnStep DEF PanelIInv, OwnInv
<1> SUFFICES LoadIsTrue' /\ FormIsTrue' /\ SaveIsTrue'
  BY <1>0 DEF PanelIInv
<1> USE DEF panel, bounds
<1>1. CASE ServeSave
  <2>1. PICK c \in Connectors : /\ \A d \in Connectors \ {c} : rows'[d] = rows[d]
                                /\ behind' = (behind \cup Overtaken(c)) \ {"save"}
    BY <1>1 DEF ServeSave, PanelIInv, OwnInv, TypeInv, PanelTypeOK
  <2>2. save'.stage = "served" /\ UNCHANGED <<form, origin, load>>
    BY <1>1 DEF ServeSave, PanelIInv, OwnInv, TypeInv, PanelTypeOK, Save
  <2> QED
    BY <2>1, <2>2, ServerSteps
<1>2. ASSUME NEW c \in Connectors, ChangedByOthers(c) PROVE LoadIsTrue' /\ FormIsTrue' /\ SaveIsTrue'
  <2>1. /\ \A d \in Connectors \ {c} : rows'[d] = rows[d]
        /\ behind' = behind \cup Overtaken(c)
        /\ UNCHANGED <<form, origin, load, save>>
    BY <1>2 DEF ChangedByOthers, PanelIInv, OwnInv, TypeInv, PanelTypeOK
  <2> QED
    BY <2>1, ServerSteps
<1>3. ASSUME NEW c \in Connectors, Delete(c) \/ ServeDelete(c) \/ DeleteLost(c) \/ SyncRead(c)
      PROVE  LoadIsTrue' /\ FormIsTrue' /\ SaveIsTrue'
  <2>1. \A d \in Connectors : Live(d)' => Live(d) /\ Shown(rows[d])' = Shown(rows[d])
    <3>1. rows' = rows \/ rows' = [rows EXCEPT ![c] = Deleted]
      BY <1>3 DEF Delete, ServeDelete, DeleteLost, SyncRead
    <3> QED
      BY <3>1 DEF Live, PanelIInv, OwnInv, TypeInv, PanelTypeOK
  <2>2. UNCHANGED <<form, origin, load, save, behind>>
    BY <1>3 DEF Delete, ServeDelete, DeleteLost, SyncRead
  <2> QED
    BY <2>1, <2>2, OtherSteps
<1>4. CASE SyncWrite
  <2>1. \A d \in Connectors : Live(d)' => Live(d) /\ Shown(rows[d])' = Shown(rows[d])
    <3>1. CASE rows' = rows
      BY <3>1 DEF Live
    <3>2. CASE Live(sync.of) /\ rows' = [rows EXCEPT ![sync.of].healthStatus = "known"]
      <4> SUFFICES ASSUME NEW d \in Connectors, Live(d)' PROVE Live(d) /\ Shown(rows[d])' = Shown(rows[d])
        OBVIOUS
      <4>1. CASE d # sync.of
        BY <3>2, <4>1 DEF Live
      <4>2. CASE d = sync.of
        <5>1. rows[d] \in Row /\ rows'[d] = [rows[d] EXCEPT !.healthStatus = "known"]
          BY <3>2, <4>2 DEF PanelIInv, OwnInv, TypeInv, PanelTypeOK
        <5> QED
          BY <3>2, <4>2, <5>1 DEF Row, Shown
      <4> QED
        BY <4>1, <4>2
    <3> QED
      BY <1>4, <3>1, <3>2 DEF SyncWrite
  <2>2. UNCHANGED <<form, origin, load, save, behind>>
    BY <1>4 DEF SyncWrite
  <2> QED
    BY <2>1, <2>2, OtherSteps
<1>5. CASE UNCHANGED panelVars
  BY <1>5, OtherSteps DEF panelVars, Live
<1>6. ASSUME \/ \E c \in Connectors : LoadForEdit(c) \/ DeleteDone(c)
             \/ GetConnector \/ TakeLoad \/ FailLoad \/ StartNew \/ Cancel
             \/ \E f \in Fields : \E t \in Text : Type(f, t[f])
             \/ SaveConnector \/ SaveDone \/ SaveFails
      PROVE  LoadIsTrue' /\ FormIsTrue' /\ SaveIsTrue'
  <2>1. UNCHANGED rows
    BY <1>6 DEF LoadForEdit, DeleteDone, GetConnector, TakeLoad, FailLoad, StartNew, Cancel, Type,
                SaveConnector, SaveDone, SaveFails
  <2> QED
    BY <1>6, <2>1, PanelSteps
<1> QED
  BY <1>1, <1>2, <1>3, <1>4, <1>5, <1>6 DEF PanelNext

(* A field of a live connector changes by an edit or under a form that had not
   seen the last change, and what is deleted stays so. *)
THEOREM ConfigStays == PanelSpec => ConfigChangesAreEdits
<1>1. PanelInit => PanelIInv
  BY Ids, PanelInitTypes
     DEF PanelInit, PanelIInv, OwnInv, FormIsOwn, connDetailLoading, NoLoad, SavesAreOwn, NoSave,
         LoadIsTrue, FormIsTrue, SaveIsTrue, Fresh
<1>2. ASSUME PanelIInv, [PanelNext]_panelVars, NEW c \in Connectors
      PROVE  /\ rows[c] = Deleted => rows'[c] = Deleted
             /\ Live(c) /\ Live(c)' => \A f \in Fields : rows'[c][f] # rows[c][f] =>
                  \/ others' # others
                  \/ /\ save.stage = "sent" /\ save'.stage = "served" /\ save.to = c
                     /\ f \in save.touched \/ "save" \in behind
  <2> USE <1>2, Rows DEF PanelIInv, OwnInv, TypeInv, PanelTypeOK, panel, bounds
  <2>1. CASE ServeSave
    <3>1. PICK d \in Connectors :
            /\ IF save.to = New THEN rows[d] = Unborn ELSE d = save.to /\ Live(d)
            /\ rows' = [rows EXCEPT ![d] = IF save.to = New THEN Created(save.body)
                                           ELSE Patched(@, save.body)]
      BY <2>1 DEF ServeSave
    <3>2. save.stage = "sent" /\ save'.stage = "served"
      BY <2>1 DEF ServeSave, Save
    <3>3. CASE c # d
      BY <3>1, <3>3
    <3>4. CASE c = d /\ save.to = New
      BY <3>1, <3>4 DEF Live
    <3>5. CASE c = d /\ save.to # New
      <4>1. save.to = c /\ Live(c) /\ rows'[c] = Patched(rows[c], save.body)
        BY <3>1, <3>5
      <4>2. rows[c] # Deleted /\ rows[c] \in Row /\ save.body \in Text
        BY <4>1 DEF Live, Save
      <4> SUFFICES ASSUME NEW f \in Fields, rows'[c][f] # rows[c][f]
                   PROVE  f \in save.touched \/ "save" \in behind
        BY <3>2, <4>1, <4>2
      <4> SUFFICES ASSUME f \notin save.touched, "save" \notin behind PROVE FALSE
        OBVIOUS
      <4>3. save.body[f] = Shown(rows[c])[f]
        BY <3>2, <4>1 DEF SaveIsTrue, UpToDate
      <4> QED
        BY <4>1, <4>2, <4>3, ShownStays
    <3> QED
      BY <3>3, <3>4, <3>5
  <2>2. ASSUME NEW d \in Connectors, ChangedByOthers(d)
        PROVE  others' # others /\ (rows[c] = Deleted => rows'[c] = Deleted)
    <3>1. others' = others + 1 /\ others \in Nat
      BY <2>2, BoundsAssumption DEF ChangedByOthers
    <3>2. \A x \in Connectors \ {d} : rows'[x] = rows[x]
      BY <2>2 DEF ChangedByOthers
    <3>3. rows[d] # Deleted
      BY <2>2 DEF ChangedByOthers, Live
    <3> QED
      BY <3>1, <3>2, <3>3
  <2>3. ASSUME NEW d \in Connectors, ServeDelete(d)
        PROVE  (rows[c] = Deleted => rows'[c] = Deleted) /\ (Live(c)' => rows'[c] = rows[c])
    BY <2>3 DEF ServeDelete, Live
  <2>4. CASE SyncWrite
    <3>1. CASE rows' = rows
      BY <3>1
    <3>2. CASE Live(sync.of) /\ rows' = [rows EXCEPT ![sync.of].healthStatus = "known"]
      <4>1. CASE c # sync.of
        BY <3>2, <4>1
      <4>2. CASE c = sync.of
        <5>1. rows[c] \in Row /\ rows'[c] = [rows[c] EXCEPT !.healthStatus = "known"]
          BY <3>2, <4>2
        <5> QED
          BY <5>1 DEF Row, Fields
      <4> QED
        BY <4>1, <4>2
    <3> QED
      BY <2>4, <3>1, <3>2 DEF SyncWrite
  <2>5. CASE UNCHANGED rows
    BY <2>5
  <2> QED
    BY <2>1, <2>2, <2>3, <2>4, <2>5
       DEF PanelNext, panelVars, LoadForEdit, Delete, DeleteDone, DeleteLost, SyncRead, GetConnector,
           TakeLoad, FailLoad, StartNew, Cancel, Type, SaveConnector, SaveDone, SaveFails
<1>3. PanelIInv /\ [PanelNext]_panelVars =>
        [\A c \in Connectors :
           /\ rows[c] = Deleted => rows'[c] = Deleted
           /\ Live(c) /\ Live(c)' => \A f \in Fields : rows'[c][f] # rows[c][f] =>
                \/ others' # others
                \/ /\ save.stage = "sent" /\ save'.stage = "served" /\ save.to = c
                   /\ f \in save.touched \/ "save" \in behind]_panelVars
  BY <1>2
<1> QED
  BY <1>1, <1>3, PanelIInvStep, PTL DEF PanelSpec, ConfigChangesAreEdits
=============================================================================
