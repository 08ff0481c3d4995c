-------------------------- MODULE AdminSettingsProofs --------------------------
(***************************************************************************)
(* Proofs about the settings pages: some way to sign in stays enabled, a   *)
(* save that nobody overtook changes what was edited and nothing else, and *)
(* a save the button allowed changes what is stored, but for two kinds.    *)
(***************************************************************************)
EXTENDS AdminSettings, TLAPS

(* Whatever is stored passed the test of the PATCH that wrote it, and the
   environment does not change. *)
THEOREM SignInStays == Spec => []SomeSignInRemains
<1>1. Init => SomeSignInRemains
  BY DEF Init, SomeSignInRemains
<1>2. SomeSignInRemains /\ [Next]_vars => SomeSignInRemains'
  <2> SUFFICES ASSUME SomeSignInRemains, [Next]_vars PROVE SomeSignInRemains'
    OBVIOUS
  <2> USE DEF SomeSignInRemains, SignIn, Effective
  <2>1. CASE ServeWrite
    BY <2>1 DEF ServeWrite, Accepted, Written
  <2>2. ASSUME NEW f \in Field, NEW v \in Values(f), TheirsWrite(f, v) PROVE SomeSignInRemains'
    BY <2>2 DEF TheirsWrite, Accepted, Written
  <2>3. CASE UNCHANGED <<page, locked, storage>>
    BY <2>3
  <2> QED
    BY <2>1, <2>2, <2>3 DEF Next, vars, Open, Leave, ServeGet, TakeGet, FailGet, Age, Edit,
       Submit, ServeRead, TheirsRead, PatchDone, PatchFails
<1> QED
  BY <1>1, <1>2, PTL DEF Spec

-----------------------------------------------------------------------------
(* The assistant's page has no directory to choose: its group is always shown. *)
LlmHasNoChoice ==
  page = "llm" => /\ draft["choice"] = Untouched
                  /\ storage["choice"] = "directory"
                  /\ theirs # NoData => theirs["choice"] = "directory"
                  /\ patch.stage = "read" => patch.copy["choice"] = "directory"
                  /\ patch.stage # "none" => "choice" \notin DOMAIN patch.body

(* As long as nobody has written since the form was loaded, the handler works on
   what is stored, and what the form sends without having been edited is what is
   stored, or is refused because the environment overrides it. *)
BodiesAreHonest ==
  patch.timely =>
    /\ patch.stage = "read" => patch.copy = storage
    /\ patch.stage \in {"sent", "read"} =>
         \A f \in DOMAIN patch.body :
           f \in locked \/ f \in patch.edited \/ patch.body[f] = storage[f]

PatchShape == /\ patch = [stage |-> patch.stage, body |-> patch.body, copy |-> patch.copy,
                          timely |-> patch.timely, edited |-> patch.edited]
              /\ patch.timely \in BOOLEAN

IInv == /\ page \in {"identity", "llm"}
        /\ draft = [f \in Field |-> draft[f]]
        /\ PatchShape
        /\ LlmHasNoChoice
        /\ BodiesAreHonest

LEMMA InitIInv == Init => IInv
  BY DEF Init, IInv, PatchShape, LlmHasNoChoice, BodiesAreHonest, Idle, Clean, Field

(* The GET tells what is stored of a field that the environment leaves alone,
   but of a secret no more than that it is there. *)
LEMMA VisibleFields ==
  ASSUME NEW s, NEW f \in Field
  PROVE  /\ f # "secret" => Visible(s)[f] = Effective(s)[f]
         /\ Visible(s)["secret"] = "blank" => Effective(s)["secret"] = "blank"
<1>1. Effective(s) = [g \in Field |-> Effective(s)[g]]
  BY DEF Effective
<1>2. CASE page = "llm" \/ Effective(s)["secret"] = "blank"
  BY <1>2 DEF Visible
<1>3. CASE ~(page = "llm" \/ Effective(s)["secret"] = "blank")
  <2>1. Visible(s) = [Effective(s) EXCEPT !["secret"] = "set"]
    BY <1>3 DEF Visible
  <2> QED
    BY <1>1, <2>1 DEF Field
<1> QED
  BY <1>2, <1>3

(* What the form sends of a field that was not edited, if it was loaded from what
   is stored. *)
LEMMA Unedited ==
  ASSUME IInv, entry.data = Visible(storage),
         NEW f \in Field, Sends(f), ~Changed(f), f \notin locked
  PROVE  Content(f) = storage[f]
<1>1. Effective(storage)[f] = storage[f]
  BY DEF Effective
<1>2. f # "secret" => entry.data[f] = storage[f]
  BY <1>1, VisibleFields
<1>3. page = "llm" => GroupShown
  <2>1. entry.data["choice"] = Effective(storage)["choice"]
    BY VisibleFields DEF Field
  <2>2. storage["choice"] = "directory" => entry.data["choice"] = "directory"
    BY <2>1 DEF Effective, Environment, Field
  <2> QED
    BY <2>2 DEF IInv, LlmHasNoChoice, GroupShown, InForm
<1>4. CASE f = "secret"
  <2>1. entry.data["secret"] = "blank" => storage["secret"] = "blank"
    BY <1>1, <1>4, VisibleFields
  <2>2. draft[f] # Untouched /\ (page = "identity" => GroupShown)
    BY <1>4 DEF IInv, Sends
  <2>3. draft[f] = "blank" /\ (page = "identity" => entry.data[f] = "blank")
    BY <1>3, <1>4, <2>2 DEF IInv, Changed
  <2>4. page = "identity"
    BY <1>4, <2>3 DEF IInv, Sends
  <2> QED
    BY <1>4, <2>1, <2>2, <2>3, <2>4 DEF Content, InForm
<1>5. CASE f # "secret"
  BY <1>2, <1>3, <1>5 DEF IInv, Content, InForm, Sends, Changed
<1> QED
  BY <1>4, <1>5

LEMMA IInvStep == IInv /\ [Next]_vars => IInv'
<1> SUFFICES ASSUME IInv, [Next]_vars PROVE IInv'
  OBVIOUS
<1> USE DEF IInv, PatchShape
<1>1. CASE Submit
  <2>1. /\ patch'.stage = "sent" /\ DOMAIN patch'.body = {g \in Field : Sends(g)}
        /\ \A f \in DOMAIN patch'.body : patch'.body[f] = Content(f)
        /\ patch'.timely = (entry.data = Visible(storage))
        /\ patch'.edited = {f \in Field : Changed(f)}
        /\ PatchShape'
    BY <1>1 DEF Submit
  <2>2. UNCHANGED <<page, locked, storage, draft, theirs>>
    BY <1>1 DEF Submit
  <2>3. page = "llm" => ~Sends("choice")
    BY DEF Sends
  <2>4. LlmHasNoChoice'
    BY <2>1, <2>2, <2>3 DEF LlmHasNoChoice
  <2>5. BodiesAreHonest'
    <3> SUFFICES ASSUME patch'.timely, NEW f \in DOMAIN patch'.body,
                        f \notin locked, f \notin patch'.edited
                 PROVE  patch'.body[f] = storage[f]
      BY <2>1, <2>2 DEF BodiesAreHonest
    <3>1. f \in Field /\ Sends(f) /\ ~Changed(f)
      BY <2>1
    <3> QED
      BY <2>1, <3>1, Unedited
  <2> QED
    BY <2>1, <2>2, <2>4, <2>5
<1>2. CASE ServeWrite
  <2>1. /\ patch.stage = "read" /\ PatchShape' /\ patch'.stage \in {"done", "refused"}
        /\ patch'.body = patch.body
        /\ UNCHANGED <<page, locked, draft, theirs>>
    BY <1>2 DEF ServeWrite
  <2>2. storage' = storage \/ storage' = Patched(patch.copy, patch.body)
    BY <1>2 DEF ServeWrite, Written
  <2>3. LlmHasNoChoice'
    BY <2>1, <2>2 DEF LlmHasNoChoice, Patched, Given, Field
  <2> QED
    BY <2>1, <2>3 DEF BodiesAreHonest
<1>3. ASSUME NEW f \in Field, NEW v \in Values(f), TheirsWrite(f, v) PROVE IInv'
  <2>1. /\ theirs' = NoData /\ PatchShape' /\ (patch'.timely => patch.timely /\ storage' = storage)
        /\ patch'.stage = patch.stage /\ patch'.body = patch.body
        /\ patch'.copy = patch.copy /\ patch'.edited = patch.edited
        /\ UNCHANGED <<page, locked, draft>>
    BY <1>3 DEF TheirsWrite
  <2>2. \/ storage' = storage
        \/ theirs # NoData /\ storage' = Patched(theirs, [g \in {f} |-> v])
    BY <1>3 DEF TheirsWrite, Written
  <2>3. page = "llm" => f # "choice"
    BY <1>3 DEF TheirsWrite
  <2>4. LlmHasNoChoice'
    BY <2>1, <2>2, <2>3 DEF LlmHasNoChoice, Patched, Given, Field
  <2> QED
    BY <2>1, <2>4 DEF BodiesAreHonest
<1>4. ASSUME NEW f \in Field, NEW v \in Values(f), Edit(f, v) PROVE IInv'
  <2>1. /\ draft' = [draft EXCEPT ![f] = v]
        /\ UNCHANGED <<page, locked, storage, patch, theirs>>
        /\ page = "llm" => f # "choice"
    BY <1>4 DEF Edit, LlmInputs
  <2>2. LlmHasNoChoice'
    BY <2>1 DEF LlmHasNoChoice, Field
  <2> QED
    BY <2>1, <2>2 DEF BodiesAreHonest
<1>5. CASE ServeRead
  BY <1>5 DEF ServeRead, LlmHasNoChoice, BodiesAreHonest
<1>6. CASE TheirsRead
  BY <1>6 DEF TheirsRead, LlmHasNoChoice, BodiesAreHonest
<1>7. CASE PatchDone \/ PatchFails
  <2>1. patch' = Idle /\ (page = "llm" => draft' = draft) /\ (draft' = draft \/ draft' = Clean)
    BY <1>7 DEF IInv, PatchDone, PatchFails
  <2>2. UNCHANGED <<page, locked, storage, theirs>>
    BY <1>7 DEF PatchDone, PatchFails
  <2>3. LlmHasNoChoice'
    BY <2>1, <2>2 DEF LlmHasNoChoice, Idle
  <2>4. PatchShape' /\ BodiesAreHonest'
    BY <2>1 DEF Idle, BodiesAreHonest
  <2> QED
    BY <2>1, <2>2, <2>3, <2>4 DEF Clean
<1>8. CASE Leave \/ TakeGet
  BY <1>8 DEF Leave, TakeGet, Clean, LlmHasNoChoice, BodiesAreHonest, Field
<1>9. CASE UNCHANGED <<page, locked, storage, draft, patch, theirs>>
  BY <1>9 DEF LlmHasNoChoice, BodiesAreHonest
<1> QED
  BY <1>1, <1>2, <1>3, <1>4, <1>5, <1>6, <1>7, <1>8, <1>9
     DEF Next, vars, Open, ServeGet, FailGet, Age

(* The step that such a save is: the handler writes over what is stored. *)
LEMMA TimelyWrite ==
  ASSUME IInv, [Next]_vars, Timely
  PROVE  /\ Accepted(patch.copy, patch.body) /\ storage' = Patched(patch.copy, patch.body)
         /\ patch.copy = storage /\ patch.stage = "read"
<1>1. patch.stage = "read" /\ patch'.stage = "done" /\ patch.timely
  BY DEF Timely
<1>2. ServeWrite
  <2>1. PatchShape
    BY DEF IInv
  <2>2. ~Submit /\ ~ServeRead
    BY <1>1, <2>1 DEF Submit, ServeRead, PatchShape
  <2>3. ~(\E f \in Field : \E v \in Values(f) : TheirsWrite(f, v))
    BY <1>1, <2>1 DEF TheirsWrite, PatchShape
  <2>4. ~PatchDone /\ ~PatchFails
    BY <1>1 DEF PatchDone, PatchFails, Idle
  <2>5. patch' # patch
    BY <1>1
  <2> QED
    BY <2>2, <2>3, <2>4, <2>5 DEF Next, vars, Open, Leave, ServeGet, TakeGet, FailGet, Age, Edit, TheirsRead
<1>3. Accepted(patch.copy, patch.body) /\ storage' = Patched(patch.copy, patch.body)
  BY <1>1, <1>2 DEF ServeWrite, Written, IInv, PatchShape
<1>4. patch.copy = storage
  BY <1>1 DEF IInv, BodiesAreHonest
<1> QED
  BY <1>1, <1>3, <1>4

(* A save that is written on what its form was made from changes only what was
   changed in the form. *)
THEOREM UneditedStay == Spec => UneditedSettingsStay
<1>1. IInv /\ [Next]_vars =>
        [Timely => \A f \in Field : storage'[f] # storage[f] => f \in patch.edited]_vars
  <2> SUFFICES ASSUME IInv, [Next]_vars, Timely, NEW f \in Field, storage'[f] # storage[f]
               PROVE  f \in patch.edited
    OBVIOUS
  <2>1. patch.timely
    BY DEF Timely
  <2>3. /\ Accepted(patch.copy, patch.body) /\ storage' = Patched(patch.copy, patch.body)
        /\ patch.copy = storage /\ patch.stage = "read"
    BY TimelyWrite
  <2>5. f \in Given(patch.body) /\ storage'[f] = patch.body[f]
    BY <2>3 DEF Patched
  <2>6. f \in DOMAIN patch.body /\ f \notin locked
    BY <2>3, <2>5 DEF Given, Accepted
  <2> QED
    BY <2>1, <2>3, <2>5, <2>6 DEF IInv, BodiesAreHonest
<1> QED
  BY <1>1, InitIInv, IInvStep, PTL DEF Spec, UneditedSettingsStay

-----------------------------------------------------------------------------
(* What the types rest on: a form that is shown has data, a GET that was served has
   an answer, a handler that has read has a row, and a body has for each field a
   value of that field. *)
AnswersAreThere ==
  /\ entry.status = "success" => entry.data \in View
  /\ fetch.stage = "served" => fetch.answer \in View
  /\ patch.stage = "read" => patch.copy \in Stored
  /\ \A f \in DOMAIN patch.body : patch.body[f] \in Values(f)

TypeInv == TypeOK /\ AnswersAreThere

(* A function that has for each field a value of that field is a row, and a row
   has for each field a value of that field. *)
LEMMA Rows ==
  ASSUME NEW s
  PROVE  /\ s \in Stored => \A f \in Field : s[f] \in Values(f)
         /\ s = [f \in Field |-> s[f]] /\ (\A f \in Field : s[f] \in Values(f)) => s \in Stored
<1>1. s \in Stored => \A f \in Field : s[f] \in Values(f)
  BY DEF Values
<1>2. /\ Values("switch") \subseteq {"on", "off"} /\ Values("choice") \subseteq {"none", "directory"}
      /\ Values("plain") \subseteq {"blank", "x"} /\ Values("secret") \subseteq {"blank", "s", "t"}
  BY DEF Values, Stored
<1>3. ASSUME s = [f \in Field |-> s[f]], \A f \in Field : s[f] \in Values(f) PROVE s \in Stored
  BY <1>2, <1>3 DEF Stored, Field
<1> QED
  BY <1>1, <1>3

(* What a GET answers: for a secret no more than that it is there. *)
LEMMA VisibleView == ASSUME NEW s \in Stored PROVE Visible(s) \in View
<1>1. Environment \in Stored
  BY DEF Environment, Stored
<1>2. \A f \in Field : Effective(s)[f] \in Values(f)
  BY <1>1, Rows DEF Effective
<1>3. Effective(s) \in Stored
  BY <1>2, Rows DEF Effective
<1> QED
  BY <1>3 DEF Visible, Stored, View

LEMMA ViewValues ==
  ASSUME NEW v \in View, NEW f \in Field, f # "secret"
  PROVE  v[f] \in Values(f)
<1>1. [v EXCEPT !.secret = "blank"] \in Stored
  BY DEF View, Stored
<1> QED
  BY <1>1, Rows DEF View, Field

(* What the form sends for a field is a value of that field. *)
LEMMA ContentValue ==
  ASSUME TypeOK, entry.data \in View, NEW f \in Field
  PROVE  Content(f) \in Values(f)
<1>1. "blank" \in Values("secret")
  <2>1. [switch |-> "on", choice |-> "none", plain |-> "blank", secret |-> "blank"] \in Stored
    BY DEF Stored
  <2> QED
    BY <2>1, Rows DEF Field
<1>2. draft[f] \in Values(f) \cup {Untouched}
  BY DEF TypeOK
<1> QED
  BY <1>1, <1>2, ViewValues DEF Content, InForm

(* A column in which fields get values of theirs is one again. *)
LEMMA PatchedStored ==
  ASSUME NEW s \in Stored, NEW body, \A f \in DOMAIN body : body[f] \in Values(f)
  PROVE  Patched(s, body) \in Stored
<1>1. \A f \in Field : s[f] \in Values(f)
  BY Rows
<1>2. ASSUME NEW f \in Field PROVE Patched(s, body)[f] \in Values(f)
  <2>1. f \in Given(body) => f \in DOMAIN body
    BY DEF Given
  <2> QED
    BY <1>1, <2>1 DEF Patched
<1> QED
  BY <1>2, Rows DEF Patched

LEMMA IdlePatch == Idle \in Patch /\ Idle.stage = "none" /\ DOMAIN Idle.body = {}
<1>1. <<>> \in [{} -> UNION {Values(f) : f \in {}}]
  OBVIOUS
<1>2. <<>> \in Body
  BY <1>1 DEF Body
<1> QED
  BY <1>2 DEF Idle, Patch

(* What becomes of an entry of settings is one. *)
LEMMA Entries ==
  /\ Blank \in Entry(View) /\ Blank.status = "pending"
  /\ \A e \in Entry(View) :
       /\ Asked(e) \in Entry(View) /\ (Asked(e).status = "success" => Asked(e) = e)
       /\ Failed(e) \in Entry(View) /\ Failed(e).status = "error"
       /\ Outdated(e) \in Entry(View) /\ Outdated(e).status = e.status /\ Outdated(e).data = e.data
       /\ \A b \in BOOLEAN : /\ Invalidated(e, b) \in Entry(View) /\ Invalidated(e, b).data = e.data
                             /\ Invalidated(e, b).status = "success" => e.status = "success"
  /\ \A v \in View : Answered(v) \in Entry(View) /\ Answered(v).data = v
<1>1. Blank \in Entry(View) /\ Blank.status = "pending"
  BY DEF Blank, Entry
<1>2. ASSUME NEW e \in Entry(View)
      PROVE  Asked(e) \in Entry(View) /\ (Asked(e).status = "success" => Asked(e) = e)
  BY DEF Entry, Asked
<1>3. ASSUME NEW e \in Entry(View)
      PROVE  /\ Failed(e) \in Entry(View) /\ Failed(e).status = "error"
             /\ Outdated(e) \in Entry(View) /\ Outdated(e).status = e.status /\ Outdated(e).data = e.data
  BY DEF Entry, Failed, Outdated
<1>5. ASSUME NEW e \in Entry(View), NEW b \in BOOLEAN
      PROVE  /\ Invalidated(e, b) \in Entry(View) /\ Invalidated(e, b).data = e.data
             /\ Invalidated(e, b).status = "success" => e.status = "success"
  <2>1. Asked(e).data = e.data /\ (Asked(e).status = "success" => e.status = "success")
    BY DEF Entry, Asked
  <2>2. /\ Asked(e) \in Entry(View)
        /\ \A x \in {e, Asked(e)} : /\ Outdated(x) \in Entry(View)
                                    /\ Outdated(x).status = x.status /\ Outdated(x).data = x.data
    BY <1>2, <1>3
  <2> QED
    BY <2>1, <2>2 DEF Invalidated
<1>4. ASSUME NEW v \in View PROVE Answered(v) \in Entry(View) /\ Answered(v).data = v
  BY DEF Entry, Answered
<1> QED
  BY <1>1, <1>2, <1>3, <1>4, <1>5

LEMMA InitTypes == Init => TypeInv
<1> SUFFICES ASSUME Init PROVE TypeInv
  OBVIOUS
<1>1. locked \subseteq Field
  BY LocksAssumption DEF Init, Field
<1>2. patch \in Patch /\ patch.stage = "none" /\ DOMAIN patch.body = {}
  BY IdlePatch DEF Init
<1>3. entry \in Entry(View) /\ entry.status = "pending"
  BY Entries DEF Init
<1>4. DOMAIN draft = Field /\ \A f \in Field : draft[f] = Untouched
  BY DEF Init, Clean
<1>5. page \in {"identity", "llm"} /\ storage \in Stored /\ open = FALSE
  BY DEF Init
<1>6. /\ fetch \in [stage : {"none", "sent", "served"}, answer : View \cup {NoData}]
      /\ fetch.stage = "none"
  BY DEF Init, NoFetch
<1>7. theirs \in Stored \cup {NoData} /\ rivals \in 0..MaxRivals /\ edits \in 0..MaxEdits
  BY BoundsAssumption DEF Init
<1>8. TypeOK
  BY <1>1, <1>2, <1>3, <1>4, <1>5, <1>6, <1>7 DEF TypeOK
<1> QED
  BY <1>2, <1>3, <1>6, <1>8 DEF TypeInv, AnswersAreThere

LEMMA TypeStep == TypeInv /\ [Next]_vars => TypeInv'
<1> SUFFICES ASSUME TypeInv, [Next]_vars PROVE TypeInv'
  OBVIOUS
<1> USE DEF TypeInv, TypeOK, AnswersAreThere
<1>1. CASE Open \/ FailGet \/ Age
  <2>1. UNCHANGED <<page, locked, storage, draft, patch, theirs, rivals, edits>> /\ open' \in BOOLEAN
    BY <1>1 DEF Open, FailGet, Age
  <2>2. /\ entry' \in Entry(View) /\ (entry'.status = "success" => entry'.data \in View)
        /\ fetch' \in {fetch, Sent, NoFetch}
    <3>1. CASE Open
      BY <3>1, Entries DEF Open
    <3>2. CASE FailGet
      BY <3>2, Entries DEF FailGet
    <3>3. CASE Age
      BY <3>3, Entries DEF Age
    <3> QED
      BY <1>1, <3>1, <3>2, <3>3
  <2> QED
    BY <2>1, <2>2 DEF Sent, NoFetch
<1>2. CASE Leave
  BY <1>2 DEF Leave, Clean
<1>3. CASE ServeGet
  BY <1>3, VisibleView DEF ServeGet
<1>4. CASE TakeGet
  BY <1>4, Entries DEF TakeGet, NoFetch, Clean
<1>5. ASSUME NEW f \in Field, NEW v \in Values(f), Edit(f, v) PROVE TypeInv'
  BY <1>5, BoundsAssumption DEF Edit
<1>6. CASE Submit
  <2>1. /\ entry.data \in View
        /\ patch'.body = [f \in {g \in Field : Sends(g)} |-> Content(f)]
        /\ UNCHANGED <<page, locked, storage, open, entry, fetch, draft, theirs, rivals, edits>>
    BY <1>6 DEF Submit, FormShown
  <2>2. \A f \in DOMAIN patch'.body : patch'.body[f] \in Values(f)
    BY <2>1, ContentValue
  <2>3. patch'.body \in Body
    <3> DEFINE F == {g \in Field : Sends(g)}
    <3>1. F \in SUBSET Field /\ patch'.body \in [F -> UNION {Values(f) : f \in F}]
      BY <2>1, <2>2
    <3> QED
      BY <3>1 DEF Body
  <2>4. patch' \in Patch /\ patch'.stage = "sent"
    BY <1>6, <2>3 DEF Submit, Patch
  <2> QED
    BY <2>1, <2>2, <2>4
<1>7. CASE ServeRead
  BY <1>7 DEF ServeRead, Patch
<1>8. CASE ServeWrite
  <2>1. storage' \in Stored
    BY <1>8, PatchedStored DEF ServeWrite, Written
  <2> QED
    BY <1>8, <2>1 DEF ServeWrite, Patch
<1>9. CASE PatchDone
  <2>1. entry' = Invalidated(entry, open) /\ fetch' \in {fetch, Sent} /\ draft' \in {draft, Clean}
    BY <1>9 DEF PatchDone
  <2>2. entry' \in Entry(View) /\ (entry'.status = "success" => entry'.data \in View)
    <3>1. entry \in Entry(View) /\ open \in BOOLEAN /\ (entry.status = "success" => entry.data \in View)
      OBVIOUS
    <3> DEFINE i == Invalidated(entry, open)
    <3>2. i \in Entry(View) /\ i.data = entry.data /\ (i.status = "success" => entry.status = "success")
      BY <3>1, Entries
    <3> HIDE DEF i, TypeInv, TypeOK, AnswersAreThere
    <3>3. entry' = i
      BY <2>1 DEF i
    <3> QED
      BY <3>1, <3>2, <3>3
  <2>3. /\ UNCHANGED <<page, locked, storage, open, theirs, rivals, edits>> /\ patch' = Idle
    BY <1>9 DEF PatchDone
  <2>4. /\ fetch' \in [stage : {"none", "sent", "served"}, answer : View \cup {NoData}]
        /\ fetch'.stage = "served" => fetch'.answer \in View
    BY <2>1 DEF Sent
  <2>5. DOMAIN draft' = Field /\ \A f \in Field : draft'[f] \in Values(f) \cup {Untouched}
    BY <2>1 DEF Clean
  <2> QED
    BY <2>2, <2>3, <2>4, <2>5, IdlePatch
<1>13. CASE PatchFails
  BY <1>13, IdlePatch DEF PatchFails
<1>10. CASE TheirsRead
  BY <1>10, BoundsAssumption DEF TheirsRead
<1>11. ASSUME NEW f \in Field, NEW v \in Values(f), TheirsWrite(f, v) PROVE TypeInv'
  <2>1. storage' \in Stored
    BY <1>11, PatchedStored DEF TheirsWrite, Written
  <2> QED
    BY <1>11, <2>1 DEF TheirsWrite, Patch
<1>12. CASE UNCHANGED vars
  BY <1>12 DEF vars
<1> QED
  BY <1>1, <1>2, <1>3, <1>4, <1>5, <1>6, <1>7, <1>8, <1>9, <1>10, <1>11, <1>12, <1>13 DEF Next

(* Every variable keeps its type. *)
THEOREM TypeCorrectness == Spec => []TypeOK
<1>1. TypeInv => TypeOK
  BY DEF TypeInv
<1> QED
  BY <1>1, InitTypes, TypeStep, PTL DEF Spec

-----------------------------------------------------------------------------
(* A field that was changed in the form is sent with something to do: with another
   value than is stored, with the secret that is stored, or as the base URL that
   cannot be cleared. *)
Persists(f) ==
  /\ f \in DOMAIN patch.body
  /\ \/ f \in Given(patch.body) /\ patch.body[f] # storage[f]
     \/ f = "secret" /\ patch.body["secret"] = storage["secret"]
     \/ page = "llm" /\ f = "plain" /\ patch.body["plain"] = "blank"

(* As long as nobody has written since the form was loaded. *)
SaveHasWork == patch.stage \in {"sent", "read"} /\ patch.timely => \E f \in patch.edited : Persists(f)

WorkInv == IInv /\ TypeInv /\ SaveHasWork

LEMMA EditedPersists ==
  ASSUME IInv, TypeInv, entry.data = Visible(storage), FormShown,
         NEW body, body = [g \in {h \in Field : Sends(h)} |-> Content(g)],
         NEW f \in Field, Changed(f)
  PROVE  /\ f \in DOMAIN body
         /\ \/ f \in Given(body) /\ body[f] # storage[f]
            \/ f = "secret" /\ body["secret"] = storage["secret"]
            \/ page = "llm" /\ f = "plain" /\ body["plain"] = "blank"
<1>1. /\ f \notin locked /\ draft[f] # Untouched /\ draft[f] \in Values(f) \cup {Untouched}
      /\ page \in {"identity", "llm"}
  BY DEF Changed, TypeInv, TypeOK
<1>2. Effective(storage)[f] = storage[f]
  BY <1>1 DEF Effective
<1>3. page = "llm" => f # "choice"
  BY <1>1 DEF IInv, LlmHasNoChoice
<1>4. Content(f) = draft[f]
  BY <1>1 DEF Content, InForm
<1>5. CASE f # "secret"
  <2>1. draft[f] # storage[f]
    BY <1>2, <1>5, VisibleFields DEF Changed
  <2>2. Sends(f)
    BY <1>1, <1>3, <1>5 DEF Sends, Changed, Field
  <2>3. f \in DOMAIN body /\ body[f] = draft[f]
    BY <1>4, <2>2
  <2>4. page = "llm" /\ f = "switch" => draft[f] # "blank"
    BY <1>1 DEF Values, Stored
  <2> QED
    BY <1>1, <1>3, <1>5, <2>1, <2>3, <2>4 DEF Given, Field
<1>6. CASE f = "secret"
  <2>1. draft[f] # "blank" \/ (page = "identity" /\ entry.data[f] # "blank")
    BY <1>6 DEF Changed
  <2>2. Sends(f)
    BY <1>1, <1>6, <2>1 DEF Sends, Changed, Field
  <2>3. f \in DOMAIN body /\ body[f] = draft[f]
    BY <1>4, <2>2
  <2>4. CASE draft[f] # "blank"
    BY <1>6, <2>3, <2>4 DEF Given
  <2>5. CASE draft[f] = "blank"
    <3>1. page = "identity" /\ Visible(storage)["secret"] # "blank"
      BY <1>6, <2>1, <2>5
    <3>2. storage["secret"] # "blank"
      <4>1. Effective(storage).secret = storage["secret"]
        BY <1>2, <1>6
      <4> QED
        BY <3>1, <4>1 DEF Visible
    <3> QED
      BY <1>6, <2>3, <2>5, <3>1, <3>2 DEF Given
  <2> QED
    BY <2>4, <2>5
<1> QED
  BY <1>5, <1>6

LEMMA WorkStep == WorkInv /\ [Next]_vars => SaveHasWork'
<1> SUFFICES ASSUME WorkInv, [Next]_vars PROVE SaveHasWork'
  OBVIOUS
<1>1. IInv /\ TypeInv /\ SaveHasWork /\ PatchShape
  BY DEF WorkInv, IInv
<1>2. CASE Submit
  <2> DEFINE body == [f \in {g \in Field : Sends(g)} |-> Content(f)]
  <2>1. /\ patch'.body = body /\ patch'.timely = (entry.data = Visible(storage))
        /\ patch'.edited = {f \in Field : Changed(f)}
        /\ UNCHANGED <<page, storage>> /\ FormShown
    BY <1>2 DEF Submit
  <2> SUFFICES ASSUME patch'.timely PROVE \E f \in patch'.edited : Persists(f)'
    BY DEF SaveHasWork
  <2>2. PICK f \in Field : Changed(f)
    BY <1>2 DEF Submit, HasUnsavedChanges
  <2> HIDE DEF body
  <2>3. /\ f \in DOMAIN body
        /\ \/ f \in Given(body) /\ body[f] # storage[f]
           \/ f = "secret" /\ body["secret"] = storage["secret"]
           \/ page = "llm" /\ f = "plain" /\ body["plain"] = "blank"
    BY <1>1, <2>1, <2>2, EditedPersists DEF body
  <2>4. Persists(f)'
    BY <2>1, <2>3 DEF Persists, Given
  <2> QED
    BY <2>1, <2>2, <2>4
<1>3. CASE \/ UNCHANGED <<page, storage, patch>>
           \/ ServeRead
           \/ \E f \in Field : \E v \in Values(f) : TheirsWrite(f, v)
  <2>1. /\ patch'.body = patch.body /\ patch'.edited = patch.edited /\ page' = page
        /\ patch'.stage \in {"sent", "read"} => patch.stage \in {"sent", "read"}
        /\ patch'.timely => patch.timely /\ storage' = storage
    <3>1. CASE UNCHANGED <<page, storage, patch>>
      BY <3>1
    <3>2. CASE ServeRead
      BY <1>1, <3>2 DEF ServeRead, PatchShape
    <3>3. ASSUME NEW f \in Field, NEW v \in Values(f), TheirsWrite(f, v)
          PROVE  /\ patch'.body = patch.body /\ patch'.edited = patch.edited /\ page' = page
                 /\ patch'.stage = patch.stage
                 /\ patch'.timely => patch.timely /\ storage' = storage
      BY <1>1, <3>3 DEF TheirsWrite, PatchShape
    <3> QED
      BY <1>3, <3>1, <3>2, <3>3
  <2> SUFFICES ASSUME patch'.stage \in {"sent", "read"}, patch'.timely
               PROVE  \E f \in patch'.edited : Persists(f)'
    BY DEF SaveHasWork
  <2>2. PICK f \in patch.edited : Persists(f)
    BY <1>1, <2>1 DEF SaveHasWork
  <2>3. Persists(f)'
    BY <2>1, <2>2 DEF Persists, Given
  <2> QED
    BY <2>1, <2>2, <2>3
<1>4. CASE ServeWrite \/ PatchDone \/ PatchFails
  <2>1. patch'.stage \notin {"sent", "read"}
    BY <1>1, <1>4 DEF ServeWrite, PatchDone, PatchFails, Idle, PatchShape
  <2> QED
    BY <2>1 DEF SaveHasWork
<1> QED
  BY <1>2, <1>3, <1>4 DEF Next, vars, Open, Leave, ServeGet, TakeGet, FailGet, Age, Edit, TheirsRead

(* A save that is written on what its form was made from changes what is stored,
   but for a secret typed again and a base URL that cannot be cleared: the button
   is not enabled for nothing. *)
THEOREM SavesHavePersisted == Spec => SavesPersist
<1>1. Init => WorkInv
  BY InitIInv, InitTypes DEF WorkInv, SaveHasWork, Init, Idle
<1>2. WorkInv /\ [Next]_vars => WorkInv'
  BY IInvStep, TypeStep, WorkStep DEF WorkInv
<1>3. WorkInv /\ [Next]_vars =>
        [Timely => \/ storage' # storage
                   \/ "secret" \in DOMAIN patch.body /\ patch.body.secret = storage.secret
                   \/ page = "llm" /\ "plain" \in patch.edited /\ patch.body.plain = "blank"]_vars
  <2> SUFFICES ASSUME WorkInv, [Next]_vars, Timely
               PROVE  \/ storage' # storage
                      \/ "secret" \in DOMAIN patch.body /\ patch.body.secret = storage.secret
                      \/ page = "llm" /\ "plain" \in patch.edited /\ patch.body.plain = "blank"
    OBVIOUS
  <2>1. IInv /\ SaveHasWork /\ TypeInv
    BY DEF WorkInv
  <2>2. patch.timely
    BY DEF Timely
  <2>4. storage' = Patched(patch.copy, patch.body) /\ patch.copy = storage /\ patch.stage = "read"
    BY <2>1, TimelyWrite
  <2>5. PICK f \in patch.edited : Persists(f)
    BY <2>1, <2>2, <2>4 DEF SaveHasWork
  <2>6. f \in Field
    BY <2>1 DEF TypeInv, TypeOK, Patch
  <2>7. f \in Given(patch.body) => storage'[f] = patch.body[f]
    BY <2>4, <2>6 DEF Patched
  <2> QED
    BY <2>5, <2>7 DEF Persists
<1> QED
  BY <1>1, <1>2, <1>3, PTL DEF Spec, SavesPersist
=============================================================================
