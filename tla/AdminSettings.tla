----------------------------- MODULE AdminSettings -----------------------------
(***************************************************************************)
(* The two settings pages of administrators, Sign-in & identity and LLM &  *)
(* AI assistant: one JSON column of the organization each, settings of the *)
(* environment that override it, a form over a cached GET and a PATCH of   *)
(* the whole form.  A behaviour is about one of the two pages in the       *)
(* console of one administrator, while others patch the same column.       *)
(***************************************************************************)
EXTENDS QueryCache, Naturals

CONSTANTS
  Untouched,   \* the form shows what the server has
  Locks,       \* the sets of fields that an environment may override
  MaxEdits,    \* bound on what the administrator types and selects
  MaxRivals    \* bound on the patches of others

ASSUME LocksAssumption == Locks \subseteq SUBSET {"switch", "choice", "plain", "secret"}
ASSUME BoundsAssumption == MaxEdits \in Nat /\ MaxRivals \in Nat

VARIABLES
  page,       \* which of the two pages
  locked,     \* settings that the environment overrides
  storage,    \* server: identityConfig or llmConfig
  open,       \* the page is mounted
  entry,      \* the cache entry of the settings
  fetch,      \* the GET under way
  draft,      \* what the form holds instead of what the server has
  patch,      \* the PATCH of this form
  theirs,     \* what the handler of somebody else's PATCH has read
  rivals,     \* such PATCHes so far
  edits       \* edits so far

vars == <<page, locked, storage, open, entry, fetch, draft, patch, theirs, rivals, edits>>

-----------------------------------------------------------------------------
(* switch: local accounts, or the assistant, are enabled.  choice: the external
   directory (the assistant's page has none to choose).  plain and secret: a
   setting of the one directory, or of the model's provider.  "blank" stands
   for null and for the empty string, which nothing tells apart. *)
Field == {"switch", "choice", "plain", "secret"}
Stored == [switch : {"on", "off"}, choice : {"none", "directory"},
           plain : {"blank", "x"}, secret : {"blank", "s", "t"}]
View == [switch : {"on", "off"}, choice : {"none", "directory"},
         plain : {"blank", "x"}, secret : {"blank", "s", "t", "set"}]
Values(f) == {s[f] : s \in Stored}
Body == UNION {[F -> UNION {Values(f) : f \in F}] : F \in SUBSET Field}

(* What the environment says of the fields it overrides. *)
Environment == [switch |-> "off", choice |-> "directory", plain |-> "x", secret |-> "s"]
Effective(s) == [f \in Field |-> IF f \in locked THEN Environment[f] ELSE s[f]]

(* The GET: a secret of the sign-in page is only said to be there, the key of the
   assistant is told by its last characters. *)
Visible(s) == LET e == Effective(s) IN
  IF page = "llm" \/ e.secret = "blank" THEN e ELSE [e EXCEPT !.secret = "set"]

(* Some way to sign in is left. *)
SignIn(s) == page = "llm" \/ Effective(s).switch = "on" \/ Effective(s).choice # "none"

Idle == [stage |-> "none", body |-> <<>>, copy |-> NoData, timely |-> FALSE, edited |-> {}]
Patch == [stage : {"none", "sent", "read", "done", "refused"}, body : Body,
          copy : Stored \cup {NoData},      \* what the handler has read
          timely : BOOLEAN,                 \* history: the form had what is stored, and
                                            \* nobody has written since
          edited : SUBSET Field]            \* history: what was changed in the form

TypeOK == /\ page \in {"identity", "llm"} /\ locked \subseteq Field
          /\ storage \in Stored
          /\ open \in BOOLEAN
          /\ entry \in Entry(View)
          /\ fetch \in [stage : {"none", "sent", "served"}, answer : View \cup {NoData}]
          /\ DOMAIN draft = Field /\ \A f \in Field : draft[f] \in Values(f) \cup {Untouched}
          /\ patch \in Patch
          /\ theirs \in Stored \cup {NoData} /\ rivals \in 0..MaxRivals /\ edits \in 0..MaxEdits

NoFetch == [stage |-> "none", answer |-> NoData]
Sent == [stage |-> "sent", answer |-> NoData]
Clean == [f \in Field |-> Untouched]

Init == /\ page \in {"identity", "llm"}
        /\ locked \in {L \in Locks : page = "llm" => "choice" \notin L}
        /\ storage \in {s \in Stored : SignIn(s) /\ s.secret # "t" /\ (page = "llm" => s.choice = "directory")}
        /\ open = FALSE
        /\ entry = Blank
        /\ fetch = NoFetch
        /\ draft = Clean
        /\ patch = Idle
        /\ theirs = NoData /\ rivals = 0 /\ edits = 0

-----------------------------------------------------------------------------
(* The form. *)
InForm(f) == IF draft[f] = Untouched THEN entry.data[f] ELSE draft[f]
GroupShown == InForm("choice") # "none"
FormShown == open /\ entry.status = "success"

(* Mutant: a secret counts as changed as soon as its input was touched. *)
Changed_Touched(f) ==
  /\ f \notin locked /\ draft[f] # Untouched
  /\ f \in {"plain", "secret"} => GroupShown
  /\ f # "secret" => draft[f] # entry.data[f]

(* groupDirty and the comparisons of the two pages. *)
Changed(f) ==
  /\ f \notin locked /\ draft[f] # Untouched
  /\ f \in {"plain", "secret"} => GroupShown
  /\ IF f = "secret" THEN draft[f] # "blank" \/ (page = "identity" /\ entry.data[f] # "blank")
     ELSE draft[f] # entry.data[f]

HasUnsavedChanges == \E f \in Field : Changed(f)

(* Mutant: the input of a secret is sent like the others. *)
Sends_Secret(f) ==
  IF page = "llm" THEN f \in {"switch", "plain"} \/ (f = "secret" /\ draft[f] \notin {Untouched, "blank"})
  ELSE f \notin locked /\ (f \in {"plain", "secret"} => GroupShown)

(* buildPatch, and the body that the assistant's page makes, which sends fields
   that the environment overrides, too. *)
Sends(f) ==
  IF page = "llm" THEN f \in {"switch", "plain"} \/ (f = "secret" /\ draft[f] \notin {Untouched, "blank"})
  ELSE /\ f \notin locked /\ (f \in {"plain", "secret"} => GroupShown)
       /\ f = "secret" => draft[f] # Untouched

(* A secret that was not typed has an empty input. *)
Content(f) == IF f = "secret" /\ draft[f] = Untouched THEN "blank" ELSE InForm(f)

-----------------------------------------------------------------------------
Asks == fetch.stage = "none" /\ Wants(entry)

(* The page is opened, or the window gets the focus back. *)
Open ==
  /\ open' = TRUE
  /\ entry' = IF Asks THEN Asked(entry) ELSE entry
  /\ fetch' = IF Asks THEN Sent ELSE fetch
  /\ UNCHANGED <<page, locked, storage, draft, patch, theirs, rivals, edits>>

(* A PATCH under way goes on, and its onSuccess still invalidates. *)
Leave ==
  /\ open
  /\ open' = FALSE
  /\ draft' = Clean
  /\ UNCHANGED <<page, locked, storage, entry, fetch, patch, theirs, rivals, edits>>

ServeGet ==
  /\ fetch.stage = "sent"
  /\ fetch' = [stage |-> "served", answer |-> Visible(storage)]
  /\ UNCHANGED <<page, locked, storage, open, entry, draft, patch, theirs, rivals, edits>>

(* The assistant's page has an effect that fills the form from new data. *)
TakeGet ==
  /\ fetch.stage = "served"
  /\ entry' = Answered(fetch.answer)
  /\ fetch' = NoFetch
  /\ draft' = IF page = "llm" /\ entry.data # fetch.answer THEN Clean ELSE draft
  /\ UNCHANGED <<page, locked, storage, open, patch, theirs, rivals, edits>>

FailGet ==
  /\ fetch.stage # "none"
  /\ entry' = Failed(entry)
  /\ fetch' = NoFetch
  /\ UNCHANGED <<page, locked, storage, open, draft, patch, theirs, rivals, edits>>

(* 30 seconds pass. *)
Age ==
  /\ entry.status = "success" /\ ~entry.old
  /\ entry' = Outdated(entry)
  /\ UNCHANGED <<page, locked, storage, open, fetch, draft, patch, theirs, rivals, edits>>

(* The radio buttons are disabled while a PATCH is under way, the inputs are not;
   those of a directory are there only while it is chosen. *)
IdentityInputs == {f \in Field : /\ f = "choice" => patch.stage = "none"
                                 /\ f \in {"plain", "secret"} => GroupShown}

(* The assistant's page has no choice to make. *)
LlmInputs == Field \ {"choice"}

Edit(f, v) ==
  /\ FormShown /\ f \notin locked
  /\ f \in IF page = "identity" THEN IdentityInputs ELSE LlmInputs
  /\ draft' = [draft EXCEPT ![f] = v]
  /\ edits < MaxEdits /\ edits' = edits + 1
  /\ UNCHANGED <<page, locked, storage, open, entry, fetch, patch, theirs, rivals>>

Submit ==
  /\ FormShown /\ patch.stage = "none" /\ HasUnsavedChanges
  /\ patch' =
       [stage |-> "sent", body |-> [f \in {g \in Field : Sends(g)} |-> Content(f)],
        copy |-> NoData, timely |-> entry.data = Visible(storage), edited |-> {f \in Field : Changed(f)}]
  /\ UNCHANGED <<page, locked, storage, open, entry, fetch, draft, theirs, rivals, edits>>

-----------------------------------------------------------------------------
(* patch_admin_identity, patch_admin_llm: the row is read, ... *)
ServeRead ==
  /\ patch.stage = "sent"
  /\ patch' = [patch EXCEPT !.stage = "read", !.copy = storage]
  /\ UNCHANGED <<page, locked, storage, open, entry, fetch, draft, theirs, rivals, edits>>

(* Fields that are in the body and count; the assistant's handler skips null, so
   that its page cannot clear the base URL. *)
Given(body) == {f \in DOMAIN body : page = "identity" \/ body[f] # "blank"}

Patched(s, body) == [f \in Field |-> IF f \in Given(body) THEN body[f] ELSE s[f]]

Accepted(s, body) == Given(body) \cap locked = {} /\ SignIn(Patched(s, body))

(* Mutant: the fields are set one by one in what is stored by now. *)
Written_Merged(s, body) == Patched(storage, body)

(* Mutant: the body takes the place of the column. *)
Written_Body(s, body) == body

(* ... and the whole column is written from what was read. *)
Written(s, body) == Patched(s, body)

ServeWrite ==
  /\ patch.stage = "read"
  /\ IF Accepted(patch.copy, patch.body)
     THEN storage' = Written(patch.copy, patch.body) /\ patch' = [patch EXCEPT !.stage = "done"]
     ELSE patch' = [patch EXCEPT !.stage = "refused"] /\ UNCHANGED storage
  /\ UNCHANGED <<page, locked, open, entry, fetch, draft, theirs, rivals, edits>>

(* Somebody else, in another console or through the API, patches one field. *)
TheirsRead ==
  /\ theirs = NoData /\ rivals < MaxRivals
  /\ theirs' = storage /\ rivals' = rivals + 1
  /\ UNCHANGED <<page, locked, storage, open, entry, fetch, draft, patch, edits>>

TheirsWrite(f, v) ==
  /\ theirs # NoData /\ (f = "choice" => page = "identity")
  /\ theirs' = NoData
  /\ LET body == [g \in {f} |-> v]
     IN storage' = IF Accepted(theirs, body) THEN Written(theirs, body) ELSE storage
  /\ patch' = [patch EXCEPT !.timely = @ /\ storage' = storage]
  /\ UNCHANGED <<page, locked, open, entry, fetch, draft, rivals, edits>>

(* onSuccess: the settings are asked for again; the sign-in page drops what the
   form holds, also what was typed since. *)
PatchDone ==
  /\ patch.stage = "done"
  /\ patch' = Idle
  /\ entry' = Invalidated(entry, open)
  /\ fetch' = IF Refetches(entry, open, fetch.stage = "none") THEN Sent ELSE fetch
  /\ draft' = IF page = "identity" THEN Clean ELSE draft
  /\ UNCHANGED <<page, locked, storage, open, theirs, rivals, edits>>

(* The PATCH is refused, or it or its answer is lost. *)
PatchFails ==
  /\ patch.stage # "none"
  /\ patch' = Idle
  /\ UNCHANGED <<page, locked, storage, open, entry, fetch, draft, theirs, rivals, edits>>

Next == \/ Open \/ Leave \/ ServeGet \/ TakeGet \/ FailGet \/ Age
        \/ \E f \in Field : \E v \in Values(f) : Edit(f, v) \/ TheirsWrite(f, v)
        \/ Submit \/ ServeRead \/ ServeWrite \/ PatchDone \/ PatchFails
        \/ TheirsRead

Spec == Init /\ [][Next]_vars

-----------------------------------------------------------------------------
(* However patches overlap, some way to sign in stays enabled: each writes the
   whole column, and a whole that leaves none is refused. *)
SomeSignInRemains == SignIn(storage)

(* The PATCH of the form is written on what it was made from. *)
Timely == patch.stage = "read" /\ patch'.stage = "done" /\ patch.timely

(* A save sends more than was changed, but if nobody wrote since the form was
   loaded, nothing changes that was not changed in the form: no secret goes with
   an input that was left empty, no setting of a directory that is not shown. *)
UneditedSettingsStay ==
  [][Timely => \A f \in Field : storage'[f] # storage[f] => f \in patch.edited]_vars

(* The button is enabled only for something to persist: if nobody wrote since,
   the save changes what is stored.  The exceptions are a secret that is typed
   again as it was, and the base URL of the assistant, which cannot be cleared. *)
SavesPersist ==
  [][Timely => \/ storage' # storage
               \/ "secret" \in DOMAIN patch.body /\ patch.body.secret = storage.secret
               \/ page = "llm" /\ "plain" \in patch.edited /\ patch.body.plain = "blank"]_vars
=============================================================================
