---------------------------- MODULE ConsoleSession ----------------------------
(***************************************************************************)
(* The session of the web console (src/platform/web/src): who the console  *)
(* shows, which pages it lets in, and the pinned pages, which the sidebar  *)
(* and the page menus rewrite as whole lists.  Everything is read from one *)
(* cached GET /v1/me.  The session itself is a cookie the server set.      *)
(***************************************************************************)
EXTENDS QueryCache, Naturals

CONSTANTS
  Users,          \* users who sign in with this browser
  Admins,         \* those whose role is ADMIN
  Pages,          \* pages that can be pinned
  Nobody,         \* no session
  NoPage,         \* nothing is being pinned
  MaxFailures     \* bound on lost requests and answers

ASSUME NobodyAssumption == Nobody \notin Users
ASSUME AdminsAssumption == Admins \subseteq Users
ASSUME NoPageAssumption == NoPage \notin Pages
ASSUME FailuresAssumption == MaxFailures \in Nat

(* The × of the sidebar and the entry of the page menu: a mutation each. *)
Controls == {"sidebar", "menu"}

VARIABLES
  session,    \* server: whose session the browser's cookie opens
  pins,       \* server: preferences.pinnedPages of each user
  me,         \* the cache entry ["me"]
  fetch,      \* the GET /v1/me under way
  route,      \* what the router shows
  patch,      \* the PATCH /v1/me of each control
  failures,   \* requests and answers lost so far
  (* history variables *)
  drifted,    \* since the last answer to GET /v1/me, what it said has changed untold
  overtaken   \* controls whose list was out of date when it was clicked, or is since

vars == <<session, pins, me, fetch, route, patch, failures, drifted, overtaken>>

-----------------------------------------------------------------------------
Profile == [user : Users, pins : SUBSET Pages]

ASSUME NoDataAssumption == NoData \notin Profile

Fetch == [stage : {"none", "sent", "served"}, answer : Profile \cup {Nobody}]
Patch == [stage : {"none", "sent", "served", "refused"}, page : Pages \cup {NoPage}, list : SUBSET Pages]

TypeOK == /\ session \in Users \cup {Nobody}
          /\ pins \in [Users -> SUBSET Pages]
          /\ me \in Entry(Profile)
          /\ fetch \in Fetch
          /\ route \in {"login", "console", "admin"}
          /\ patch \in [Controls -> Patch]
          /\ failures \in 0..MaxFailures
          /\ drifted \in BOOLEAN
          /\ overtaken \subseteq Controls

NoFetch == [stage |-> "none", answer |-> Nobody]
Sent == [stage |-> "sent", answer |-> Nobody]
NoPatch == [stage |-> "none", page |-> NoPage, list |-> {}]
Quiet(c) == patch[c].stage = "none"
Stored == [user |-> session, pins |-> pins[session]]

(* The page has just been loaded. *)
Init == /\ session \in Users \cup {Nobody}
        /\ pins = [u \in Users |-> {}]
        /\ me = Blank
        /\ fetch = Sent
        /\ route = "console"
        /\ patch = [c \in Controls |-> NoPatch]
        /\ failures = 0
        /\ drifted = FALSE
        /\ overtaken = {}

-----------------------------------------------------------------------------
(* The components of the console read ["me"]; the sign-in page does not. *)
Observed == route # "login"

(* RequireAuth sends the console to the sign-in page on an error, also while
   earlier data are still there; RequireAdmin sends those without the role back. *)
Admit(e, r) ==
  IF e.status = "error" THEN "login"
  ELSE IF r = "admin" /\ ~Loading(e) /\ e.data.user \notin Admins THEN "console"
  ELSE r

(* Mutant: an entry with data is not asked for again after a failure. *)
Asks_Missing(e, f) == f.stage = "none" /\ e.data = NoData

(* Mounting a component that reads the entry makes the cache ask. *)
Asks(e, f) == f.stage = "none" /\ Wants(e)

(* A page is opened, by its route or with the back button, or the window gets
   the focus back.  The guards look at the entry as it is. *)
Open(r) ==
  /\ me' = IF Asks(me, fetch) THEN Asked(me) ELSE me
  /\ fetch' = IF Asks(me, fetch) THEN Sent ELSE fetch
  /\ route' = Admit(me', r)

Navigate(r) ==
  /\ Open(r)
  /\ UNCHANGED <<session, pins, patch, failures, drifted, overtaken>>

(* GET /v1/me: the cookie decides for whom. *)
ServeMe ==
  /\ fetch.stage = "sent"
  /\ fetch' = [stage |-> "served", answer |-> IF session = Nobody THEN Nobody ELSE Stored]
  /\ drifted' = FALSE
  /\ UNCHANGED <<session, pins, me, route, patch, failures, overtaken>>

(* Mutant: an error status is taken for an answer. *)
AnswerMe_Any ==
  /\ fetch.stage = "served"
  /\ me' = Answered(fetch.answer)
  /\ route' = "console"
  /\ fetch' = NoFetch
  /\ UNCHANGED <<session, pins, patch, failures, drifted, overtaken>>

AnswerMe ==
  /\ fetch.stage = "served" /\ fetch.answer # Nobody
  /\ me' = Answered(fetch.answer)
  /\ route' = Admit(me', route)
  /\ fetch' = NoFetch
  /\ UNCHANGED <<session, pins, patch, failures, drifted, overtaken>>

(* 401, or the network fails after the last retry. *)
FailMe ==
  /\ \/ fetch.stage = "served" /\ fetch.answer = Nobody /\ UNCHANGED failures
     \/ fetch.stage # "none" /\ failures < MaxFailures /\ failures' = failures + 1
  /\ me' = Failed(me)
  /\ route' = Admit(me', route)
  /\ fetch' = NoFetch
  /\ UNCHANGED <<session, pins, patch, drifted, overtaken>>

(* 30 seconds pass. *)
Age ==
  /\ me.status = "success" /\ ~me.old
  /\ me' = Outdated(me)
  /\ UNCHANGED <<session, pins, fetch, route, patch, failures, drifted, overtaken>>

-----------------------------------------------------------------------------
(* What is shown is what the server has, as far as the console can know. *)
Current == me.data # NoData /\ ~me.old /\ fetch.stage = "none" /\ ~drifted

Toggled(list, page) == IF page \in list THEN list \ {page} ELSE list \cup {page}

(* unpinOne and togglePin send the list they see, without the page or with it.
   Each control is disabled while its own request is under way. *)
TogglePin(c, page) ==
  /\ Observed /\ me.data # NoData /\ Quiet(c)
  /\ c = "sidebar" => page \in me.data.pins
  /\ patch' = [patch EXCEPT ![c] = [stage |-> "sent", page |-> page,
                                    list |-> Toggled(me.data.pins, page)]]
  /\ overtaken' = IF Current /\ (\A d \in Controls : Quiet(d)) THEN overtaken \ {c}
                  ELSE overtaken \cup {c}
  /\ UNCHANGED <<session, pins, me, fetch, route, failures, drifted>>

(* patch_me replaces the key pinnedPages of the signed-in user's preferences. *)
ServePatch(c) ==
  /\ patch[c].stage = "sent"
  /\ IF session = Nobody
     THEN /\ patch' = [patch EXCEPT ![c] = [NoPatch EXCEPT !.stage = "refused"]]
          /\ overtaken' = overtaken \ {c}
          /\ UNCHANGED pins
     ELSE /\ patch' = [patch EXCEPT ![c] = [NoPatch EXCEPT !.stage = "served"]]
          /\ pins' = [pins EXCEPT ![session] = patch[c].list]
          /\ overtaken' = {d \in Controls \ {c} : patch[d].stage = "sent"}
  /\ UNCHANGED <<session, me, fetch, route, failures, drifted>>

(* Mutant: a request under way is not started again. *)
Restarted_Goes(f) == IF Observed /\ f.stage = "none" THEN Sent ELSE f

(* invalidateQueries(["me"]): if the entry is observed the cache asks again at
   once, and drops the answer to an earlier request. *)
Restarted(f) == IF Refetches(me, Observed, f.stage = "none") THEN Sent ELSE f

(* Mutant: nothing is invalidated. *)
PatchDone_Silent(c) ==
  /\ patch[c].stage = "served"
  /\ patch' = [patch EXCEPT ![c] = NoPatch]
  /\ UNCHANGED <<session, pins, me, fetch, route, failures, drifted, overtaken>>

(* onSuccess.  Nobody observing, a request under way goes on and its answer,
   perhaps older than the change, is taken for fresh. *)
PatchDone(c) ==
  /\ patch[c].stage = "served"
  /\ patch' = [patch EXCEPT ![c] = NoPatch]
  /\ me' = Invalidated(me, Observed)
  /\ fetch' = Restarted(fetch)
  /\ drifted' = (drifted \/ (~Observed /\ fetch.stage = "served"))
  /\ UNCHANGED <<session, pins, route, failures, overtaken>>

(* Refused, or an answer is lost: nothing is invalidated, though the server may
   have stored the list. *)
PatchFails(c) ==
  /\ \/ patch[c].stage = "refused" /\ UNCHANGED failures
     \/ patch[c].stage \in {"sent", "served"} /\ failures < MaxFailures /\ failures' = failures + 1
  /\ patch' = [patch EXCEPT ![c] = NoPatch]
  /\ drifted' = (drifted \/ patch[c].stage = "served")
  /\ overtaken' = overtaken \ {c}
  /\ UNCHANGED <<session, pins, me, fetch, route>>

-----------------------------------------------------------------------------
Moved == /\ drifted' = TRUE
         /\ overtaken' = {c \in Controls : patch[c].stage = "sent"}

(* Login.tsx: the cookie is set and the console is opened; nothing in the cache
   is dropped. *)
SignIn(u) ==
  /\ route = "login"
  /\ session' = u
  /\ Open("console")
  /\ Moved
  /\ UNCHANGED <<pins, patch, failures>>

(* onSignOut: the sign-in page is shown even when the request was lost. *)
SignOut ==
  /\ Observed
  /\ \/ session' = Nobody /\ UNCHANGED failures
     \/ failures < MaxFailures /\ failures' = failures + 1 /\ UNCHANGED session
  /\ route' = "login"
  /\ Moved
  /\ UNCHANGED <<pins, me, fetch, patch>>

(* The session expires, the user is deactivated, or another tab signs out. *)
SessionEnds ==
  /\ session # Nobody
  /\ session' = Nobody
  /\ Moved
  /\ UNCHANGED <<pins, me, fetch, route, patch, failures>>

(* Another tab, with the same cookie. *)
PinElsewhere(page) ==
  /\ session # Nobody
  /\ pins' = [pins EXCEPT ![session] = Toggled(@, page)]
  /\ Moved
  /\ UNCHANGED <<session, me, fetch, route, patch, failures>>

Next == \/ \E r \in {"console", "admin"} : Navigate(r)
        \/ ServeMe \/ AnswerMe \/ FailMe \/ Age
        \/ \E c \in Controls, page \in Pages : TogglePin(c, page)
        \/ \E c \in Controls : ServePatch(c) \/ PatchDone(c) \/ PatchFails(c)
        \/ \E u \in Users : SignIn(u)
        \/ \E page \in Pages : PinElsewhere(page)
        \/ SignOut \/ SessionEnds

Spec == Init /\ [][Next]_vars

(* The server answers, what was answered arrives, and a user who is on the
   sign-in page tries (again) to sign in. *)
Fairness == /\ WF_vars(ServeMe) /\ WF_vars(AnswerMe \/ FailMe)
            /\ WF_vars(\E u \in Users : SignIn(u))

FairSpec == Spec /\ Fairness

-----------------------------------------------------------------------------
(* Coherence.  Unless something changed that no component was told of (another
   tab, a session that ended or changed, a PATCH whose answer was lost, an
   invalidation that nobody observed), what the console shows as up to date is
   the signed-in user's profile: an answer that predates a change of the
   console's own is never taken for the state after it. *)
ShownIsStored ==
  Current /\ (\A c \in Controls : patch[c].stage # "served") =>
    /\ me.data.user = session
    /\ me.data.pins = pins[session]
    /\ route = "admin" => session \in Admins

(* A toggle writes the whole list it was computed from.  Unless that list was
   out of date when the control was clicked, or was overtaken before the server
   stored it, exactly the page that was clicked changes, for the user who is
   signed in. *)
TogglesAreExact ==
  [][\A c \in Controls :
       patch[c].stage = "sent" /\ patch'[c].stage = "served" /\ c \notin overtaken =>
         pins' = [pins EXCEPT ![session] = Toggled(@, patch[c].page)]]_vars

(* A user who has a session and keeps trying gets into the console: an error
   that earlier data keep on the entry turns a sign-in away, but not forever. *)
SessionOpens == <>[](session # Nobody) => []<>(Observed /\ me.status = "success")
=============================================================================
