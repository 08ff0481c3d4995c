---------------------------- MODULE Administrators ----------------------------
(***************************************************************************)
(* The users of an organization and the rule that an active administrator  *)
(* remains (nims/routers/v1/users_admin.py).  PATCH /users/{id} loads the  *)
(* user, counts the active administrators if the patch would make one less *)
(* and writes at the commit; no row is locked in between, and the ORM      *)
(* writes only the columns whose value differs from the loaded copy.       *)
(***************************************************************************)

EXTENDS RowRequests

CONSTANTS
  Users,           \* ids of User rows
  HasAdminToken    \* an API token with role ADMIN exists

Roles == {"READ", "WRITE", "ADMIN"}
Statuses == {"active", "inactive"}     \* isActive

ASSUME TokenAssumption == HasAdminToken \in BOOLEAN
ASSUME NoFieldAssumption == None \notin Users \cup Roles \cup Statuses

VARIABLES
  users,      \* the rows
  account,    \* role and status of each
  passwords   \* the users with a passwordHash

(* overtaken: requests that have loaded a user since when the set of active
   administrators has changed; raced: one of them has taken an administrator
   away. *)

accountTable == <<users, account, passwords>>
accountVars == <<users, account, passwords, req, overtaken, raced>>

-----------------------------------------------------------------------------
Account == [role : Roles, status : Statuses]
Patch == [role : Roles \cup {None}, status : Statuses \cup {None}]
AccountRequest == [pc : {"idle", "authorized", "loaded", "write"},
                   target : Users \cup {None},
                   copy : Account,      \* the user as it was loaded
                   body : Patch]
Nobody == [role |-> "READ", status |-> "inactive"]
NoPatch == [pc |-> "idle", target |-> None, copy |-> Nobody,
            body |-> [role |-> None, status |-> None]]

AccountsTypeOK == /\ users \subseteq Users
                  /\ account \in [Users -> Account]
                  /\ passwords \subseteq users
                  /\ req \in [Requests -> AccountRequest]
                  /\ overtaken \subseteq Requests
                  /\ raced \in BOOLEAN

IsAdmin(a) == a.role = "ADMIN" /\ a.status = "active"
Admins == {u \in users : IsAdmin(account[u])}

(* The seed: one administrator who can sign in. *)
AccountsInit ==
  \E u \in Users :
    /\ users = {u}
    /\ account = [v \in Users |-> IF v = u THEN [role |-> "ADMIN", status |-> "active"]
                                  ELSE Nobody]
    /\ passwords = {u}
    /\ req = [p \in Requests |-> NoPatch]
    /\ overtaken = {}
    /\ raced = FALSE

-----------------------------------------------------------------------------
End(p) == req' = [req EXCEPT ![p] = NoPatch]

(* require_admin: an active administrator who has signed in, or a token. *)
Authorize(p) ==
  /\ req[p].pc = "idle"
  /\ HasAdminToken \/ Admins \cap passwords # {}
  /\ req' = [req EXCEPT ![p] = [NoPatch EXCEPT !.pc = "authorized"]]
  /\ UNCHANGED <<accountTable, overtaken, raced>>

(* The body of the patch does not matter before the check. *)
LoadUser(p) ==
  \E u \in users :
    /\ req[p].pc = "authorized"
    /\ req' = [req EXCEPT ![p] = [NoPatch EXCEPT !.pc = "loaded", !.target = u,
                                                 !.copy = account[u]]]
    /\ UNCHANGED <<accountTable, overtaken, raced>>

Stays(body) == body.role \in {None, "ADMIN"} /\ body.status \in {None, "active"}

AtMostOne(S) == \A s, t \in S : s = t

(* Mutant: deactivation is not looked at. *)
LastAdmin_RoleOnly(copy, body) ==
  IsAdmin(copy) /\ body.role \notin {None, "ADMIN"} /\ AtMostOne(Admins)

(* _ensure_not_last_admin raises: the loaded copy decides whether the
   administrators are counted, the database how many there are. *)
LastAdmin(copy, body) == IsAdmin(copy) /\ ~Stays(body) /\ AtMostOne(Admins)

EnsureNotLastAdmin(p) ==
  \E body \in Patch :
    /\ req[p].pc = "loaded"
    /\ IF LastAdmin(req[p].copy, body)
       THEN End(p) /\ overtaken' = overtaken \ {p}
       ELSE /\ req' = [req EXCEPT ![p] = [@ EXCEPT !.pc = "write", !.body = body]]
            /\ UNCHANGED overtaken
    /\ UNCHANGED <<accountTable, raced>>

(* Mutant: the whole row is written. *)
Column_Whole(stored, copy, new) == IF new = None THEN copy ELSE new

(* What an UPDATE leaves in a column. *)
Column(stored, copy, new) == IF new \in {None, copy} THEN stored ELSE new

Written(p) ==
  LET r == req[p]  a == account[r.target] IN
  [role |-> Column(a.role, r.copy.role, r.body.role),
   status |-> Column(a.status, r.copy.status, r.body.status)]

(* The request ends; if the administrators are others now, those who have
   loaded a user have been overtaken. *)
FinishAccount(p) ==
  /\ End(p)
  /\ overtaken' = (IF Admins' = Admins THEN overtaken
                   ELSE {q \in Requests : req[q].pc \in {"loaded", "write"}}) \ {p}
  /\ raced' = (raced \/ (p \in overtaken /\ Admins \ Admins' # {}))

CommitPatch(p) ==
  /\ req[p].pc = "write"
  /\ account' = [account EXCEPT ![req[p].target] = Written(p)]
  /\ UNCHANGED <<users, passwords>>
  /\ FinishAccount(p)

(* The e-mail address is new (otherwise the answer is 409 and nothing changes). *)
CreateUser(p) ==
  \E u \in Users \ users, role \in Roles, withPassword \in BOOLEAN :
    /\ req[p].pc = "authorized"
    /\ role = "ADMIN" => withPassword
    /\ users' = users \cup {u}
    /\ account' = [account EXCEPT ![u] = [role |-> role, status |-> "active"]]
    /\ passwords' = IF withPassword THEN passwords \cup {u} ELSE passwords
    /\ FinishAccount(p)

(* The request is refused for another reason, raises, or its process dies. *)
FailAccount(p) ==
  /\ req[p].pc # "idle"
  /\ End(p)
  /\ overtaken' = overtaken \ {p}
  /\ UNCHANGED <<accountTable, raced>>

AccountsNext ==
  \E p \in Requests : \/ Authorize(p) \/ LoadUser(p) \/ EnsureNotLastAdmin(p)
                      \/ CommitPatch(p) \/ CreateUser(p) \/ FailAccount(p)

AccountsSpec == AccountsInit /\ [][AccountsNext]_accountVars

-----------------------------------------------------------------------------
(* Properties.                                                             *)

(* The organization loses its last active administrator only after a patch
   that took an administrator away was overtaken: the set of administrators
   changed between its reading of the user and its commit. *)
SomeAdminRemains == Admins # {}
AdminLossNeedsRace == ~raced => SomeAdminRemains

(* Patches of one user that overlap merge: a commit changes the role or the
   status of a user only to the value its own body names, and of no user but
   its target.  A stale copy never writes back what another patch replaced. *)
PatchesMerge ==
  [][\A u \in users : account'[u] # account[u] =>
       \E p \in Requests :
         /\ CommitPatch(p)
         /\ req[p].target = u
         /\ account'[u].role \in {account[u].role, req[p].body.role}
         /\ account'[u].status \in {account[u].status, req[p].body.status}]_accountVars

(* The inductive invariant: a request that was not overtaken knows whether its
   user is an active administrator, and has counted another one if its patch
   makes one less. *)
Reading(p) == req[p].pc \in {"loaded", "write"} /\ p \notin overtaken
FreshAccounts ==
  \A p \in Requests : Reading(p) =>
    /\ req[p].target \in users
    /\ IsAdmin(req[p].copy) <=> req[p].target \in Admins
    /\ req[p].pc = "write" /\ IsAdmin(req[p].copy) /\ ~Stays(req[p].body)
         => Admins \ {req[p].target} # {}

OnlyReadersOvertaken == \A p \in overtaken : req[p].pc \in {"loaded", "write"}

AccountsIInv == AccountsTypeOK /\ OnlyReadersOvertaken /\ FreshAccounts /\ AdminLossNeedsRace

=============================================================================
