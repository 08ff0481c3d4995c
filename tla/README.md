# IntentCenter in TLA+

IntentCenter (package `nims`) is a network inventory and automation system: a
FastAPI service over SQLAlchemy and PostgreSQL, a job worker, and a web console.
This directory holds TLA+ models of its concurrent core on the server and of what the
console does with what the server stores, the TLC configurations that check them on
small instances, and proofs that TLAPS checks for every value
of the constants. `PROJECT.json` lists the components, the runs, the map from
definitions to source lines, the hazards and the theorems. Paths below are relative
to `src/platform/backend/nims/` unless they begin with `src/`.

## 1. The system

### 1.1 How it runs

Several API processes and any number of `nims-worker` processes share one
PostgreSQL database; nothing else is shared. The isolation level is the default,
READ COMMITTED. A request has one session (`db.py:22-30`) with
`autoflush=False, expire_on_commit=False`: each SELECT sees what is committed when
it starts, a row already loaded keeps the values it was loaded with, writes go out
at `flush` or `commit`, an UPDATE contains only the columns that were changed, and
a session that is closed without a commit leaves nothing behind. Only one query
takes row locks (`services/job_worker.py:43`). So everything that is read before it
is acted on can be stale, unless a unique index or a foreign key catches it.

The console is a React application in the browser (`src/platform/web/src/`). What it
shows it reads through a query cache (@tanstack/react-query, set up in `main.tsx`: an
answer counts as fresh for 30 seconds, a failed query is tried once more); what it
changes it sends at once and then invalidates the entries it knows to be affected. Its
session is a cookie the server has set. Two tabs share the cookie and `localStorage`,
and each has a cache of its own.

### 1.2 Inventory

| Component | State | Operations | Hard behaviour | What makes it correct |
|---|---|---|---|---|
| Job runs API, `routers/v1/automation.py` | `JobDefinition`, `JobRun` rows | create and edit a definition, run a job (queued, parked for approval, or inline) | lookup of an idempotency key and insertion are two statements; inline handlers run inside the open transaction | one run per key; statuses and audit events tell what happened |
| Job worker, `services/job_worker.py` | status of `JobRun` rows | claim, load, execute, finalise, fail | several workers, crashes between claim and outcome, lost commits, definitions edited meanwhile | no run executed twice, outcomes final, the queue drains |
| Handlers, `services/job_runner.py`, `connector_probe.py`, `routers/v1/connectors.py` | `ConnectorRegistration` | noop, connector sync, connector CRUD and test | a connector edited or deleted while it is probed | health and error fields belong to the row that was probed |
| Audit, `services/audit.py` | `AuditEvent` rows | append within the caller's transaction | callers that omit it, callers that roll back | one event per committed change |
| Webhooks, `services/webhooks.py` | `WebhookSubscription` | dispatch in a daemon thread after the commit | a crash in between, no retry, no order between threads | deliveries follow commits |
| Users and sessions, `routers/v1/users_admin.py`, `auth.py`, `deps.py` | `User`, `ApiToken` | create, edit, sign in, tokens, preferences | the count of administrators is read before the row is written | an organization keeps an active administrator |
| Object templates, `routers/v1/templates.py` | `ObjectTemplate` | create, edit, set default, delete | clearing the old default and setting the new one from stale reads | one default per resource type |
| DCIM, `routers/v1/dcim.py`, `services/dcim_referential.py`, `extensions.py` | locations, racks, devices, interfaces, cables, extensions | CRUD with soft deletes | soft deletes escape foreign keys; parents are checked before the commit | live objects have live parents, locations form a forest |
| IPAM, `routers/v1/ipam.py` | VRFs, prefixes, addresses, VLANs | CRUD | uniqueness checks before inserts | no duplicates within a scope |
| Circuits, `routers/v1/circuits.py` | providers, circuits, segments | CRUD, append a segment | the index of a new segment is max + 1 of a stale read | indexes are unique, appends go at the end |
| Bulk and catalog import, `routers/v1/bulk.py`, `services/catalog_io.py` | inventory rows | import rows, skipping bad ones | a rollback for one row drops its predecessors | the answer counts what is committed |
| Reconciliation, `routers/v1/reconciliation.py` | `ObservedResourceState` | post observed state | concurrent first observations | one state per device |
| Copilot, `services/llm_openai.py`, `copilot_tools.py` | the conversation of a request | tool-calling rounds, SSE stream | errors in mid-stream, round limit | every stream ends with one `done` |
| Identity and LLM settings, `services/identity_settings.py`, `llm_config.py` | JSON column of `Organization` | patch | read-modify-write of one JSON value | some sign-in method stays enabled |
| Console session, `src/platform/web/src/`: `App.tsx`, `layout/`, `pages/Login.tsx` | the cached `GET /v1/me` | enter, sign in and out, pin pages | whole lists of pins are sent, computed from the cached copy; queries and saves overlap, a session ends unnoticed | what is shown is the signed-in user's profile, a click changes one pin |
| Record forms, 15 pages under `pages/` | a draft, a save | fill from the cache, type, submit, navigate | refetches while the user types, stale copies, requests whose answer is lost | a save changes what the user changed |
| Lists and bulk import, `pages/`, `components/PageActionsMenu.tsx` | a cached list, an import | delete, copy, add, import | answers that were served before a change arrive after it; failed imports are repeated | the list shows the page's own changes, the count is true |
| Assistant panel, `components/AssistantPanel.tsx`, `lib/assistantChatsStorage.ts` | chats in memory and in `localStorage` | ask, stream, switch, delete, minimise | the stream goes on while the user goes elsewhere; limits on chats and messages | answers stand behind their questions, the panel comes free |
| Settings pages, `pages/platform/IdentityPage.tsx`, `LlmSettingsPage.tsx` | drafts over the cached settings | edit, save | secrets that are shown only as set, values the environment overrides, several administrators | a save changes what was edited |
| Connectors panel, `pages/platform/PluginExtensionsPage.tsx` | one form for every connector | open, create, save, delete | answers about one connector arrive when the panel is about another | a form is saved to the connector it was filled from |
| Console views, extensibility, API types; MCP, GraphQL, search, serialisation, validation, seeds, migrations | none or derived | reads, rendering, one-off scripts | little | |

### 1.3 Interactions

A client's request goes through `deps.get_auth` (who, which role) to a handler. A
handler reads, checks, writes rows, adds an audit event to the same transaction and
commits; inventory handlers then dispatch webhooks outside the transaction. The jobs
API hands work to the worker only through the `status` column of `JobRun`; the
worker hands results back through the same column. Job definitions are read by both
and edited by administrators at any time. `connector.sync` reads a registration, probes
the network, and writes the health of the row it has read; the connectors panel edits
and deletes the same rows.

Within the console, pages interact only through the cache entries: a save on a form
invalidates the lists that show its record, a list asks again when it is mounted. The
console knows nothing of changes others make until it asks again.

## 2. Plan

The order is that of the damage a fault would do.

| | Module | What it is about | State |
|---|---|---|---|
| 1 | `JobRuns`, `JobLedger` | admission and execution of jobs; implements the run ledger | modelled, checked, proved |
| 2 | `Administrators` | an organization keeps an active administrator | modelled, checked, proved |
| 3 | `TemplateDefaults` | one default template per resource type | modelled, checked, proved |
| 4 | `DcimLifecycle` | soft deletes and parents of locations, racks, devices, interfaces | modelled, checked, proved |
| 5 | `ConsoleSession` over `QueryCache` | who the console shows and what a pin changes | modelled, checked, proved |
| 6 | `RecordForms` | fill, type and save on every form page | modelled, checked, proved |
| 7 | `InventoryLists` | lists with their own changes, imports by transaction and by row | modelled, checked, proved |
| 8 | `AdminSettings` | the two settings pages and the merge of patches on the server | modelled, checked, proved |
| 9 | `ConnectorPanel` | the connectors panel against edits, deletions and a running sync | modelled, checked, proved |
| 10 | `AssistantChats` | two panels, one store, streams and their ends | modelled, checked, proved |

`JobRuns` implements `JobLedger` by a refinement mapping. The modules of the console
share `QueryCache`; each composes its own server with its own page, because two pages
meet only in rows that the module already changes on behalf of "others".

Every safety property of a passing run is also a theorem; the liveness properties
(section 5) are not, because the prover has no rules for fairness.

## 3. The modules

The models of the server split a request where another transaction can commit, and
keep in the record of the request what it has read. Where overlapping requests can
break a rule, a history variable says which requests were *overtaken* (a commit has
changed what they had read) and `raced` which of them have committed all the same;
the properties then say exactly what remains true, and which request is to blame
for what does not.

The models of the console split an exchange into sending, serving and the arrival of
the answer, and may lose the request or the answer at any of these points. A history
variable says which copies of a record lack a change that is stored (`behind`,
`drifted`, `overtaken`, `timely`): the properties say what a page may show or send as
long as its copies lack nothing.

### 3.1 `JobLedger`

The abstract specification. A run is a status and a count of handler invocations. A
run is admitted once, started, performed, finished; a parked run goes nowhere; only
a performed run succeeds; an outcome is final. No requests, workers or transactions.

### 3.2 `JobRuns`

One organization's definitions, runs, requests and workers.

| Variable | Code |
|---|---|
| `defs` | `JobDefinition` rows: key, `requiresApproval`, `enabled` |
| `runs`, `audit` | committed `JobRun` rows and their `AuditEvent` actions |
| `nextRun` | the order of `createdAt` |
| `req` | each request's local variables: the definition as it was read, the run being built |
| `wrk` | each worker's local variables (`claim`, `output`) and the row locks its transaction holds |
| `faults` | crashes and raised exceptions so far |
| `effects`, `seen`, `dropped` | history: invocations of each handler, what was committed when a key was looked up, claims given up for definition drift |

A request is split at the read of the definition (`LookUpDefinition`), the lookup of
the idempotency key together with the local construction of the row
(`AnswerExisting`, `BuildRun`), the commit (`CommitRun`), and for inline mode the
handler (`ExecuteInline`) and the commit (`CommitInline`). A failing request
(`RequestFails`) loses its transaction; a retry is simply another request. A worker
is split likewise: `SelectClaim` (the locking query), `CommitClaim`, `LoadClaimed` or
`DropClaimed` (the second session), `ExecuteRun`, `Finalize`, and the failures
`CommitClaimLost` and `FinalizeLost` (the commit is durable, the worker sees an
exception), `RunRaises` followed by `Recover` (the exception path), and `WorkerFails`
(a crash, a rolled back claim, or an exception path that itself raises).

Abstracted: inputs, outputs, logs and correlation ids; the batch size, because a
worker that goes on with its batch and one that polls again do the same query; the
handlers, which are their outcome and the fact of having been invoked.

### 3.3 `Administrators`

The requests, in this module and in the next, are declared in `RowRequests`.

| Variable | Code |
|---|---|
| `users`, `account` | `User` rows with role and `isActive` |
| `passwords` | the users with a `passwordHash`: only they can sign in |
| `req` | the request: authorised, with the loaded `copy` of the user, with the `body` to be written |
| `overtaken`, `raced` | history |

`Authorize` is `deps.resolve_auth` and `require_admin`; `LoadUser`,
`EnsureNotLastAdmin` and `CommitPatch` are `patch_user` at its three statements;
`CreateUser` is one statement, since nothing it has read before matters but the
e-mail address. `Column` is the ORM: a column is written if the body names it and the
value differs from the loaded copy. The seed is `Init`.

### 3.4 `TemplateDefaults`

| Variable | Code |
|---|---|
| `rows`, `flagged`, `system` | `ObjectTemplate` rows, `isDefault`, `isSystem` |
| `used` | ids handed out (uuid4: never twice) |
| `req` | the request: its target, whether the target was loaded as default, the old defaults it will clear |
| `overtaken`, `raced` | history |

`BeginCreate`, `BeginEdit` and `BeginDelete` load, `ClearDefaults` is
`_clear_default_for_type`, the `Commit...` actions write. A request whose UPDATE
misses its row fails (`Fail`): a commit needs the rows it updates.

### 3.5 `DcimLifecycle`

| Variable | Code |
|---|---|
| `rows`, `live` | rows of the four tables, those without `deletedAt` |
| `parent` | `Location.parentId`, `Rack.locationId`, `Device.rackId`, `Interface.deviceId` |
| `extended` | objects with a `ResourceExtension` row |
| `req` | the request: operation, target, the parent to be written, the loaded one, what it does with the extension, the kind of dependents it looks for next |
| `unchecked` | history: objects whose parent was last written by bulk import or a catalog patch |
| `overtaken`, `raced` | history: as above; `raced` holds the objects concerned |

The four creations, three edits and three deletions are actions that read;
`CheckDependents` is one query of a deletion; `CommitCreate`, `CommitUpdate` and
`CommitDelete` are the transactions. `ImportObject` and `PatchInterface` are the
paths around the checks: the foreign key accepts a parent that was deleted.
Parents follow `services/dcim_referential.py`, extensions `services/extensions.py`.
Abstracted: names, attributes, templates of extensions, cables.

### 3.6 `QueryCache`

One entry of the cache, as the console relies on it: its data, its status, whether it
is `old`. `Wants` is when an observer that mounts makes the cache ask, `Asked`,
`Answered` and `Failed` are what a request does to the entry, `Outdated` is the
passing of 30 seconds. A failed query keeps earlier data. An invalidation
(`Invalidated`, `Refetches`) makes an entry that somebody observes ask at once, but
it cancels a request under way only if the entry has data. A request of the first
load goes on, as does one that nobody observes, and its answer, which may be older
than what was invalidated for, is taken for fresh; the properties have to allow for
both. The library is not in the repository; these rules are those its callers
rely on.

### 3.7 `ConsoleSession`

| Variable | Code |
|---|---|
| `session`, `pins` | the cookie, and `preferences.pinnedPages` of each user |
| `me`, `fetch` | the cache entry `["me"]` and the request for it |
| `route` | console, administration or sign-in page |
| `patch` | the mutation of each of the two controls that pin: the × of the sidebar, the entry of the page menu |
| `drifted`, `overtaken` | history |

`Admit` is `RequireAuth` and `RequireAdmin`; `Open` is what mounting them does.
`TogglePin`, `ServePatch`, `PatchDone` and `PatchFails` are `useMutation` in
`AppShell` and `PageActionsMenu`, `PATCH /v1/me` and its `onSuccess`. `SignIn` and
`SignOut` are the login page and the user menu, neither of which drops the entry;
`SessionEnds` is a cookie that expires or is replaced in another tab, and
`PinElsewhere` a pin set in another tab. Abstracted: the other preferences; each control has one
PATCH at a time.

### 3.8 `RecordForms`

| Variable | Code |
|---|---|
| `form` | which page and which field: discipline, conversion, what is invalidated |
| `stored` | the record: the field's value and `rest`, the other fields |
| `detail`, `fetch` | the cache entry of the record and the request for it |
| `page`, `draft` | the route and the state of the inputs |
| `save` | POST or PATCH, then the invalidations that the page waits for |
| `edits`, `behind` | changes of others; history |

The fifteen pages are operators that give their fields and what differs between them:
whether an effect fills the form on every answer (`Hydrates`) or a form mounts with
the record (`Mounts`), whether a PATCH invalidates the record's own entry
(`refreshes`), whether it navigates when the user has left (`insists`). Fields are
told apart by how their text is sent (`Send`) and shown (`Show`); every pair of page
and kind of field is an initial state. A save sends all fields, so one field and
`rest` show what a save does to what was not touched.

### 3.9 `InventoryLists`

| Variable | Code |
|---|---|
| `list` | which of the sixteen list pages: what it deletes, copies, adds, imports |
| `rows`, `born`, `line` | rows on the server; history: the line of the file a row came from |
| `entry`, `fetch`, `mounted` | the cached list |
| `deleting`, `copy` | mutations of the page |
| `import`, `file` | the import on the server (line, counter, flushed and committed rows) and the user's file |
| `told`, `unheard` | history |

`GoodLine`, `BadLine` and `ImportCommits` are the loops of `bulk_import_json` (one
transaction; a rollback takes back what was flushed, the counter stays) and of
`catalog_import_rows` (a commit per row). A file is a sequence of good and bad lines;
a user who is told of an error mends the bad lines and imports the file again. The
import is in the header of the page and can be used before the first rows have come.

### 3.10 `AdminSettings`

| Variable | Code |
|---|---|
| `page`, `locked` | which of the two pages; fields the environment overrides |
| `storage` | `identityConfig` or `llmConfig` of the organization |
| `entry`, `fetch`, `draft` | the cached view and the form over it |
| `patch`, `theirs` | the PATCH of the form, and one of somebody else, each with what its handler has read |

`Effective` and `Visible` are what the GET answers (`identity_settings.py`,
`llm_config.py`): the environment over the column, secrets only as set. `Sends` and
`Content` are the body that a page builds, `Accepted` and `Patched` the refusals and
the merge on the server. The handler reads (`ServeRead`) and writes (`ServeWrite`) in two steps.
A PATCH that the page has given up and the server still writes has no action of its
own: what it does to the row is what `TheirsRead` and `TheirsWrite` do. Abstracted: one external directory stands for the three, null and the empty string
are one value, a rival changes a field at a time.

### 3.11 `ConnectorPanel`

| Variable | Code |
|---|---|
| `rows` | `ConnectorRegistration`: settings, sealed credentials, `healthStatus` |
| `editing`, `form`, `baseline` | the state of the panel |
| `load`, `save`, `removal` | its requests |
| `sync` | the row that `connector.sync` has read |
| `origin`, `behind` | history: whose content the form holds, which copies are out of date |

The panel uses no cache: `LoadForEdit`, `SaveConnector` and `Delete` are async
functions that set state when their answer comes, whatever the panel is about by
then. `SyncRead` and `SyncWrite` are `job_runner.py` around the probe. Abstracted:
the link to a plugin, `enabled`, text that is no JSON, tests, placements.

### 3.12 `AssistantChats`

| Variable | Code |
|---|---|
| `storage` | the chats in `localStorage`, shared by the tabs |
| `panel` | each tab's copy, `pending`, titles that were asked for |
| `run` | `runAssistant`: the chat, the conversation up to the question, what was said |
| `asked` | bound and identity of questions |

Every `setStore` is followed by the effect that writes the whole copy (`SetStore`),
trimmed to the limits (`Trimmed`); a chat that was deleted is not updated
(`Updated`). A stream delivers pieces, goes through tool rounds, fails, or ends, with
the non-streaming request as its fallback. Abstracted: what is said, beyond part and whole.

### 3.13 Proofs and instances

`JobRunsProofs`, `RowRacesProofs` (`TemplateDefaults` and `Administrators`),
`DcimLifecycleProofs`, `ConsoleProofs` (`ConsoleSession` and `ConnectorPanel`),
`RecordFormsProofs`, `InventoryListsProofs`, `AdminSettingsProofs` and
`AssistantChatsProofs` hold the theorems (section 6). The `MC` modules hold the instances: which kinds or types the objects have, constraints,
and the symmetries that the specifications do not tell apart (objects of one kind,
requests, workers, connectors).

## 4. The runs

| Run | Question | Bounds |
|---|---|---|
| `job_workers` | is anything executed twice, are outcomes final and audited, how much does a crash strand, is the ledger implemented, does the queue drain, does a held run end | 2 workers, 1 request at a time, 2 runs, 1 definition with 2 keys, 2 faults, fairness |
| `job_requests` | inline mode, and what two requests with one idempotency key may do | 2 requests, 2 definitions, 2 runs, 1 fault |
| `template_defaults` | when can a type have two defaults, does it heal, how can a default get lost | 2 requests, 4 templates of 2 types |
| `administrators` | when can the last administrator go, do overlapping patches merge | 2 requests, 3 users, no ADMIN token |
| `dcim_lifecycle` | do live objects stand in live ones, does what was deleted stay deleted, and its extension | 2 requests; 2 locations and a rack, or 1 object of each kind |
| `dcim_raised` | the divergence of section 7 | 1 location, 2 racks, 1 request |
| `console_session` | does the console show who is signed in, what does a pin change, does a session open | 2 users, one of them ADMIN, 2 pages (one for the second user), 1 lost answer, fairness |
| `record_forms` | what may a save show, duplicate, take back or wipe out | every page and kind of field, 1 change by others |
| `inventory_lists` | does a list show the page's own changes, does an import count what it committed, may it be repeated | every page, 2 rows, files of up to 2 lines, 1 change under way besides those of others |
| `admin_settings` | does a way to sign in remain, does a save change what was edited | both pages, 2 edits, 1 rival patch, nothing or the switch overridden |
| `connector_panel` | is a form saved where it belongs, what may change a setting | 2 connectors, 1 edit, 1 change by others; two of loads, saves and deletions at a time, or a save and a sync |
| `assistant_chats` | do answers stand behind their questions, what may go from storage, does a panel come free | 2 tabs, 2 chat ids, 1 chat and 3 messages kept, 1 tool round, 2 questions, fairness |

Two workers are the least for a double claim, two runs the least for a claim query
that locks a row it does not start with, and two faults show that each strands a run
of its own. Two requests are the least that can overlap, and a third user the least
that lets the guard of `patch_user` pass for two patches and still leave somebody.
Two templates of a type are needed for two defaults and a third for `MakingHeals` to
have two to clear; a template of another type shows that types do not disturb each
other. In `dcim_lifecycle` the constraint `Scene` keeps to two scenes: two locations
that can stand in each other and hold a rack, or the whole chain with every kind of
parent and of dependent. The instances without ADMIN token include those states in
which nobody may ask any more.

A second page to pin is the least for a list that loses an entry, a second user the
least for a profile that is not one's own; `OneCollector` lets one of them have both
pages. A form differs from another by one field, one `rest` and one change of others:
a second change would only make copies stale that are so already. An import of two
lines has a good one before a bad one and the reverse. Two connectors are the least
that can be mixed up, and `TwoAtOnce` keeps pairs of overlapping exchanges, which is
what `SavesAreOwn` and `ConfigChangesAreEdits` are about; the theorems do without it.
The limits of the chats are so low that trimming happens in every behaviour that is
not trivial. Where a property is a theorem, the bounds do not limit it.

The bounds stand in guards: `MaxRuns` (`BuildRun`), `MaxFaults` (`Fault`),
`MaxFailures` (`FailMe`, `PatchFails`, `SignOut`), `MaxEdits` and `MaxRivals`, `MaxRows`
(`Create`), `MaxBusy` (`Free`), `MaxTyped` and `MaxOthers`, `MaxRounds` and
`MaxQuestions`. The other modules are finite because ids are. Deadlock is not
checked: when ids or bounds are used up and nobody asks, an instance stops, and a
system nobody calls may stop.

## 5. Fairness

`JobRuns`: `FairSpec` asks weak fairness of the steps of each worker: the poll loop
runs forever and catches every exception (`services/job_worker.py:158-176`), so a
worker that can take a step does. Clients and administrators owe nothing, and faults
happen at most `MaxFaults` times. Weak fairness of each single worker is what an
operating system gives a process. `QueueDrains` says that a claimable run does not
stay claimable: it is claimed, or an administrator closes its definition.
`HeldRunsEnd` says that a run is not held forever.

`ConsoleSession`: a request that was sent is served and answered or fails, because the
browser waits no longer than the connection lasts; and a user who stands before the
sign-in page signs in again. `SessionOpens`: whoever keeps a session gets into the
console again and again, although an error that stays on the entry may turn a sign-in
away.

`AssistantChats`: a stream goes on until it ends, because rounds are limited
(`services/llm_openai.py:31`) and every request to the model has a timeout.
`PanelFrees`: a panel that is busy becomes free, however the stream ends.

In the other modules every request may be abandoned at any time, so nothing is
promised to happen.

## 6. What is proved

All theorems hold for every value of the constants, from the named assumptions of
each module: bounds are natural numbers, modes are Booleans, kinds and types are
functions of the objects, and `None` is none of the things it stands beside. Each
proof module shows `Init => IInv`, `IInv /\ [Next]_vars => IInv'` (one lemma per
action, or per group of actions with the same effect) and what follows from `IInv`.

### `JobRunsProofs`

- `Invariance`. `ExecutionAccounting` alone is not inductive: that a worker may invoke
  a handler rests on the run being in its hands only (`WorkersOwnRuns`), which rests
  on row locks being exclusive and covering pending rows (`LocksAreExclusive`), on
  unfinished requests owning their run (`RequestsOwnRuns`) and on fresh numbers
  standing for nothing (`FreshRuns`).
- `TypeCorrectness` and `ExecutionSafety` follow from it.
- `Finality`: no step changes an outcome. The exception path is the interesting case:
  its status test reads the database, not the session.
- `Implementation`: the ledger's initial states and steps; each action maps to one
  ledger step or to a stutter.
- `Trails`: `AuditTrail`, which is inductive beside `IInv`: a worker that writes an
  outcome holds a run in RUNNING, whose trail is its admission.
- `FaultsStrandFew`: `FaultsStrandOneRun`. A step of a worker that lets go of a run
  which stays RUNNING is a fault and strands the run it held, or drops it
  (`WorkerStrands`); a request strands none (`RequestStrands`). So the set grows by
  at most one element per fault, and the library's theorems on cardinality do the
  rest.
- `OnlyOverlapsDuplicate`: `DuplicatesOverlap`, from the further invariant
  `LookupsWereClean`: what a request found when it looked its key up stays true of
  the runs it saw.

### `RowRacesProofs`

About the two modules whose requests read rows without locks, `TemplateDefaults` and
`Administrators`; both extend `RowRequests`, so that one module can extend both.

- `Invariance`: until it is overtaken, a request knows whether its target is flagged and,
  after its clearing query, all the other defaults of the type (`FreshReads`); ids
  in use by a creation belong to nobody else. `TypeCorrectness` follows.
- `DefaultsAreSingle`, `Healing`, `Replacement`: two defaults need a race, the next
  undisturbed request leaves one, a default goes only by a request about it or about
  its type's default, and the last one of a type only by an unmake, a deletion or a
  request that was overtaken (`LastDefault`).
- `AdminsInvariance`: a request that was not overtaken knows whether its user is an active
  administrator, and has counted another if its patch makes one less (`FreshAccounts`).
  `AccountTypes` follows.
- `AdminsRemain`: hence an undisturbed commit leaves an administrator
  (`NotOvertakenLeavesOne`), and only a race can take the last one away.
- `Merging`: a commit changes a column only to the value its body names, whatever the
  loaded copy says.

### `DcimLifecycleProofs`

- `Invariance`: a request that was not overtaken may rely on what it has read
  (`Fresh`): a parent to be written is live, an object to be edited is live, and the
  dependents of an object to be deleted are of the kinds the deletion has still to
  look for (`Unseen`); parents are of the right kind (`ParentsHaveKinds`), so nothing
  stands in an interface, which is why the unchecked deletion of interfaces is
  harmless.
- `Orphans`, `Extensions`, `NoRevival`: a live object in a deleted one has an unchecked
  parent or was raced, an extension outlives its object only after a race, and no
  step revives what was deleted.

### `ConsoleProofs`

Of `ConsoleSession`:

- `TypeCorrectness`.
- `ShownStaysStored`, from three invariants: unless something has drifted or a PATCH
  that was served has not been heard of, an answer on its way is what a request would
  get now (`AnswerIsTrue`) and so is the entry (`EntryIsTrue`); the administration is
  shown only to those whom the entry says to be administrators (`AdmittedIsAdmin`). That
  an invalidation drops the earlier answer needs an entry with data, which a page that
  pins something has (`UsedHasData`).
- `TogglesStayExact`: a list that was not overtaken is the stored one with one page
  toggled (`ListsAreTrue`), which holds from the click to the write because every
  other write marks the control.

Of `ConnectorPanel`:

- `PanelTypeCorrectness`.
- `SavesStayOwn`: `FormIsOwn` says what the form may hold while an answer is awaited:
  it is about the connector that is loading, about a new one, or closed.
- `ConfigStays`: a copy that is not behind shows what its connector has, but for what
  was typed, on each of its three stations (`LoadIsTrue`, `FormIsTrue`,
  `SaveIsTrue`); and a PATCH with what was shown changes nothing (`ShownStays`), the
  credentials the server cannot decrypt included.

### `RecordFormsProofs`

The lemmas about conversions (`RoundTrip`, `SentAgain`, `ShownIsText`, ...) are proved for
every kind of field a page has (`FormShape`), and each action has a lemma that says
field by field what it does (`OpenEditEffect`, ...); the four invariants below use
nothing else of the actions.

- `TypeCorrectness`: an entry that succeeded has data and an edit page over it a filled
  form; a form that waits for its own save is the page the save came from
  (`FormIsThere`).
- `CreatedOnceHolds`: a form that has been told of the record it created waits for that
  save's lists (`DoneIsAwaited`).
- `TypedText`: what an answer or an error makes of a form is one of three things
  (`Adopting`), and nothing else touches an open form.
- `UntouchedFields`: a copy that lacks no change agrees with the record, at each of its
  four stations (`CopiesAreTrue`); what a form shows is its entry but for what was
  typed, and what was sent would be sent again (`ShownIsSent`), so a form that covers
  a save of its own agrees with what that save has stored.
- `OwnSaves`: a save that a copy lacks is still being announced, or the copy is known to be
  old (`ToldInv`): at the entry, in an answer on its way, which is dropped or marked
  before the announcement ends, and in the form, which for pages that mount rests on
  the form still holding what it has sent (`SentIsHeld`) and on the entry being empty
  of a record just created (`CreatedIsNew`).

### `InventoryListsProofs`

- `TypeCorrectness`: rows are numbered as they are made, and an import is never beyond
  the end of its file, so what it counts is bounded by the longest file (`FilesFit`).
- `ListsStayOwn`: an answer on its way lacks no row the page was told is made and has
  none it was told is gone, or it is marked late (`AnswerHasOwn`). Late are the answers
  that had left the server when the page was told and that nothing could stop: those
  to a page that was left, and those to the first load, during which the import in
  the page's header can be used (`Unstoppable`); the mark says so of the request,
  whether the cache asks again or not, so that a cache that forgot to cancel would
  violate the property. A row that is gone
  does not come back because it is neither stored nor flushed (`RowsAreApart`), and
  each change the page is told of invalidates the list in the same step.
- `ImportsCount`: as long as no line was skipped the counter is the number of flushed
  rows of a transaction, and of its committed rows once it is answered; by the row it
  is always the number of committed ones (`CountedIsMade`). A row enters these sets
  once because its number is new (`CreateNew`).
- `RetriesStaySafe`: until the page's import has been answered no stored row comes from
  the file, and the rows of the import under way come from different lines, none
  beyond the line it is at (`LinesAreOnce`); so the next import starts from nothing.

### `AdminSettingsProofs`

- `TypeCorrectness`: a form that is shown has data, a GET that was served has an answer, a
  handler that has read has a row, and a body has for each field a value of that field
  (`AnswersAreThere`).
- `SignInStays`: whatever is stored has passed the test of the PATCH that wrote it.
- `UneditedStay`: as long as nobody has written since the form was loaded, the handler
  works on what is stored, and what the body contains is edited, overridden or equal
  to what is stored (`BodiesAreHonest`); the assistant's page never sends the
  directory (`LlmHasNoChoice`).
- `SavesHavePersisted`: conversely, each field that counts as changed when the button is
  pressed is sent and has something to do (`EditedPersists`), and keeps it as long as
  nobody writes (`SaveHasWork`).

### `AssistantChatsProofs`

The lemmas about stores (`TrimmedIs`, `UpdatedIs`, `WithIs`, `WithoutIs`, `TitledIs`) say what
each operation keeps of every chat, and rest on four about sequences without
repetition (`RemovedOne`, `PutInFront`, `FirstFew`, `TrimmedEnd`). Every action is then of one of
six kinds (`Kinds`): a panel opens, closes, moves chats, asks, says or waits.

- `TypeCorrectness`: the list and its order by time have the same length, which keeps
  their trimmed versions equal; a run belongs to an open panel.
- `AnswersKeepTheirPlace`: every question has one owner, the chat it was asked in, and
  a chat contains only what it owns, each message once, each answer behind its
  question (`Fine`), in every tab, in storage and in what each run writes behind, which
  ends with a question that is new there (`FineBase`). The owner is a witness, extended
  with each question; without it nothing says that two tabs' copies of different
  chats share no message.
- `AnswersStay`: while a run lasts its chat has nothing but what the run writes behind
  and messages of its own question (`KeepsBase`), so a piece overwrites only its own
  answer; what the write of a panel then still loses is cut off by a limit
  (`WriteLoses`), and no other panel takes part.

Only model-checked: the liveness properties `QueueDrains`, `HeldRunsEnd`, `SessionOpens`
and `PanelFrees`, which the prover does not support.

## 7. Where code and documents differ

With a run that shows it, `dcim_raised`: deleting a location with two racks, or a rack
with two devices, is a 500 and not the documented conflict.

Visible in the models, without a run of their own. On the server:

- an idempotency key does not identify a run
  (`src/docs/design-extensibility-plugins-widgets.md:177`): requests that overlap create one
  each, after which `scalar_one_or_none` raises for the key (`DuplicatesOverlap`);
- without any fault, a run whose definition gets another key between claim and load
  stays RUNNING (`dropped` in `JobRuns`, `services/job_worker.py:123`);
- two overlapping patches take the last two administrators away (`AdminLossNeedsRace`,
  `routers/v1/users_admin.py:56`), and a user without password can be promoted and
  counts as an administrator who remains;
- a check of a parent and a deletion of that parent that overlap both succeed
  (`OrphansNeedRace`, `routers/v1/dcim.py:421`), and locations can be moved into a
  cycle of two: only a location that is its own parent is refused;
- the worker's exception path records no audit event (`AuditTrail` allows for it), and
  an inline handler may have run without any record of it (`ExecutionAccounting`
  speaks of absent rows in asynchronous mode only);
- two overlapping set-default requests leave two defaults, for which
  `fetch_template_for_extension` raises, or none: one whose loaded copy was out of date
  is answered as if it had set the flag (`TwoDefaultsNeedRace`, and the last case of
  `DefaultsAreReplaced`);
- with `skipErrors` the counter of `bulk_import_json` also counts the rows that the
  rollback for a bad line takes back (`routers/v1/bulk.py:295`); the catalog import
  commits each row, so that an import that is refused leaves its first rows, and
  repeating it duplicates them (`ImportsAddUp` and `RetriesAreSafe` are stated around
  both);
- the docstring of the stream promises a final `done` event
  (`services/llm_openai.py:408`), but only `httpx.ReadError` is caught on the way; the
  panel takes the end of the response for the end of the answer;
- the settings of the assistant ignore null (`services/llm_config.py:243`): a base URL
  or a default model, once set, cannot be cleared, although the page says it was saved
  (the exception in `SavesPersist`); and since the page always sends them, every save
  is refused while the environment overrides one of them;
- an edit of a connector leaves its `healthStatus` as it was.

In the console:

- all form pages but those of locations, racks, devices and VRFs leave the record's
  own entry alone after a PATCH (`pages/ipam/VlanFormPage.tsx:63`), so a
  form that is opened again within 30 seconds shows the old values, and saving it
  untouched takes the user's own change back (`OwnSavesAreShown` is about the pages
  that refresh it); the views' entries `["resource-view", ...]` are invalidated by no
  page;
- a list whose first answer is on its way when an import ends is shown without the
  imported rows, as fresh, for up to 30 seconds (the exception in
  `ListShowsOwnChanges`);
- a form that is filled by an effect loses what is being typed when a refetch brings
  other data; one that mounts loses it to a refetch that fails (`TypedTextStays`);
- after a save the page navigates even if the user has gone elsewhere (all but the
  creation of catalog items);
- one coordinate left blank while the other is set is sent as 0; attributes that read
  as a number or a Boolean change their type, null becomes the empty string, and
  blanks that others stored are trimmed, all on an untouched save
  (`UntouchedFieldsStay` asks for values the console writes itself);
- a panel that is minimised and opened again while a stream goes on accepts a question
  at once, although submitting is to be disabled while streaming
  (`src/docs/design-llm-assistant.md:234`), and the earlier answer stays as far as it had come;
- of two tabs, the one that writes last decides which chats are stored
  (`OnlyOldAnswersGo`);
- a secret that is typed and deleted again is sent as null and removed, although the
  label says that leaving it blank keeps it (`pages/platform/IdentityPage.tsx:67`);
- drafts that are typed while a save is under way are dropped with it, and those of a
  directory that is not selected are not sent; a page that was loaded before another
  administrator's save writes its old values over it (`UneditedSettingsStay` and
  `SavesPersist` ask for a save nobody overtook);
- clicking New while a connector is loading lets the late answer fill the form of the
  new one, and saving creates a copy (`crossed` in `SavesAreOwn`); a save or a
  deletion that ends closes whichever form is open by then, and a deletion the server
  refuses is taken for done.

## 8. Not modelled

`PROJECT.json` lists every component with its status and the reason. In short:

- IPAM has the shape of `DcimLifecycle` with one level; a circuit's segments take the
  index that a count gives, whose race is plain to see and forbidden by nothing;
  reconciliation compares what one request has read.
- Webhooks are posted once, by a thread per change, without retry or record: nothing is
  promised that could be checked.
- Search, graphs, views, rendering, serialisation, validation, UI extensions and the
  MCP server keep no state of their own; seeds and migrations are run by hand and give
  initial states.
- The probe of a connector, the tools and the protocol of the copilot, tests of
  connectors and of sign-in providers, exports, cables, password hashes and tokens are
  left out of the components they belong to.

Some hazards in `PROJECT.json` name no property but say why: the code does what the
hazard says and no document promises otherwise (an idempotency key that answers for
another job, the form pages that leave the record's entry alone, a settings page that
is stale when it saves), or the merge of two preference patches is finer than
`ConsoleSession` looks.

What a model leaves to nondeterminism it does not bound: clients of the API may send
any request a handler accepts, in any order, and may give up at any time.
