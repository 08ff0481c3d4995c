------------------------------- MODULE JobRuns -------------------------------
(***************************************************************************)
(* Job runs of one organization: the API that admits them                  *)
(* (nims/routers/v1/automation.py), the worker processes that execute      *)
(* them (nims/services/job_worker.py) and the edits of job definitions     *)
(* that happen meanwhile.  The database is PostgreSQL at READ COMMITTED:   *)
(* every statement sees what is committed when it starts, so a request or  *)
(* a worker is split at its statements and commits.  Uncommitted rows are  *)
(* visible to nobody and are kept in the record of the process that        *)
(* wrote them.                                                             *)
(***************************************************************************)
EXTENDS Naturals, Sequences, FiniteSets

CONSTANTS
  Defs,        \* job definitions
  Keys,        \* job keys a definition can have
  Requests,    \* concurrent calls of POST /jobs/{key}/run
  Workers,     \* nims-worker processes
  IdemKeys,    \* idempotency keys the clients use
  None,        \* no idempotency key, no definition
  MaxRuns,     \* bound: how many runs are ever built
  MaxFaults,   \* bound: how many crashes and raised exceptions occur
  AsyncMode    \* JOB_EXECUTION_MODE: TRUE queues runs, FALSE runs them inline

ASSUME BoundsAssumption == MaxRuns \in Nat /\ MaxFaults \in Nat
ASSUME ModeAssumption == AsyncMode \in BOOLEAN
ASSUME KeysAssumption == Keys # {}
ASSUME NoneAssumption == None \notin IdemKeys /\ None \notin Defs

(* Runs are numbered in the order of their createdAt stamps. *)
RunIds == 1..MaxRuns
NoRun == 0

VARIABLES
  defs,      \* JobDefinition rows
  runs,      \* committed JobRun rows
  audit,     \* committed AuditEvent actions of each run, in commit order
  nextRun,   \* the number the next JobRun object gets
  req,       \* the requests in progress
  wrk,       \* the worker processes
  faults,    \* crashes and exceptions so far
  (* history variables *)
  effects,   \* how often the handler of each run was invoked
  seen,      \* the runs that were committed when a run's key was looked up
  dropped    \* claimed runs a worker gave up, their definition's key had changed

reqVars == <<nextRun, req, seen>>
vars == <<defs, runs, audit, nextRun, req, wrk, faults, effects, seen, dropped>>

-----------------------------------------------------------------------------
Outcome == {"SUCCEEDED", "FAILED"}
Status == {"PENDING", "APPROVAL_REQUIRED", "RUNNING"} \cup Outcome
AuditAction == {"job_queued", "job_run", "job_run_pending_approval"}

Definition == [live : BOOLEAN, key : Keys, approval : BOOLEAN, enabled : BOOLEAN]
Row == [status : Status \cup {"ABSENT"}, defn : Defs \cup {None},
        ikey : IdemKeys \cup {None}]
NoRow == [status |-> "ABSENT", defn |-> None, ikey |-> None]

Request == [pc : {"idle", "looked_up", "insert", "execute", "record"},
            defn : Defs \cup {None}, approval : BOOLEAN, key : Keys,
            ikey : IdemKeys \cup {None}, run : RunIds \cup {NoRun}, ok : BOOLEAN]
Worker == [pc : {"idle", "claiming", "claimed", "execute", "finalize", "recover"},
           run : RunIds \cup {NoRun}, key : Keys, locks : SUBSET RunIds,
           ok : BOOLEAN]

AnyKey == CHOOSE k \in Keys : TRUE
NoDefinition == [live |-> FALSE, key |-> AnyKey, approval |-> FALSE,
                 enabled |-> FALSE]
IdleRequest == [pc |-> "idle", defn |-> None, approval |-> FALSE, key |-> AnyKey,
                ikey |-> None, run |-> NoRun, ok |-> FALSE]
IdleWorker == [pc |-> "idle", run |-> NoRun, key |-> AnyKey, locks |-> {},
               ok |-> FALSE]

TypeOK == /\ defs \in [Defs -> Definition]
          /\ runs \in [RunIds -> Row]
          /\ audit \in [RunIds -> Seq(AuditAction)]
          /\ nextRun \in 1..(MaxRuns + 1)
          /\ req \in [Requests -> Request]
          /\ wrk \in [Workers -> Worker]
          /\ faults \in 0..MaxFaults
          /\ effects \in [RunIds -> Nat]
          /\ seen \in [RunIds -> SUBSET RunIds]
          /\ dropped \subseteq RunIds

(* Some definitions exist, enabled and with distinct keys; nothing has run. *)
Init == /\ defs \in [Defs -> {NoDefinition} \cup [live : {TRUE}, key : Keys,
                                        approval : BOOLEAN, enabled : {TRUE}]]
        /\ \A d, e \in Defs : d # e /\ defs[d].live /\ defs[e].live
                                 => defs[d].key # defs[e].key
        /\ runs = [r \in RunIds |-> NoRow]
        /\ audit = [r \in RunIds |-> <<>>]
        /\ nextRun = 1
        /\ req = [p \in Requests |-> IdleRequest]
        /\ wrk = [w \in Workers |-> IdleWorker]
        /\ faults = 0
        /\ effects = [r \in RunIds |-> 0]
        /\ seen = [r \in RunIds |-> {}]
        /\ dropped = {}

-----------------------------------------------------------------------------
(* Shared by the request and the worker.                                   *)

Committed == {r \in RunIds : runs[r].status # "ABSENT"}

(* execute_job: noop always succeeds, a connector sync either way, and a key
   with no handler is answered with ok = false. *)
HandlerOutcomes(key) == CASE key = "noop" -> {TRUE}
                          [] key = "connector.sync" -> {TRUE, FALSE}
                          [] OTHER -> {FALSE}

FinalStatus(ok) == IF ok THEN "SUCCEEDED" ELSE "FAILED"

Audit(r, action) == audit' = [audit EXCEPT ![r] = Append(@, action)]

Invoke(r) == effects' = [effects EXCEPT ![r] = @ + 1]

Fault == faults < MaxFaults /\ faults' = faults + 1

-----------------------------------------------------------------------------
(* Job definitions: POST /jobs and PATCH /jobs/{id}.                        *)

KeyFree(d, k) == \A e \in Defs \ {d} : ~(defs[e].live /\ defs[e].key = k)

CreateDefinition(d) ==
  /\ ~defs[d].live
  /\ \E k \in Keys, needsApproval \in BOOLEAN :
       /\ KeyFree(d, k)
       /\ defs' = [defs EXCEPT ![d] = [live |-> TRUE, key |-> k,
                                       approval |-> needsApproval, enabled |-> TRUE]]
  /\ UNCHANGED <<runs, audit, reqVars, wrk, faults, effects, dropped>>

(* Any subset of key, requiresApproval and enabled may be in the body. *)
UpdateDefinition(d) ==
  /\ defs[d].live
  /\ \E k \in Keys, needsApproval, isEnabled \in BOOLEAN :
       /\ KeyFree(d, k)
       /\ defs' = [defs EXCEPT ![d] = [live |-> TRUE, key |-> k,
                                       approval |-> needsApproval, enabled |-> isEnabled]]
  /\ UNCHANGED <<runs, audit, reqVars, wrk, faults, effects, dropped>>

-----------------------------------------------------------------------------
(* POST /jobs/{key}/run.                                                   *)

(* The enabled definition is read.  What the request holds of it from here
   on may be out of date.  An unknown key is a 404 and changes nothing. *)
LookUpDefinition(p) ==
  /\ req[p].pc = "idle"
  /\ \E d \in Defs, ik \in IdemKeys \cup {None} :
       /\ defs[d].live /\ defs[d].enabled
       /\ req' = [req EXCEPT ![p] = [IdleRequest EXCEPT !.pc = "looked_up",
                    !.defn = d, !.approval = defs[d].approval,
                    !.key = defs[d].key, !.ikey = ik]]
  /\ UNCHANGED <<defs, runs, audit, nextRun, wrk, faults, effects, seen, dropped>>

(* Mutant: the lookup covers only the queue. *)
SameKey_Queued(ik) ==
  {r \in Committed : ik # None /\ runs[r].ikey = ik /\ runs[r].status = "PENDING"}

(* The committed runs of the organization, of any definition, with this
   idempotency key. *)
SameKey(ik) == {r \in Committed : ik # None /\ runs[r].ikey = ik}

(* One hit is returned as the deduplicated answer; two make scalar_one_or_none
   raise, and the answer is a 500.  Neither changes the database. *)
AnswerExisting(p) ==
  /\ req[p].pc = "looked_up"
  /\ SameKey(req[p].ikey) # {}
  /\ req' = [req EXCEPT ![p] = IdleRequest]
  /\ UNCHANGED <<defs, runs, audit, nextRun, wrk, faults, effects, seen, dropped>>

(* No hit: the run is built and stamped, and flushed into the transaction. *)
BuildRun(p) ==
  /\ req[p].pc = "looked_up"
  /\ SameKey(req[p].ikey) = {}
  /\ nextRun <= MaxRuns
  /\ req' = [req EXCEPT ![p] = [@ EXCEPT !.run = nextRun,
               !.pc = IF AsyncMode \/ req[p].approval THEN "insert" ELSE "execute"]]
  /\ nextRun' = nextRun + 1
  /\ seen' = [seen EXCEPT ![nextRun] = Committed]
  /\ UNCHANGED <<defs, runs, audit, wrk, faults, effects, dropped>>

AdmitStatus(approval) == IF approval THEN "APPROVAL_REQUIRED" ELSE "PENDING"

StoreRow(p, status) ==
  runs' = [runs EXCEPT ![req[p].run] = [status |-> status, defn |-> req[p].defn,
                                        ikey |-> req[p].ikey]]

(* The run and its audit event are committed together, queued or parked. *)
CommitRun(p) ==
  /\ req[p].pc = "insert"
  /\ StoreRow(p, AdmitStatus(req[p].approval))
  /\ Audit(req[p].run, IF req[p].approval THEN "job_run_pending_approval"
                                          ELSE "job_queued")
  /\ req' = [req EXCEPT ![p] = IdleRequest]
  /\ UNCHANGED <<defs, nextRun, wrk, faults, effects, seen, dropped>>

(* Mutant: a failed handler is invoked once more. *)
ExecuteInline_Retries(p) ==
  /\ req[p].pc = "execute"
  /\ Invoke(req[p].run)
  /\ \E ok \in HandlerOutcomes(req[p].key) :
       req' = [req EXCEPT ![p] = [@ EXCEPT !.ok = ok,
                                     !.pc = IF ok THEN "record" ELSE "execute"]]
  /\ UNCHANGED <<defs, runs, audit, nextRun, wrk, faults, seen, dropped>>

(* Inline mode: the handler runs inside the open transaction ... *)
ExecuteInline(p) ==
  /\ req[p].pc = "execute"
  /\ Invoke(req[p].run)
  /\ \E ok \in HandlerOutcomes(req[p].key) :
       req' = [req EXCEPT ![p] = [@ EXCEPT !.pc = "record", !.ok = ok]]
  /\ UNCHANGED <<defs, runs, audit, nextRun, wrk, faults, seen, dropped>>

(* ... which commits the row, already in its final status, and the audit. *)
CommitInline(p) ==
  /\ req[p].pc = "record"
  /\ StoreRow(p, FinalStatus(req[p].ok))
  /\ Audit(req[p].run, "job_run")
  /\ req' = [req EXCEPT ![p] = IdleRequest]
  /\ UNCHANGED <<defs, nextRun, wrk, faults, effects, seen, dropped>>

(* The API process dies or the request raises: its transaction is gone. *)
RequestFails(p) ==
  /\ req[p].pc # "idle"
  /\ Fault
  /\ req' = [req EXCEPT ![p] = IdleRequest]
  /\ UNCHANGED <<defs, runs, audit, nextRun, wrk, effects, seen, dropped>>

-----------------------------------------------------------------------------
(* The worker: process_one_batch.                                           *)

(* The rows the claim query selects: pending runs of an enabled definition
   that does not require approval. *)
Claimable(r) == /\ runs[r].status = "PENDING"
                /\ defs[runs[r].defn].enabled
                /\ ~defs[runs[r].defn].approval

(* Mutant: the claim query takes no row locks. *)
Locked_Never(r) == FALSE

(* FOR UPDATE OF JobRun: a claiming worker holds the lock of every row its
   query returned until it commits; SKIP LOCKED hides those rows from the
   others.  The definitions are not locked. *)
Locked(r) == \E w \in Workers : r \in wrk[w].locks

Oldest(S) == {r \in S : \A s \in S : r <= s}

(* With nothing to claim the transaction is rolled back and the worker
   sleeps: no change. *)
SelectClaim(w) ==
  /\ AsyncMode
  /\ wrk[w].pc = "idle"
  /\ LET rows == {r \in RunIds : Claimable(r) /\ ~Locked(r)}
     IN  \E r \in Oldest(rows) :
           wrk' = [wrk EXCEPT ![w] = [pc |-> "claiming", run |-> r, locks |-> rows,
                     key |-> defs[runs[r].defn].key, ok |-> FALSE]]
  /\ UNCHANGED <<defs, runs, audit, reqVars, faults, effects, dropped>>

(* Mutants: every selected row is marked; the change is not saved. *)
MarkRunning_All(w) ==
  runs' = [r \in RunIds |-> IF r \in wrk[w].locks THEN [runs[r] EXCEPT !.status = "RUNNING"]
                                                  ELSE runs[r]]
MarkRunning_Unsaved(w) == UNCHANGED runs

MarkRunning(w) == runs' = [runs EXCEPT ![wrk[w].run].status = "RUNNING"]

(* The claim becomes durable and all the locks are released. *)
CommitClaim(w) ==
  /\ wrk[w].pc = "claiming"
  /\ MarkRunning(w)
  /\ wrk' = [wrk EXCEPT ![w] = [@ EXCEPT !.pc = "claimed", !.locks = {}]]
  /\ UNCHANGED <<defs, audit, reqVars, faults, effects, dropped>>

(* The commit is durable but the worker gets an exception instead of its
   answer: it logs "claim job run failed" and forgets the run. *)
CommitClaimLost(w) ==
  /\ wrk[w].pc = "claiming"
  /\ Fault
  /\ MarkRunning(w)
  /\ wrk' = [wrk EXCEPT ![w] = IdleWorker]
  /\ UNCHANGED <<defs, audit, reqVars, effects, dropped>>

(* In a new session the run is read again with its definition, whose key
   must still be the one that was claimed. *)
KeyMatches(w) == defs[runs[wrk[w].run].defn].key = wrk[w].key

StillClaimed(w) == runs[wrk[w].run].status = "RUNNING" /\ KeyMatches(w)

LoadClaimed(w) ==
  /\ wrk[w].pc = "claimed"
  /\ StillClaimed(w)
  /\ wrk' = [wrk EXCEPT ![w].pc = "execute"]
  /\ UNCHANGED <<defs, runs, audit, reqVars, faults, effects, dropped>>

(* Mutant: the worker waits for the definition to get its key back. *)
DropClaimed_Waits(w) ==
  /\ wrk[w].pc = "claimed"
  /\ ~StillClaimed(w)
  /\ dropped' = dropped \cup {wrk[w].run}
  /\ UNCHANGED <<defs, runs, audit, reqVars, wrk, faults, effects>>

(* "skipped" or "definition drift": the worker goes on to its next run and
   leaves this one as it is. *)
DropClaimed(w) ==
  /\ wrk[w].pc = "claimed"
  /\ ~StillClaimed(w)
  /\ wrk' = [wrk EXCEPT ![w] = IdleWorker]
  /\ dropped' = dropped \cup {wrk[w].run}
  /\ UNCHANGED <<defs, runs, audit, reqVars, faults, effects>>

ExecuteRun(w) ==
  /\ wrk[w].pc = "execute"
  /\ Invoke(wrk[w].run)
  /\ \E ok \in HandlerOutcomes(wrk[w].key) :
       wrk' = [wrk EXCEPT ![w] = [@ EXCEPT !.pc = "finalize", !.ok = ok]]
  /\ UNCHANGED <<defs, runs, audit, reqVars, faults, dropped>>

(* Mutant: no audit event for the outcome. *)
WriteOutcome_Unaudited(w) ==
  /\ runs' = [runs EXCEPT ![wrk[w].run].status = FinalStatus(wrk[w].ok)]
  /\ UNCHANGED audit

(* Final status and audit event, in one transaction.  The status test before
   it reads the session's own copy of the row, which is still RUNNING. *)
WriteOutcome(w) ==
  /\ runs' = [runs EXCEPT ![wrk[w].run].status = FinalStatus(wrk[w].ok)]
  /\ Audit(wrk[w].run, "job_run")

Finalize(w) ==
  /\ wrk[w].pc = "finalize"
  /\ WriteOutcome(w)
  /\ wrk' = [wrk EXCEPT ![w] = IdleWorker]
  /\ UNCHANGED <<defs, reqVars, faults, effects, dropped>>

(* The commit is durable but raises in the worker. *)
FinalizeLost(w) ==
  /\ wrk[w].pc = "finalize"
  /\ Fault
  /\ WriteOutcome(w)
  /\ wrk' = [wrk EXCEPT ![w].pc = "recover"]
  /\ UNCHANGED <<defs, reqVars, effects, dropped>>

(* Loading, the handler or the final flush raises: everything since the claim
   is rolled back and the exception path begins. *)
RunRaises(w) ==
  /\ wrk[w].pc \in {"claimed", "execute", "finalize"}
  /\ Fault
  /\ wrk' = [wrk EXCEPT ![w].pc = "recover"]
  /\ UNCHANGED <<defs, runs, audit, reqVars, effects, dropped>>

(* Mutant: the exception path does not look at the status. *)
StillRunning_Unchecked(w) == TRUE

(* The exception path: a fresh session fails the run, unless another status
   is already there.  It records no audit event. *)
StillRunning(w) == runs[wrk[w].run].status = "RUNNING"

Recover(w) ==
  /\ wrk[w].pc = "recover"
  /\ IF StillRunning(w)
     THEN runs' = [runs EXCEPT ![wrk[w].run].status = "FAILED"]
     ELSE UNCHANGED runs
  /\ wrk' = [wrk EXCEPT ![w] = IdleWorker]
  /\ UNCHANGED <<defs, audit, reqVars, faults, effects, dropped>>

(* The process dies at any point, a claim that is not committed is rolled
   back (line 98 as well), or the exception path itself raises: in each case
   the worker forgets the run and is back in its poll loop, or restarted. *)
WorkerFails(w) ==
  /\ wrk[w].pc # "idle"
  /\ Fault
  /\ wrk' = [wrk EXCEPT ![w] = IdleWorker]
  /\ UNCHANGED <<defs, runs, audit, reqVars, effects, dropped>>

-----------------------------------------------------------------------------
RequestStep(p) == AnswerExisting(p) \/ BuildRun(p) \/ CommitRun(p)
                    \/ ExecuteInline(p) \/ CommitInline(p)
WorkerStep(w) == SelectClaim(w) \/ CommitClaim(w) \/ LoadClaimed(w)
                   \/ DropClaimed(w) \/ ExecuteRun(w)
                   \/ Finalize(w) \/ Recover(w)
WorkerFault(w) == CommitClaimLost(w) \/ FinalizeLost(w) \/ RunRaises(w) \/ WorkerFails(w)

Next == \/ \E d \in Defs : CreateDefinition(d) \/ UpdateDefinition(d)
        \/ \E p \in Requests : LookUpDefinition(p) \/ RequestStep(p) \/ RequestFails(p)
        \/ \E w \in Workers : WorkerStep(w) \/ WorkerFault(w)

Spec == Init /\ [][Next]_vars

(* A worker that can take a step does: the poll loop never stops by itself.
   Clients and administrators owe nothing. *)
FairSpec == Spec /\ \A w \in Workers : WF_vars(WorkerStep(w))

-----------------------------------------------------------------------------
(* Properties.                                                             *)

(* Every handler invocation belongs to one run and is accounted for by its
   status: no run is executed twice whatever crashes and however the workers
   interleave, a queued run or one that waits for approval has not been
   executed, success means the handler ran, and a worker never executes a
   run that is not in the database (process_one_batch, run_job). *)
ExecutionAccounting ==
  \A r \in RunIds :
    /\ effects[r] <= 1
    /\ runs[r].status \in {"PENDING", "APPROVAL_REQUIRED"} => effects[r] = 0
    /\ runs[r].status = "SUCCEEDED" => effects[r] = 1
    /\ AsyncMode /\ runs[r].status = "ABSENT" => effects[r] = 0

(* The audit trail of a run tells its history: one admission event for a
   queued or parked run, then at most one job_run event, which every success
   has.  Only the worker's exception path fails a run without one
   (record_audit in run_job and _finalize, its absence in lines 139-148). *)
Accounts(trail, status) ==
  /\ status = "ABSENT" => trail = <<>>
  /\ status = "APPROVAL_REQUIRED" => trail = <<"job_run_pending_approval">>
  /\ status \in {"PENDING", "RUNNING"} => trail = <<"job_queued">>
  /\ status \in Outcome =>
       \/ trail \in {<<"job_queued", "job_run">>, <<"job_run">>}
       \/ status = "FAILED" /\ trail = <<"job_queued">>
AuditTrail == \A r \in RunIds : Accounts(audit[r], runs[r].status)

(* The check for an idempotency key misses only what is not committed yet:
   two runs with one key were built by overlapping requests, neither of which
   could see the other's row (run_job, lines 201-211). *)
DuplicatesOverlap ==
  \A r, s \in Committed :
    r # s /\ runs[r].ikey # None /\ runs[r].ikey = runs[s].ikey
      => r \notin seen[s] /\ s \notin seen[r]

(* Claims are committed one run at a time: a crash or a lost answer strands
   at most one run in RUNNING, whatever the batch size and the number of rows
   the claim query locked.  Other stranded runs are the dropped ones. *)
HeldBy(w, r) == wrk[w].run = r /\ wrk[w].pc \notin {"idle", "claiming"}
Orphan(r) == runs[r].status = "RUNNING" /\ \A w \in Workers : ~HeldBy(w, r)
FaultsStrandOneRun == Cardinality({r \in RunIds : Orphan(r)} \ dropped) <= faults

(* An outcome that was recorded, and a run parked for approval, never change;
   no committed run disappears or moves to another definition or key
   (the status test of the exception path, line 142). *)
OutcomeIsFinal ==
  [][\A r \in Committed :
       /\ runs'[r].defn = runs[r].defn /\ runs'[r].ikey = runs[r].ikey
       /\ runs'[r].status # "ABSENT"
       /\ runs[r].status \in Outcome \cup {"APPROVAL_REQUIRED"}
            => runs'[r] = runs[r]]_vars

(* A queued run whose definition stays open is claimed: locks held by other
   workers, their crashes and older runs only delay it. *)
QueueDrains ==
  \A r \in RunIds : Claimable(r) ~> ~Claimable(r)

(* A run that some worker holds gets an outcome or is stranded: no worker
   keeps a run forever. *)
HeldRunsEnd ==
  \A r \in RunIds :
    (runs[r].status = "RUNNING") ~> (runs[r].status \in Outcome \/ Orphan(r))

(* The statuses and invocations of the runs behave as JobLedger says. *)
Ledger == INSTANCE JobLedger WITH
            ledger <- [r \in RunIds |-> runs[r].status], performed <- effects
ImplementsLedger == Ledger!LedgerSpec

-----------------------------------------------------------------------------
(* The inductive invariant behind the safety properties.                    *)

(* Numbers that were not handed out yet stand for nothing. *)
FreshRuns == \A r \in RunIds : r >= nextRun => runs[r].status = "ABSENT" /\ effects[r] = 0

RowsHaveDefinitions == \A r \in Committed : runs[r].defn \in Defs

(* A request that builds a run owns it: nobody else sees it. *)
Building(p) == req[p].pc \in {"insert", "execute", "record"}
RequestsOwnRuns ==
  \A p \in Requests :
    /\ req[p].pc # "idle" => req[p].defn \in Defs
    /\ Building(p) => /\ req[p].run \in RunIds
                      /\ req[p].run < nextRun
                      /\ runs[req[p].run].status = "ABSENT"
                      /\ effects[req[p].run] = IF req[p].pc = "record" THEN 1 ELSE 0
                      /\ AsyncMode => req[p].pc = "insert"
    /\ \A q \in Requests : Building(p) /\ Building(q) /\ req[p].run = req[q].run => p = q

(* Row locks are exclusive and cover pending rows only. *)
LocksAreExclusive ==
  \A w \in Workers :
    /\ wrk[w].pc = "claiming" => wrk[w].run \in wrk[w].locks
    /\ wrk[w].pc # "claiming" => wrk[w].locks = {}
    /\ \A r \in wrk[w].locks : runs[r].status = "PENDING"
    /\ \A v \in Workers : v # w => wrk[v].locks \cap wrk[w].locks = {}

(* A started run is held by at most one worker, whose place in the batch loop
   says whether the handler was invoked. *)
Holding(w) == wrk[w].pc \in {"claimed", "execute", "finalize", "recover"}
WorkersOwnRuns ==
  \A w \in Workers :
    /\ Holding(w) => wrk[w].run \in RunIds
    /\ wrk[w].pc \in {"claimed", "execute", "finalize"} =>
         /\ runs[wrk[w].run].status = "RUNNING"
         /\ effects[wrk[w].run] = IF wrk[w].pc = "finalize" THEN 1 ELSE 0
    /\ wrk[w].pc = "recover" => runs[wrk[w].run].status \in {"RUNNING"} \cup Outcome
    /\ \A v \in Workers : Holding(w) /\ Holding(v) /\ wrk[w].run = wrk[v].run => v = w

IInv == /\ TypeOK
        /\ FreshRuns
        /\ RowsHaveDefinitions
        /\ RequestsOwnRuns
        /\ LocksAreExclusive
        /\ WorkersOwnRuns
        /\ ExecutionAccounting

(* What a request found when it looked its key up stays true of the runs it
   saw: their rows never change their key. *)
LookupsWereClean ==
  /\ \A r \in RunIds : seen[r] \subseteq Committed
  /\ \A r \in Committed : \A s \in seen[r] :
       runs[r].ikey # None => runs[s].ikey # runs[r].ikey
  /\ \A p \in Requests : Building(p) =>
       \A s \in seen[req[p].run] : req[p].ikey # None => runs[s].ikey # req[p].ikey
=============================================================================
