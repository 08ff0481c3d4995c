---------------------------- MODULE JobRunsProofs ----------------------------
(***************************************************************************)
(* Proofs about JobRuns for any number of definitions, requests, workers,  *)
(* runs and faults, in both execution modes.                               *)
(***************************************************************************)
EXTENDS JobRuns, FiniteSetTheorems, TLAPS

(* The records a process starts from have the right types. *)
LEMMA IdleTypes == /\ AnyKey \in Keys
                   /\ NoDefinition \in Definition
                   /\ IdleRequest \in Request
                   /\ IdleWorker \in Worker
                   /\ NoRow \in Row
<1>1. AnyKey \in Keys
  BY KeysAssumption DEF AnyKey
<1>2. QED
  BY <1>1 DEF NoDefinition, Definition, IdleRequest, Request, IdleWorker, Worker,
              NoRow, Row, NoRun, Status, Outcome

(* The initial states satisfy the inductive invariant. *)
LEMMA InitIInv == Init => IInv
<1> SUFFICES ASSUME Init PROVE IInv
  OBVIOUS
<1>1. TypeOK
  <2>1. [live : {TRUE}, key : Keys, approval : BOOLEAN, enabled : {TRUE}] \subseteq Definition
    BY Zenon DEF Definition
  <2>2. defs \in [Defs -> Definition]
    BY <2>1, IdleTypes, Zenon DEF Init
  <2>3. nextRun \in 1..(MaxRuns + 1) /\ faults \in 0..MaxFaults
    BY BoundsAssumption DEF Init
  <2>4. audit \in [RunIds -> Seq(AuditAction)]
    BY DEF Init
  <2>5. /\ runs \in [RunIds -> Row]
        /\ req \in [Requests -> Request]
        /\ wrk \in [Workers -> Worker]
        /\ effects \in [RunIds -> Nat]
        /\ seen \in [RunIds -> SUBSET RunIds]
        /\ dropped \subseteq RunIds
    BY IdleTypes DEF Init
  <2>6. QED
    BY <2>2, <2>3, <2>4, <2>5 DEF TypeOK
<1>2. FreshRuns /\ RowsHaveDefinitions
  BY DEF Init, FreshRuns, RowsHaveDefinitions, Committed, NoRow
<1>3. RequestsOwnRuns
  BY DEF Init, RequestsOwnRuns, Building, IdleRequest
<1>4. LocksAreExclusive
  BY DEF Init, LocksAreExclusive, IdleWorker
<1>5. WorkersOwnRuns
  BY DEF Init, WorkersOwnRuns, Holding, IdleWorker
<1>6. ExecutionAccounting
  BY DEF Init, ExecutionAccounting, NoRow
<1>7. QED
  BY <1>1, <1>2, <1>3, <1>4, <1>5, <1>6 DEF IInv

(* Editing definitions touches neither runs nor processes. *)
LEMMA DefinitionSteps ==
  ASSUME IInv, NEW d \in Defs, CreateDefinition(d) \/ UpdateDefinition(d)
  PROVE  IInv'
<1>1. PICK k \in Keys, needsApproval \in BOOLEAN, isEnabled \in BOOLEAN :
        defs' = [defs EXCEPT ![d] = [live |-> TRUE, key |-> k,
                                     approval |-> needsApproval, enabled |-> isEnabled]]
  BY Zenon DEF CreateDefinition, UpdateDefinition
<1>2. defs' \in [Defs -> Definition]
  BY <1>1, Zenon DEF IInv, TypeOK, Definition
<1>3. UNCHANGED <<runs, audit, nextRun, req, wrk, faults, effects, seen, dropped>>
  BY DEF CreateDefinition, UpdateDefinition, reqVars
<1>4. TypeOK'
  BY <1>2, <1>3 DEF IInv, TypeOK
<1>5. QED
  BY <1>3, <1>4 DEF IInv, FreshRuns, RowsHaveDefinitions, RequestsOwnRuns, LocksAreExclusive,
     WorkersOwnRuns, ExecutionAccounting, Committed, Building, Holding

(* A request that goes back to idle gives up whatever it built. *)
LEMMA RequestEnds ==
  ASSUME IInv, NEW p \in Requests, AnswerExisting(p) \/ RequestFails(p)
  PROVE  IInv'
<1>1. req' = [req EXCEPT ![p] = IdleRequest] /\ faults' \in 0..MaxFaults
  BY BoundsAssumption DEF AnswerExisting, RequestFails, Fault, IInv, TypeOK
<1>2. UNCHANGED <<defs, runs, audit, nextRun, wrk, effects, seen, dropped>>
  BY DEF AnswerExisting, RequestFails
<1>3. TypeOK'
  BY <1>1, <1>2, IdleTypes DEF IInv, TypeOK
<1>4. RequestsOwnRuns'
  BY <1>1, <1>2 DEF IInv, TypeOK, RequestsOwnRuns, Building, IdleRequest
<1>5. QED
  BY <1>2, <1>3, <1>4 DEF IInv, FreshRuns, RowsHaveDefinitions, LocksAreExclusive,
     WorkersOwnRuns, ExecutionAccounting, Committed, Holding

LEMMA LookUpStep ==
  ASSUME IInv, NEW p \in Requests, LookUpDefinition(p)
  PROVE  IInv'
<1>1. PICK d \in Defs, ik \in IdemKeys \cup {None} :
        req' = [req EXCEPT ![p] = [IdleRequest EXCEPT !.pc = "looked_up",
                  !.defn = d, !.approval = defs[d].approval,
                  !.key = defs[d].key, !.ikey = ik]]
  BY DEF LookUpDefinition
<1>2. UNCHANGED <<defs, runs, audit, nextRun, wrk, faults, effects, seen, dropped>>
  BY DEF LookUpDefinition
<1>3. defs[d] \in Definition
  BY DEF IInv, TypeOK
<1>4. req' \in [Requests -> Request]
  BY <1>1, <1>3, IdleTypes DEF IInv, TypeOK, Request, IdleRequest, Definition
<1>5. TypeOK'
  BY <1>2, <1>4 DEF IInv, TypeOK
<1>6. RequestsOwnRuns'
  BY <1>1, <1>2 DEF IInv, TypeOK, RequestsOwnRuns, Building, IdleRequest
<1>7. QED
  BY <1>2, <1>5, <1>6 DEF IInv, FreshRuns, RowsHaveDefinitions, LocksAreExclusive,
     WorkersOwnRuns, ExecutionAccounting, Committed, Holding

(* A new run gets a number that no row, request or worker knows. *)
LEMMA BuildStep ==
  ASSUME IInv, NEW p \in Requests, BuildRun(p)
  PROVE  IInv'
<1> DEFINE pc == IF AsyncMode \/ req[p].approval THEN "insert" ELSE "execute"
<1>1. /\ req[p].pc = "looked_up" /\ nextRun \in RunIds
      /\ req' = [req EXCEPT ![p] = [req[p] EXCEPT !.run = nextRun, !.pc = pc]]
      /\ nextRun' = nextRun + 1
      /\ seen' = [seen EXCEPT ![nextRun] = Committed]
      /\ UNCHANGED <<defs, runs, audit, wrk, faults, effects, dropped>>
  BY BoundsAssumption DEF BuildRun, IInv, TypeOK, RunIds
<1>2. req' \in [Requests -> Request]
  <2>1. req[p] \in Request
    BY DEF IInv, TypeOK
  <2>2. [req[p] EXCEPT !.run = nextRun, !.pc = pc] \in Request
    BY <1>1, <2>1 DEF Request
  <2>3. QED
    BY <1>1, <2>2 DEF IInv, TypeOK
<1>3. TypeOK'
  BY <1>1, <1>2, BoundsAssumption DEF IInv, TypeOK, Committed, RunIds
<1>4. FreshRuns'
  BY <1>1, BoundsAssumption DEF IInv, TypeOK, FreshRuns, RunIds
<1>5. runs[nextRun].status = "ABSENT" /\ effects[nextRun] = 0
  BY <1>1, BoundsAssumption DEF IInv, FreshRuns, RunIds
<1>6. RequestsOwnRuns'
  <2>1. /\ req'[p].pc = pc /\ req'[p].run = nextRun /\ req'[p].defn = req[p].defn
        /\ \A q \in Requests : q # p => req'[q] = req[q]
    BY <1>1 DEF IInv, TypeOK, Request
  <2>2. \A q \in Requests : Building(q) /\ q # p => req[q].run < nextRun /\ req[q].run \in RunIds
    BY DEF IInv, RequestsOwnRuns
  <2>3. nextRun \in Nat /\ \A r \in RunIds : r \in Nat
    BY <1>1 DEF RunIds
  <2>4. QED
    BY <1>1, <1>5, <2>1, <2>2, <2>3, ModeAssumption
       DEF IInv, RequestsOwnRuns, Building
<1>7. QED
  BY <1>1, <1>3, <1>4, <1>6 DEF IInv, RowsHaveDefinitions, LocksAreExclusive,
     WorkersOwnRuns, ExecutionAccounting, Committed, Holding

(* A request that stores its run: the row was absent, so no worker held it. *)
LEMMA StoreStep ==
  ASSUME IInv, NEW p \in Requests, NEW status \in Status, Building(p),
         StoreRow(p, status),
         effects[req[p].run] = IF status \in Outcome THEN 1 ELSE 0,
         status # "RUNNING",
         req' = [req EXCEPT ![p] = IdleRequest],
         audit' \in [RunIds -> Seq(AuditAction)],
         UNCHANGED <<defs, nextRun, wrk, faults, effects, seen, dropped>>
  PROVE  IInv'
<1> DEFINE n == req[p].run
<1>1. /\ n \in RunIds /\ n < nextRun /\ runs[n].status = "ABSENT"
      /\ req[p].defn \in Defs /\ req[p].ikey \in IdemKeys \cup {None}
  BY DEF IInv, TypeOK, RequestsOwnRuns, Building, Request
<1>2. /\ runs'[n] = [status |-> status, defn |-> req[p].defn, ikey |-> req[p].ikey]
      /\ \A r \in RunIds : r # n => runs'[r] = runs[r]
      /\ runs' \in [RunIds -> Row]
  BY <1>1 DEF StoreRow, IInv, TypeOK, Row
<1>3. TypeOK'
  BY <1>2, IdleTypes DEF IInv, TypeOK
<1>4. FreshRuns'
  <2>1. nextRun \in Nat /\ RunIds \subseteq Nat
    BY BoundsAssumption DEF IInv, TypeOK, RunIds
  <2>2. \A r \in RunIds : r >= nextRun => r # n
    BY <1>1, <2>1
  <2>3. QED
    BY <1>2, <2>2 DEF IInv, FreshRuns
<1>5. RowsHaveDefinitions'
  BY <1>1, <1>2 DEF IInv, RowsHaveDefinitions, Committed
<1>6. RequestsOwnRuns'
  BY <1>1, <1>2 DEF IInv, TypeOK, RequestsOwnRuns, Building, IdleRequest
<1>7. LocksAreExclusive'
  <2>1. \A w \in Workers : wrk[w].locks \subseteq RunIds
    BY DEF IInv, TypeOK, Worker
  <2>2. \A w \in Workers : \A r \in wrk[w].locks : runs'[r].status = "PENDING"
    BY <1>1, <1>2, <2>1 DEF IInv, LocksAreExclusive
  <2>3. QED
    BY <2>2 DEF IInv, LocksAreExclusive
<1>8. WorkersOwnRuns'
  BY <1>1, <1>2 DEF IInv, WorkersOwnRuns, Holding, Outcome
<1>9. ExecutionAccounting'
  BY <1>1, <1>2 DEF IInv, ExecutionAccounting, Outcome, Status
<1>10. QED
  BY <1>3, <1>4, <1>5, <1>6, <1>7, <1>8, <1>9 DEF IInv

LEMMA AuditTyped ==
  ASSUME TypeOK, NEW r \in RunIds, NEW a \in AuditAction, Audit(r, a)
  PROVE  audit' \in [RunIds -> Seq(AuditAction)]
BY DEF TypeOK, Audit

LEMMA CommitRunStep ==
  ASSUME IInv, NEW p \in Requests, CommitRun(p)
  PROVE  IInv'
<1>1. Building(p) /\ req[p].run \in RunIds /\ effects[req[p].run] = 0
  BY DEF CommitRun, Building, IInv, RequestsOwnRuns
<1>2. AdmitStatus(req[p].approval) \in Status \ (Outcome \cup {"RUNNING"})
  BY DEF AdmitStatus, Status, Outcome
<1>3. audit' \in [RunIds -> Seq(AuditAction)]
  BY <1>1, AuditTyped DEF CommitRun, AuditAction, IInv
<1>4. QED
  BY <1>1, <1>2, <1>3, StoreStep DEF CommitRun

LEMMA CommitInlineStep ==
  ASSUME IInv, NEW p \in Requests, CommitInline(p)
  PROVE  IInv'
<1>1. Building(p) /\ req[p].run \in RunIds /\ effects[req[p].run] = 1
  BY DEF CommitInline, Building, IInv, RequestsOwnRuns
<1>2. FinalStatus(req[p].ok) \in Outcome /\ Outcome \subseteq Status \ {"RUNNING"}
  BY DEF FinalStatus, Status, Outcome
<1>3. audit' \in [RunIds -> Seq(AuditAction)]
  BY <1>1, AuditTyped DEF CommitInline, AuditAction, IInv
<1>4. QED
  BY <1>1, <1>2, <1>3, StoreStep DEF CommitInline

LEMMA ExecuteInlineStep ==
  ASSUME IInv, NEW p \in Requests, ExecuteInline(p)
  PROVE  IInv'
<1> DEFINE n == req[p].run
<1>1. PICK ok \in BOOLEAN :
        /\ req' = [req EXCEPT ![p] = [req[p] EXCEPT !.pc = "record", !.ok = ok]]
        /\ req[p].pc = "execute" /\ effects' = [effects EXCEPT ![n] = effects[n] + 1]
        /\ UNCHANGED <<defs, runs, audit, nextRun, wrk, faults, seen, dropped>>
  BY DEF ExecuteInline, Invoke, HandlerOutcomes, IInv, TypeOK
<1>2. /\ n \in RunIds /\ n < nextRun /\ runs[n].status = "ABSENT" /\ effects[n] = 0
      /\ ~AsyncMode /\ req[p] \in Request
  BY <1>1, ModeAssumption DEF IInv, TypeOK, RequestsOwnRuns, Building
<1>3. /\ req'[p] \in Request /\ req'[p].pc = "record" /\ req'[p].run = n
      /\ req'[p].defn = req[p].defn
      /\ \A q \in Requests : q # p => req'[q] = req[q]
      /\ req' \in [Requests -> Request]
  BY <1>1, <1>2 DEF IInv, TypeOK, Request
<1>4. /\ effects'[n] = 1 /\ \A r \in RunIds : r # n => effects'[r] = effects[r]
      /\ effects' \in [RunIds -> Nat]
  BY <1>1, <1>2 DEF IInv, TypeOK
<1>5. TypeOK'
  BY <1>1, <1>3, <1>4 DEF IInv, TypeOK
<1>6. FreshRuns'
  <2>1. nextRun \in Nat /\ n \in Nat
    BY <1>2, BoundsAssumption DEF IInv, TypeOK, RunIds
  <2>2. QED
    BY <1>1, <1>2, <1>4, <2>1 DEF IInv, FreshRuns
<1>7. RequestsOwnRuns'
  BY <1>1, <1>2, <1>3, <1>4 DEF IInv, RequestsOwnRuns, Building
<1>8. WorkersOwnRuns'
  BY <1>1, <1>2, <1>4 DEF IInv, WorkersOwnRuns, Holding, Outcome
<1>9. ExecutionAccounting'
  BY <1>1, <1>2, <1>4 DEF IInv, ExecutionAccounting
<1>10. QED
  BY <1>1, <1>5, <1>6, <1>7, <1>8, <1>9 DEF IInv, RowsHaveDefinitions,
     LocksAreExclusive, Committed

(* What a worker that is not idle knows of its run. *)
LEMMA WorkerRun ==
  ASSUME IInv, NEW w \in Workers, wrk[w].pc # "idle"
  PROVE  /\ wrk[w].run \in RunIds
         /\ wrk[w].pc = "claiming" => runs[wrk[w].run].status = "PENDING"
         /\ Holding(w) => runs[wrk[w].run].status \in {"RUNNING"} \cup Outcome
         /\ wrk[w].pc = "claiming" \/ Holding(w)
         /\ wrk[w] \in Worker
<1>1. wrk[w] \in Worker
  BY DEF IInv, TypeOK
<1>2. wrk[w].pc = "claiming" \/ Holding(w)
  BY <1>1 DEF Worker, Holding
<1>3. CASE wrk[w].pc = "claiming"
  <2>1. wrk[w].run \in wrk[w].locks /\ wrk[w].locks \subseteq RunIds
    BY <1>1, <1>3 DEF IInv, LocksAreExclusive, Worker
  <2>2. QED
    BY <1>1, <1>3, <2>1 DEF IInv, LocksAreExclusive, Holding
<1>4. CASE Holding(w)
  BY <1>1, <1>4 DEF IInv, WorkersOwnRuns, Holding
<1>5. QED
  BY <1>2, <1>3, <1>4

(* The run of a busy worker is nobody else's: no other worker holds or locks
   it, and no request builds it. *)
LEMMA RunIsPrivate ==
  ASSUME IInv, NEW w \in Workers, wrk[w].pc # "idle"
  PROVE  /\ \A v \in Workers \ {w} : /\ Holding(v) => wrk[v].run # wrk[w].run
                                     /\ wrk[w].run \notin wrk[v].locks
         /\ \A p \in Requests : Building(p) => req[p].run # wrk[w].run
         /\ wrk[w].run < nextRun
<1> DEFINE n == wrk[w].run
<1>1. /\ n \in RunIds
      /\ wrk[w].pc = "claiming" \/ Holding(w)
      /\ runs[n].status \in {"PENDING", "RUNNING"} \cup Outcome
      /\ Holding(w) => runs[n].status # "PENDING"
      /\ wrk[w].pc = "claiming" => runs[n].status = "PENDING"
  BY WorkerRun DEF Outcome
<1>2. \A p \in Requests : Building(p) => req[p].run # n
  BY <1>1 DEF IInv, RequestsOwnRuns, Outcome
<1>3. n < nextRun
  <2>1. nextRun \in Nat /\ n \in Nat
    BY <1>1, BoundsAssumption DEF IInv, TypeOK, RunIds
  <2>2. n >= nextRun => runs[n].status = "ABSENT"
    BY <1>1 DEF IInv, FreshRuns
  <2>3. QED
    BY <1>1, <2>1, <2>2 DEF Outcome
<1>4. ASSUME NEW v \in Workers \ {w}
      PROVE  /\ Holding(v) => wrk[v].run # n
             /\ n \notin wrk[v].locks
  <2>1. Holding(v) => runs[wrk[v].run].status # "PENDING"
    BY WorkerRun DEF Holding, Outcome
  <2>2. Holding(v) => wrk[v].run # n
    BY <1>1, <2>1 DEF IInv, WorkersOwnRuns
  <2>3. n \in wrk[v].locks => runs[n].status = "PENDING"
    BY DEF IInv, LocksAreExclusive
  <2>4. wrk[w].pc = "claiming" => n \in wrk[w].locks /\ wrk[v].locks \cap wrk[w].locks = {}
    BY DEF IInv, LocksAreExclusive
  <2>5. QED
    BY <1>1, <2>2, <2>3, <2>4
<1>5. QED
  BY <1>2, <1>3, <1>4

(* A busy worker changes its own record and its own run, to status s after e
   invocations, and gives up its locks. *)
HolderChange(w, x, s, e) ==
  LET n == wrk[w].run IN
  /\ wrk[w].pc # "idle"
  /\ wrk' = [wrk EXCEPT ![w] = x]
  /\ x.locks = {} /\ x.pc # "claiming"
  /\ x.pc # "idle" => x.run = n
  /\ runs' \in [RunIds -> Row]
  /\ runs'[n] = [runs[n] EXCEPT !.status = s]
  /\ \A r \in RunIds \ {n} : runs'[r] = runs[r]
  /\ effects' \in [RunIds -> Nat]
  /\ effects'[n] = e
  /\ \A r \in RunIds \ {n} : effects'[r] = effects[r]
  /\ s = "SUCCEEDED" => e = 1
  /\ x.pc \in {"claimed", "execute"} => s = "RUNNING" /\ e = 0
  /\ x.pc = "finalize" => s = "RUNNING" /\ e = 1
  /\ audit' \in [RunIds -> Seq(AuditAction)]
  /\ faults' \in 0..MaxFaults
  /\ UNCHANGED <<defs, nextRun, req, seen, dropped>>

LEMMA HolderStep ==
  ASSUME IInv, NEW w \in Workers, NEW x \in Worker,
         NEW s \in {"RUNNING"} \cup Outcome, NEW e \in 0..1,
         HolderChange(w, x, s, e)
  PROVE  IInv'
<1> USE DEF HolderChange
<1> DEFINE n == wrk[w].run
<1>1. /\ n \in RunIds /\ n < nextRun /\ runs[n].status \in {"PENDING", "RUNNING"} \cup Outcome
      /\ \A p \in Requests : Building(p) => req[p].run # n
      /\ \A v \in Workers \ {w} : Holding(v) => wrk[v].run # n
      /\ \A v \in Workers \ {w} : n \notin wrk[v].locks
  BY WorkerRun, RunIsPrivate
<1>2. runs[n] \in Row /\ runs'[n].status = s /\ runs'[n].defn = runs[n].defn
  BY <1>1 DEF IInv, TypeOK, Row
<1>3. wrk'[w] = x /\ \A v \in Workers \ {w} : wrk'[v] = wrk[v]
  BY DEF IInv, TypeOK
<1>4. TypeOK'
  BY DEF IInv, TypeOK
<1>5. FreshRuns'
  <2>1. nextRun \in Nat /\ RunIds \subseteq Nat
    BY BoundsAssumption DEF IInv, TypeOK, RunIds
  <2>2. \A r \in RunIds : r >= nextRun => r # n
    BY <1>1, <2>1
  <2>3. QED
    BY <2>2 DEF IInv, FreshRuns
<1>6. RowsHaveDefinitions'
  BY <1>1, <1>2 DEF IInv, RowsHaveDefinitions, Committed, Outcome
<1>7. RequestsOwnRuns'
  <2>1. ASSUME NEW p \in Requests, Building(p)
        PROVE  /\ req[p].run \in RunIds
               /\ runs'[req[p].run] = runs[req[p].run]
               /\ effects'[req[p].run] = effects[req[p].run]
    BY <1>1, <2>1 DEF IInv, RequestsOwnRuns
  <2>2. \A p \in Requests : Building(p)' <=> Building(p)
    BY DEF Building
  <2>3. QED
    BY <2>1, <2>2 DEF IInv, RequestsOwnRuns
<1>8. LocksAreExclusive'
  <2>1. \A v \in Workers : wrk[v].locks \subseteq RunIds
    BY DEF IInv, TypeOK, Worker
  <2>2. ASSUME NEW v \in Workers \ {w}, NEW r \in wrk[v].locks
        PROVE  runs'[r].status = "PENDING"
    <3>1. r \in RunIds \ {n} /\ runs[r].status = "PENDING"
      BY <1>1, <2>1 DEF IInv, LocksAreExclusive
    <3>2. QED
      BY <3>1
  <2>3. QED
    BY <1>3, <2>2 DEF IInv, LocksAreExclusive
<1>9. WorkersOwnRuns'
  <2>1. ASSUME NEW v \in Workers \ {w}
        PROVE  /\ Holding(v)' <=> Holding(v)
               /\ Holding(v) => /\ wrk[v].run \in RunIds \ {n}
                                /\ runs'[wrk[v].run] = runs[wrk[v].run]
                                /\ effects'[wrk[v].run] = effects[wrk[v].run]
    BY <1>1, <1>3 DEF IInv, WorkersOwnRuns, Holding
  <2>2. Holding(w)' => wrk'[w].run = n
    BY <1>3 DEF Holding
  <2>3. ASSUME NEW v \in Workers \ {w}
        PROVE  /\ wrk'[v].pc = wrk[v].pc /\ wrk'[v].run = wrk[v].run
               /\ wrk[v].pc \in {"claimed", "execute", "finalize"} => Holding(v)
               /\ wrk[v].pc = "recover" => Holding(v)
    BY <1>3 DEF Holding
  <2>4. /\ wrk'[w].pc \in {"claimed", "execute"} => runs'[n].status = "RUNNING" /\ effects'[n] = 0
        /\ wrk'[w].pc = "finalize" => runs'[n].status = "RUNNING" /\ effects'[n] = 1
        /\ runs'[n].status \in {"RUNNING"} \cup Outcome
    BY <1>2, <1>3
  <2>5. ASSUME NEW v \in Workers
        PROVE  /\ Holding(v)' => wrk'[v].run \in RunIds
               /\ wrk'[v].pc \in {"claimed", "execute", "finalize"} =>
                    /\ runs'[wrk'[v].run].status = "RUNNING"
                    /\ effects'[wrk'[v].run] = IF wrk'[v].pc = "finalize" THEN 1 ELSE 0
               /\ wrk'[v].pc = "recover" => runs'[wrk'[v].run].status \in {"RUNNING"} \cup Outcome
    <3>1. CASE v = w
      BY <1>1, <2>2, <2>4, <3>1 DEF Holding
    <3>2. CASE v # w
      BY <2>1, <2>3, <3>2 DEF IInv, WorkersOwnRuns
    <3>3. QED
      BY <3>1, <3>2
  <2>6. ASSUME NEW u \in Workers, NEW v \in Workers, Holding(u)', Holding(v)',
               wrk'[u].run = wrk'[v].run
        PROVE  u = v
    <3>1. CASE u # w /\ v # w
      BY <2>1, <2>3, <2>6, <3>1 DEF IInv, WorkersOwnRuns
    <3>2. CASE u = w \/ v = w
      BY <1>1, <2>1, <2>2, <2>3, <2>6, <3>2
    <3>3. QED
      BY <3>1, <3>2
  <2>7. QED
    BY <2>5, <2>6 DEF WorkersOwnRuns
<1>10. ExecutionAccounting'
  <2>1. \A r \in RunIds \ {n} : runs'[r] = runs[r] /\ effects'[r] = effects[r]
    OBVIOUS
  <2>2. effects'[n] <= 1 /\ runs'[n].status \notin {"PENDING", "APPROVAL_REQUIRED", "ABSENT"}
    BY <1>2 DEF Outcome
  <2>3. runs'[n].status = "SUCCEEDED" => effects'[n] = 1
    BY <1>2
  <2>4. QED
    BY <2>1, <2>2, <2>3 DEF IInv, ExecutionAccounting
<1>11. QED
  BY <1>4, <1>5, <1>6, <1>7, <1>8, <1>9, <1>10 DEF IInv

(* A worker that forgets its run releases its locks and changes no row. *)
LEMMA GiveUpStep ==
  ASSUME IInv, NEW w \in Workers, DropClaimed(w) \/ WorkerFails(w)
  PROVE  IInv'
<1>1. /\ wrk' = [wrk EXCEPT ![w] = IdleWorker]
      /\ UNCHANGED <<defs, runs, audit, nextRun, req, effects, seen>>
  BY DEF DropClaimed, WorkerFails, reqVars
<1>2. faults' \in 0..MaxFaults /\ dropped' \subseteq RunIds
  <2>1. wrk[w].pc = "claimed" => wrk[w].run \in RunIds
    BY DEF IInv, WorkersOwnRuns, Holding
  <2>2. QED
    BY <2>1, BoundsAssumption DEF DropClaimed, WorkerFails, Fault, IInv, TypeOK
<1>3. TypeOK'
  BY <1>1, <1>2, IdleTypes DEF IInv, TypeOK
<1>4. wrk'[w] = IdleWorker /\ \A v \in Workers \ {w} : wrk'[v] = wrk[v]
  BY <1>1 DEF IInv, TypeOK
<1>5. LocksAreExclusive'
  BY <1>1, <1>4 DEF IInv, LocksAreExclusive, IdleWorker
<1>6. WorkersOwnRuns'
  BY <1>1, <1>4 DEF IInv, WorkersOwnRuns, Holding, IdleWorker
<1>7. QED
  BY <1>1, <1>3, <1>5, <1>6 DEF IInv, FreshRuns, RowsHaveDefinitions, RequestsOwnRuns,
     ExecutionAccounting, Committed, Building

(* The claim query locks pending rows that no other worker has locked. *)
LEMMA SelectStep ==
  ASSUME IInv, NEW w \in Workers, SelectClaim(w)
  PROVE  IInv'
<1> DEFINE rows == {r \in RunIds : Claimable(r) /\ ~Locked(r)}
<1>1. PICK r \in Oldest(rows) :
        wrk' = [wrk EXCEPT ![w] = [pc |-> "claiming", run |-> r, locks |-> rows,
                  key |-> defs[runs[r].defn].key, ok |-> FALSE]]
  BY DEF SelectClaim
<1>2. /\ r \in rows /\ rows \subseteq RunIds
      /\ UNCHANGED <<defs, runs, audit, nextRun, req, faults, effects, seen, dropped>>
  BY <1>1 DEF Oldest, SelectClaim, reqVars
<1>3. defs[runs[r].defn].key \in Keys
  <2>1. runs[r].defn \in Defs
    BY <1>2 DEF IInv, RowsHaveDefinitions, Committed, Claimable
  <2>2. defs[runs[r].defn] \in Definition
    BY <2>1 DEF IInv, TypeOK
  <2>3. QED
    BY <2>2 DEF Definition
<1> DEFINE x == [pc |-> "claiming", run |-> r, locks |-> rows,
                 key |-> defs[runs[r].defn].key, ok |-> FALSE]
<1>4. x \in Worker /\ x.pc = "claiming" /\ x.run = r /\ x.locks = rows
  BY <1>2, <1>3 DEF Worker
<1>5. wrk'[w] = x /\ \A v \in Workers \ {w} : wrk'[v] = wrk[v]
  BY <1>1 DEF IInv, TypeOK
<1>6. TypeOK'
  BY <1>1, <1>2, <1>4 DEF IInv, TypeOK
<1>7. \A n \in rows : runs[n].status = "PENDING" /\ \A v \in Workers : n \notin wrk[v].locks
  BY DEF Claimable, Locked
<1> HIDE DEF x, rows
<1>8. LocksAreExclusive'
  <2>1. \A v \in Workers \ {w} : wrk'[v].locks \cap rows = {}
    BY <1>5, <1>7
  <2>2. QED
    BY <1>2, <1>4, <1>5, <1>7, <2>1 DEF IInv, LocksAreExclusive
<1>9. WorkersOwnRuns'
  BY <1>2, <1>4, <1>5 DEF IInv, WorkersOwnRuns, Holding
<1>10. QED
  BY <1>2, <1>6, <1>8, <1>9 DEF IInv, FreshRuns, RowsHaveDefinitions, RequestsOwnRuns,
     ExecutionAccounting, Committed, Building

(* The claim is durable, whether or not the worker learns of it. *)
LEMMA ClaimStep ==
  ASSUME IInv, NEW w \in Workers, CommitClaim(w) \/ CommitClaimLost(w)
  PROVE  IInv'
<1> DEFINE n == wrk[w].run
           x == [wrk[w] EXCEPT !.pc = "claimed", !.locks = {}]
<1>1. /\ wrk[w].pc = "claiming" /\ MarkRunning(w)
      /\ wrk' = [wrk EXCEPT ![w] = x] \/ wrk' = [wrk EXCEPT ![w] = IdleWorker]
      /\ UNCHANGED <<defs, audit, nextRun, req, effects, seen, dropped>>
      /\ faults' \in 0..MaxFaults
  BY BoundsAssumption DEF CommitClaim, CommitClaimLost, Fault, reqVars, IInv, TypeOK
<1>2. n \in RunIds /\ runs[n].status = "PENDING" /\ wrk[w] \in Worker
  BY <1>1, WorkerRun
<1>3. /\ x \in Worker /\ x.pc = "claimed" /\ x.run = n /\ x.locks = {}
      /\ IdleWorker \in Worker /\ IdleWorker.pc = "idle" /\ IdleWorker.locks = {}
  BY <1>2, IdleTypes DEF Worker, IdleWorker
<1>4. effects[n] = 0
  BY <1>2 DEF IInv, ExecutionAccounting
<1>5. /\ runs' \in [RunIds -> Row]
      /\ runs'[n] = [runs[n] EXCEPT !.status = "RUNNING"]
      /\ \A r \in RunIds \ {n} : runs'[r] = runs[r]
  BY <1>1, <1>2 DEF MarkRunning, IInv, TypeOK, Row, Status
<1>6. ASSUME NEW y \in {x, IdleWorker}, wrk' = [wrk EXCEPT ![w] = y]
      PROVE  IInv'
  <2>1. y \in Worker /\ y.locks = {} /\ y.pc \in {"idle", "claimed"}
        /\ (y.pc # "idle" => y.run = n)
    BY <1>3
  <2>2. HolderChange(w, y, "RUNNING", 0)
    BY <1>1, <1>4, <1>5, <1>6, <2>1 DEF HolderChange, IInv, TypeOK
  <2>3. QED
    BY <2>1, <2>2, HolderStep
<1>7. QED
  BY <1>1, <1>6

(* The worker moves on with its run as it is: it loaded it, or gave up
   executing it. *)
LEMMA ContinueStep ==
  ASSUME IInv, NEW w \in Workers, LoadClaimed(w) \/ RunRaises(w)
  PROVE  IInv'
<1> DEFINE n == wrk[w].run
           x == [wrk[w] EXCEPT !.pc = IF LoadClaimed(w) THEN "execute" ELSE "recover"]
<1>1. /\ wrk[w].pc \in {"claimed", "execute", "finalize"}
      /\ wrk' = [wrk EXCEPT ![w] = x]
      /\ LoadClaimed(w) => wrk[w].pc = "claimed"
      /\ UNCHANGED <<defs, runs, audit, nextRun, req, effects, seen, dropped>>
      /\ faults' \in 0..MaxFaults
  BY BoundsAssumption DEF LoadClaimed, RunRaises, Fault, reqVars, IInv, TypeOK
<1>2. /\ n \in RunIds /\ wrk[w] \in Worker /\ runs[n].status = "RUNNING"
      /\ effects[n] = IF wrk[w].pc = "finalize" THEN 1 ELSE 0
  BY <1>1, WorkerRun DEF IInv, WorkersOwnRuns
<1>3. wrk[w].locks = {}
  BY <1>1 DEF IInv, LocksAreExclusive
<1>4. /\ x \in Worker /\ x.pc \in {"execute", "recover"} /\ x.run = n /\ x.locks = {}
      /\ x.pc = "execute" => wrk[w].pc = "claimed"
  BY <1>1, <1>2, <1>3 DEF Worker
<1>5. runs[n] \in Row /\ runs[n] = [runs[n] EXCEPT !.status = "RUNNING"]
  BY <1>2 DEF IInv, TypeOK, Row
<1> HIDE DEF x
<1>6. HolderChange(w, x, "RUNNING", effects[n])
  BY <1>1, <1>2, <1>4, <1>5 DEF HolderChange, IInv, TypeOK
<1>7. QED
  BY <1>2, <1>4, <1>6, HolderStep

LEMMA ExecuteRunStep ==
  ASSUME IInv, NEW w \in Workers, ExecuteRun(w)
  PROVE  IInv'
<1> DEFINE n == wrk[w].run
<1>1. PICK ok \in BOOLEAN :
        /\ wrk' = [wrk EXCEPT ![w] = [wrk[w] EXCEPT !.pc = "finalize", !.ok = ok]]
        /\ wrk[w].pc = "execute" /\ effects' = [effects EXCEPT ![n] = effects[n] + 1]
        /\ UNCHANGED <<defs, runs, audit, nextRun, req, faults, seen, dropped>>
  BY DEF ExecuteRun, Invoke, HandlerOutcomes, reqVars, IInv, TypeOK
<1> DEFINE x == [wrk[w] EXCEPT !.pc = "finalize", !.ok = ok]
<1>2. n \in RunIds /\ wrk[w] \in Worker /\ runs[n].status = "RUNNING" /\ effects[n] = 0
  BY <1>1, WorkerRun DEF IInv, WorkersOwnRuns
<1>3. wrk[w].locks = {}
  BY <1>1 DEF IInv, LocksAreExclusive
<1>4. x \in Worker /\ x.pc = "finalize" /\ x.run = n /\ x.locks = {}
  BY <1>2, <1>3 DEF Worker
<1>5. runs[n] \in Row /\ runs[n] = [runs[n] EXCEPT !.status = "RUNNING"]
  BY <1>2 DEF IInv, TypeOK, Row
<1>6. effects'[n] = 1 /\ effects' \in [RunIds -> Nat]
      /\ \A r \in RunIds \ {n} : effects'[r] = effects[r]
  BY <1>1, <1>2 DEF IInv, TypeOK
<1> HIDE DEF x
<1>7. HolderChange(w, x, "RUNNING", 1)
  BY <1>1, <1>2, <1>4, <1>5, <1>6 DEF HolderChange, IInv, TypeOK, x
<1>8. QED
  BY <1>4, <1>7, HolderStep

(* The outcome is durable, whether or not the worker learns of it. *)
LEMMA FinalizeStep ==
  ASSUME IInv, NEW w \in Workers, Finalize(w) \/ FinalizeLost(w)
  PROVE  IInv'
<1> DEFINE n == wrk[w].run
           s == FinalStatus(wrk[w].ok)
           x == [wrk[w] EXCEPT !.pc = "recover"]
<1>1. /\ wrk[w].pc = "finalize" /\ WriteOutcome(w)
      /\ wrk' = [wrk EXCEPT ![w] = x] \/ wrk' = [wrk EXCEPT ![w] = IdleWorker]
      /\ UNCHANGED <<defs, nextRun, req, effects, seen, dropped>>
      /\ faults' \in 0..MaxFaults
  BY BoundsAssumption DEF Finalize, FinalizeLost, Fault, reqVars, IInv, TypeOK
<1>2. n \in RunIds /\ wrk[w] \in Worker /\ effects[n] = 1
  BY <1>1, WorkerRun DEF IInv, WorkersOwnRuns
<1>3. wrk[w].locks = {}
  BY <1>1 DEF IInv, LocksAreExclusive
<1>4. /\ x \in Worker /\ x.pc = "recover" /\ x.run = n /\ x.locks = {}
      /\ IdleWorker \in Worker /\ IdleWorker.pc = "idle" /\ IdleWorker.locks = {}
  BY <1>2, <1>3, IdleTypes DEF Worker, IdleWorker
<1>5. s \in Outcome
  BY DEF FinalStatus, Outcome
<1>6. /\ runs' \in [RunIds -> Row]
      /\ runs'[n] = [runs[n] EXCEPT !.status = s]
      /\ \A r \in RunIds \ {n} : runs'[r] = runs[r]
  BY <1>1, <1>2, <1>5 DEF WriteOutcome, IInv, TypeOK, Row, Status
<1>7. audit' \in [RunIds -> Seq(AuditAction)]
  BY <1>1, <1>2, AuditTyped DEF WriteOutcome, AuditAction, IInv
<1>8. ASSUME NEW y \in {x, IdleWorker}, wrk' = [wrk EXCEPT ![w] = y]
      PROVE  IInv'
  <2>1. y \in Worker /\ y.locks = {} /\ y.pc \in {"idle", "recover"}
        /\ (y.pc # "idle" => y.run = n)
    BY <1>4
  <2>2. HolderChange(w, y, s, 1)
    BY <1>1, <1>2, <1>6, <1>7, <1>8, <2>1 DEF HolderChange, IInv, TypeOK
  <2>3. QED
    BY <1>5, <2>1, <2>2, HolderStep
<1>9. QED
  BY <1>1, <1>8

LEMMA RecoverStep ==
  ASSUME IInv, NEW w \in Workers, Recover(w)
  PROVE  IInv'
<1> DEFINE n == wrk[w].run
           s == IF runs[n].status = "RUNNING" THEN "FAILED" ELSE runs[n].status
<1>1. /\ wrk[w].pc = "recover"
      /\ wrk' = [wrk EXCEPT ![w] = IdleWorker]
      /\ UNCHANGED <<defs, audit, nextRun, req, faults, effects, seen, dropped>>
      /\ IF runs[n].status = "RUNNING" THEN runs' = [runs EXCEPT ![n].status = "FAILED"]
                                       ELSE runs' = runs
  BY DEF Recover, StillRunning, reqVars
<1>2. /\ n \in RunIds /\ runs[n].status \in {"RUNNING"} \cup Outcome
      /\ runs[n] \in Row
  BY <1>1, WorkerRun DEF Holding, IInv, TypeOK
<1>3. effects[n] \in 0..1 /\ (s = "SUCCEEDED" => effects[n] = 1) /\ s \in Outcome
  BY <1>2 DEF IInv, ExecutionAccounting, TypeOK, Outcome
<1>4. /\ runs' \in [RunIds -> Row]
      /\ runs'[n] = [runs[n] EXCEPT !.status = s]
      /\ \A r \in RunIds \ {n} : runs'[r] = runs[r]
  <2>1. CASE runs[n].status = "RUNNING"
    <3>1. runs' = [runs EXCEPT ![n].status = "FAILED"] /\ s = "FAILED"
      BY <1>1, <2>1
    <3> HIDE DEF s
    <3>2. QED
      BY <1>2, <3>1 DEF IInv, TypeOK, Row, Status, Outcome
  <2>2. CASE runs[n].status # "RUNNING"
    <3>1. runs' = runs /\ s = runs[n].status
      BY <1>1, <2>2
    <3>2. runs[n] = [runs[n] EXCEPT !.status = runs[n].status]
      BY <1>2 DEF Row
    <3>3. QED
      BY <3>1, <3>2 DEF IInv, TypeOK
  <2>3. QED
    BY <2>1, <2>2
<1>5. IdleWorker \in Worker /\ IdleWorker.pc = "idle" /\ IdleWorker.locks = {}
  BY IdleTypes DEF IdleWorker
<1> HIDE DEF s
<1>6. HolderChange(w, IdleWorker, s, effects[n])
  BY <1>1, <1>2, <1>3, <1>4, <1>5 DEF HolderChange, IInv, TypeOK
<1>7. QED
  BY <1>3, <1>5, <1>6, HolderStep

-----------------------------------------------------------------------------
(* Every step preserves the inductive invariant. *)
LEMMA NextIInv == IInv /\ [Next]_vars => IInv'
<1> SUFFICES ASSUME IInv, [Next]_vars PROVE IInv'
  OBVIOUS
<1>1. ASSUME NEW d \in Defs, CreateDefinition(d) \/ UpdateDefinition(d) PROVE IInv'
  BY <1>1, DefinitionSteps
<1>2. ASSUME NEW p \in Requests, LookUpDefinition(p) PROVE IInv'
  BY <1>2, LookUpStep
<1>3. ASSUME NEW p \in Requests, RequestStep(p) \/ RequestFails(p) PROVE IInv'
  BY <1>3, RequestEnds, BuildStep, CommitRunStep, ExecuteInlineStep, CommitInlineStep
     DEF RequestStep
<1>4. ASSUME NEW w \in Workers, WorkerStep(w) PROVE IInv'
  BY <1>4, SelectStep, ClaimStep, ContinueStep, GiveUpStep, ExecuteRunStep, FinalizeStep,
     RecoverStep DEF WorkerStep
<1>5. ASSUME NEW w \in Workers, WorkerFault(w) PROVE IInv'
  BY <1>5, ClaimStep, FinalizeStep, ContinueStep, GiveUpStep DEF WorkerFault
<1>6. CASE UNCHANGED vars
  BY <1>6 DEF vars, reqVars, IInv, TypeOK, FreshRuns, RowsHaveDefinitions, RequestsOwnRuns,
     LocksAreExclusive, WorkersOwnRuns, ExecutionAccounting, Committed, Building, Holding
<1>7. QED
  BY <1>1, <1>2, <1>3, <1>4, <1>5, <1>6 DEF Next

(* The inductive invariant holds in every reachable state. *)
THEOREM Invariance == Spec => []IInv
  BY InitIInv, NextIInv, PTL DEF Spec

(* The types of the rows, processes and counters, for every instance. *)
THEOREM TypeCorrectness == Spec => []TypeOK
<1>1. IInv => TypeOK
  BY DEF IInv
<1>2. QED
  BY <1>1, Invariance, PTL

(* No run is executed twice, none before it is admitted for execution, and
   success is never recorded for a handler that did not run: for any number
   of workers, whatever crashes and whatever exceptions are raised. *)
THEOREM ExecutionSafety == Spec => []ExecutionAccounting
<1>1. IInv => ExecutionAccounting
  BY DEF IInv
<1>2. QED
  BY <1>1, Invariance, PTL

-----------------------------------------------------------------------------
(* Finality: a step changes the row of a committed run only when a worker
   holds it, and never once it has an outcome or waits for approval. *)
LEMMA RowChanges ==
  ASSUME IInv, Next, NEW r \in Committed
  PROVE  /\ runs'[r].defn = runs[r].defn /\ runs'[r].ikey = runs[r].ikey
         /\ runs'[r].status # "ABSENT"
         /\ runs[r].status \in Outcome \cup {"APPROVAL_REQUIRED"} => runs'[r] = runs[r]
<1> DEFINE Kept == /\ runs'[r].defn = runs[r].defn /\ runs'[r].ikey = runs[r].ikey
                   /\ runs'[r].status # "ABSENT"
                   /\ runs[r].status \in Outcome \cup {"APPROVAL_REQUIRED"}
                        => runs'[r] = runs[r]
<1>1. r \in RunIds /\ runs[r] \in Row /\ runs[r].status # "ABSENT"
  BY DEF Committed, IInv, TypeOK
<1>2. CASE UNCHANGED runs
  BY <1>1, <1>2
<1>3. ASSUME NEW p \in Requests, CommitRun(p) \/ CommitInline(p) PROVE Kept
  <2>1. runs[req[p].run].status = "ABSENT"
    BY <1>3 DEF CommitRun, CommitInline, IInv, RequestsOwnRuns, Building
  <2>2. runs'[r] = runs[r]
    BY <1>1, <1>3, <2>1 DEF CommitRun, CommitInline, StoreRow, IInv, TypeOK
  <2>3. QED
    BY <1>1, <2>2
<1>4. ASSUME NEW w \in Workers, CommitClaim(w) \/ CommitClaimLost(w) PROVE Kept
  <2>1. runs[wrk[w].run].status = "PENDING" /\ MarkRunning(w)
    BY <1>4, WorkerRun DEF CommitClaim, CommitClaimLost
  <2>2. runs'[r] = runs[r] \/ (r = wrk[w].run /\ runs'[r] = [runs[r] EXCEPT !.status = "RUNNING"])
    BY <1>1, <2>1 DEF MarkRunning, IInv, TypeOK
  <2>3. QED
    BY <1>1, <2>1, <2>2 DEF Row, Outcome
<1>5. ASSUME NEW w \in Workers, Finalize(w) \/ FinalizeLost(w) PROVE Kept
  <2>1. runs[wrk[w].run].status = "RUNNING" /\ WriteOutcome(w)
    BY <1>5 DEF Finalize, FinalizeLost, IInv, WorkersOwnRuns
  <2>2. \/ runs'[r] = runs[r]
        \/ r = wrk[w].run /\ runs'[r] = [runs[r] EXCEPT !.status = FinalStatus(wrk[w].ok)]
    BY <1>1, <2>1 DEF WriteOutcome, IInv, TypeOK
  <2>3. FinalStatus(wrk[w].ok) # "ABSENT"
    BY DEF FinalStatus
  <2>4. QED
    BY <1>1, <2>1, <2>2, <2>3 DEF Row, Outcome
<1>6. ASSUME NEW w \in Workers, Recover(w) PROVE Kept
  <2>1. \/ runs'[r] = runs[r]
        \/ /\ r = wrk[w].run /\ runs[r].status = "RUNNING"
           /\ runs'[r] = [runs[r] EXCEPT !.status = "FAILED"]
    BY <1>1, <1>6 DEF Recover, StillRunning, IInv, TypeOK
  <2>2. QED
    BY <1>1, <2>1 DEF Row, Outcome
<1>7. UNCHANGED runs \/ (\E p \in Requests : CommitRun(p) \/ CommitInline(p))
        \/ (\E w \in Workers : CommitClaim(w) \/ CommitClaimLost(w) \/ Finalize(w)
                                 \/ FinalizeLost(w) \/ Recover(w))
  BY DEF Next, RequestStep, WorkerStep, WorkerFault, CreateDefinition, UpdateDefinition,
     LookUpDefinition, AnswerExisting, BuildRun, ExecuteInline, RequestFails, SelectClaim,
     LoadClaimed, DropClaimed, ExecuteRun, RunRaises, WorkerFails
<1>8. QED
  BY <1>2, <1>3, <1>4, <1>5, <1>6, <1>7

(* A recorded outcome is final, and a run parked for approval stays parked. *)
THEOREM Finality == Spec => OutcomeIsFinal
<1>1. IInv /\ [Next]_vars =>
        [\A r \in Committed :
           /\ runs'[r].defn = runs[r].defn /\ runs'[r].ikey = runs[r].ikey
           /\ runs'[r].status # "ABSENT"
           /\ runs[r].status \in Outcome \cup {"APPROVAL_REQUIRED"}
                => runs'[r] = runs[r]]_vars
  BY RowChanges
<1>2. QED
  BY <1>1, Invariance, PTL DEF Spec, OutcomeIsFinal

-----------------------------------------------------------------------------
(* JobRuns implements JobLedger. *)

StatusOf == [r \in RunIds |-> runs[r].status]

(* A step that gives one run another status, seen through the mapping. *)
LEMMA MappedMove ==
  ASSUME TypeOK, NEW n \in RunIds, NEW s,
         runs' \in [RunIds -> Row], runs'[n].status = s,
         \A r \in RunIds \ {n} : runs'[r] = runs[r]
  PROVE  StatusOf' = [StatusOf EXCEPT ![n] = s]
BY DEF StatusOf

LEMMA LedgerStep == IInv /\ [Next]_vars => [Ledger!LedgerNext]_(Ledger!ledgerVars)
<1> SUFFICES ASSUME IInv, [Next]_vars
             PROVE  [Ledger!LedgerNext]_(Ledger!ledgerVars)
  OBVIOUS
<1> USE DEF Ledger!ledgerVars
<1>1. CASE UNCHANGED <<runs, effects>>
  BY <1>1
<1>2. ASSUME NEW n \in RunIds, NEW s \in {"PENDING", "APPROVAL_REQUIRED"},
             runs[n].status = "ABSENT", effects[n] = 0, effects' = effects,
             StatusOf' = [StatusOf EXCEPT ![n] = s]
      PROVE  Ledger!Admit(n)
  BY <1>2 DEF Ledger!Admit, Ledger!Move, StatusOf
<1>3. ASSUME NEW n \in RunIds, runs[n].status = "PENDING", effects' = effects,
             StatusOf' = [StatusOf EXCEPT ![n] = "RUNNING"]
      PROVE  Ledger!Start(n)
  BY <1>3 DEF Ledger!Start, Ledger!Move, StatusOf
<1>4. ASSUME NEW n \in RunIds, runs[n].status \in {"RUNNING", "ABSENT"}, effects[n] = 0,
             effects' = [effects EXCEPT ![n] = 1], runs' = runs
      PROVE  Ledger!Perform(n)
  BY <1>4 DEF Ledger!Perform
<1>5. ASSUME NEW n \in RunIds, NEW s \in Outcome, effects' = effects,
             \/ runs[n].status = "RUNNING" /\ s = "FAILED"
             \/ runs[n].status \in {"RUNNING", "ABSENT"} /\ effects[n] = 1,
             StatusOf' = [StatusOf EXCEPT ![n] = s]
      PROVE  Ledger!Finish(n)
  BY <1>5 DEF Ledger!Finish, Ledger!Move, StatusOf, Outcome
<1>6. \A n \in RunIds : Ledger!Admit(n) \/ Ledger!Start(n) \/ Ledger!Perform(n)
                          \/ Ledger!Finish(n) => Ledger!LedgerNext
  BY DEF Ledger!LedgerNext
<1>7. TypeOK /\ TypeOK'
  BY NextIInv DEF IInv
<1>8. ASSUME NEW p \in Requests, CommitRun(p) \/ CommitInline(p) PROVE Ledger!LedgerNext
  <2> DEFINE n == req[p].run
             s == IF CommitRun(p) THEN AdmitStatus(req[p].approval) ELSE FinalStatus(req[p].ok)
  <2>1. /\ n \in RunIds /\ runs[n].status = "ABSENT" /\ effects' = effects
        /\ effects[n] = IF CommitRun(p) THEN 0 ELSE 1
    BY <1>8 DEF CommitRun, CommitInline, IInv, RequestsOwnRuns, Building
  <2>2. runs'[n].status = s /\ \A r \in RunIds \ {n} : runs'[r] = runs[r]
    BY <1>7, <1>8, <2>1 DEF CommitRun, CommitInline, StoreRow, TypeOK
  <2>3. StatusOf' = [StatusOf EXCEPT ![n] = s]
    BY <1>7, <2>1, <2>2, MappedMove DEF TypeOK
  <2>4. CommitRun(p) => s \in {"PENDING", "APPROVAL_REQUIRED"}
    BY DEF AdmitStatus
  <2>5. ~CommitRun(p) => s \in Outcome
    BY DEF FinalStatus, Outcome
  <2> HIDE DEF s, n
  <2>6. CASE CommitRun(p)
    BY <1>2, <1>6, <2>1, <2>3, <2>4, <2>6
  <2>7. CASE ~CommitRun(p)
    BY <1>5, <1>6, <2>1, <2>3, <2>5, <2>7
  <2>8. QED
    BY <2>6, <2>7
<1>9. ASSUME NEW p \in Requests, ExecuteInline(p) PROVE Ledger!LedgerNext
  <2>1. /\ req[p].run \in RunIds /\ runs[req[p].run].status = "ABSENT"
        /\ effects[req[p].run] = 0
    BY <1>9 DEF ExecuteInline, IInv, RequestsOwnRuns, Building
  <2>2. effects' = [effects EXCEPT ![req[p].run] = 1] /\ runs' = runs
    BY <1>9, <2>1 DEF ExecuteInline, Invoke
  <2>3. QED
    BY <1>4, <1>6, <2>1, <2>2
<1>10. ASSUME NEW w \in Workers, ExecuteRun(w) PROVE Ledger!LedgerNext
  <2>1. /\ wrk[w].run \in RunIds /\ runs[wrk[w].run].status = "RUNNING"
        /\ effects[wrk[w].run] = 0
    BY <1>10 DEF ExecuteRun, IInv, WorkersOwnRuns, Holding
  <2>2. effects' = [effects EXCEPT ![wrk[w].run] = 1] /\ runs' = runs
    BY <1>10, <2>1 DEF ExecuteRun, Invoke
  <2>3. QED
    BY <1>4, <1>6, <2>1, <2>2
<1>11. ASSUME NEW w \in Workers, CommitClaim(w) \/ CommitClaimLost(w)
       PROVE  Ledger!LedgerNext
  <2> DEFINE n == wrk[w].run
  <2>1. n \in RunIds /\ runs[n].status = "PENDING" /\ MarkRunning(w) /\ effects' = effects
    BY <1>11, WorkerRun DEF CommitClaim, CommitClaimLost
  <2>2. runs'[n].status = "RUNNING" /\ \A r \in RunIds \ {n} : runs'[r] = runs[r]
    BY <1>7, <2>1 DEF MarkRunning, TypeOK, Row
  <2>3. StatusOf' = [StatusOf EXCEPT ![n] = "RUNNING"]
    BY <1>7, <2>1, <2>2, MappedMove DEF TypeOK
  <2>4. QED
    BY <1>3, <1>6, <2>1, <2>3
<1>12. ASSUME NEW w \in Workers, Finalize(w) \/ FinalizeLost(w)
       PROVE  Ledger!LedgerNext
  <2> DEFINE n == wrk[w].run
             s == FinalStatus(wrk[w].ok)
  <2>1. /\ n \in RunIds /\ runs[n].status = "RUNNING" /\ effects[n] = 1
        /\ WriteOutcome(w) /\ effects' = effects
    BY <1>12 DEF Finalize, FinalizeLost, IInv, WorkersOwnRuns, Holding
  <2>2. runs'[n].status = s /\ \A r \in RunIds \ {n} : runs'[r] = runs[r]
    BY <1>7, <2>1 DEF WriteOutcome, TypeOK, Row
  <2>3. StatusOf' = [StatusOf EXCEPT ![n] = s]
    BY <1>7, <2>1, <2>2, MappedMove DEF TypeOK
  <2>4. s \in Outcome
    BY DEF FinalStatus, Outcome
  <2>5. QED
    BY <1>5, <1>6, <2>1, <2>3, <2>4
<1>13. ASSUME NEW w \in Workers, Recover(w), runs' # runs PROVE Ledger!LedgerNext
  <2> DEFINE n == wrk[w].run
  <2>1. /\ n \in RunIds /\ runs[n].status = "RUNNING" /\ effects' = effects
        /\ runs' = [runs EXCEPT ![n].status = "FAILED"]
    BY <1>13, WorkerRun DEF Recover, StillRunning
  <2>2. runs'[n].status = "FAILED" /\ \A r \in RunIds \ {n} : runs'[r] = runs[r]
    BY <1>7, <2>1 DEF TypeOK, Row
  <2>3. StatusOf' = [StatusOf EXCEPT ![n] = "FAILED"]
    BY <1>7, <2>1, <2>2, MappedMove DEF TypeOK
  <2>4. QED
    BY <1>5, <1>6, <2>1, <2>3 DEF Outcome
<1>14. \/ UNCHANGED <<runs, effects>>
       \/ \E p \in Requests : CommitRun(p) \/ CommitInline(p) \/ ExecuteInline(p)
       \/ \E w \in Workers : ExecuteRun(w) \/ CommitClaim(w) \/ CommitClaimLost(w)
                               \/ Finalize(w) \/ FinalizeLost(w) \/ Recover(w)
  BY DEF Next, vars, RequestStep, WorkerStep, WorkerFault, CreateDefinition, UpdateDefinition,
     LookUpDefinition, AnswerExisting, BuildRun, RequestFails, SelectClaim, LoadClaimed,
     DropClaimed, RunRaises, WorkerFails
<1>15. \A w \in Workers : Recover(w) => effects' = effects
  BY DEF Recover
<1>16. QED
  BY <1>1, <1>8, <1>9, <1>10, <1>11, <1>12, <1>13, <1>14, <1>15

(* Requests, workers, crashes and definition edits together do nothing the
   abstract ledger does not allow. *)
THEOREM Implementation == Spec => ImplementsLedger
<1>1. Init => Ledger!LedgerInit
  BY DEF Init, Ledger!LedgerInit, NoRow
<1>2. QED
  BY <1>1, LedgerStep, Invariance, PTL DEF Spec, ImplementsLedger, Ledger!LedgerSpec

-----------------------------------------------------------------------------
(* Idempotency keys. *)

LEMMA StoredRow ==
  ASSUME IInv, NEW p \in Requests, CommitRun(p) \/ CommitInline(p)
  PROVE  LET n == req[p].run IN
         /\ n \in RunIds /\ n \notin Committed /\ Building(p)
         /\ Committed' = Committed \cup {n}
         /\ runs'[n].ikey = req[p].ikey
         /\ \A r \in RunIds \ {n} : runs'[r] = runs[r]
         /\ req' = [req EXCEPT ![p] = IdleRequest] /\ seen' = seen
<1> DEFINE n == req[p].run
<1>1. Building(p) /\ n \in RunIds /\ n \notin Committed
  BY DEF CommitRun, CommitInline, IInv, RequestsOwnRuns, Building, Committed
<1>2. PICK st : StoreRow(p, st) /\ st # "ABSENT"
  BY DEF CommitRun, CommitInline, AdmitStatus, FinalStatus
<1>3. /\ runs'[n] = [status |-> st, defn |-> req[p].defn, ikey |-> req[p].ikey]
      /\ \A r \in RunIds \ {n} : runs'[r] = runs[r]
  BY <1>1, <1>2 DEF StoreRow, IInv, TypeOK
<1>4. QED
  BY <1>1, <1>2, <1>3 DEF Committed, CommitRun, CommitInline

(* Only a request's commit adds a run to the database. *)
LEMMA NothingAppears ==
  ASSUME IInv, Next, \A p \in Requests : ~CommitRun(p) /\ ~CommitInline(p)
  PROVE  Committed' \subseteq Committed
<1>1. CASE UNCHANGED runs
  BY <1>1 DEF Committed
<1>2. ASSUME NEW n \in Committed, NEW s, runs' = [runs EXCEPT ![n].status = s]
      PROVE  Committed' \subseteq Committed
  BY <1>2 DEF Committed, IInv, TypeOK
<1>3. ASSUME NEW w \in Workers, wrk[w].pc # "idle"
      PROVE  wrk[w].run \in Committed
  BY <1>3, WorkerRun DEF Committed, Outcome
<1>4. ASSUME NEW w \in Workers, \/ CommitClaim(w) \/ CommitClaimLost(w) \/ Finalize(w)
                               \/ FinalizeLost(w) \/ Recover(w)
      PROVE  wrk[w].pc # "idle" /\ (UNCHANGED runs \/ \E s :
               runs' = [runs EXCEPT ![wrk[w].run].status = s])
  BY <1>4 DEF CommitClaim, CommitClaimLost, Finalize, FinalizeLost, Recover, MarkRunning,
     WriteOutcome
<1>5. UNCHANGED runs \/ (\E w \in Workers : CommitClaim(w) \/ CommitClaimLost(w) \/ Finalize(w)
                            \/ FinalizeLost(w) \/ Recover(w))
  BY DEF Next, RequestStep, WorkerStep, WorkerFault, CreateDefinition, UpdateDefinition,
     LookUpDefinition, AnswerExisting, BuildRun, ExecuteInline, RequestFails, SelectClaim,
     LoadClaimed, DropClaimed, ExecuteRun, RunRaises, WorkerFails
<1>6. QED
  BY <1>1, <1>2, <1>3, <1>4, <1>5

LEMMA KeysStep ==
  ASSUME IInv, LookupsWereClean, [Next]_vars
  PROVE  LookupsWereClean'
<1>1. ASSUME NEW p \in Requests, CommitRun(p) \/ CommitInline(p)
      PROVE  LookupsWereClean'
  <2> DEFINE n == req[p].run
  <2>1. /\ n \in RunIds /\ n \notin Committed /\ Building(p)
        /\ Committed' = Committed \cup {n}
        /\ runs'[n].ikey = req[p].ikey
        /\ \A r \in RunIds \ {n} : runs'[r] = runs[r]
        /\ req' = [req EXCEPT ![p] = IdleRequest] /\ seen' = seen
    BY <1>1, StoredRow
  <2>2. \A r \in RunIds : \A s \in seen[r] : s \in RunIds \ {n} /\ runs'[s] = runs[s]
    BY <2>1 DEF LookupsWereClean, Committed
  <2>3. \A q \in Requests : Building(q)' => Building(q) /\ req'[q] = req[q]
    BY <2>1 DEF Building, IInv, TypeOK, IdleRequest
  <2>4. \A q \in Requests : Building(q) => req[q].run \in RunIds
    BY DEF IInv, RequestsOwnRuns
  <2>5. \A r \in Committed \ {n} : r \in RunIds /\ runs'[r] = runs[r]
    BY <2>1 DEF Committed
  <2>6. (\A r \in RunIds : seen[r] \subseteq Committed)'
    BY <2>1 DEF LookupsWereClean
  <2>7. ASSUME NEW r \in Committed', NEW s \in seen'[r], runs'[r].ikey # None
        PROVE  runs'[s].ikey # runs'[r].ikey
    <3>1. CASE r = n
      BY <2>1, <2>2, <2>7, <3>1 DEF LookupsWereClean
    <3>2. CASE r # n
      BY <2>1, <2>2, <2>5, <2>7, <3>2 DEF LookupsWereClean
    <3>3. QED
      BY <3>1, <3>2
  <2>8. ASSUME NEW q \in Requests, Building(q)', NEW s \in seen'[req'[q].run],
               req'[q].ikey # None
        PROVE  runs'[s].ikey # req'[q].ikey
    BY <2>1, <2>2, <2>3, <2>4, <2>8 DEF LookupsWereClean
  <2>9. QED
    BY <2>6, <2>7, <2>8 DEF LookupsWereClean
<1>2. ASSUME NEW p \in Requests, BuildRun(p)
      PROVE  LookupsWereClean'
  <2>1. /\ nextRun \in RunIds /\ runs' = runs /\ Committed' = Committed
        /\ seen' = [seen EXCEPT ![nextRun] = Committed]
        /\ \A s \in Committed : req[p].ikey # None => runs[s].ikey # req[p].ikey
        /\ req'[p].run = nextRun /\ req'[p].ikey = req[p].ikey
        /\ \A q \in Requests \ {p} : req'[q] = req[q]
    BY <1>2, BoundsAssumption
       DEF BuildRun, SameKey, Committed, IInv, TypeOK, RunIds, Request
  <2>2. nextRun \notin Committed
    <3>1. nextRun \in Nat
      BY <2>1 DEF RunIds
    <3>2. QED
      BY <2>1, <3>1 DEF IInv, FreshRuns, Committed
  <2>3. \A q \in Requests : Building(q) => req[q].run \in RunIds /\ req[q].run # nextRun
    <3>1. nextRun \in Nat /\ RunIds \subseteq Nat
      BY <2>1 DEF RunIds
    <3>2. QED
      BY <3>1 DEF IInv, RequestsOwnRuns
  <2>4. seen'[nextRun] = Committed /\ \A r \in RunIds \ {nextRun} : seen'[r] = seen[r]
    BY <2>1 DEF IInv, TypeOK
  <2>5. (\A r \in RunIds : seen[r] \subseteq Committed)'
    BY <2>1, <2>4 DEF LookupsWereClean
  <2>6. ASSUME NEW r \in Committed', NEW s \in seen'[r], runs'[r].ikey # None
        PROVE  runs'[s].ikey # runs'[r].ikey
    <3>1. r \in RunIds \ {nextRun}
      BY <2>1, <2>2 DEF Committed
    <3>2. QED
      BY <2>1, <2>4, <2>6, <3>1 DEF LookupsWereClean
  <2>7. ASSUME NEW q \in Requests, Building(q)', NEW s \in seen'[req'[q].run],
               req'[q].ikey # None
        PROVE  runs'[s].ikey # req'[q].ikey
    <3>1. CASE q = p
      BY <2>1, <2>4, <2>7, <3>1
    <3>2. CASE q # p
      BY <2>1, <2>3, <2>4, <2>7, <3>2 DEF LookupsWereClean, Building
    <3>3. QED
      BY <3>1, <3>2
  <2>8. QED
    BY <2>5, <2>6, <2>7 DEF LookupsWereClean
<1>3. ASSUME Next, seen' = seen, req' = req \/ (\E p \in Requests :
               LookUpDefinition(p) \/ AnswerExisting(p) \/ RequestFails(p) \/ ExecuteInline(p)),
             \A r \in Committed : runs'[r].ikey = runs[r].ikey, Committed' = Committed
      PROVE  LookupsWereClean'
  <2>1. \A q \in Requests : Building(q)' =>
          Building(q) /\ req'[q].run = req[q].run /\ req'[q].ikey = req[q].ikey
    <3>1. CASE req' = req
      BY <3>1 DEF Building
    <3>2. ASSUME NEW p \in Requests, LookUpDefinition(p) \/ AnswerExisting(p) \/ RequestFails(p)
          PROVE  /\ ~Building(p)'
                 /\ \A q \in Requests \ {p} : req'[q] = req[q]
      <4>1. CASE AnswerExisting(p) \/ RequestFails(p)
        <5>1. req' = [req EXCEPT ![p] = IdleRequest]
          BY <4>1 DEF AnswerExisting, RequestFails
        <5>2. QED
          BY <5>1 DEF Building, IInv, TypeOK, IdleRequest
      <4>2. CASE LookUpDefinition(p)
        <5>1. PICK d \in Defs, ik \in IdemKeys \cup {None} :
                req' = [req EXCEPT ![p] = [IdleRequest EXCEPT !.pc = "looked_up",
                  !.defn = d, !.approval = defs[d].approval, !.key = defs[d].key, !.ikey = ik]]
          BY <4>2 DEF LookUpDefinition
        <5>2. req'[p].pc = "looked_up"
          BY <5>1 DEF IInv, TypeOK, IdleRequest
        <5>3. QED
          BY <5>1, <5>2 DEF Building, IInv, TypeOK
      <4>3. QED
        BY <3>2, <4>1, <4>2
    <3>3. ASSUME NEW p \in Requests, ExecuteInline(p)
          PROVE  /\ Building(p) /\ req'[p].run = req[p].run /\ req'[p].ikey = req[p].ikey
                 /\ \A q \in Requests \ {p} : req'[q] = req[q]
      <4>1. req[p] \in Request /\ req[p].pc = "execute"
        BY <3>3 DEF ExecuteInline, IInv, TypeOK
      <4>2. PICK ok \in BOOLEAN :
              req' = [req EXCEPT ![p] = [req[p] EXCEPT !.pc = "record", !.ok = ok]]
        BY <3>3 DEF ExecuteInline, HandlerOutcomes
      <4>3. QED
        BY <4>1, <4>2 DEF Building, IInv, TypeOK, Request
    <3>4. QED
      BY <1>3, <3>1, <3>2, <3>3 DEF Building
  <2>2. \A q \in Requests : Building(q) => req[q].run \in RunIds
    BY DEF IInv, RequestsOwnRuns
  <2>3. Committed \subseteq RunIds
    BY DEF Committed
  <2>4. QED
    BY <1>3, <2>1, <2>2, <2>3 DEF LookupsWereClean
<1>4. CASE UNCHANGED vars
  BY <1>4 DEF vars, reqVars, LookupsWereClean, Committed, Building
<1>5. ASSUME NEW d \in Defs, CreateDefinition(d) \/ UpdateDefinition(d)
      PROVE  UNCHANGED <<runs, req, seen>>
  BY <1>5 DEF CreateDefinition, UpdateDefinition, reqVars
<1>6. ASSUME NEW w \in Workers, WorkerStep(w) \/ WorkerFault(w)
      PROVE  UNCHANGED <<req, seen>>
  BY <1>6 DEF WorkerStep, WorkerFault, SelectClaim, CommitClaim, CommitClaimLost, LoadClaimed,
     DropClaimed, ExecuteRun, Finalize, FinalizeLost, RunRaises, Recover, WorkerFails, reqVars
<1>7. ASSUME Next, \A p \in Requests : ~CommitRun(p) /\ ~CommitInline(p)
      PROVE  Committed' = Committed /\ \A r \in Committed : runs'[r].ikey = runs[r].ikey
  BY <1>7, RowChanges, NothingAppears DEF Committed
<1>8. CASE Next /\ \A p \in Requests : ~BuildRun(p) /\ ~CommitRun(p) /\ ~CommitInline(p)
  <2>1. seen' = seen
    BY <1>5, <1>6, <1>8 DEF Next, RequestStep, LookUpDefinition, AnswerExisting, RequestFails,
       ExecuteInline
  <2>2. req' = req \/ (\E p \in Requests :
          LookUpDefinition(p) \/ AnswerExisting(p) \/ RequestFails(p) \/ ExecuteInline(p))
    BY <1>5, <1>6, <1>8 DEF Next, RequestStep
  <2>3. QED
    BY <1>3, <1>7, <1>8, <2>1, <2>2
<1>9. QED
  BY <1>1, <1>2, <1>4, <1>8

(* Two runs share an idempotency key only if neither request could see the
   other's run when it looked the key up: the lookup itself never misses. *)
THEOREM OnlyOverlapsDuplicate == Spec => []DuplicatesOverlap
<1>1. Init => LookupsWereClean
  BY DEF Init, LookupsWereClean, Committed, Building, IdleRequest, NoRow
<1>2. IInv /\ LookupsWereClean /\ [Next]_vars => LookupsWereClean'
  BY KeysStep
<1>3. LookupsWereClean => DuplicatesOverlap
  BY DEF LookupsWereClean, DuplicatesOverlap, Committed
<1>4. QED
  BY <1>1, <1>2, <1>3, Invariance, PTL DEF Spec

-----------------------------------------------------------------------------
(* The audit trail. *)

(* A step that gives one run another status and another event, fitting. *)
LEMMA TrailStep ==
  ASSUME IInv, AuditTrail, NEW n \in RunIds,
         \A r \in RunIds \ {n} : runs'[r] = runs[r] /\ audit'[r] = audit[r],
         Accounts(audit'[n], runs'[n].status)
  PROVE  AuditTrail'
BY DEF AuditTrail, Accounts

(* Requests write the row and its first event together. *)
LEMMA RequestTrail ==
  ASSUME IInv, AuditTrail, NEW p \in Requests, CommitRun(p) \/ CommitInline(p)
  PROVE  AuditTrail'
<1> DEFINE n == req[p].run
<1>1. n \in RunIds /\ runs[n].status = "ABSENT"
  BY DEF CommitRun, CommitInline, IInv, RequestsOwnRuns, Building
<1>2. audit[n] = <<>>
  BY <1>1 DEF AuditTrail, Accounts
<1>3. audit \in [RunIds -> Seq(AuditAction)] /\ runs \in [RunIds -> Row]
  BY DEF IInv, TypeOK
<1>4. PICK st, action :
        /\ StoreRow(p, st) /\ Audit(n, action)
        /\ \/ st = "APPROVAL_REQUIRED" /\ action = "job_run_pending_approval"
           \/ st = "PENDING" /\ action = "job_queued"
           \/ st \in Outcome /\ action = "job_run"
  <2>1. CASE CommitRun(p)
    BY <2>1 DEF CommitRun, AdmitStatus
  <2>2. CASE CommitInline(p)
    BY <2>2 DEF CommitInline, FinalStatus, Outcome
  <2>3. QED
    BY <2>1, <2>2
<1>5. audit'[n] = <<action>> /\ \A r \in RunIds \ {n} : audit'[r] = audit[r]
  BY <1>1, <1>2, <1>3, <1>4 DEF Audit
<1>6. runs'[n].status = st /\ \A r \in RunIds \ {n} : runs'[r] = runs[r]
  BY <1>1, <1>3, <1>4 DEF StoreRow
<1>7. Accounts(audit'[n], runs'[n].status)
  BY <1>4, <1>5, <1>6 DEF Accounts, Outcome
<1>8. QED
  BY <1>1, <1>5, <1>6, <1>7, TrailStep

LEMMA TwoEvents == Append(<<"job_queued">>, "job_run") = <<"job_queued", "job_run">>
<1> DEFINE trail == [i \in 1..2 |-> IF i = 1 THEN "job_queued" ELSE "job_run"]
<1>1. Append(<<"job_queued">>, "job_run") = trail
  OBVIOUS
<1>2. <<"job_queued", "job_run">> = trail
  OBVIOUS
<1>3. QED
  BY <1>1, <1>2

(* Workers add an event with the outcome only. *)
LEMMA WorkerTrail ==
  ASSUME IInv, AuditTrail, NEW w \in Workers,
         CommitClaim(w) \/ CommitClaimLost(w) \/ Finalize(w) \/ FinalizeLost(w) \/ Recover(w)
  PROVE  AuditTrail'
<1> DEFINE n == wrk[w].run
<1>1. audit \in [RunIds -> Seq(AuditAction)] /\ runs \in [RunIds -> Row]
  BY DEF IInv, TypeOK
<1>2. n \in RunIds
  BY WorkerRun DEF CommitClaim, CommitClaimLost, Finalize, FinalizeLost, Recover
<1>3. CASE CommitClaim(w) \/ CommitClaimLost(w)
  <2>1. runs[n].status = "PENDING"
    BY <1>3 DEF CommitClaim, CommitClaimLost, IInv, LocksAreExclusive
  <2>2. MarkRunning(w) /\ audit' = audit
    BY <1>3 DEF CommitClaim, CommitClaimLost
  <2>3. runs'[n].status = "RUNNING" /\ \A r \in RunIds \ {n} : runs'[r] = runs[r]
    BY <1>1, <1>2, <2>2 DEF MarkRunning, Row
  <2>4. Accounts(audit'[n], runs'[n].status)
    BY <1>2, <2>1, <2>2, <2>3 DEF AuditTrail, Accounts, Outcome
  <2>5. QED
    BY <1>2, <2>2, <2>3, <2>4, TrailStep
<1>4. CASE Finalize(w) \/ FinalizeLost(w)
  <2>1. runs[n].status = "RUNNING" /\ WriteOutcome(w)
    BY <1>4 DEF Finalize, FinalizeLost, IInv, WorkersOwnRuns
  <2>2. audit[n] = <<"job_queued">>
    BY <1>2, <2>1 DEF AuditTrail, Accounts
  <2>3. runs'[n].status \in Outcome /\ \A r \in RunIds \ {n} : runs'[r] = runs[r]
    BY <1>1, <1>2, <2>1 DEF WriteOutcome, FinalStatus, Outcome, Row
  <2>4. audit'[n] = Append(audit[n], "job_run") /\ \A r \in RunIds \ {n} : audit'[r] = audit[r]
    BY <1>1, <1>2, <2>1 DEF WriteOutcome, Audit
  <2>5. audit'[n] = <<"job_queued", "job_run">>
    BY <2>2, <2>4, TwoEvents
  <2>6. Accounts(audit'[n], runs'[n].status)
    BY <2>3, <2>5 DEF Accounts, Outcome
  <2>7. QED
    BY <1>2, <2>3, <2>4, <2>6, TrailStep
<1>5. CASE Recover(w) /\ StillRunning(w)
  <2>1. /\ runs[n].status = "RUNNING" /\ audit' = audit
        /\ runs' = [runs EXCEPT ![n].status = "FAILED"]
    BY <1>5 DEF Recover, StillRunning
  <2>2. runs'[n].status = "FAILED" /\ \A r \in RunIds \ {n} : runs'[r] = runs[r]
    BY <1>1, <1>2, <2>1 DEF Row
  <2>3. Accounts(audit'[n], runs'[n].status)
    BY <1>2, <2>1, <2>2 DEF AuditTrail, Accounts, Outcome
  <2>4. QED
    BY <1>2, <2>1, <2>2, <2>3, TrailStep
<1>6. CASE Recover(w) /\ ~StillRunning(w)
  BY <1>6 DEF Recover, AuditTrail
<1>7. QED
  BY <1>3, <1>4, <1>5, <1>6

(* The audit trail of every run tells how it came to its status; only the
   exception path of the worker leaves an outcome without its event. *)
THEOREM Trails == Spec => []AuditTrail
<1>1. Init => AuditTrail
  BY DEF Init, AuditTrail, Accounts, NoRow, Outcome
<1>2. IInv /\ AuditTrail /\ [Next]_vars => AuditTrail'
  <2> SUFFICES ASSUME IInv, AuditTrail, [Next]_vars PROVE AuditTrail'
    OBVIOUS
  <2>1. CASE UNCHANGED <<runs, audit>>
    BY <2>1 DEF AuditTrail
  <2>2. \/ UNCHANGED <<runs, audit>>
        \/ \E p \in Requests : CommitRun(p) \/ CommitInline(p)
        \/ \E w \in Workers : CommitClaim(w) \/ CommitClaimLost(w) \/ Finalize(w)
                                \/ FinalizeLost(w) \/ Recover(w)
    BY DEF vars, Next, RequestStep, WorkerStep, WorkerFault, CreateDefinition, UpdateDefinition,
       LookUpDefinition, AnswerExisting, BuildRun, ExecuteInline, RequestFails, SelectClaim,
       LoadClaimed, DropClaimed, ExecuteRun, RunRaises, WorkerFails
  <2>3. QED
    BY <2>1, <2>2, RequestTrail, WorkerTrail
<1>3. QED
  BY <1>1, <1>2, Invariance, PTL DEF Spec

-----------------------------------------------------------------------------
(* Runs that are stranded though their definition kept its key. *)
Stranded == {r \in RunIds : Orphan(r)} \ dropped

(* A step by which no worker lets go of a run strands none: a worker that starts a
   run holds it. *)
LEMMA NoneStranded ==
  ASSUME UNCHANGED wrk, dropped \subseteq dropped',
         \A r \in RunIds : runs'[r].status = "RUNNING" => runs[r].status = "RUNNING"
  PROVE  Stranded' \subseteq Stranded
BY DEF Stranded, Orphan, HeldBy

(* A worker that lets go of a run that stays RUNNING has met a fault, or has
   dropped it. *)
LEMMA WorkerStrands ==
  ASSUME IInv, NEW w \in Workers, WorkerStep(w) \/ WorkerFault(w)
  PROVE  \/ Stranded' \subseteq Stranded /\ faults' = faults
         \/ Stranded' \subseteq Stranded \cup {wrk[w].run} /\ faults' = faults + 1
<1> DEFINE n == wrk[w].run
<1>0. /\ wrk[w] \in Worker /\ DOMAIN wrk = Workers /\ DOMAIN runs = RunIds
      /\ \A r \in RunIds : runs[r] \in Row
  BY DEF IInv, TypeOK
<1>1. ASSUME NEW S, \A v \in Workers \ {w} : wrk'[v] = wrk[v], dropped \subseteq dropped',
             \A r \in RunIds \ S : /\ runs'[r].status = "RUNNING" =>
                                        runs[r].status = "RUNNING" \/ HeldBy(w, r)'
                                   /\ HeldBy(w, r) => HeldBy(w, r)'
      PROVE  Stranded' \subseteq Stranded \cup S
  <2> SUFFICES ASSUME NEW r \in RunIds, Orphan(r)', r \notin dropped', r \notin S
               PROVE  Orphan(r) /\ r \notin dropped
    BY DEF Stranded
  <2>1. runs'[r].status = "RUNNING" /\ \A v \in Workers : ~HeldBy(v, r)'
    BY DEF Orphan
  <2>a. ~HeldBy(w, r)'
    BY <2>1 DEF HeldBy
  <2>b. /\ runs'[r].status = "RUNNING" => runs[r].status = "RUNNING" \/ HeldBy(w, r)'
        /\ HeldBy(w, r) => HeldBy(w, r)'
    <3>1. r \in RunIds \ S
      OBVIOUS
    <3> QED
      BY <1>1, <3>1
  <2>2. runs[r].status = "RUNNING" /\ ~HeldBy(w, r)
    BY <2>1, <2>a, <2>b
  <2>3. \A v \in Workers \ {w} : ~HeldBy(v, r)
    BY <1>1, <2>1 DEF HeldBy
  <2> QED
    BY <1>1, <2>2, <2>3 DEF Orphan
<1>2. CASE SelectClaim(w)
  <2>1. wrk[w].pc = "idle" /\ UNCHANGED <<runs, dropped, faults>>
        /\ \A v \in Workers \ {w} : wrk'[v] = wrk[v]
    BY <1>0, <1>2 DEF SelectClaim
  <2>2. Stranded' \subseteq Stranded \cup {}
    BY <1>1, <2>1 DEF HeldBy
  <2> QED
    BY <2>1, <2>2
<1>3. CASE CommitClaim(w)
  <2>1. /\ wrk[w].pc = "claiming" /\ UNCHANGED <<dropped, faults>>
        /\ wrk'[w].pc = "claimed" /\ wrk'[w].run = n
        /\ \A v \in Workers \ {w} : wrk'[v] = wrk[v]
        /\ \A r \in RunIds \ {n} : runs'[r] = runs[r]
    BY <1>0, <1>3 DEF CommitClaim, MarkRunning, Worker
  <2>2. HeldBy(w, n)'
    BY <2>1 DEF HeldBy
  <2>3. Stranded' \subseteq Stranded \cup {}
    BY <1>1, <2>1, <2>2 DEF HeldBy
  <2> QED
    BY <2>1, <2>3
<1>4. CASE LoadClaimed(w) \/ ExecuteRun(w)
  <2>1. /\ UNCHANGED <<runs, dropped, faults>>
        /\ wrk'[w].pc \in {"execute", "finalize"} /\ wrk'[w].run = n
        /\ \A v \in Workers \ {w} : wrk'[v] = wrk[v]
    <3>1. CASE LoadClaimed(w)
      BY <1>0, <3>1 DEF LoadClaimed, Worker
    <3>2. CASE ExecuteRun(w)
      BY <1>0, <3>2 DEF ExecuteRun, Worker
    <3> QED
      BY <1>4, <3>1, <3>2
  <2>2. Stranded' \subseteq Stranded \cup {}
    BY <1>1, <2>1 DEF HeldBy
  <2> QED
    BY <2>1, <2>2
<1>5. CASE DropClaimed(w)
  <2>1. /\ UNCHANGED <<runs, faults>> /\ dropped' = dropped \cup {n}
        /\ \A v \in Workers \ {w} : wrk'[v] = wrk[v]
    BY <1>0, <1>5 DEF DropClaimed
  <2>2. Stranded' \subseteq Stranded \cup {n}
    BY <1>1, <2>1 DEF HeldBy
  <2>3. n \notin Stranded'
    BY <2>1 DEF Stranded
  <2> QED
    BY <2>1, <2>2, <2>3
<1>6. CASE Finalize(w) \/ Recover(w)
  <2>1. /\ UNCHANGED <<dropped, faults>>
        /\ \A v \in Workers \ {w} : wrk'[v] = wrk[v]
        /\ \A r \in RunIds \ {n} : runs'[r] = runs[r]
    BY <1>0, <1>6 DEF Finalize, WriteOutcome, Recover
  <2>2. runs'[n].status # "RUNNING"
    <3>1. n \in RunIds
      BY <1>6 DEF IInv, WorkersOwnRuns, Holding, Finalize, Recover
    <3>2. CASE Finalize(w)
      BY <1>0, <3>1, <3>2 DEF Finalize, WriteOutcome, FinalStatus, Row
    <3>3. CASE Recover(w)
      BY <1>0, <3>1, <3>3 DEF Recover, StillRunning, Row
    <3> QED
      BY <1>6, <3>2, <3>3
  <2>3. Stranded' \subseteq Stranded \cup {n}
    BY <1>1, <2>1 DEF HeldBy
  <2>4. n \notin Stranded'
    BY <2>2 DEF Stranded, Orphan
  <2> QED
    BY <2>1, <2>3, <2>4
<1>7. CASE WorkerFault(w)
  <2>1. /\ faults' = faults + 1 /\ UNCHANGED dropped
        /\ \A v \in Workers \ {w} : wrk'[v] = wrk[v]
        /\ \A r \in RunIds \ {n} : runs'[r] = runs[r]
    BY <1>0, <1>7 DEF WorkerFault, CommitClaimLost, FinalizeLost, RunRaises, WorkerFails, Fault,
                      MarkRunning, WriteOutcome
  <2>2. Stranded' \subseteq Stranded \cup {n}
    BY <1>1, <2>1 DEF HeldBy
  <2> QED
    BY <2>1, <2>2
<1> QED
  BY <1>2, <1>3, <1>4, <1>5, <1>6, <1>7 DEF WorkerStep

LEMMA RequestStrands ==
  ASSUME IInv, NEW p \in Requests, CommitRun(p) \/ CommitInline(p)
  PROVE  Stranded' \subseteq Stranded
<1>1. PICK status \in {"PENDING", "APPROVAL_REQUIRED"} \cup Outcome : StoreRow(p, status)
  BY DEF CommitRun, CommitInline, AdmitStatus, FinalStatus, Outcome
<1>2. \A r \in RunIds : runs'[r].status = "RUNNING" => runs[r].status = "RUNNING"
  BY <1>1 DEF StoreRow, IInv, TypeOK, Outcome
<1> QED
  BY <1>2, NoneStranded DEF CommitRun, CommitInline

LEMMA StrandedStep ==
  ASSUME IInv, [Next]_vars
  PROVE  \/ Stranded' \subseteq Stranded /\ faults' \in {faults, faults + 1}
         \/ \E x : Stranded' \subseteq Stranded \cup {x} /\ faults' = faults + 1
<1>1. ASSUME NEW w \in Workers, WorkerStep(w) \/ WorkerFault(w)
      PROVE  \/ Stranded' \subseteq Stranded /\ faults' \in {faults, faults + 1}
             \/ \E x : Stranded' \subseteq Stranded \cup {x} /\ faults' = faults + 1
  BY <1>1, WorkerStrands
<1>2. ASSUME NEW p \in Requests, CommitRun(p) \/ CommitInline(p)
      PROVE  Stranded' \subseteq Stranded /\ faults' \in {faults, faults + 1}
  BY <1>2, RequestStrands DEF CommitRun, CommitInline
<1>3. CASE UNCHANGED <<runs, wrk, dropped>> /\ faults' \in {faults, faults + 1}
  BY <1>3, NoneStranded
<1>4. ASSUME NEW p \in Requests, \/ LookUpDefinition(p) \/ AnswerExisting(p) \/ BuildRun(p)
                                 \/ ExecuteInline(p) \/ RequestFails(p)
      PROVE  UNCHANGED <<runs, wrk, dropped>> /\ faults' \in {faults, faults + 1}
  <2>1. CASE RequestFails(p)
    BY <2>1 DEF RequestFails, Fault
  <2>2. CASE LookUpDefinition(p)
    BY <2>2 DEF LookUpDefinition
  <2>3. CASE AnswerExisting(p) \/ BuildRun(p)
    BY <2>3 DEF AnswerExisting, BuildRun
  <2>4. CASE ExecuteInline(p)
    BY <2>4 DEF ExecuteInline
  <2> QED
    BY <1>4, <2>1, <2>2, <2>3, <2>4
<1>5. ASSUME NEW d \in Defs, CreateDefinition(d) \/ UpdateDefinition(d)
      PROVE  UNCHANGED <<runs, wrk, dropped>> /\ faults' \in {faults, faults + 1}
  BY <1>5 DEF CreateDefinition, UpdateDefinition
<1>6. CASE UNCHANGED vars
  BY <1>3, <1>6 DEF vars
<1> QED
  BY <1>1, <1>2, <1>3, <1>4, <1>5, <1>6 DEF Next, RequestStep

(* Each crash or lost answer strands one run at most, however many workers there
   are and however many rows a claim locks. *)
THEOREM FaultsStrandFew == Spec => []FaultsStrandOneRun
<1>1. IsFiniteSet(RunIds)
  BY BoundsAssumption, FS_Interval DEF RunIds
<1>2. Stranded \subseteq RunIds /\ Stranded' \subseteq RunIds
  BY DEF Stranded, RunIds
<1>3. IsFiniteSet(Stranded) /\ IsFiniteSet(Stranded')
  BY <1>1, <1>2, FS_Subset
<1>4. Init => FaultsStrandOneRun
  <2>1. Init => Stranded = {}
    BY DEF Init, Stranded, Orphan, NoRow
  <2>2. Init => faults = 0
    BY DEF Init
  <2>3. Stranded = {} /\ faults = 0 => Cardinality(Stranded) <= faults
    BY FS_EmptySet
  <2> QED
    BY <2>1, <2>2, <2>3 DEF FaultsStrandOneRun, Stranded
<1>5. IInv /\ FaultsStrandOneRun /\ [Next]_vars => FaultsStrandOneRun'
  <2> SUFFICES ASSUME IInv, Cardinality(Stranded) <= faults, [Next]_vars
               PROVE  Cardinality(Stranded') <= faults'
    BY DEF FaultsStrandOneRun, Stranded
  <2>1. faults \in Nat /\ Cardinality(Stranded) \in Nat /\ Cardinality(Stranded') \in Nat
    BY <1>3, FS_CardinalityType, BoundsAssumption DEF IInv, TypeOK
  <2>2. CASE Stranded' \subseteq Stranded /\ faults' \in {faults, faults + 1}
    <3>1. Cardinality(Stranded') <= Cardinality(Stranded)
      BY <1>3, <2>2, FS_Subset
    <3> QED
      BY <2>1, <2>2, <3>1
  <2>3. ASSUME NEW x, Stranded' \subseteq Stranded \cup {x}, faults' = faults + 1
        PROVE  Cardinality(Stranded') <= faults'
    <3>0. /\ IsFiniteSet(Stranded \cup {x})
          /\ Cardinality(Stranded \cup {x}) =
               IF x \in Stranded THEN Cardinality(Stranded) ELSE Cardinality(Stranded) + 1
      BY <1>3, FS_AddElement, Zenon
    <3>1. IsFiniteSet(Stranded \cup {x}) /\ Cardinality(Stranded \cup {x}) <= Cardinality(Stranded) + 1
      BY <2>1, <3>0
    <3>2. Cardinality(Stranded') <= Cardinality(Stranded \cup {x})
      BY <2>3, <3>1, FS_Subset
    <3>3. Cardinality(Stranded \cup {x}) \in Nat
      BY <3>1, FS_CardinalityType
    <3> QED
      BY <2>1, <2>3, <3>1, <3>2, <3>3
  <2> QED
    BY <2>2, <2>3, StrandedStep
<1> QED
  BY <1>4, <1>5, Invariance, PTL DEF Spec
=============================================================================
