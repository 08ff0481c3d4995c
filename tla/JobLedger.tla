------------------------------ MODULE JobLedger ------------------------------
(***************************************************************************)
(* What the automation subsystem promises about one job run, with no       *)
(* requests, workers, transactions or locks: a run is admitted once, its   *)
(* handler is invoked at most once, a run that waits for approval goes     *)
(* nowhere, success is recorded only for an invoked handler, and a         *)
(* recorded outcome is final.  JobRuns implements this specification.      *)
(***************************************************************************)
EXTENDS Naturals

CONSTANT RunIds

VARIABLES ledger,      \* the status of each run, "ABSENT" before it is recorded
          performed    \* how often the handler of each run was invoked

ledgerVars == <<ledger, performed>>

LedgerStatus == {"ABSENT", "PENDING", "APPROVAL_REQUIRED", "RUNNING",
                 "SUCCEEDED", "FAILED"}

LedgerTypeOK == /\ ledger \in [RunIds -> LedgerStatus]
                /\ performed \in [RunIds -> Nat]

LedgerInit == /\ ledger = [r \in RunIds |-> "ABSENT"]
              /\ performed = [r \in RunIds |-> 0]

Move(r, s) == ledger' = [ledger EXCEPT ![r] = s]

(* The run is recorded: it waits in the queue or for an approval. *)
Admit(r) == /\ ledger[r] = "ABSENT"
            /\ performed[r] = 0
            /\ Move(r, "PENDING") \/ Move(r, "APPROVAL_REQUIRED")
            /\ UNCHANGED performed

Start(r) == /\ ledger[r] = "PENDING"
            /\ Move(r, "RUNNING")
            /\ UNCHANGED performed

(* The handler is invoked: for a started run, or before anything is
   recorded when the run is executed inside the request. *)
Perform(r) == /\ ledger[r] \in {"RUNNING", "ABSENT"}
              /\ performed[r] = 0
              /\ performed' = [performed EXCEPT ![r] = 1]
              /\ UNCHANGED ledger

(* The outcome is recorded.  A started run may fail with or without its
   handler having been reached; only an invoked handler succeeds. *)
Finish(r) == /\ \/ /\ ledger[r] = "RUNNING"
                   /\ Move(r, "FAILED")
                \/ /\ ledger[r] \in {"RUNNING", "ABSENT"}
                   /\ performed[r] = 1
                   /\ Move(r, "SUCCEEDED") \/ Move(r, "FAILED")
             /\ UNCHANGED performed

LedgerNext == \E r \in RunIds : Admit(r) \/ Start(r) \/ Perform(r) \/ Finish(r)

LedgerSpec == LedgerInit /\ [][LedgerNext]_ledgerVars
=============================================================================
