---------------------- MODULE EnvironmentLifecycleProofs ---------------------
(***************************************************************************)
(* The safety properties of EnvironmentLifecycle, for all sets of services *)
(* and of job identities.  None of them is inductive: what a delete finds,  *)
(* and what a released job leaves, depend on what each checkpoint and each  *)
(* position of a command promise of the branches and credentials.          *)
(***************************************************************************)
EXTENDS EnvironmentLifecycle, TLAPS

StepLabels == CreateLabels \cup {"refresh"}
CommandLabels == StepLabels \cup {"open", "next", "settle"}

(* The types of the running command's variables, and of all the others.    *)
ControlType ==
  /\ pc \in Labels /\ job \in Jobs \cup {NoJob}
  /\ todo \subseteq Services /\ cur \in Services \cup {NoService}
  /\ failed \in BOOLEAN /\ cancelled \in BOOLEAN
  /\ targets \subseteq (Jobs \cup {NoJob}) \X Services
  /\ branch \in Jobs \cup {NoJob} /\ cleanup \subseteq Jobs
  /\ keep \in BOOLEAN

DataType ==
  /\ kind \in [Jobs -> {"none", "create", "pull"}]
  /\ status \in [Jobs -> {"none", "running", "degraded", "canceled"}]
  /\ steps \in [Jobs -> [Services -> Phases]]
  /\ deletion \in {"none", "unfinished", "done"}
  /\ record \in {"absent", "provisioning", "degraded", "ready"}
  /\ bound \subseteq Services
  /\ key \in [Services -> {"none", "live", "dead"}]
  /\ stagingKeys \subseteq Jobs \X Services
  /\ canonical \subseteq Services /\ role \subseteq canonical
  /\ staging \subseteq Jobs \X Services

Remnants == staging \cup stagingKeys
Present(s) == s \in canonical \/ key[s] # "none"
Nothing == canonical = {} /\ Remnants = {} /\ \A s \in Services : key[s] = "none"

(* At most one job is unreconciled, and the others have left no trace.     *)
LedgerInv ==
  /\ \A j \in Jobs : (status[j] = "none") <=> (kind[j] = "none")
  /\ \A j \in Jobs, s \in Services : status[j] = "none" => steps[j][s] = "none"
  /\ \A i, j \in Jobs : status[i] # "none" /\ status[j] # "none" => i = j
  /\ \A j \in Jobs, s \in Services :
       kind[j] = "create" => steps[j][s] \in {"planned", "complete"}

(* Where a create or pull stands.                                          *)
CommandInv ==
  /\ pc = "idle" => ~failed
  /\ pc \in CommandLabels =>
       job \in Jobs /\ status[job] = "running" /\ \A s \in todo : steps[job][s] # "none"
  /\ pc \in StepLabels => cur \in Services /\ steps[job][cur] # "none"
  /\ pc \in CreateLabels \ {"mark"} => kind[job] = "create"
  /\ pc = "refresh" => kind[job] = "pull"
  /\ pc \in {"drop_role", "create_role", "store_key"} => cur \in canonical
  /\ pc \in StepLabels \cup {"next"} => record = "provisioning"
  /\ pc = "settle" => record # "absent"
  /\ pc = "settle" /\ ~failed =>
       bound = Services /\ \A s \in Services : steps[job][s] \in {"none", "complete"}
  /\ pc = "mark" => cur \in bound

(* Where a delete stands: what is left is still among its targets, unless  *)
(* something has failed.                                                   *)
DeleteInv ==
  /\ pc \in DeleteLabels =>
       deletion = "unfinished" /\ \A j \in Jobs : j \in cleanup <=> status[j] # "none"
  /\ pc \in {"delete", "drop_keys", "reconcile"} => record # "absent"
  /\ pc \in {"delete", "drop_keys"} /\ ~failed =>
       /\ \A s \in Services : Present(s) => <<NoJob, s>> \in targets
       /\ Remnants \subseteq targets
  /\ pc = "drop_keys" =>
       /\ cur \in Services
       /\ branch = NoJob => cur \notin canonical
       /\ branch # NoJob => <<branch, cur>> \notin staging
  /\ pc \in {"reconcile", "deleted"} => Nothing
  /\ pc = "deleted" => cleanup = {}

(* Every branch and credential has a binding or a step that names it.      *)
OwnedInv ==
  /\ \A s \in Services : Present(s) => s \in bound \/ \E j \in Jobs : steps[j][s] # "none"
  /\ \A j \in Jobs, s \in Services :
       <<j, s>> \in Remnants => kind[j] = "pull" /\ steps[j][s] # "none"
  /\ \A j \in Jobs, s \in Services :
       kind[j] = "pull" /\ steps[j][s] \in {"swapped", "complete"} => <<j, s>> \notin staging
  /\ \A j \in Jobs, s \in Services :
       kind[j] = "pull" /\ steps[j][s] = "complete" => <<j, s>> \notin stagingKeys
  /\ pc = "mark" /\ kind[job] = "pull" => <<job, cur>> \notin Remnants
  /\ \A j \in Jobs, s \in Services : steps[j][s] = "complete" => s \in bound
  /\ record = "absent" =>
       /\ bound = {} /\ Nothing
       /\ \A j \in Jobs : kind[j] # "pull"
       /\ \A j \in Jobs, s \in Services : steps[j][s] # "complete"

Whole(s) == s \in canonical /\ s \in role /\ key[s] = "live" /\ s \in bound

(* Of a service that a create works on; the phases of a pull.              *)
CreatePromise(j, s) ==
  /\ key[s] # "dead" /\ (key[s] = "live" => s \in role)
  /\ steps[j][s] = "complete" => Whole(s)

PullPromise(j, s) ==
  /\ steps[j][s] \in {"none", "planned", "staged", "complete"} => Whole(s)
  /\ steps[j][s] \in {"credentialed", "old_deleted"} => s \in bound /\ <<j, s>> \in stagingKeys
  /\ steps[j][s] = "credentialed" => Whole(s) \/ s \notin canonical
  /\ steps[j][s] = "old_deleted" => <<j, s>> \in staging \/ s \in role
  /\ steps[j][s] = "swapped" =>
       s \in bound /\ s \in role /\ (key[s] = "live" \/ <<j, s>> \in stagingKeys)

(* What an environment that no delete was begun on keeps.                  *)
PromiseInv ==
  deletion = "none" =>
    /\ record = "ready" => \A s \in Services : Whole(s)
    /\ record # "absent" /\ (\A j \in Jobs : status[j] = "none") =>
         \A s \in Services : Whole(s)
    /\ \A j \in Jobs, s \in Services : kind[j] = "create" => CreatePromise(j, s)
    /\ \A j \in Jobs, s \in Services : kind[j] = "pull" => PullPromise(j, s)
    /\ pc \in {"restore", "drop_role", "create_role", "store_key"} => key[cur] = "none"
    /\ pc = "store_key" => cur \in role
    /\ pc \in {"bind", "mark"} => cur \in role /\ key[cur] = "live"

(* The inductive invariant. *)
IInv ==
  /\ DataType /\ ControlType /\ LedgerInv /\ CommandInv
  /\ DeleteInv /\ OwnedInv /\ PromiseInv

-----------------------------------------------------------------------------
(* What releasing a job, and a checkpoint, do to the ledger.               *)

LEMMA Released ==
  ASSUME DataType, NEW j \in Jobs, Release(j)
  PROVE  /\ kind' \in [Jobs -> {"none", "create", "pull"}]
         /\ status' \in [Jobs -> {"none", "running", "degraded", "canceled"}]
         /\ steps' \in [Jobs -> [Services -> Phases]]
         /\ \A i \in Jobs : kind'[i] = IF i = j THEN "none" ELSE kind[i]
         /\ \A i \in Jobs : status'[i] = IF i = j THEN "none" ELSE status[i]
         /\ \A i \in Jobs, s \in Services : steps'[i][s] = IF i = j THEN "none" ELSE steps[i][s]
  BY DEF DataType, Release, Phases

LEMMA Checkpointed ==
  ASSUME DataType, job \in Jobs, cur \in Services, NEW ph \in Phases, Checkpoint(ph)
  PROVE  /\ steps' \in [Jobs -> [Services -> Phases]]
         /\ \A i \in Jobs, s \in Services :
              steps'[i][s] = IF i = job /\ s = cur THEN ph ELSE steps[i][s]
  BY DEF DataType, Checkpoint

(* A job whose every step is complete has left no staging branch or key.   *)
LEMMA WorkDone ==
  ASSUME IInv, NEW j \in Jobs, status[j] # "none",
         \A s \in Services : steps[j][s] \in {"none", "complete"}
  PROVE  Remnants = {}
  <1> SUFFICES ASSUME NEW r \in Remnants PROVE FALSE
    OBVIOUS
  <1>1. PICK i \in Jobs, s \in Services : r = <<i, s>>
    BY DEF IInv, DataType, Remnants
  <1>2. kind[i] = "pull" /\ steps[i][s] # "none"
    BY <1>1 DEF IInv, OwnedInv
  <1>3. i = j
    BY <1>2 DEF IInv, LedgerInv
  <1>4. steps[i][s] = "complete"
    BY <1>2, <1>3
  <1> QED
    BY <1>1, <1>2, <1>4 DEF IInv, OwnedInv, Remnants

(* The only job there was is released: the ledger is as it was at first.   *)
LEMMA LastReleased ==
  ASSUME IInv, NEW j \in Jobs, status[j] # "none", Release(j)
  PROVE  /\ kind' \in [Jobs -> {"none", "create", "pull"}]
         /\ status' \in [Jobs -> {"none", "running", "degraded", "canceled"}]
         /\ steps' \in [Jobs -> [Services -> Phases]]
         /\ \A i \in Jobs :
              /\ kind'[i] = "none" /\ status'[i] = "none"
              /\ \A s \in Services : steps'[i][s] = "none"
  BY Released DEF IInv, LedgerInv

LEMMA InitIInv == Init => IInv
  <1> SUFFICES ASSUME Init PROVE IInv
    OBVIOUS
  <1>1. DataType
    BY DEF Init, DataType, Phases
  <1>2. ControlType
    BY DEF Init, ControlType, Labels
  <1>3. LedgerInv
    BY DEF Init, LedgerInv
  <1>4. CommandInv /\ DeleteInv
    BY DEF Init, CommandInv, DeleteInv, CommandLabels, StepLabels, CreateLabels, DeleteLabels
  <1>5. OwnedInv
    BY DEF Init, OwnedInv, Present, Remnants, Nothing
  <1>6. PromiseInv
    BY DEF Init, PromiseInv
  <1> QED
    BY <1>1, <1>2, <1>3, <1>4, <1>5, <1>6 DEF IInv

-----------------------------------------------------------------------------
(* Starting and resuming a job; the loop over its services.                *)

LEMMA StartCreatePreserves ==
  ASSUME IInv, NEW j \in Jobs, StartCreate(j)
  PROVE  IInv'
  <1>1. DataType'
    BY DEF IInv, DataType, Phases, StartCreate, NewJob, Unreconciled, Nonterminal,
           Residual, state, keys, provider
  <1>2. ControlType'
    BY DEF IInv, ControlType, Labels, StartCreate, NewJob, Unreconciled, Nonterminal,
           Residual, delete
  <1>3. LedgerInv'
    BY DEF IInv, LedgerInv, DataType, StartCreate, NewJob, Unreconciled, Nonterminal,
           Residual
  <1>4. CommandInv'
    BY DEF IInv, CommandInv, StepLabels, CreateLabels, DataType, StartCreate, NewJob
  <1>5. DeleteInv'
    BY DEF IInv, DeleteInv, DeleteLabels, Remnants, Present, Nothing, StartCreate,
           NewJob, Unreconciled, Nonterminal, Residual, state, keys, provider, delete
  <1>6. OwnedInv'
    BY DEF IInv, OwnedInv, Remnants, Nothing, DataType, LedgerInv, StartCreate, NewJob,
           state, keys, provider
  <1>7. PromiseInv'
    BY DEF IInv, PromiseInv, CreatePromise, Whole, DataType, LedgerInv, OwnedInv,
           Nothing, StartCreate, NewJob, Unreconciled, Nonterminal, Residual, state,
           keys, provider
  <1> QED BY <1>1, <1>2, <1>3, <1>4, <1>5, <1>6, <1>7 DEF IInv

LEMMA StartPullPreserves ==
  ASSUME IInv, NEW j \in Jobs, NEW scope \in SUBSET Services, StartPull(j, scope)
  PROVE  IInv'
  <1>1. DataType'
    BY DEF IInv, DataType, Phases, StartPull, NewJob, Unreconciled, Nonterminal,
           Residual, state, keys, provider
  <1>2. ControlType'
    BY DEF IInv, ControlType, Labels, StartPull, NewJob, Unreconciled, Nonterminal,
           Residual, delete
  <1>3. LedgerInv'
    BY DEF IInv, LedgerInv, DataType, StartPull, NewJob, Unreconciled, Nonterminal,
           Residual
  <1>4. CommandInv'
    BY DEF IInv, CommandInv, StepLabels, CreateLabels, DataType, StartPull, NewJob
  <1>5. DeleteInv'
    BY DEF IInv, DeleteInv, DeleteLabels, Remnants, Present, Nothing, StartPull, NewJob,
           Unreconciled, Nonterminal, Residual, state, keys, provider, delete
  <1>6. OwnedInv'
    BY DEF IInv, OwnedInv, Remnants, Present, LedgerInv, StartPull, NewJob, state, keys,
           provider
  <1>7. PromiseInv'
    BY DEF IInv, PromiseInv, CreatePromise, PullPromise, Whole, DataType, StartPull,
           NewJob, state, keys, provider
  <1> QED BY <1>1, <1>2, <1>3, <1>4, <1>5, <1>6, <1>7 DEF IInv

LEMMA ResumePreserves ==
  ASSUME IInv, NEW j \in Jobs, Resume(j)
  PROVE  IInv'
  <1>1. DataType'
    BY DEF IInv, DataType, Resume, Unreconciled, Nonterminal, Residual, Scope, state,
           keys, provider
  <1>2. ControlType'
    BY DEF IInv, ControlType, Labels, Resume, Unreconciled, Nonterminal, Residual,
           Scope, delete
  <1>3. LedgerInv'
    BY DEF IInv, LedgerInv, Resume, Unreconciled, Nonterminal, Residual, Scope
  <1>4. CommandInv'
    BY DEF IInv, CommandInv, StepLabels, CreateLabels, DataType, Resume, Scope
  <1>5. DeleteInv'
    BY DEF IInv, DeleteInv, DeleteLabels, Remnants, Present, Nothing, Resume,
           Unreconciled, Nonterminal, Residual, Scope, state, keys, provider, delete
  <1>6. OwnedInv'
    BY DEF IInv, OwnedInv, Remnants, Present, Nothing, Resume, Unreconciled,
           Nonterminal, Residual, Scope, state, keys, provider
  <1>7. PromiseInv'
    BY DEF IInv, PromiseInv, CreatePromise, PullPromise, Whole, Resume, Unreconciled,
           Nonterminal, Residual, Scope, state, keys, provider
  <1> QED BY <1>1, <1>2, <1>3, <1>4, <1>5, <1>6, <1>7 DEF IInv

LEMMA OpenRecordPreserves ==
  ASSUME IInv, OpenRecord
  PROVE  IInv'
  <1>1. DataType'
    BY DEF IInv, DataType, OpenRecord, keys, provider
  <1>2. ControlType'
    BY DEF IInv, ControlType, Labels, OpenRecord, Goto, delete
  <1>3. LedgerInv'
    BY DEF IInv, LedgerInv, OpenRecord
  <1>4. CommandInv'
    BY DEF IInv, CommandInv, CommandLabels, StepLabels, CreateLabels, OpenRecord, Goto,
           provider
  <1>5. DeleteInv'
    BY DEF IInv, DeleteInv, DeleteLabels, Remnants, Present, Nothing, OpenRecord, Goto,
           keys, provider, delete
  <1>6. OwnedInv'
    BY DEF IInv, OwnedInv, Remnants, Present, Nothing, OpenRecord, Goto, keys, provider
  <1>7. PromiseInv'
    BY DEF IInv, PromiseInv, CreatePromise, PullPromise, Whole, CommandInv,
           CommandLabels, OwnedInv, Nothing, OpenRecord, Goto, keys, provider
  <1> QED BY <1>1, <1>2, <1>3, <1>4, <1>5, <1>6, <1>7 DEF IInv

LEMMA BeginStepPreserves ==
  ASSUME IInv, NEW s \in Services, BeginStep(s)
  PROVE  IInv'
  <1>1. DataType'
    BY DEF IInv, DataType, BeginStep, ledger, state, keys, provider
  <1>2. ControlType'
    BY DEF IInv, ControlType, Labels, CreateLabels, DeleteLabels, BeginStep, delete
  <1>3. LedgerInv'
    BY DEF IInv, LedgerInv, BeginStep, ledger
  <1>4. CommandInv'
    BY DEF IInv, CommandInv, CommandLabels, CreateLabels, DataType, LedgerInv,
           BeginStep, ledger, state
  <1>5. DeleteInv'
    BY DEF IInv, DeleteInv, DeleteLabels, Remnants, Present, Nothing, BeginStep, ledger,
           state, keys, provider, delete
  <1>6. OwnedInv'
    BY DEF IInv, OwnedInv, Remnants, Present, Nothing, BeginStep, ledger, state, keys,
           provider
  <1>7. PromiseInv'
    BY DEF IInv, PromiseInv, CreatePromise, PullPromise, Whole, BeginStep, ledger,
           state, keys, provider
  <1> QED BY <1>1, <1>2, <1>3, <1>4, <1>5, <1>6, <1>7 DEF IInv

LEMMA SkipStepPreserves ==
  ASSUME IInv, NEW s \in Services, SkipStep(s)
  PROVE  IInv'
  <1>1. DataType'
    BY DEF IInv, DataType, SkipStep, ledger, state, keys, provider
  <1>2. ControlType'
    BY DEF IInv, ControlType, Labels, SkipStep, delete
  <1>3. LedgerInv'
    BY DEF IInv, LedgerInv, SkipStep, ledger
  <1>4. CommandInv'
    BY DEF IInv, CommandInv, CommandLabels, CreateLabels, SkipStep, ledger, state,
           provider
  <1>5. DeleteInv'
    BY DEF IInv, DeleteInv, Remnants, Present, Nothing, SkipStep, ledger, state, keys,
           provider, delete
  <1>6. OwnedInv'
    BY DEF IInv, OwnedInv, Remnants, Present, Nothing, SkipStep, ledger, state, keys,
           provider
  <1>7. PromiseInv'
    BY DEF IInv, PromiseInv, CreatePromise, PullPromise, Whole, SkipStep, ledger, state,
           keys, provider
  <1> QED BY <1>1, <1>2, <1>3, <1>4, <1>5, <1>6, <1>7 DEF IInv

LEMMA RefuseStepPreserves ==
  ASSUME IInv, NEW s \in Services, RefuseStep(s)
  PROVE  IInv'
  <1>1. DataType'
    BY DEF IInv, DataType, RefuseStep, ledger, state, keys, provider
  <1>2. ControlType'
    BY DEF IInv, ControlType, Labels, RefuseStep, delete
  <1>3. LedgerInv'
    BY DEF IInv, LedgerInv, RefuseStep, ledger
  <1>4. CommandInv'
    BY DEF IInv, CommandInv, CommandLabels, CreateLabels, RefuseStep, ledger, state,
           provider
  <1>5. DeleteInv'
    BY DEF IInv, DeleteInv, Remnants, Present, Nothing, RefuseStep, ledger, state, keys,
           provider, delete
  <1>6. OwnedInv'
    BY DEF IInv, OwnedInv, Remnants, Present, Nothing, RefuseStep, ledger, state, keys,
           provider
  <1>7. PromiseInv'
    BY DEF IInv, PromiseInv, CreatePromise, PullPromise, Whole, RefuseStep, ledger,
           state, keys, provider
  <1> QED BY <1>1, <1>2, <1>3, <1>4, <1>5, <1>6, <1>7 DEF IInv

LEMMA SaveVerdictPreserves ==
  ASSUME IInv, SaveVerdict
  PROVE  IInv'
  <1>1. DataType'
    BY DEF IInv, DataType, SaveVerdict, Scope, ledger, keys, provider
  <1>2. ControlType'
    BY DEF IInv, ControlType, Labels, SaveVerdict, Scope, delete
  <1>3. LedgerInv'
    BY DEF IInv, LedgerInv, SaveVerdict, Scope, ledger
  <1>4. CommandInv'
    BY DEF IInv, CommandInv, CommandLabels, StepLabels, CreateLabels, SaveVerdict,
           Scope, ledger, provider
  <1>5. DeleteInv'
    BY DEF IInv, DeleteInv, DeleteLabels, Remnants, Present, Nothing, SaveVerdict,
           Scope, ledger, keys, provider, delete
  <1>6. OwnedInv'
    BY DEF IInv, OwnedInv, Remnants, Present, Nothing, SaveVerdict, Scope, ledger, keys,
           provider
  <1>7. PromiseInv'
    <2>1. ASSUME deletion = "none", record' = "ready"
          PROVE  \A s \in Services : Whole(s)
      <3>1. job \in Jobs /\ status[job] = "running"
        BY DEF IInv, CommandInv, CommandLabels, SaveVerdict
      <3>2. \A s \in Services : steps[job][s] \in {"none", "complete"}
        BY <2>1 DEF SaveVerdict, Scope
      <3> QED
        BY <2>1, <3>1, <3>2
        DEF IInv, DataType, LedgerInv, PromiseInv, CreatePromise, PullPromise
    <2> QED
      BY <2>1 DEF IInv, PromiseInv, CreatePromise, PullPromise, Whole, CommandInv,
                  CommandLabels, SaveVerdict, ledger, keys, provider
  <1> QED BY <1>1, <1>2, <1>3, <1>4, <1>5, <1>6, <1>7 DEF IInv

LEMMA SettlePreserves ==
  ASSUME IInv, Settle
  PROVE  IInv'
  <1>1. job \in Jobs /\ status[job] = "running" /\ record # "absent"
    BY DEF IInv, CommandInv, CommandLabels, Settle
  <1>2. pc' = "idle" /\ failed' = FALSE /\ UNCHANGED <<deletion, state, keys, provider>>
    BY DEF Settle, ProcessEnds
  <1>3. ControlType'
    BY DEF Settle, ProcessEnds, ControlType, Labels
  <1>4. CommandInv' /\ DeleteInv'
    BY <1>2 DEF CommandInv, DeleteInv, CommandLabels, StepLabels, CreateLabels, DeleteLabels
  <1>5. CASE failed /\ status' = [status EXCEPT ![job] = "degraded"]
             /\ UNCHANGED <<kind, steps>>
    <2>1. DataType'
      BY <1>1, <1>2, <1>5 DEF IInv, DataType, state, keys, provider
    <2>2. \A i \in Jobs : status'[i] = "none" <=> status[i] = "none"
      BY <1>1, <1>5 DEF IInv, DataType
    <2>3. LedgerInv'
      BY <1>1, <1>5, <2>2 DEF IInv, LedgerInv
    <2>4. OwnedInv'
      BY <1>2, <1>5 DEF IInv, OwnedInv, Remnants, Present, Nothing, state, keys, provider
    <2>5. PromiseInv'
      BY <1>2, <1>5, <2>2
      DEF IInv, PromiseInv, PullPromise, CreatePromise, Whole, state, keys, provider
    <2> QED
      BY <1>3, <1>4, <2>1, <2>3, <2>4, <2>5 DEF IInv
  <1>6. CASE ~failed /\ Release(job)
    <2>1. bound = Services /\ \A s \in Services : steps[job][s] \in {"none", "complete"}
      BY <1>6 DEF IInv, CommandInv, Settle
    <2>2. Remnants = {}
      BY <1>1, <2>1, WorkDone
    <2>3. /\ kind' \in [Jobs -> {"none", "create", "pull"}]
          /\ status' \in [Jobs -> {"none", "running", "degraded", "canceled"}]
          /\ steps' \in [Jobs -> [Services -> Phases]]
          /\ \A i \in Jobs :
               /\ kind'[i] = "none" /\ status'[i] = "none"
               /\ \A s \in Services : steps'[i][s] = "none"
      BY <1>1, <1>6, LastReleased
    <2>4. DataType'
      BY <1>2, <2>3 DEF IInv, DataType, state, keys, provider
    <2>5. LedgerInv'
      BY <2>3 DEF LedgerInv
    <2>6. OwnedInv'
      BY <1>1, <1>2, <2>1, <2>2, <2>3
      DEF IInv, OwnedInv, Remnants, Present, Nothing, state, keys, provider
    <2>7. deletion = "none" => \A s \in Services : Whole(s)
      BY <1>1, <2>1 DEF IInv, PromiseInv, LedgerInv, CreatePromise, PullPromise, DataType
    <2>8. PromiseInv'
      BY <1>2, <2>3, <2>7 DEF PromiseInv, Whole, state, keys, provider
    <2> QED
      BY <1>3, <1>4, <2>4, <2>5, <2>6, <2>8 DEF IInv
  <1> QED
    BY <1>5, <1>6 DEF Settle

-----------------------------------------------------------------------------
(* The steps of a create.                                                  *)

LEMMA ProvisionPreserves ==
  ASSUME IInv, Provision
  PROVE  IInv'
  <1>1. DataType'
    BY DEF IInv, DataType, Provision, ledger, state, keys, provider
  <1>2. ControlType'
    BY DEF IInv, ControlType, Labels, CreateLabels, DeleteLabels, Provision, Goto,
           delete
  <1>3. LedgerInv'
    BY DEF IInv, LedgerInv, Provision, ledger
  <1>4. CommandInv'
    BY DEF IInv, CommandInv, CommandLabels, StepLabels, CreateLabels, Provision, Goto,
           ledger, state, provider
  <1>5. DeleteInv'
    BY DEF IInv, DeleteInv, DeleteLabels, Remnants, Present, Nothing, Provision, Goto,
           ledger, state, keys, provider, delete
  <1>6. OwnedInv'
    BY DEF IInv, OwnedInv, Remnants, Present, Nothing, Provision, Goto, ledger, state,
           keys, provider
  <1>7. PromiseInv'
    BY DEF IInv, PromiseInv, CreatePromise, Whole, DataType, LedgerInv, CommandInv,
           CommandLabels, StepLabels, CreateLabels, Provision, Goto, ledger, state,
           keys, provider
  <1> QED BY <1>1, <1>2, <1>3, <1>4, <1>5, <1>6, <1>7 DEF IInv

LEMMA RestoreBranchPreserves ==
  ASSUME IInv, RestoreBranch
  PROVE  IInv'
  <1>1. DataType'
    BY DEF IInv, DataType, CommandInv, StepLabels, CreateLabels, RestoreBranch, ledger,
           state, keys
  <1>2. ControlType'
    BY DEF IInv, ControlType, Labels, CreateLabels, DeleteLabels, RestoreBranch, Answer,
           Goto, FailStep, delete
  <1>3. LedgerInv'
    BY DEF IInv, LedgerInv, RestoreBranch, ledger
  <1>4. CommandInv'
    BY DEF IInv, CommandInv, CommandLabels, StepLabels, CreateLabels, RestoreBranch,
           Answer, Goto, FailStep, ledger, state
  <1>5. DeleteInv'
    BY DEF IInv, DeleteInv, DeleteLabels, Remnants, Present, Nothing, RestoreBranch,
           Answer, Goto, FailStep, ledger, state, keys, delete
  <1>6. OwnedInv'
    BY DEF IInv, OwnedInv, Remnants, LedgerInv, CommandInv, CommandLabels, StepLabels,
           CreateLabels, RestoreBranch, Answer, Goto, FailStep, ledger, state, keys
  <1>7. PromiseInv'
    BY DEF IInv, PromiseInv, CreatePromise, Whole, LedgerInv, CommandInv, CommandLabels,
           StepLabels, CreateLabels, RestoreBranch, Answer, Goto, FailStep, ledger,
           state, keys
  <1> QED BY <1>1, <1>2, <1>3, <1>4, <1>5, <1>6, <1>7 DEF IInv

LEMMA DropRolePreserves ==
  ASSUME IInv, DropRole
  PROVE  IInv'
  <1>1. DataType'
    BY DEF IInv, DataType, DropRole, ledger, state
  <1>2. ControlType'
    BY DEF IInv, ControlType, Labels, CreateLabels, DeleteLabels, DropRole, Answer,
           Goto, FailStep, delete
  <1>3. LedgerInv'
    BY DEF IInv, LedgerInv, DropRole, ledger
  <1>4. CommandInv'
    BY DEF IInv, CommandInv, CommandLabels, StepLabels, CreateLabels, DropRole, Answer,
           Goto, FailStep, ledger, state
  <1>5. DeleteInv'
    BY DEF IInv, DeleteInv, DeleteLabels, Remnants, Present, Nothing, DropRole, Answer,
           Goto, FailStep, ledger, state, delete
  <1>6. OwnedInv'
    BY DEF IInv, OwnedInv, Remnants, Present, Nothing, DropRole, Answer, Goto, FailStep,
           ledger, state
  <1>7. PromiseInv'
    BY DEF IInv, PromiseInv, CreatePromise, Whole, LedgerInv, CommandInv, CommandLabels,
           StepLabels, CreateLabels, DropRole, Answer, Goto, FailStep, ledger, state
  <1> QED BY <1>1, <1>2, <1>3, <1>4, <1>5, <1>6, <1>7 DEF IInv

LEMMA CreateRolePreserves ==
  ASSUME IInv, CreateRole
  PROVE  IInv'
  <1>1. DataType'
    BY DEF IInv, DataType, CommandInv, CreateRole, ledger, state, keys
  <1>2. ControlType'
    BY DEF IInv, ControlType, Labels, CreateLabels, DeleteLabels, CreateRole, Answer,
           Goto, FailStep, delete
  <1>3. LedgerInv'
    BY DEF IInv, LedgerInv, CreateRole, ledger
  <1>4. CommandInv'
    BY DEF IInv, CommandInv, CommandLabels, StepLabels, CreateLabels, CreateRole,
           Answer, Goto, FailStep, ledger, state
  <1>5. DeleteInv'
    BY DEF IInv, DeleteInv, DeleteLabels, Remnants, Present, Nothing, CreateRole,
           Answer, Goto, FailStep, ledger, state, keys, delete
  <1>6. OwnedInv'
    BY DEF IInv, OwnedInv, Remnants, Present, Nothing, CreateRole, Answer, Goto,
           FailStep, ledger, state, keys
  <1>7. PromiseInv'
    BY DEF IInv, PromiseInv, CreatePromise, PullPromise, Whole, CreateRole, Answer,
           Goto, FailStep, ledger, state, keys
  <1> QED BY <1>1, <1>2, <1>3, <1>4, <1>5, <1>6, <1>7 DEF IInv

LEMMA StoreKeyPreserves ==
  ASSUME IInv, StoreKey
  PROVE  IInv'
  <1>1. DataType'
    BY DEF IInv, DataType, StoreKey, ledger, state, provider
  <1>2. ControlType'
    BY DEF IInv, ControlType, Labels, CreateLabels, DeleteLabels, StoreKey, Answer,
           Goto, FailStep, delete
  <1>3. LedgerInv'
    BY DEF IInv, LedgerInv, StoreKey, ledger
  <1>4. CommandInv'
    BY DEF IInv, CommandInv, CommandLabels, StepLabels, CreateLabels, StoreKey, Answer,
           Goto, FailStep, ledger, state, provider
  <1>5. DeleteInv'
    BY DEF IInv, DeleteInv, DeleteLabels, Remnants, Present, Nothing, StoreKey, Answer,
           Goto, FailStep, ledger, state, provider, delete
  <1>6. OwnedInv'
    BY DEF IInv, OwnedInv, Remnants, LedgerInv, CommandInv, CommandLabels, StepLabels,
           CreateLabels, StoreKey, Answer, Goto, FailStep, ledger, state, provider
  <1>7. PromiseInv'
    BY DEF IInv, PromiseInv, CreatePromise, PullPromise, Whole, DataType, StoreKey,
           Answer, Goto, FailStep, ledger, state, provider
  <1> QED BY <1>1, <1>2, <1>3, <1>4, <1>5, <1>6, <1>7 DEF IInv

LEMMA BindPreserves ==
  ASSUME IInv, Bind
  PROVE  IInv'
  <1>1. DataType'
    BY DEF IInv, DataType, CommandInv, StepLabels, CreateLabels, Bind, ledger, keys,
           provider
  <1>2. ControlType'
    BY DEF IInv, ControlType, Labels, CreateLabels, DeleteLabels, Bind, Goto, delete
  <1>3. LedgerInv'
    BY DEF IInv, LedgerInv, Bind, ledger
  <1>4. CommandInv'
    BY DEF IInv, CommandInv, CommandLabels, StepLabels, CreateLabels, Bind, Goto,
           ledger, provider
  <1>5. DeleteInv'
    BY DEF IInv, DeleteInv, DeleteLabels, Remnants, Present, Nothing, Bind, Goto,
           ledger, keys, provider, delete
  <1>6. OwnedInv'
    BY DEF IInv, CommandInv, OwnedInv, CreateLabels, StepLabels, Remnants, Present,
           Nothing, Bind, Goto, keys, ledger, provider, delete
  <1>7. PromiseInv'
    BY DEF IInv, PromiseInv, CreatePromise, PullPromise, Whole, Bind, Goto, ledger,
           keys, provider
  <1> QED BY <1>1, <1>2, <1>3, <1>4, <1>5, <1>6, <1>7 DEF IInv

LEMMA MarkCompletePreserves ==
  ASSUME IInv, MarkComplete
  PROVE  IInv'
  <1>1. DataType'
    BY DEF IInv, DataType, Phases, MarkComplete, Checkpoint, state, keys, provider
  <1>2. ControlType'
    BY DEF IInv, ControlType, Labels, MarkComplete, Checkpoint, delete
  <1>3. LedgerInv'
    BY DEF IInv, LedgerInv, CommandInv, StepLabels, CreateLabels, MarkComplete,
           Checkpoint
  <1>4. CommandInv'
    BY DEF IInv, CommandInv, CommandLabels, StepLabels, CreateLabels, MarkComplete,
           Checkpoint, state, provider
  <1>5. DeleteInv'
    BY DEF IInv, DeleteInv, DeleteLabels, Remnants, Present, Nothing, MarkComplete,
           Checkpoint, state, keys, provider, delete
  <1>6. OwnedInv'
    <2>1. job \in Jobs /\ cur \in Services
      BY DEF IInv, CommandInv, CommandLabels, StepLabels, CreateLabels, MarkComplete
    <2>2. \A i \in Jobs, s \in Services :
            steps'[i][s] = IF i = job /\ s = cur THEN "complete" ELSE steps[i][s]
      BY <2>1, Checkpointed DEF IInv, MarkComplete, Phases
    <2> QED
      BY <2>1, <2>2 DEF IInv, CommandInv, StepLabels, CreateLabels, OwnedInv, Remnants,
                        Present, Nothing, MarkComplete, state, keys, provider
  <1>7. PromiseInv'
    BY DEF IInv, PromiseInv, CreatePromise, PullPromise, Whole, DataType, CommandInv,
           MarkComplete, Checkpoint, state, keys, provider
  <1> QED BY <1>1, <1>2, <1>3, <1>4, <1>5, <1>6, <1>7 DEF IInv

-----------------------------------------------------------------------------
(* The steps of a refresh.                                                 *)

LEMMA RestoreStagingPreserves ==
  ASSUME IInv, RestoreStaging
  PROVE  IInv'
  <1>1. DataType'
    BY DEF IInv, DataType, CommandInv, CommandLabels, StepLabels, RestoreStaging,
           Refreshing, ledger, state, keys
  <1>2. ControlType'
    BY DEF IInv, ControlType, Labels, RestoreStaging, Refreshing, Staging, Answer, Goto,
           FailStep, delete
  <1>3. LedgerInv'
    BY DEF IInv, LedgerInv, RestoreStaging, Refreshing, Staging, ledger
  <1>4. CommandInv'
    BY DEF IInv, CommandInv, CommandLabels, StepLabels, CreateLabels, RestoreStaging,
           Refreshing, Staging, Answer, Goto, FailStep, ledger, state
  <1>5. DeleteInv'
    BY DEF IInv, DeleteInv, DeleteLabels, Remnants, Present, Nothing, RestoreStaging,
           Refreshing, Staging, Answer, Goto, FailStep, ledger, state, keys, delete
  <1>6. OwnedInv'
    BY DEF IInv, OwnedInv, Remnants, Present, CommandInv, StepLabels, RestoreStaging,
           Refreshing, Answer, Goto, FailStep, ledger, state, keys
  <1>7. PromiseInv'
    BY DEF IInv, PromiseInv, CreatePromise, PullPromise, Whole, RestoreStaging,
           Refreshing, Staging, Answer, Goto, FailStep, ledger, state, keys
  <1> QED BY <1>1, <1>2, <1>3, <1>4, <1>5, <1>6, <1>7 DEF IInv

LEMMA StoreStagingKeyPreserves ==
  ASSUME IInv, StoreStagingKey
  PROVE  IInv'
  <1>1. DataType'
    BY DEF IInv, DataType, StoreStagingKey, Refreshing, Staging, StagingKey, ledger,
           state, provider
  <1>2. ControlType'
    BY DEF IInv, ControlType, Labels, StoreStagingKey, Refreshing, Staging, StagingKey,
           Answer, Goto, FailStep, delete
  <1>3. LedgerInv'
    BY DEF IInv, LedgerInv, StoreStagingKey, Refreshing, Staging, StagingKey, ledger
  <1>4. CommandInv'
    BY DEF IInv, CommandInv, CommandLabels, StepLabels, CreateLabels, StoreStagingKey,
           Refreshing, Staging, StagingKey, Answer, Goto, FailStep, ledger, state,
           provider
  <1>5. DeleteInv'
    BY DEF IInv, DeleteInv, DeleteLabels, Remnants, Present, Nothing, StoreStagingKey,
           Refreshing, Staging, StagingKey, Answer, Goto, FailStep, ledger, state,
           provider, delete
  <1>6. OwnedInv'
    BY DEF IInv, OwnedInv, Remnants, Present, Nothing, StoreStagingKey, Refreshing,
           Staging, StagingKey, Answer, Goto, FailStep, ledger, state, provider
  <1>7. PromiseInv'
    BY DEF IInv, PromiseInv, CreatePromise, PullPromise, Whole, StoreStagingKey,
           Refreshing, Staging, StagingKey, Answer, Goto, FailStep, ledger, state,
           provider
  <1> QED BY <1>1, <1>2, <1>3, <1>4, <1>5, <1>6, <1>7 DEF IInv

LEMMA DeleteOldPreserves ==
  ASSUME IInv, DeleteOld
  PROVE  IInv'
  <1>1. DataType'
    BY DEF IInv, DataType, DeleteOld, Refreshing, Staging, Gone, ledger, state
  <1>2. ControlType'
    BY DEF IInv, ControlType, Labels, DeleteOld, Refreshing, Staging, Gone, Answer,
           Goto, FailStep, delete
  <1>3. LedgerInv'
    BY DEF IInv, LedgerInv, DeleteOld, Refreshing, Staging, Gone, ledger
  <1>4. CommandInv'
    BY DEF IInv, CommandInv, CommandLabels, StepLabels, CreateLabels, DeleteOld,
           Refreshing, Staging, Gone, Answer, Goto, FailStep, ledger, state
  <1>5. DeleteInv'
    BY DEF IInv, DeleteInv, DeleteLabels, Remnants, Present, Nothing, DeleteOld,
           Refreshing, Staging, Gone, Answer, Goto, FailStep, ledger, state, delete
  <1>6. OwnedInv'
    BY DEF IInv, OwnedInv, Remnants, Present, Nothing, DeleteOld, Refreshing, Staging,
           Gone, Answer, Goto, FailStep, ledger, state
  <1>7. PromiseInv'
    BY DEF IInv, PromiseInv, PullPromise, Whole, LedgerInv, CommandInv, CommandLabels,
           StepLabels, DeleteOld, Refreshing, Gone, Answer, Goto, FailStep, ledger,
           state
  <1> QED BY <1>1, <1>2, <1>3, <1>4, <1>5, <1>6, <1>7 DEF IInv

LEMMA RenamePreserves ==
  ASSUME IInv, Rename
  PROVE  IInv'
  <1>1. DataType'
    BY DEF IInv, DataType, Rename, Refreshing, Staging, ledger, state, keys
  <1>2. ControlType'
    BY DEF IInv, ControlType, Labels, Rename, Refreshing, Staging, Answer, Goto,
           FailStep, delete
  <1>3. LedgerInv'
    BY DEF IInv, LedgerInv, Rename, Refreshing, Staging, ledger
  <1>4. CommandInv'
    BY DEF IInv, CommandInv, CommandLabels, StepLabels, CreateLabels, Rename,
           Refreshing, Staging, Answer, Goto, FailStep, ledger, state
  <1>5. DeleteInv'
    BY DEF IInv, DeleteInv, DeleteLabels, Remnants, Present, Nothing, Rename,
           Refreshing, Staging, Answer, Goto, FailStep, ledger, state, keys, delete
  <1>6. OwnedInv'
    BY DEF IInv, OwnedInv, Remnants, Present, DataType, Rename, Staging, Answer, Goto,
           FailStep, ledger, state, keys
  <1>7. PromiseInv'
    BY DEF IInv, PromiseInv, CreatePromise, PullPromise, Whole, LedgerInv, CommandInv,
           CommandLabels, StepLabels, Rename, Refreshing, Answer, Goto, FailStep,
           ledger, state, keys
  <1> QED BY <1>1, <1>2, <1>3, <1>4, <1>5, <1>6, <1>7 DEF IInv

LEMMA RefreshMarkPreserves ==
  ASSUME IInv, RefreshMark
  PROVE  IInv'
  <1>1. PICK ph \in Phases :
          /\ RefreshCheckpoint(ph)
          /\ pc = "refresh"
          /\ \/ steps[job][cur] = "planned" /\ ph = "staged"
             \/ steps[job][cur] = "staged" /\ ph = "credentialed" /\ StagingKey
             \/ steps[job][cur] = "credentialed" /\ ph = "old_deleted" /\ Staging
             \/ /\ steps[job][cur] = "old_deleted" /\ ph = "swapped"
                /\ ~Staging /\ cur \in canonical
    BY DEF RefreshMark, Refreshing, Phases
  <1>2. job \in Jobs /\ cur \in Services /\ kind[job] = "pull" /\ status[job] = "running"
    BY <1>1 DEF IInv, CommandInv, CommandLabels, StepLabels
  <1>3. /\ steps' \in [Jobs -> [Services -> Phases]]
        /\ \A i \in Jobs, s \in Services :
             steps'[i][s] = IF i = job /\ s = cur THEN ph ELSE steps[i][s]
    BY <1>1, <1>2, Checkpointed DEF IInv, RefreshCheckpoint
  <1>4. UNCHANGED <<kind, status, deletion, state, keys, provider, process>>
    BY <1>1 DEF RefreshCheckpoint
  <1>5. DataType'
    BY <1>3, <1>4 DEF IInv, DataType, state, keys, provider
  <1>6. ControlType'
    BY <1>4 DEF IInv, ControlType, process, delete
  <1>7. LedgerInv'
    BY <1>1, <1>2, <1>3, <1>4 DEF IInv, LedgerInv
  <1>8. CommandInv'
    BY <1>1, <1>2, <1>3, <1>4
    DEF IInv, CommandInv, ControlType, CommandLabels, StepLabels, CreateLabels,
        state, provider, process
  <1>9. DeleteInv'
    BY <1>1, <1>4
    DEF IInv, DeleteInv, DeleteLabels, Remnants, Present, Nothing,
        state, keys, provider, process, delete
  <1>10. OwnedInv'
    BY <1>1, <1>2, <1>3, <1>4
    DEF IInv, CommandInv, StepLabels, OwnedInv, Remnants, Present, Nothing,
        Staging, StagingKey, state, keys, provider, process
  <1>11. PromiseInv'
    BY <1>1, <1>2, <1>3, <1>4
    DEF IInv, CommandInv, StepLabels, PromiseInv, PullPromise, CreatePromise, Whole,
        Staging, StagingKey, state, keys, provider, process
  <1> QED
    BY <1>5, <1>6, <1>7, <1>8, <1>9, <1>10, <1>11 DEF IInv

LEMMA TransferKeyPreserves ==
  ASSUME IInv, TransferKey
  PROVE  IInv'
  <1>1. DataType'
    BY DEF IInv, DataType, TransferKey, Refreshing, StagingKey, Opens, ledger, state,
           provider
  <1>2. ControlType'
    BY DEF IInv, ControlType, Labels, TransferKey, Refreshing, StagingKey, Opens,
           Answer, Goto, FailStep, delete
  <1>3. LedgerInv'
    BY DEF IInv, LedgerInv, TransferKey, Refreshing, StagingKey, Opens, ledger
  <1>4. CommandInv'
    BY DEF IInv, CommandInv, CommandLabels, StepLabels, CreateLabels, TransferKey,
           Refreshing, StagingKey, Opens, Answer, Goto, FailStep, ledger, state,
           provider
  <1>5. DeleteInv'
    BY DEF IInv, DeleteInv, DeleteLabels, Remnants, Present, Nothing, TransferKey,
           Refreshing, StagingKey, Opens, Answer, Goto, FailStep, ledger, state,
           provider, delete
  <1>6. OwnedInv'
    BY DEF IInv, OwnedInv, Remnants, Present, DataType, TransferKey, StagingKey, Answer,
           Goto, FailStep, ledger, state, provider
  <1>7. PromiseInv'
    BY DEF IInv, PromiseInv, PullPromise, Whole, DataType, LedgerInv, TransferKey,
           Refreshing, StagingKey, Opens, Answer, Goto, FailStep, ledger, state,
           provider
  <1> QED BY <1>1, <1>2, <1>3, <1>4, <1>5, <1>6, <1>7 DEF IInv

LEMMA RefreshBindPreserves ==
  ASSUME IInv, RefreshBind
  PROVE  IInv'
  <1>1. DataType'
    BY DEF IInv, DataType, RefreshBind, Refreshing, StagingKey, ledger, keys, provider
  <1>2. ControlType'
    BY DEF IInv, ControlType, Labels, CreateLabels, DeleteLabels, RefreshBind,
           Refreshing, StagingKey, Goto, delete
  <1>3. LedgerInv'
    BY DEF IInv, LedgerInv, RefreshBind, Refreshing, StagingKey, ledger
  <1>4. CommandInv'
    BY DEF IInv, CommandInv, CommandLabels, StepLabels, CreateLabels, RefreshBind,
           Refreshing, StagingKey, Goto, ledger, provider
  <1>5. DeleteInv'
    BY DEF IInv, DeleteInv, DeleteLabels, Remnants, Present, Nothing, RefreshBind,
           Refreshing, StagingKey, Goto, ledger, keys, provider, delete
  <1>6. OwnedInv'
    BY DEF IInv, OwnedInv, Remnants, Present, Nothing, DataType, RefreshBind,
           Refreshing, StagingKey, Goto, ledger, keys, provider
  <1>7. PromiseInv'
    BY DEF IInv, PromiseInv, CreatePromise, PullPromise, Whole, CommandInv,
           CommandLabels, StepLabels, RefreshBind, Refreshing, StagingKey, Goto, ledger,
           keys, provider
  <1> QED BY <1>1, <1>2, <1>3, <1>4, <1>5, <1>6, <1>7 DEF IInv

LEMMA RefreshMissingPreserves ==
  ASSUME IInv, RefreshMissing
  PROVE  IInv'
  <1>1. DataType'
    BY DEF IInv, DataType, RefreshMissing, Refreshing, Staging, StagingKey, ledger,
           state, keys, provider
  <1>2. ControlType'
    BY DEF IInv, ControlType, Labels, RefreshMissing, Refreshing, Staging, StagingKey,
           FailStep, delete
  <1>3. LedgerInv'
    BY DEF IInv, LedgerInv, RefreshMissing, Refreshing, Staging, StagingKey, ledger
  <1>4. CommandInv'
    BY DEF IInv, CommandInv, CommandLabels, StepLabels, CreateLabels, RefreshMissing,
           Refreshing, Staging, StagingKey, FailStep, ledger, state, provider
  <1>5. DeleteInv'
    BY DEF IInv, DeleteInv, DeleteLabels, Remnants, Present, Nothing, RefreshMissing,
           Refreshing, Staging, StagingKey, FailStep, ledger, state, keys, provider,
           delete
  <1>6. OwnedInv'
    BY DEF IInv, OwnedInv, Remnants, Present, Nothing, RefreshMissing, Refreshing,
           Staging, StagingKey, FailStep, ledger, state, keys, provider
  <1>7. PromiseInv'
    BY DEF IInv, PromiseInv, CreatePromise, PullPromise, Whole, RefreshMissing,
           Refreshing, Staging, StagingKey, FailStep, ledger, state, keys, provider
  <1> QED BY <1>1, <1>2, <1>3, <1>4, <1>5, <1>6, <1>7 DEF IInv

-----------------------------------------------------------------------------
(* The steps of a delete.                                                  *)

LEMMA StartDeletePreserves ==
  ASSUME IInv, NEW k \in BOOLEAN, StartDelete(k)
  PROVE  IInv'
  <1>1. DataType'
    BY DEF IInv, DataType, StartDelete, DeleteAccepted, DeletionTargets, Unreconciled,
           Nonterminal, Residual, Scope, state, keys, provider
  <1>2. ControlType'
    BY DEF IInv, ControlType, Labels, DataType, DeleteLabels, StartDelete,
           DeletionTargets, Unreconciled, Nonterminal, Residual, Scope
  <1>3. LedgerInv'
    BY DEF IInv, LedgerInv, StartDelete, DeleteAccepted, DeletionTargets, Unreconciled,
           Nonterminal, Residual, Scope
  <1>4. CommandInv'
    BY DEF IInv, CommandInv, CommandLabels, StepLabels, CreateLabels, StartDelete,
           DeleteAccepted, DeletionTargets, Unreconciled, Nonterminal, Residual, Scope,
           state, provider
  <1>5. DeleteInv'
    BY DEF IInv, DeleteInv, Remnants, Present, DataType, LedgerInv, OwnedInv,
           StartDelete, DeleteAccepted, DeletionTargets, Unreconciled, Nonterminal,
           Residual, Scope, state, keys, provider
  <1>6. OwnedInv'
    BY DEF IInv, OwnedInv, Remnants, Present, Nothing, StartDelete, DeleteAccepted,
           DeletionTargets, Unreconciled, Nonterminal, Residual, Scope, state, keys,
           provider
  <1>7. PromiseInv'
    BY DEF IInv, PromiseInv, CreatePromise, PullPromise, Whole, StartDelete,
           DeleteAccepted, DeletionTargets, Unreconciled, Nonterminal, Residual, Scope,
           state, keys, provider
  <1> QED BY <1>1, <1>2, <1>3, <1>4, <1>5, <1>6, <1>7 DEF IInv

LEMMA DeleteBranchPreserves ==
  ASSUME IInv, NEW j \in Jobs \cup {NoJob}, NEW s \in Services, DeleteBranch(j, s)
  PROVE  IInv'
  <1>1. DataType'
    BY DEF IInv, DataType, DeleteBranch, Gone, ledger, state
  <1>2. ControlType'
    BY DEF IInv, ControlType, Labels, CreateLabels, DeleteLabels, DeleteBranch, Gone
  <1>3. LedgerInv'
    BY DEF IInv, LedgerInv, DeleteBranch, Gone, ledger
  <1>4. CommandInv'
    BY DEF IInv, CommandInv, CommandLabels, StepLabels, CreateLabels, DeleteBranch,
           Gone, ledger, state
  <1>5. DeleteInv'
    BY DEF IInv, DeleteInv, DeleteLabels, Remnants, Present, DataType, DeleteBranch,
           Gone, ledger, state
  <1>6. OwnedInv'
    BY DEF IInv, OwnedInv, Remnants, Present, Nothing, DataType, DeleteBranch, Gone,
           ledger, state
  <1>7. PromiseInv'
    BY DEF IInv, PromiseInv, DeleteInv, DeleteLabels, DeleteBranch, ledger
  <1> QED BY <1>1, <1>2, <1>3, <1>4, <1>5, <1>6, <1>7 DEF IInv

LEMMA DropKeysPreserves ==
  ASSUME IInv, DropKeys
  PROVE  IInv'
  <1>1. DataType'
    BY DEF IInv, DataType, DropKeys, ledger, state, keys, provider
  <1>2. ControlType'
    BY DEF IInv, ControlType, Labels, CreateLabels, DeleteLabels, DropKeys
  <1>3. LedgerInv'
    BY DEF IInv, LedgerInv, DropKeys, ledger
  <1>4. CommandInv'
    BY DEF IInv, CommandInv, CommandLabels, StepLabels, CreateLabels, DropKeys, ledger,
           state, provider
  <1>5. DeleteInv'
    BY NonesAssumption DEF IInv, DeleteInv, DeleteLabels, Remnants, Present, DataType,
           ControlType, DropKeys, ledger, state, provider
  <1>6. OwnedInv'
    BY DEF IInv, OwnedInv, Remnants, Present, Nothing, DataType, DropKeys, ledger,
           state, keys, provider
  <1>7. PromiseInv'
    BY DEF IInv, PromiseInv, DeleteInv, DeleteLabels, DropKeys, ledger
  <1> QED BY <1>1, <1>2, <1>3, <1>4, <1>5, <1>6, <1>7 DEF IInv

LEMMA DeleteCompletePreserves ==
  ASSUME IInv, DeleteComplete
  PROVE  IInv'
  <1>1. DataType'
    BY DEF IInv, DataType, DeleteComplete, ledger, state, keys, provider
  <1>2. ControlType'
    BY DEF IInv, ControlType, Labels, CreateLabels, DeleteLabels, DeleteComplete, Goto,
           delete
  <1>3. LedgerInv'
    BY DEF IInv, LedgerInv, DeleteComplete, ledger
  <1>4. CommandInv'
    BY DEF IInv, CommandInv, CommandLabels, StepLabels, CreateLabels, DeleteComplete,
           Goto, ledger, state, provider
  <1>5. DeleteInv'
    BY DEF IInv, DeleteInv, DeleteLabels, Remnants, Present, Nothing, DataType,
           DeleteComplete, Goto, ledger, state, keys, provider, delete
  <1>6. OwnedInv'
    BY DEF IInv, OwnedInv, Remnants, Present, Nothing, DeleteComplete, Goto, ledger,
           state, keys, provider
  <1>7. PromiseInv'
    BY DEF IInv, PromiseInv, CreatePromise, PullPromise, Whole, DeleteComplete, Goto,
           ledger, state, keys, provider
  <1> QED BY <1>1, <1>2, <1>3, <1>4, <1>5, <1>6, <1>7 DEF IInv

LEMMA ReconcilePreserves ==
  ASSUME IInv, NEW j \in Jobs, Reconcile(j)
  PROVE  IInv'
  <1>1. DataType'
    BY DEF IInv, DataType, Phases, Reconcile, Release, state, keys, provider
  <1>2. ControlType'
    BY DEF IInv, ControlType, Labels, Reconcile, Release
  <1>3. LedgerInv'
    BY DEF IInv, LedgerInv, DataType, Reconcile, Release
  <1>4. CommandInv'
    BY DEF IInv, CommandInv, CommandLabels, StepLabels, CreateLabels, Reconcile,
           Release, state, provider
  <1>5. DeleteInv'
    BY DEF IInv, DeleteInv, Remnants, Nothing, DataType, Reconcile, Release, state,
           keys, provider
  <1>6. OwnedInv'
    BY DEF IInv, OwnedInv, Remnants, Present, Nothing, DeleteInv, Reconcile, Release,
           state, keys, provider
  <1>7. PromiseInv'
    BY DEF IInv, PromiseInv, DeleteInv, DeleteLabels, Reconcile
  <1> QED BY <1>1, <1>2, <1>3, <1>4, <1>5, <1>6, <1>7 DEF IInv

LEMMA ForgetRecordPreserves ==
  ASSUME IInv, ForgetRecord
  PROVE  IInv'
  <1>1. DataType'
    BY DEF IInv, DataType, ForgetRecord, ledger, state, keys, provider
  <1>2. ControlType'
    BY DEF IInv, ControlType, Labels, CreateLabels, DeleteLabels, ForgetRecord, Goto,
           delete
  <1>3. LedgerInv'
    BY DEF IInv, LedgerInv, ForgetRecord, ledger
  <1>4. CommandInv'
    BY DEF IInv, CommandInv, CommandLabels, StepLabels, CreateLabels, ForgetRecord,
           Goto, ledger, state, provider
  <1>5. DeleteInv'
    BY DEF IInv, DeleteInv, DeleteLabels, Remnants, Present, Nothing, ForgetRecord,
           Goto, ledger, state, keys, provider, delete
  <1>6. OwnedInv'
    BY DEF IInv, OwnedInv, Remnants, Present, Nothing, LedgerInv, DeleteInv,
           DeleteLabels, ForgetRecord, ledger, state, keys, provider
  <1>7. PromiseInv'
    BY DEF IInv, PromiseInv, DeleteInv, DeleteLabels, ForgetRecord, ledger
  <1> QED BY <1>1, <1>2, <1>3, <1>4, <1>5, <1>6, <1>7 DEF IInv

LEMMA DeletedPreserves ==
  ASSUME IInv, Deleted
  PROVE  IInv'
  <1>1. DataType'
    BY DEF IInv, DataType, Deleted, state, keys, provider
  <1>2. ControlType'
    BY DEF IInv, ControlType, Labels, Deleted, ProcessEnds
  <1>3. LedgerInv'
    BY DEF IInv, LedgerInv, Deleted
  <1>4. CommandInv'
    BY DEF IInv, CommandInv, CommandLabels, StepLabels, CreateLabels, Deleted,
           ProcessEnds, state, provider
  <1>5. DeleteInv'
    BY DEF IInv, DeleteInv, DeleteLabels, Remnants, Present, Nothing, Deleted,
           ProcessEnds, state, keys, provider
  <1>6. OwnedInv'
    BY DEF IInv, OwnedInv, Remnants, Present, Nothing, Deleted, ProcessEnds, state,
           keys, provider
  <1>7. PromiseInv'
    BY DEF IInv, PromiseInv, CreatePromise, PullPromise, Whole, Deleted, ProcessEnds,
           state, keys, provider
  <1> QED BY <1>1, <1>2, <1>3, <1>4, <1>5, <1>6, <1>7 DEF IInv

LEMMA DeleteStopsPreserves ==
  ASSUME IInv, DeleteStops
  PROVE  IInv'
  <1>1. DataType'
    BY DEF IInv, DataType, DeleteStops, ledger, state, keys, provider
  <1>2. ControlType'
    BY DEF IInv, ControlType, Labels, DeleteStops, ProcessEnds
  <1>3. LedgerInv'
    BY DEF IInv, LedgerInv, DeleteStops, ledger
  <1>4. CommandInv'
    BY DEF IInv, CommandInv, CommandLabels, StepLabels, CreateLabels, DeleteStops,
           ProcessEnds, ledger, state, provider
  <1>5. DeleteInv'
    BY DEF IInv, DeleteInv, DeleteLabels, Remnants, Present, Nothing, DeleteStops,
           ProcessEnds, ledger, state, keys, provider
  <1>6. OwnedInv'
    BY DEF IInv, OwnedInv, Remnants, Present, Nothing, DeleteStops, ProcessEnds, ledger,
           state, keys, provider
  <1>7. PromiseInv'
    BY DEF IInv, PromiseInv, CreatePromise, PullPromise, Whole, DeleteStops,
           ProcessEnds, ledger, state, keys, provider
  <1> QED BY <1>1, <1>2, <1>3, <1>4, <1>5, <1>6, <1>7 DEF IInv

-----------------------------------------------------------------------------
(* job cancel, failing calls, interruption and crash.                      *)

LEMMA JobCancelPreserves ==
  ASSUME IInv, NEW j \in Jobs, JobCancel(j)
  PROVE  IInv'
  <1>1. pc = "idle" /\ UNCHANGED <<deletion, state, keys, provider, process>>
    BY DEF JobCancel
  <1>2. status[j] # "none"
    BY DEF JobCancel, Nonterminal
  <1>3. ControlType'
    BY <1>1 DEF IInv, ControlType, process, delete
  <1>4. CommandInv' /\ DeleteInv'
    BY <1>1 DEF IInv, CommandInv, DeleteInv, CommandLabels, StepLabels, CreateLabels,
                DeleteLabels, process
  <1>5. CASE status' = [status EXCEPT ![j] = "canceled"] /\ UNCHANGED <<kind, steps>>
    <2>1. DataType'
      BY <1>1, <1>5 DEF IInv, DataType, state, keys, provider
    <2>2. \A i \in Jobs : status'[i] = "none" <=> status[i] = "none"
      BY <1>2, <1>5 DEF IInv, DataType
    <2>3. LedgerInv'
      BY <1>2, <1>5, <2>2 DEF IInv, LedgerInv
    <2>4. OwnedInv'
      BY <1>1, <1>5
      DEF IInv, OwnedInv, Remnants, Present, Nothing, state, keys, provider, process
    <2>5. PromiseInv'
      BY <1>1, <1>5, <2>2
      DEF IInv, PromiseInv, PullPromise, CreatePromise, Whole, state, keys, provider, process
    <2> QED
      BY <1>3, <1>4, <2>1, <2>3, <2>4, <2>5 DEF IInv
  <1>6. CASE Release(j) /\ \A s \in Scope(j) : steps[j][s] = "complete"
    <2>1. \A s \in Services : steps[j][s] \in {"none", "complete"}
      BY <1>6 DEF Scope
    <2>2. Remnants = {}
      BY <1>2, <2>1, WorkDone
    <2>3. /\ kind' \in [Jobs -> {"none", "create", "pull"}]
          /\ status' \in [Jobs -> {"none", "running", "degraded", "canceled"}]
          /\ steps' \in [Jobs -> [Services -> Phases]]
          /\ \A i \in Jobs :
               /\ kind'[i] = "none" /\ status'[i] = "none"
               /\ \A s \in Services : steps'[i][s] = "none"
      BY <1>2, <1>6, LastReleased
    <2>4. DataType'
      BY <1>1, <2>3 DEF IInv, DataType, state, keys, provider
    <2>5. LedgerInv'
      BY <2>3 DEF LedgerInv
    <2>6. OwnedInv'
      BY <1>1, <1>2, <2>1, <2>2, <2>3
      DEF IInv, OwnedInv, LedgerInv, Remnants, Present, Nothing,
          state, keys, provider, process
    <2>7. deletion = "none" /\ record # "absent" => \A s \in Services : Whole(s)
      BY <1>2, <2>1 DEF IInv, PromiseInv, LedgerInv, CreatePromise, PullPromise, DataType
    <2>8. PromiseInv'
      BY <1>1, <2>3, <2>7
      DEF IInv, DataType, PromiseInv, Whole, state, keys, provider, process
    <2> QED
      BY <1>3, <1>4, <2>4, <2>5, <2>6, <2>8 DEF IInv
  <1> QED
    BY <1>5, <1>6 DEF JobCancel

LEMMA CallFailsPreserves ==
  ASSUME IInv, CallFails
  PROVE  IInv'
  <1>1. DataType'
    BY DEF IInv, DataType, CallFails, ledger, state, keys, provider
  <1>2. ControlType'
    BY DEF IInv, ControlType, Labels, CallFails, FailStep, delete
  <1>3. LedgerInv'
    BY DEF IInv, LedgerInv, CallFails, ledger
  <1>4. CommandInv'
    BY DEF IInv, CommandInv, CommandLabels, StepLabels, CreateLabels, CallFails,
           FailStep, ledger, state, provider
  <1>5. DeleteInv'
    BY DEF IInv, DeleteInv, DeleteLabels, Remnants, Present, Nothing, CallFails,
           FailStep, ledger, state, keys, provider, delete
  <1>6. OwnedInv'
    BY DEF IInv, OwnedInv, Remnants, Present, Nothing, CallFails, FailStep, ledger,
           state, keys, provider
  <1>7. PromiseInv'
    BY DEF IInv, PromiseInv, CreatePromise, PullPromise, Whole, CallFails, FailStep,
           ledger, state, keys, provider
  <1> QED BY <1>1, <1>2, <1>3, <1>4, <1>5, <1>6, <1>7 DEF IInv

LEMMA DeleteCallFailsPreserves ==
  ASSUME IInv, NEW j \in Jobs \cup {NoJob}, NEW s \in Services, DeleteCallFails(j, s)
  PROVE  IInv'
  <1>1. DataType'
    BY DEF IInv, DataType, DeleteCallFails, ledger, state, keys, provider
  <1>2. ControlType'
    BY DEF IInv, ControlType, Labels, DeleteCallFails
  <1>3. LedgerInv'
    BY DEF IInv, LedgerInv, DeleteCallFails, ledger
  <1>4. CommandInv'
    BY DEF IInv, CommandInv, CommandLabels, StepLabels, CreateLabels, DeleteCallFails,
           ledger, state, provider
  <1>5. DeleteInv'
    BY DEF IInv, DeleteInv, Remnants, Present, Nothing, DeleteCallFails, ledger, state,
           keys, provider
  <1>6. OwnedInv'
    BY DEF IInv, OwnedInv, Remnants, Present, Nothing, DeleteCallFails, ledger, state,
           keys, provider
  <1>7. PromiseInv'
    BY DEF IInv, PromiseInv, CreatePromise, PullPromise, Whole, DeleteCallFails, ledger,
           state, keys, provider
  <1> QED BY <1>1, <1>2, <1>3, <1>4, <1>5, <1>6, <1>7 DEF IInv

LEMMA InterruptPreserves ==
  ASSUME IInv, Interrupt
  PROVE  IInv'
  <1>1. DataType'
    BY DEF IInv, DataType, Interrupt, Refreshing, ledger, state, keys, provider
  <1>2. ControlType'
    BY DEF IInv, ControlType, Labels, Interrupt, Refreshing, delete
  <1>3. LedgerInv'
    BY DEF IInv, LedgerInv, Interrupt, Refreshing, ledger
  <1>4. CommandInv'
    BY DEF IInv, CommandInv, CommandLabels, StepLabels, CreateLabels, Interrupt,
           Refreshing, ledger, state, provider
  <1>5. DeleteInv'
    BY DEF IInv, DeleteInv, DeleteLabels, Remnants, Present, Nothing, Interrupt,
           Refreshing, ledger, state, keys, provider, delete
  <1>6. OwnedInv'
    BY DEF IInv, OwnedInv, Remnants, Present, Nothing, Interrupt, Refreshing, ledger,
           state, keys, provider
  <1>7. PromiseInv'
    BY DEF IInv, PromiseInv, CreatePromise, PullPromise, Whole, Interrupt, Refreshing,
           ledger, state, keys, provider
  <1> QED BY <1>1, <1>2, <1>3, <1>4, <1>5, <1>6, <1>7 DEF IInv

LEMMA RequestCancelPreserves ==
  ASSUME IInv, RequestCancel
  PROVE  IInv'
  <1>1. DataType'
    BY DEF IInv, DataType, RequestCancel, ledger, state, keys, provider
  <1>2. ControlType'
    BY DEF IInv, ControlType, Labels, RequestCancel, delete
  <1>3. LedgerInv'
    BY DEF IInv, LedgerInv, RequestCancel, ledger
  <1>4. CommandInv'
    BY DEF IInv, CommandInv, CommandLabels, CreateLabels, RequestCancel, ledger, state,
           provider
  <1>5. DeleteInv'
    BY DEF IInv, DeleteInv, Remnants, Present, Nothing, RequestCancel, ledger, state,
           keys, provider, delete
  <1>6. OwnedInv'
    BY DEF IInv, OwnedInv, Remnants, Present, Nothing, RequestCancel, ledger, state,
           keys, provider
  <1>7. PromiseInv'
    BY DEF IInv, PromiseInv, CreatePromise, PullPromise, Whole, RequestCancel, ledger,
           state, keys, provider
  <1> QED BY <1>1, <1>2, <1>3, <1>4, <1>5, <1>6, <1>7 DEF IInv

LEMMA CrashPreserves ==
  ASSUME IInv, Crash
  PROVE  IInv'
  <1>1. DataType'
    BY DEF IInv, DataType, Crash, ledger, state, keys, provider
  <1>2. ControlType'
    BY DEF IInv, ControlType, Labels, Crash, ProcessEnds
  <1>3. LedgerInv'
    BY DEF IInv, LedgerInv, Crash, ledger
  <1>4. CommandInv'
    BY DEF IInv, CommandInv, CommandLabels, StepLabels, CreateLabels, Crash,
           ProcessEnds, ledger, state, provider
  <1>5. DeleteInv'
    BY DEF IInv, DeleteInv, DeleteLabels, Remnants, Present, Nothing, Crash,
           ProcessEnds, ledger, state, keys, provider
  <1>6. OwnedInv'
    BY DEF IInv, OwnedInv, Remnants, Present, Nothing, Crash, ProcessEnds, ledger,
           state, keys, provider
  <1>7. PromiseInv'
    BY DEF IInv, PromiseInv, CreatePromise, PullPromise, Whole, Crash, ProcessEnds,
           ledger, state, keys, provider
  <1> QED BY <1>1, <1>2, <1>3, <1>4, <1>5, <1>6, <1>7 DEF IInv

-----------------------------------------------------------------------------
(* The whole next-state relation.                                          *)

LEMMA CreateStepPreserves ==
  ASSUME IInv, CreateStep
  PROVE  IInv'
  BY ProvisionPreserves, RestoreBranchPreserves, DropRolePreserves, CreateRolePreserves,
     StoreKeyPreserves, BindPreserves, MarkCompletePreserves
  DEF CreateStep

LEMMA RefreshStepPreserves ==
  ASSUME IInv, RefreshStep
  PROVE  IInv'
  BY RestoreStagingPreserves, StoreStagingKeyPreserves, DeleteOldPreserves,
     RenamePreserves, RefreshMarkPreserves, TransferKeyPreserves, RefreshBindPreserves,
     RefreshMissingPreserves
  DEF RefreshStep

LEMMA LoopStepPreserves ==
  ASSUME IInv, LoopStep
  PROVE  IInv'
  BY OpenRecordPreserves, SaveVerdictPreserves, SettlePreserves, BeginStepPreserves,
     SkipStepPreserves, RefuseStepPreserves
  DEF LoopStep

LEMMA DeleteStepPreserves ==
  ASSUME IInv, DeleteStep
  PROVE  IInv'
  BY DeleteBranchPreserves, DropKeysPreserves, DeleteCompletePreserves,
     ForgetRecordPreserves, DeletedPreserves, DeleteStopsPreserves, ReconcilePreserves
  DEF DeleteStep

LEMMA TroublePreserves ==
  ASSUME IInv, Trouble
  PROVE  IInv'
  BY CallFailsPreserves, RequestCancelPreserves, CrashPreserves, DeleteCallFailsPreserves
  DEF Trouble

LEMMA StutterPreserves ==
  ASSUME IInv, UNCHANGED vars
  PROVE  IInv'
  <1> USE DEF vars, ledger, state, keys, provider, process, delete
  <1>1. DataType'
    BY DEF IInv, DataType
  <1>2. ControlType'
    BY DEF IInv, ControlType
  <1>3. LedgerInv' /\ CommandInv'
    BY DEF IInv, LedgerInv, CommandInv
  <1>4. DeleteInv'
    BY DEF IInv, DeleteInv, Remnants, Present, Nothing
  <1>5. OwnedInv'
    BY DEF IInv, OwnedInv, Remnants, Present, Nothing
  <1>6. PromiseInv'
    BY DEF IInv, PromiseInv, CreatePromise, PullPromise, Whole
  <1> QED
    BY <1>1, <1>2, <1>3, <1>4, <1>5, <1>6 DEF IInv

LEMMA NextPreserves ==
  ASSUME IInv, [Next]_vars
  PROVE  IInv'
  <1>1. CASE \E j \in Jobs : StartCreate(j) \/ Resume(j) \/ JobCancel(j)
    BY <1>1, StartCreatePreserves, ResumePreserves, JobCancelPreserves
  <1>2. CASE \E j \in Jobs, scope \in (SUBSET Services) \ {{}} : StartPull(j, scope)
    BY <1>2, StartPullPreserves
  <1>3. CASE \E keepState \in BOOLEAN : StartDelete(keepState)
    BY <1>3, StartDeletePreserves
  <1>4. CASE CommandStep
    BY <1>4, CreateStepPreserves, RefreshStepPreserves, LoopStepPreserves,
       DeleteStepPreserves, InterruptPreserves
    DEF CommandStep
  <1>5. CASE Trouble
    BY <1>5, TroublePreserves
  <1>6. CASE UNCHANGED vars
    BY <1>6, StutterPreserves
  <1> QED
    BY <1>1, <1>2, <1>3, <1>4, <1>5, <1>6 DEF Next

(* Every state that the commands, their crashes and their failures lead to *)
(* satisfies the inductive invariant.                                      *)
THEOREM LifecycleInvariance == Spec => []IInv
  <1>1. Init => IInv
    BY InitIInv
  <1>2. IInv /\ [Next]_vars => IInv'
    BY NextPreserves
  <1> QED
    BY <1>1, <1>2, PTL DEF Spec

(* The ledger, the state file, the credential store, the provider and the  *)
(* running command hold values of their kinds; a role has its branch.      *)
THEOREM LifecycleTypeCorrect == Spec => []TypeOK
  <1>1. IInv => TypeOK
    BY DEF IInv, DataType, ControlType, TypeOK
  <1> QED
    BY <1>1, LifecycleInvariance, PTL

(* Whatever branches and credentials an environment has at any moment,     *)
(* environment_deletion_targets finds them all.                            *)
THEOREM NothingIsEverOrphaned == Spec => []NothingIsOrphaned
  <1>1. IInv => NothingIsOrphaned
    <2> SUFFICES ASSUME IInv PROVE NothingIsOrphaned
      OBVIOUS
    <2>1. \A j \in Jobs, s \in Services :
            steps[j][s] # "none" => j \in Unreconciled /\ s \in Scope(j)
      BY DEF IInv, DataType, LedgerInv, Unreconciled, Nonterminal, Residual, Scope
    <2>2. \A s \in Services : Present(s) => <<NoJob, s>> \in DeletionTargets
      BY <2>1 DEF IInv, OwnedInv, DeletionTargets
    <2>3. Remnants \subseteq DeletionTargets
      <3> SUFFICES ASSUME NEW r \in Remnants PROVE r \in DeletionTargets
        OBVIOUS
      <3>1. PICK j \in Jobs, s \in Services : r = <<j, s>>
        BY DEF IInv, DataType, Remnants
      <3>2. kind[j] = "pull" /\ steps[j][s] # "none"
        BY <3>1 DEF IInv, OwnedInv
      <3>3. j \in Unreconciled /\ s \in Scope(j)
        BY <2>1, <3>2
      <3> QED
        BY <3>1, <3>2, <3>3 DEF DeletionTargets
    <2> QED
      BY <2>2, <2>3 DEF NothingIsOrphaned, Present, Remnants
  <1> QED
    BY <1>1, LifecycleInvariance, PTL

(* The staging branches and staging keys of an environment belong to one   *)
(* refresh at a time.                                                      *)
THEOREM RefreshesNeverMix == Spec => []RefreshesDoNotMix
  <1>1. IInv => RefreshesDoNotMix
    <2> SUFFICES ASSUME IInv, NEW r1 \in Remnants, NEW r2 \in Remnants
                 PROVE  r1[1] = r2[1]
      BY DEF RefreshesDoNotMix, Remnants
    <2>1. PICK i \in Jobs, s \in Services : r1 = <<i, s>>
      BY DEF IInv, DataType, Remnants
    <2>2. PICK j \in Jobs, t \in Services : r2 = <<j, t>>
      BY DEF IInv, DataType, Remnants
    <2>3. status[i] # "none" /\ status[j] # "none"
      BY <2>1, <2>2 DEF IInv, OwnedInv, LedgerInv
    <2> QED
      BY <2>1, <2>2, <2>3 DEF IInv, LedgerInv
  <1> QED
    BY <1>1, LifecycleInvariance, PTL

(* What `repobox run` would start, and no delete was begun on, has for     *)
(* every service its branch, its role, the URLs that open it, its binding. *)
THEOREM RunnableAlwaysWhole == Spec => []RunnableIsWhole
  <1>1. IInv => RunnableIsWhole
    BY DEF IInv, PromiseInv, Whole, RunnableIsWhole, Runnable
  <1> QED
    BY <1>1, LifecycleInvariance, PTL

-----------------------------------------------------------------------------
(* Only a delete that has nothing left to do reports success.              *)

LEMMA OnlyDeletedReports ==
  ASSUME Next, deletion' = "done", deletion # "done"
  PROVE  Deleted
  <1> SUFFICES ASSUME ~Deleted PROVE deletion' \in {deletion, "none", "unfinished"}
    OBVIOUS
  <1>1. CASE \E j \in Jobs : StartCreate(j) \/ Resume(j) \/ JobCancel(j)
    BY <1>1 DEF StartCreate, NewJob, Resume, JobCancel
  <1>2. CASE \E j \in Jobs, scope \in (SUBSET Services) \ {{}} : StartPull(j, scope)
    BY <1>2 DEF StartPull, NewJob
  <1>3. CASE \E keepState \in BOOLEAN : StartDelete(keepState)
    BY <1>3 DEF StartDelete
  <1>4. CASE CreateStep
    BY <1>4 DEF CreateStep, Provision, RestoreBranch, DropRole, CreateRole, StoreKey, Bind,
                MarkComplete, ledger
  <1>5. CASE RefreshStep
    BY <1>5 DEF RefreshStep, RestoreStaging, StoreStagingKey, DeleteOld, Rename,
                RefreshMark, RefreshCheckpoint, TransferKey, RefreshBind, RefreshMissing,
                ledger
  <1>6. CASE LoopStep
    BY <1>6 DEF LoopStep, OpenRecord, SaveVerdict, Settle, BeginStep, SkipStep, RefuseStep,
                ledger
  <1>7. CASE DeleteStep
    BY <1>7 DEF DeleteStep, DeleteBranch, DropKeys, DeleteComplete, ForgetRecord,
                DeleteStops, Reconcile, ledger
  <1>8. CASE Interrupt \/ Trouble
    BY <1>8 DEF Interrupt, Trouble, CallFails, RequestCancel, Crash, DeleteCallFails, ledger
  <1> QED
    BY <1>1, <1>2, <1>3, <1>4, <1>5, <1>6, <1>7, <1>8 DEF Next, CommandStep

(* When a delete reports success, nothing of the environment is left at    *)
(* the provider or in the credential store, and no job is unreconciled.    *)
THEOREM DeletionIsComplete == Spec => DeletedMeansGone
  <1>1. ASSUME IInv, Deleted
        PROVE  /\ canonical' = {} /\ staging' = {} /\ stagingKeys' = {}
               /\ \A s \in Services : key'[s] = "none"
               /\ Unreconciled' = {}
    <2>1. pc = "deleted" /\ UNCHANGED <<kind, status, steps, state, keys, provider>>
      BY <1>1 DEF Deleted
    <2>2. Nothing /\ \A j \in Jobs : status[j] = "none"
      BY <1>1, <2>1 DEF IInv, DeleteInv, DeleteLabels
    <2>3. Unreconciled' = {}
      BY <2>1, <2>2 DEF Unreconciled, Nonterminal, Residual
    <2> QED
      BY <2>1, <2>2, <2>3 DEF Nothing, Remnants, keys, provider
  <1>2. IInv /\ [Next]_vars =>
          [deletion' = "done" /\ deletion # "done" =>
             /\ canonical' = {} /\ staging' = {} /\ stagingKeys' = {}
             /\ \A s \in Services : key'[s] = "none"
             /\ Unreconciled' = {}]_vars
    BY <1>1, OnlyDeletedReports
  <1> QED
    BY <1>2, LifecycleInvariance, PTL DEF Spec, DeletedMeansGone
=============================================================================
