--------------------- MODULE ConfiguredEnvironmentProofs ---------------------
(***************************************************************************)
(* Proofs about ConfiguredEnvironment: whatever is edited between and      *)
(* during commands, containers reach the databases their document names,   *)
(* and no branch or credential is forgotten.                               *)
(***************************************************************************)
EXTENDS ConfiguredEnvironment, TLAPS

(* What the theorems assume of the constants: documents name services and   *)
(* databases that there are, and Compose has every service that another    *)
(* one depends on.                                                         *)
WellFormed ==
  /\ NoDatabase \notin Databases
  /\ \A d \in Documents :
       DOMAIN d \subseteq Names /\ \A s \in DOMAIN d : d[s].database \in Databases
  /\ \A c \in DOMAIN Dependencies : Dependencies[c] \subseteq DOMAIN Dependencies

-----------------------------------------------------------------------------
(* The inductive invariant.                                                *)

(* A checkpoint names its database; what is complete is bound; without a    *)
(* job there are no checkpoints.                                           *)
LedgerInv ==
  /\ \A s \in Names : (steps[s].phase = "none") <=> (steps[s].database = NoDatabase)
  /\ \A s \in Names : steps[s].phase = "complete" => bindings[s] = steps[s].database
  /\ status = "none" => Scope = {}

(* Binding, checkpoint and stored URLs of a service do not disagree. *)
IdentityInv ==
  \A s \in Names :
    /\ bindings[s] = NoDatabase \/ steps[s].database = NoDatabase
         \/ bindings[s] = steps[s].database
    /\ keys[s] = NoDatabase \/ keys[s] = bindings[s] \/ keys[s] = steps[s].database

(* A branch has a binding or a checkpoint. *)
BranchInv == \A d \in branches : \E s \in Names : bindings[s] = d \/ steps[s].database = d

(* Where a create or a pull is under way. *)
Provisioning == {"open", "next", "store", "bind", "mark", "settle"}

(* A create or pull works on what its checkpoints say; what it has bound,   *)
(* and at the end everything if nothing has failed, is bound to that.      *)
CommandInv ==
  pc \in Provisioning =>
    /\ status = "running" /\ loaded \in Documents /\ Scope \subseteq DOMAIN loaded
    /\ \A s \in Scope : steps[s].database = loaded[s].database
    /\ todo \subseteq Scope /\ cur \subseteq Scope
    /\ pc = "mark" => \A s \in cur : bindings[s] = steps[s].database
    /\ pc = "settle" /\ ~failed => \A s \in Scope : bindings[s] = steps[s].database

(* What a delete has ticked off is gone, but for the key it removes next;   *)
(* when it has reconciled the jobs nothing is left.                        *)
DeleteInv ==
  /\ pc \in {"idle", "delete"} => cur = {}
  /\ pc \in {"delete", "drop_key"} =>
       \A t \in Targets \ targets :
         t[2] \notin branches /\ (keys[t[1]] = NoDatabase \/ t[1] \in cur)
  /\ pc = "forget" =>
       status = "none" /\ branches = {} /\ \A s \in Names : keys[s] = NoDatabase

(* What the commands rely on, with the configuration in force a valid one. *)
IInv ==
  /\ TypeOK /\ Valid(config)
  /\ LedgerInv /\ IdentityInv /\ BranchInv /\ CommandInv /\ DeleteInv

(* A run on a ready environment starts it at once. *)
Starts ==
  /\ pc = "idle" /\ pc' = "start" /\ starting' = TRUE
  /\ UNCHANGED <<config, record, bindings, job, provider, keys, loaded, todo, cur, failed, targets,
                 keep>>

(* A command that begins with a job of its own: what it selects is bound to  *)
(* the database that its document names, or to none.                       *)
LEMMA NewJobKeeps ==
  ASSUME WellFormed, IInv, NEW k \in {"create", "pull"}, NEW d \in Documents,
         NEW scope \in SUBSET Names, scope \subseteq DOMAIN d,
         pc = "idle", starting' \in BOOLEAN, NewJob(k, d, scope), Begins(d),
         \A s \in scope : bindings[s] = d[s].database \/ bindings[s] = NoDatabase
  PROVE  IInv'
  <1> USE DEF job, provider, command
  <1>1. TypeOK'
    BY DEF IInv, TypeOK, WellFormed, Phases, NoSteps, NewJob, Begins
  <1>2. Valid(config)'
    BY DEF IInv, Begins
  <1>3. /\ \A s \in scope : steps'[s].database = d[s].database /\ steps'[s].phase = "planned"
        /\ \A s \in Names \ scope : steps'[s].database = NoDatabase /\ steps'[s].phase = "none"
        /\ \A s \in Names : steps[s].database = NoDatabase
        /\ Scope' = scope
    BY DEF IInv, LedgerInv, NoSteps, Scope, NewJob
  <1>4. LedgerInv'
    BY <1>3 DEF WellFormed, LedgerInv, Begins
  <1>5. IdentityInv'
    BY <1>3 DEF IInv, IdentityInv, Begins
  <1>6. BranchInv'
    BY <1>3 DEF IInv, BranchInv, TypeOK, WellFormed, Begins
  <1>7. CommandInv'
    BY <1>3 DEF IInv, CommandInv, DeleteInv, NewJob, Begins
  <1>8. DeleteInv'
    BY DEF DeleteInv, Begins
  <1> QED
    BY <1>1, <1>2, <1>4, <1>5, <1>6, <1>7, <1>8 DEF IInv

(* A command that takes up the job that is there: its checkpoints name the  *)
(* databases of the document.                                              *)
LEMMA OldJobKeeps ==
  ASSUME WellFormed, IInv, NEW k, NEW d \in Documents, NEW scope \in SUBSET Names,
         scope \subseteq DOMAIN d, NEW remaining \in SUBSET scope,
         pc = "idle", starting' \in BOOLEAN, OldJob(k, scope, remaining), Begins(d),
         \A s \in scope : steps[s].database = d[s].database
  PROVE  IInv'
  <1> USE DEF job, provider, command
  <1>1. TypeOK'
    BY DEF IInv, TypeOK, OldJob, Begins
  <1>2. Valid(config)'
    BY DEF IInv, Begins
  <1>3. Scope' = scope /\ Scope = scope /\ steps' = steps
    BY DEF Scope, OldJob, Resumable
  <1>4. LedgerInv'
    BY <1>3 DEF IInv, LedgerInv, Begins
  <1>5. IdentityInv'
    BY <1>3 DEF IInv, IdentityInv, Begins
  <1>6. BranchInv'
    BY <1>3 DEF IInv, BranchInv, Begins
  <1>7. CommandInv'
    BY <1>3 DEF IInv, CommandInv, DeleteInv, OldJob, Begins
  <1>8. DeleteInv'
    BY DEF DeleteInv, Begins
  <1> QED
    BY <1>1, <1>2, <1>4, <1>5, <1>6, <1>7, <1>8 DEF IInv

(* A create, or the one that a run begins with, makes a job or takes up the one *)
(* that is there.                                                               *)
LEMMA TakeKeeps ==
  ASSUME WellFormed, IInv, NEW scope \in SUBSET Names, scope \subseteq DOMAIN config,
         pc = "idle", starting' \in BOOLEAN, Take(config, scope)
  PROVE  IInv'
  <1>1. config \in Documents /\ scope \in SUBSET scope
    BY DEF IInv, TypeOK
  <1>2. CASE NewJob("create", config, scope)
    <2>1. \A s \in scope : bindings[s] = config[s].database \/ bindings[s] = NoDatabase
      BY DEF Take, Agrees
    <2> QED
      BY <1>1, <1>2, <2>1, NewJobKeeps DEF Take
  <1>3. CASE OldJob("create", scope, scope) /\ MayResume(config, scope)
    BY <1>1, <1>3, OldJobKeeps DEF Take, MayResume
  <1> QED
    BY <1>2, <1>3 DEF Take

(* The same of a pull. *)
LEMMA TakePullKeeps ==
  ASSUME WellFormed, IInv, NEW scope \in SUBSET Names, scope \subseteq DOMAIN config,
         pc = "idle", starting' \in BOOLEAN, TakePull(config, scope)
  PROVE  IInv'
  <1>1. /\ config \in Documents
        /\ {s \in scope : steps[s].phase # "complete"} \in SUBSET scope
    BY DEF IInv, TypeOK
  <1>2. CASE NewJob("pull", config, scope) /\ Agrees([s \in scope |-> config[s]], TRUE)
    <2>1. \A s \in scope : bindings[s] = config[s].database \/ bindings[s] = NoDatabase
      BY <1>2 DEF Agrees
    <2> QED
      BY <1>1, <1>2, <2>1, NewJobKeeps DEF TakePull
  <1>3. CASE /\ OldJob("pull", scope, {s \in scope : steps[s].phase # "complete"})
             /\ MayResumePull(config, scope)
    BY <1>1, <1>3, OldJobKeeps DEF TakePull, MayResumePull
  <1> QED
    BY <1>2, <1>3 DEF TakePull

(* An edit needs no more than a document that is valid: what exists keeps the *)
(* database it was made for.                                                  *)
LEMMA UpdateKeeps ==
  ASSUME WellFormed, IInv, NEW d \in Documents, Update(d)
  PROVE  IInv'
  <1> USE DEF job, provider, command
  <1>1. TypeOK'
    BY DEF IInv, TypeOK, Update
  <1>2. Valid(config)'
    BY DEF Update
  <1>3. LedgerInv'
    BY DEF IInv, LedgerInv, Scope, Update
  <1>4. IdentityInv'
    BY DEF IInv, IdentityInv, Update
  <1>5. BranchInv'
    BY DEF IInv, BranchInv, Update
  <1>6. CommandInv'
    BY DEF IInv, CommandInv, Scope, Update
  <1>7. DeleteInv'
    BY DEF IInv, DeleteInv, Targets, Update
  <1> QED
    BY <1>1, <1>2, <1>3, <1>4, <1>5, <1>6, <1>7 DEF IInv

(* A job is canceled with its checkpoints, unless all of them are complete. *)
LEMMA JobCancelKeeps ==
  ASSUME WellFormed, IInv, JobCancel
  PROVE  IInv'
  <1> USE DEF job, provider, command
  <1>1. TypeOK'
    BY DEF IInv, TypeOK, JobCancel, NoSteps, Phases
  <1>2. Valid(config)'
    BY DEF IInv, JobCancel
  <1>3. LedgerInv'
    BY DEF IInv, LedgerInv, Scope, JobCancel, NoSteps
  <1>4. IdentityInv'
    BY DEF IInv, IdentityInv, LedgerInv, Scope, JobCancel, NoSteps
  <1>5. BranchInv'
    BY DEF IInv, BranchInv, LedgerInv, Scope, JobCancel, NoSteps
  <1>6. CommandInv'
    BY DEF CommandInv, Provisioning, JobCancel
  <1>7. DeleteInv'
    BY DEF IInv, DeleteInv, JobCancel
  <1> QED
    BY <1>1, <1>2, <1>3, <1>4, <1>5, <1>6, <1>7 DEF IInv

(* A run that starts at once changes nothing that lasts. *)
LEMMA StartsKeeps ==
  ASSUME WellFormed, IInv, Starts
  PROVE  IInv'
  <1> USE DEF job, provider, command
  <1>1. TypeOK'
    BY DEF IInv, TypeOK, Starts
  <1>2. Valid(config)'
    BY DEF IInv, Starts
  <1>3. LedgerInv'
    BY DEF IInv, LedgerInv, Scope, Starts
  <1>4. IdentityInv'
    BY DEF IInv, IdentityInv, Starts
  <1>5. BranchInv'
    BY DEF IInv, BranchInv, Starts
  <1>6. CommandInv'
    BY DEF CommandInv, Provisioning, Starts
  <1>7. DeleteInv'
    BY DEF DeleteInv, Starts
  <1> QED
    BY <1>1, <1>2, <1>3, <1>4, <1>5, <1>6, <1>7 DEF IInv

(* The record of the environment is opened for the command. *)
LEMMA OpenRecordKeeps ==
  ASSUME WellFormed, IInv, OpenRecord
  PROVE  IInv'
  <1> USE DEF job, provider, command
  <1>1. TypeOK'
    BY DEF IInv, TypeOK, OpenRecord, Goto
  <1>2. Valid(config)'
    BY DEF IInv, OpenRecord
  <1>3. LedgerInv'
    BY DEF IInv, LedgerInv, Scope, OpenRecord
  <1>4. IdentityInv'
    BY DEF IInv, IdentityInv, OpenRecord
  <1>5. BranchInv'
    BY DEF IInv, BranchInv, OpenRecord
  <1>6. CommandInv'
    BY DEF IInv, CommandInv, Provisioning, Scope, OpenRecord, Goto
  <1>7. DeleteInv'
    BY DEF DeleteInv, OpenRecord, Goto
  <1> QED
    BY <1>1, <1>2, <1>3, <1>4, <1>5, <1>6, <1>7 DEF IInv

(* A branch is made under the checkpoint that names its database. *)
LEMMA ProvisionKeeps ==
  ASSUME WellFormed, IInv, NEW s \in Names, Provision(s)
  PROVE  IInv'
  <1> USE DEF job, provider, command
  <1>1. TypeOK'
    BY DEF IInv, TypeOK, Provision, WellFormed, CommandInv, Provisioning
  <1>2. Valid(config)'
    BY DEF IInv, Provision
  <1>3. LedgerInv'
    BY DEF IInv, LedgerInv, Scope, Provision
  <1>4. IdentityInv'
    BY DEF IInv, IdentityInv, Provision
  <1>5. BranchInv'
    BY DEF IInv, BranchInv, CommandInv, Provisioning, Provision
  <1>6. CommandInv'
    BY DEF IInv, CommandInv, Provisioning, Scope, Provision
  <1>7. DeleteInv'
    BY DEF DeleteInv, Provision
  <1> QED
    BY <1>1, <1>2, <1>3, <1>4, <1>5, <1>6, <1>7 DEF IInv

(* A refresh stays on the database of its checkpoint. *)
LEMMA RefreshKeeps ==
  ASSUME WellFormed, IInv, NEW s \in Names, Refresh(s)
  PROVE  IInv'
  <1> USE DEF job, provider, command
  <1>1. TypeOK'
    BY DEF IInv, TypeOK, Refresh, WellFormed, CommandInv, Provisioning
  <1>2. Valid(config)'
    BY DEF IInv, Refresh
  <1>3. LedgerInv'
    BY DEF IInv, LedgerInv, Scope, Refresh
  <1>4. IdentityInv'
    BY DEF IInv, IdentityInv, Refresh
  <1>5. BranchInv'
    BY DEF IInv, BranchInv, CommandInv, Provisioning, Refresh
  <1>6. CommandInv'
    BY DEF IInv, CommandInv, Provisioning, Scope, Refresh
  <1>7. DeleteInv'
    BY DEF DeleteInv, Refresh
  <1> QED
    BY <1>1, <1>2, <1>3, <1>4, <1>5, <1>6, <1>7 DEF IInv

(* The URLs that are stored are those of the checkpoint. *)
LEMMA StoreKeyKeeps ==
  ASSUME WellFormed, IInv, NEW s \in Names, StoreKey(s)
  PROVE  IInv'
  <1> USE DEF job, provider, command
  <1>1. TypeOK'
    BY DEF IInv, TypeOK, StoreKey, Goto
  <1>2. Valid(config)'
    BY DEF IInv, StoreKey
  <1>3. LedgerInv'
    BY DEF IInv, LedgerInv, Scope, StoreKey
  <1>4. IdentityInv'
    BY DEF IInv, IdentityInv, CommandInv, Provisioning, StoreKey
  <1>5. BranchInv'
    BY DEF IInv, BranchInv, StoreKey
  <1>6. CommandInv'
    BY DEF IInv, CommandInv, Provisioning, Scope, StoreKey, Goto
  <1>7. DeleteInv'
    BY DEF DeleteInv, StoreKey, Goto
  <1> QED
    BY <1>1, <1>2, <1>3, <1>4, <1>5, <1>6, <1>7 DEF IInv

(* What is bound agrees with the checkpoint. *)
LEMMA BindKeeps ==
  ASSUME WellFormed, IInv, NEW s \in Names, Bind(s)
  PROVE  IInv'
  <1> USE DEF job, provider, command
  <1>1. TypeOK'
    BY DEF IInv, TypeOK, Bind, Goto, CommandInv, Provisioning
  <1>2. Valid(config)'
    BY DEF IInv, Bind
  <1>3. LedgerInv'
    BY DEF IInv, LedgerInv, CommandInv, Provisioning, Bind
  <1>4. IdentityInv'
    BY DEF IInv, IdentityInv, CommandInv, LedgerInv, Provisioning, Scope, Bind
  <1>5. BranchInv'
    BY DEF IInv, BranchInv, CommandInv, IdentityInv, TypeOK, Provisioning, Bind, WellFormed
  <1>6. CommandInv'
    BY DEF IInv, CommandInv, TypeOK, Provisioning, Scope, Bind, Goto
  <1>7. DeleteInv'
    BY DEF DeleteInv, Bind, Goto
  <1> QED
    BY <1>1, <1>2, <1>3, <1>4, <1>5, <1>6, <1>7 DEF IInv

(* A checkpoint is completed once its service is bound. *)
LEMMA MarkCompleteKeeps ==
  ASSUME WellFormed, IInv, NEW s \in Names, MarkComplete(s)
  PROVE  IInv'
  <1> USE DEF job, provider, command
  <1>1. TypeOK'
    BY DEF IInv, TypeOK, MarkComplete, Phases
  <1>2. Valid(config)'
    BY DEF IInv, MarkComplete
  <1>3. LedgerInv'
    BY DEF IInv, LedgerInv, CommandInv, Scope, Provisioning, MarkComplete
  <1>4. IdentityInv'
    BY DEF IInv, IdentityInv, MarkComplete
  <1>5. BranchInv'
    BY DEF IInv, BranchInv, MarkComplete
  <1>6. CommandInv'
    BY DEF IInv, CommandInv, Provisioning, Scope, MarkComplete
  <1>7. DeleteInv'
    BY DEF DeleteInv, MarkComplete
  <1> QED
    BY <1>1, <1>2, <1>3, <1>4, <1>5, <1>6, <1>7 DEF IInv

(* A step that fails leaves what the checkpoints say. *)
LEMMA StepFailsKeeps ==
  ASSUME WellFormed, IInv, StepFails
  PROVE  IInv'
  <1> USE DEF job, provider, command
  <1>1. TypeOK'
    BY DEF IInv, TypeOK, StepFails
  <1>2. Valid(config)'
    BY DEF IInv, StepFails
  <1>3. LedgerInv'
    BY DEF IInv, LedgerInv, Scope, StepFails
  <1>4. IdentityInv'
    BY DEF IInv, IdentityInv, StepFails
  <1>5. BranchInv'
    BY DEF IInv, BranchInv, StepFails
  <1>6. CommandInv'
    BY DEF IInv, CommandInv, Provisioning, Scope, StepFails
  <1>7. DeleteInv'
    BY DEF DeleteInv, StepFails
  <1> QED
    BY <1>1, <1>2, <1>3, <1>4, <1>5, <1>6, <1>7 DEF IInv

(* The verdict is about what the checkpoints say. *)
LEMMA SaveVerdictKeeps ==
  ASSUME WellFormed, IInv, SaveVerdict
  PROVE  IInv'
  <1> USE DEF job, provider, command
  <1>1. TypeOK'
    BY DEF IInv, TypeOK, SaveVerdict
  <1>2. Valid(config)'
    BY DEF IInv, SaveVerdict
  <1>3. LedgerInv'
    BY DEF IInv, LedgerInv, Scope, SaveVerdict
  <1>4. IdentityInv'
    BY DEF IInv, IdentityInv, SaveVerdict
  <1>5. BranchInv'
    BY DEF IInv, BranchInv, SaveVerdict
  <1>6. CommandInv'
    BY DEF IInv, CommandInv, Provisioning, Scope, SaveVerdict, Agrees
  <1>7. DeleteInv'
    BY DEF DeleteInv, SaveVerdict
  <1> QED
    BY <1>1, <1>2, <1>3, <1>4, <1>5, <1>6, <1>7 DEF IInv

(* A job that settles without a failure has bound all that it selected. *)
LEMMA SettleKeeps ==
  ASSUME WellFormed, IInv, Settle
  PROVE  IInv'
  <1> USE DEF job, provider, command
  <1>1. TypeOK'
    <2>1. status' \in {"none", "degraded"} /\ kind' = kind
      BY DEF Settle
    <2>2. steps' \in [Names -> [database : Databases \cup {NoDatabase}, phase : Phases]]
      BY DEF IInv, TypeOK, Settle, NoSteps, Phases
    <2>3. /\ pc' \in {"idle", "start"} /\ loaded' \in Documents \cup {Unloaded}
          /\ todo' \subseteq Names /\ cur' \subseteq Names /\ failed' \in BOOLEAN
          /\ starting' \in BOOLEAN /\ keep' \in BOOLEAN /\ targets' \subseteq Names \X Databases
      BY DEF IInv, TypeOK, Settle, Goto, ProcessEnds
    <2> QED
      BY <2>2, <2>3 DEF IInv, TypeOK, Settle
  <1>2. Valid(config)'
    BY DEF IInv, Settle
  <1>3. LedgerInv'
    BY DEF IInv, LedgerInv, Scope, Settle, NoSteps
  <1>4. IdentityInv'
    BY DEF IInv, IdentityInv, CommandInv, LedgerInv, Provisioning, Scope, Settle, NoSteps
  <1>5. BranchInv'
    BY DEF IInv, BranchInv, CommandInv, LedgerInv, Provisioning, Scope, Settle, NoSteps
  <1>6. CommandInv'
    BY DEF CommandInv, Provisioning, Settle, Goto, ProcessEnds
  <1>7. DeleteInv'
    BY DEF DeleteInv, Settle, Goto, ProcessEnds
  <1> QED
    BY <1>1, <1>2, <1>3, <1>4, <1>5, <1>6, <1>7 DEF IInv

(* The services are started, or not, and nothing else changes. *)
LEMMA StartKeeps ==
  ASSUME WellFormed, IInv, Start
  PROVE  IInv'
  <1> USE DEF job, provider, command
  <1>1. TypeOK'
    BY DEF IInv, TypeOK, Start, ProcessEnds
  <1>2. Valid(config)'
    BY DEF IInv, Start
  <1>3. LedgerInv'
    BY DEF IInv, LedgerInv, Scope, Start
  <1>4. IdentityInv'
    BY DEF IInv, IdentityInv, Start
  <1>5. BranchInv'
    BY DEF IInv, BranchInv, Start
  <1>6. CommandInv'
    BY DEF CommandInv, Provisioning, Start, ProcessEnds
  <1>7. DeleteInv'
    BY DEF DeleteInv, Start, ProcessEnds
  <1> QED
    BY <1>1, <1>2, <1>3, <1>4, <1>5, <1>6, <1>7 DEF IInv

(* A delete begins with all there is among its targets. *)
LEMMA DeleteKeeps ==
  ASSUME WellFormed, IInv, NEW k \in BOOLEAN, Delete(k)
  PROVE  IInv'
  <1> USE DEF job, provider, command
  <1>1. TypeOK'
    BY DEF IInv, TypeOK, Delete, Targets
  <1>2. Valid(config)'
    BY DEF IInv, Delete
  <1>3. LedgerInv'
    BY DEF IInv, LedgerInv, Scope, Delete
  <1>4. IdentityInv'
    BY DEF IInv, IdentityInv, Delete
  <1>5. BranchInv'
    BY DEF IInv, BranchInv, Delete
  <1>6. CommandInv'
    BY DEF CommandInv, Provisioning, Delete
  <1>7. DeleteInv'
    BY DEF IInv, DeleteInv, Targets, Delete
  <1> QED
    BY <1>1, <1>2, <1>3, <1>4, <1>5, <1>6, <1>7 DEF IInv

(* A branch that was deleted, or not, stays with its target. *)
LEMMA DeleteBranchKeeps ==
  ASSUME WellFormed, IInv, NEW t \in targets, DeleteBranch(t)
  PROVE  IInv'
  <1> USE DEF job, provider, command
  <1>1. TypeOK'
    BY DEF IInv, TypeOK, DeleteBranch
  <1>2. Valid(config)'
    BY DEF IInv, DeleteBranch
  <1>3. LedgerInv'
    BY DEF IInv, LedgerInv, Scope, DeleteBranch
  <1>4. IdentityInv'
    BY DEF IInv, IdentityInv, DeleteBranch
  <1>5. BranchInv'
    BY DEF IInv, BranchInv, DeleteBranch
  <1>6. CommandInv'
    BY DEF CommandInv, Provisioning, DeleteBranch
  <1>7. DeleteInv'
    BY DEF IInv, DeleteInv, Targets, DeleteBranch
  <1> QED
    BY <1>1, <1>2, <1>3, <1>4, <1>5, <1>6, <1>7 DEF IInv

(* A target is ticked off once its URLs are gone. *)
LEMMA DropKeyKeeps ==
  ASSUME WellFormed, IInv, NEW s \in Names, DropKey(s)
  PROVE  IInv'
  <1> USE DEF job, provider, command
  <1>1. TypeOK'
    BY DEF IInv, TypeOK, DropKey
  <1>2. Valid(config)'
    BY DEF IInv, DropKey
  <1>3. LedgerInv'
    BY DEF IInv, LedgerInv, Scope, DropKey
  <1>4. IdentityInv'
    BY DEF IInv, IdentityInv, DropKey
  <1>5. BranchInv'
    BY DEF IInv, BranchInv, DropKey
  <1>6. CommandInv'
    BY DEF CommandInv, Provisioning, DropKey
  <1>7. DeleteInv'
    BY DEF IInv, DeleteInv, TypeOK, Targets, DropKey
  <1> QED
    BY <1>1, <1>2, <1>3, <1>4, <1>5, <1>6, <1>7 DEF IInv

(* When all targets of a delete are ticked off, nothing is left. *)
LEMMA NothingLeft ==
  ASSUME WellFormed, IInv, pc = "delete", targets = {}
  PROVE  branches = {} /\ \A s \in Names : keys[s] = NoDatabase
  <1>1. \A s \in Names, d \in Databases :
          bindings[s] = d \/ steps[s].database = d => d \notin branches /\ keys[s] = NoDatabase
    <2> SUFFICES ASSUME NEW s \in Names, NEW d \in Databases,
                        bindings[s] = d \/ steps[s].database = d
                 PROVE  d \notin branches /\ keys[s] = NoDatabase
      OBVIOUS
    <2>1. <<s, d>> \in Targets
      BY DEF Targets
    <2>2. <<s, d>>[1] = s /\ <<s, d>>[2] = d
      OBVIOUS
    <2> QED
      BY <2>1 DEF IInv, DeleteInv
  <1>2. branches = {}
    BY <1>1 DEF IInv, TypeOK, BranchInv
  <1>3. \A s \in Names : keys[s] = NoDatabase
    BY <1>1 DEF IInv, TypeOK, IdentityInv
  <1> QED
    BY <1>2, <1>3

(* When the jobs are reconciled nothing is left that they account for. *)
LEMMA ReconcileKeeps ==
  ASSUME WellFormed, IInv, Reconcile
  PROVE  IInv'
  <1> USE DEF job, provider, command
  <1>1. TypeOK'
    BY DEF IInv, TypeOK, Reconcile, Goto, NoSteps, Phases
  <1>2. Valid(config)'
    BY DEF IInv, Reconcile
  <1>3. LedgerInv'
    BY DEF LedgerInv, Scope, Reconcile, NoSteps
  <1>4. IdentityInv'
    <2>1. bindings' = bindings /\ keys' = keys /\ \A s \in Names : steps'[s].database = NoDatabase
      BY DEF Reconcile, NoSteps
    <2> QED
      BY <2>1, NothingLeft DEF Reconcile, IdentityInv
  <1>5. BranchInv'
    BY NothingLeft DEF Reconcile, BranchInv
  <1>6. CommandInv'
    BY DEF CommandInv, Provisioning, Reconcile, Goto
  <1>7. DeleteInv'
    BY NothingLeft DEF Reconcile, Goto, DeleteInv
  <1> QED
    BY <1>1, <1>2, <1>3, <1>4, <1>5, <1>6, <1>7 DEF IInv

(* The record and its bindings go when nothing is left. *)
LEMMA ForgetKeeps ==
  ASSUME WellFormed, IInv, Forget
  PROVE  IInv'
  <1> USE DEF job, provider, command
  <1>1. TypeOK'
    <2>1. CASE keep
      BY DEF IInv, TypeOK, Forget, ProcessEnds
    <2>2. CASE ~keep
      BY DEF IInv, TypeOK, Forget, ProcessEnds
    <2> QED
      BY <2>1, <2>2
  <1>2. Valid(config)'
    BY DEF IInv, Forget
  <1>3. LedgerInv'
    BY DEF IInv, LedgerInv, Scope, DeleteInv, Forget
  <1>4. IdentityInv'
    BY DEF IInv, IdentityInv, DeleteInv, Forget
  <1>5. BranchInv'
    BY DEF IInv, BranchInv, DeleteInv, Forget
  <1>6. CommandInv'
    BY DEF CommandInv, Provisioning, Forget, ProcessEnds
  <1>7. DeleteInv'
    BY DEF DeleteInv, Forget, ProcessEnds
  <1> QED
    BY <1>1, <1>2, <1>3, <1>4, <1>5, <1>6, <1>7 DEF IInv

(* A process that stops leaves what any command may find. *)
LEMMA CrashKeeps ==
  ASSUME WellFormed, IInv, Crash
  PROVE  IInv'
  <1> USE DEF job, provider, command
  <1>1. TypeOK'
    BY DEF IInv, TypeOK, Crash, ProcessEnds
  <1>2. Valid(config)'
    BY DEF IInv, Crash
  <1>3. LedgerInv'
    BY DEF IInv, LedgerInv, Scope, Crash
  <1>4. IdentityInv'
    BY DEF IInv, IdentityInv, Crash
  <1>5. BranchInv'
    BY DEF IInv, BranchInv, Crash
  <1>6. CommandInv'
    BY DEF CommandInv, Provisioning, Crash, ProcessEnds
  <1>7. DeleteInv'
    BY DEF DeleteInv, Crash, ProcessEnds
  <1> QED
    BY <1>1, <1>2, <1>3, <1>4, <1>5, <1>6, <1>7 DEF IInv

(* Every action keeps the invariant. *)
LEMMA StepKeeps ==
  ASSUME WellFormed, IInv, Next
  PROVE  IInv'
  <1>1. DOMAIN config \in SUBSET Names /\ starting \in BOOLEAN
    BY DEF IInv, TypeOK, WellFormed
  <1>2. CASE Create
    BY <1>1, <1>2, TakeKeeps DEF Create
  <1>3. ASSUME NEW scope \in SUBSET Names, Pull(scope)
        PROVE  IInv'
    BY <1>1, <1>3, TakePullKeeps DEF Pull, Selected
  <1>4. CASE JobResume
    <2>1. Scope \in SUBSET Names
      BY DEF Scope
    <2> QED
      BY <1>1, <1>4, TakeKeeps, TakePullKeeps DEF JobResume, Selected
  <1>5. CASE Run
    <2>1. CASE record = "ready"
      BY <1>5, <2>1, StartsKeeps DEF Run, Starts
    <2>2. CASE record # "ready"
      BY <1>1, <1>5, <2>2, TakeKeeps DEF Run
    <2> QED
      BY <2>1, <2>2
  <1> QED
    BY <1>2, <1>3, <1>4, <1>5, UpdateKeeps, JobCancelKeeps, OpenRecordKeeps, ProvisionKeeps,
       RefreshKeeps, StoreKeyKeeps, BindKeeps, MarkCompleteKeeps, StepFailsKeeps,
       SaveVerdictKeeps, SettleKeeps, StartKeeps, DeleteKeeps, DeleteBranchKeeps,
       DropKeyKeeps, ReconcileKeeps, ForgetKeeps, CrashKeeps
       DEF Next

(* It holds before the first command. *)
LEMMA InitEstablishes ==
  ASSUME WellFormed, Init
  PROVE  IInv
  <1>1. TypeOK
    BY DEF Init, TypeOK, NoSteps, Phases
  <1>2. LedgerInv /\ IdentityInv /\ BranchInv
    BY DEF Init, NoSteps, LedgerInv, IdentityInv, BranchInv, Scope
  <1>3. CommandInv /\ DeleteInv
    BY DEF Init, CommandInv, DeleteInv, Provisioning
  <1> QED
    BY <1>1, <1>2, <1>3 DEF Init, IInv

(* Nothing but a step changes what the invariant is about. *)
LEMMA StutterKeeps ==
  ASSUME IInv, UNCHANGED vars
  PROVE  IInv'
  BY DEF vars, job, provider, command, IInv, TypeOK, LedgerInv, IdentityInv, BranchInv,
         CommandInv, DeleteInv, Scope, Targets

(* environment.rs, app.rs: the invariant that the other theorems rest on holds *)
(* whatever is edited, between the commands and during a run.                  *)
THEOREM ConfiguredInvariance ==
  ASSUME WellFormed
  PROVE  Spec => []IInv
  <1>1. Init => IInv
    BY InitEstablishes
  <1>2. IInv /\ [Next]_vars => IInv'
    BY StepKeeps, StutterKeeps
  <1> QED
    BY <1>1, <1>2, PTL DEF Spec

-----------------------------------------------------------------------------
(* The properties.                                                         *)

(* A valid document assigns a variable once, so that it has the URL of the  *)
(* service that names it.                                                  *)
LEMMA VariablesReach ==
  ASSUME NEW d, Valid(d), NEW s \in DOMAIN d
  PROVE  /\ {d[s].pooled, d[s].direct} \subseteq DOMAIN EnvironmentVariables(d)
         /\ EnvironmentVariables(d)[d[s].pooled] = <<keys[s], "pooled">>
         /\ EnvironmentVariables(d)[d[s].direct] = <<keys[s], "direct">>
  <1> DEFINE last(v) == CHOOSE t \in DOMAIN d : v \in {d[t].pooled, d[t].direct}
  <1>1. ASSUME NEW v \in {d[s].pooled, d[s].direct}
        PROVE  last(v) = s
    <2>1. last(v) \in DOMAIN d /\ v \in {d[last(v)].pooled, d[last(v)].direct}
      OBVIOUS
    <2>2. \A t \in DOMAIN d : v \in {d[t].pooled, d[t].direct} => t = s
      BY DEF Valid
    <2> QED
      OBVIOUS
  <1>2. d[s].pooled # d[s].direct
    BY DEF Valid
  <1> QED
    BY <1>1, <1>2 DEF EnvironmentVariables

(* What the containers get is the database that the document in force names: *)
(* the comparison before the start makes it the one of the stored URLs.      *)
LEMMA UrlsReach ==
  ASSUME WellFormed, IInv
  PROVE  UrlsReachTheirDatabase
  <1> SUFFICES ASSUME pc = "start", MayStart, NEW c \in DOMAIN Transformed(config)
               PROVE  /\ Transformed(config)[c].dependencies \subseteq DOMAIN Transformed(config)
                      /\ \A s \in DOMAIN config :
                           /\ Transformed(config)[c].variables[config[s].pooled]
                                = <<config[s].database, "pooled">>
                           /\ Transformed(config)[c].variables[config[s].direct]
                                = <<config[s].database, "direct">>
    BY DEF UrlsReachTheirDatabase
  <1>1. /\ DOMAIN Transformed(config) = DOMAIN Dependencies \ Mapped(config)
        /\ Transformed(config)[c].dependencies = Dependencies[c] \ Mapped(config)
        /\ Transformed(config)[c].variables
             = Inserted(OwnVariables[c], EnvironmentVariables(config))
    BY DEF Transformed, Remaining
  <1>2. Transformed(config)[c].dependencies \subseteq DOMAIN Transformed(config)
    BY <1>1 DEF WellFormed
  <1>3. ASSUME NEW s \in DOMAIN config
        PROVE  keys[s] = config[s].database
    <2>1. s \in Names /\ config[s].database \in Databases
      BY DEF IInv, TypeOK, WellFormed
    <2>2. bindings[s] = config[s].database /\ keys[s] # NoDatabase
      BY DEF MayStart, Agrees
    <2> QED
      BY <2>1, <2>2 DEF IInv, IdentityInv, WellFormed
  <1>4. ASSUME NEW s \in DOMAIN config
        PROVE  /\ Transformed(config)[c].variables[config[s].pooled]
                    = <<config[s].database, "pooled">>
               /\ Transformed(config)[c].variables[config[s].direct]
                    = <<config[s].database, "direct">>
    BY <1>1, <1>3, VariablesReach DEF IInv, Inserted
  <1> QED
    BY <1>2, <1>4

(* What exists has a binding or a checkpoint, and so is a target of a delete. *)
LEMMA NothingForgotten ==
  ASSUME WellFormed, IInv
  PROVE  NothingIsForgotten
  <1>1. ASSUME NEW d \in branches
        PROVE  \E s \in Names : <<s, d>> \in Targets
    BY DEF IInv, TypeOK, BranchInv, Targets
  <1>2. ASSUME NEW s \in Names, keys[s] # NoDatabase
        PROVE  \E d \in Databases : <<s, d>> \in Targets
    BY <1>2 DEF IInv, TypeOK, IdentityInv, Targets
  <1> QED
    BY <1>1, <1>2 DEF NothingIsForgotten

(* ConfiguredEnvironment: each variable keeps its type. *)
THEOREM ConfiguredTypeCorrect ==
  ASSUME WellFormed
  PROVE  Spec => []TypeOK
  <1>1. IInv => TypeOK
    BY DEF IInv
  <1> QED
    BY <1>1, ConfiguredInvariance, PTL

(* config.rs, environment.rs, driver.rs: whatever is edited, a container has *)
(* under every variable of the document the URL of the database named there, *)
(* and a delete finds every branch and credential that was made before.      *)
THEOREM EditsAlwaysSafe ==
  ASSUME WellFormed
  PROVE  Spec => []EditsAreSafe
  <1>1. IInv => EditsAreSafe
    BY UrlsReach, NothingForgotten DEF EditsAreSafe
  <1> QED
    BY <1>1, ConfiguredInvariance, PTL
=============================================================================
