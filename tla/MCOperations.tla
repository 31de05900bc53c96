---------------------------- MODULE MCOperations ----------------------------
(***************************************************************************)
(* Three long operations in one run, of which an execution does one, chosen *)
(* at the start: a refresh of two services, so that it can succeed for one *)
(* and fail for the other; an import, whose second attempt meets whatever  *)
(* the first has left; and the commands on an environment of one service,  *)
(* for a property of liveness, under which symmetry would not be sound.    *)
(***************************************************************************)
EXTENDS PullSwap

CONSTANTS
  MaxAttempts,  \* ImportCopy
  Jobs, NoJob   \* EnvironmentLifecycle

VARIABLES
  part,
  i_base, i_backup, i_captured, i_role, i_source, i_container, i_dump,
  i_restore, i_transfer, i_pc, i_wasRunning, i_error, i_signalled,
  i_reported, i_before, i_attempts,
  e_kind, e_status, e_steps, e_deletion, e_record, e_bound, e_key,
  e_stagingKeys, e_canonical, e_role, e_staging, e_pc, e_job, e_todo,
  e_cur, e_failed, e_cancelled, e_targets, e_branch, e_cleanup, e_keep

import == <<
  i_base, i_backup, i_captured, i_role, i_source, i_container, i_dump,
  i_restore, i_transfer, i_pc, i_wasRunning, i_error, i_signalled,
  i_reported, i_before, i_attempts>>
lifecycle == <<
  e_kind, e_status, e_steps, e_deletion, e_record, e_bound, e_key,
  e_stagingKeys, e_canonical, e_role, e_staging, e_pc, e_job, e_todo,
  e_cur, e_failed, e_cancelled, e_targets, e_branch, e_cleanup, e_keep>>

Import == INSTANCE ImportCopy WITH
  base <- i_base, backup <- i_backup, captured <- i_captured,
  role <- i_role, source <- i_source, container <- i_container,
  dump <- i_dump, restore <- i_restore, transfer <- i_transfer, pc <- i_pc,
  wasRunning <- i_wasRunning, error <- i_error, signalled <- i_signalled,
  reported <- i_reported, before <- i_before, attempts <- i_attempts
Lifecycle == INSTANCE EnvironmentLifecycle WITH
  Services <- {CHOOSE s \in Services : TRUE},
  kind <- e_kind, status <- e_status, steps <- e_steps,
  deletion <- e_deletion, record <- e_record, bound <- e_bound,
  key <- e_key, stagingKeys <- e_stagingKeys, canonical <- e_canonical,
  role <- e_role, staging <- e_staging, pc <- e_pc, job <- e_job,
  todo <- e_todo, cur <- e_cur, failed <- e_failed,
  cancelled <- e_cancelled, targets <- e_targets, branch <- e_branch,
  cleanup <- e_cleanup, keep <- e_keep

-----------------------------------------------------------------------------
OperationsInit ==
  /\ part \in {"refresh", "import", "lifecycle"}
  /\ Init /\ Import!Init /\ Lifecycle!Init
  /\ part # "import" => i_source = "stopped"

OperationsNext ==
  \/ part = "refresh" /\ Next /\ UNCHANGED <<part, import, lifecycle>>
  \/ part = "import" /\ Import!Next /\ UNCHANGED <<part, vars, lifecycle>>
  \/ part = "lifecycle" /\ Lifecycle!Next /\ UNCHANGED <<part, vars, import>>

all == <<part, vars, import, lifecycle>>

(* The refresh never comes to a stop; of the others see their modules. *)
Rests == part # "refresh" /\ UNCHANGED all

(* The fairness of each, as its own module states it. *)
OperationsSpec ==
  /\ OperationsInit /\ [][OperationsNext \/ Rests]_all
  /\ WF_vars(part = "refresh" /\ CommandStep) /\ WF_vars(part = "refresh" /\ ServiceStep)
  /\ WF_vars(part = "refresh" /\ ProviderStep) /\ WF_vars(part = "refresh" /\ Resume)
  /\ WF_import(part = "import" /\ Import!Step)
  /\ WF_import(part = "import" /\ i_dump # "running" /\ Import!TransferEnds)
  /\ WF_import(part = "import" /\ i_pc = "stream" /\ Import!DumpExits)
  /\ WF_import(part = "import" /\ i_pc = "join" /\ Import!RestoreExits)
  /\ WF_lifecycle(part = "lifecycle" /\ Lifecycle!CommandStep)
  /\ WF_lifecycle(part = "lifecycle" /\ \E j \in Jobs : Lifecycle!Resume(j))

-----------------------------------------------------------------------------
(* The types of the import. *)
ImportTypeOK == Import!TypeOK

(* environment.rs: a backup that marks an import as done was taken after all *)
(* of it had succeeded.                                                    *)
BackupHoldsTheImport == Import!BackupHoldsTheImport

(* environment.rs: what an import leaves behind, its outcome names. *)
ResidualsAreNamed == Import!ResidualsAreNamed

(* environment.rs: no child of an import outlives its streaming. *)
ChildrenAreReaped == Import!ChildrenAreReaped

(* environment.rs: the side of a copy that is blamed failed by itself. *)
CulpritIsNamed == Import!CulpritIsNamed

(* environment.rs: every attempt of an import ends. *)
ImportEnds == Import!ImportEnds

(* environment.rs: a create that may be resumed comes to its end. *)
CreateCompletes == Lifecycle!CreateCompletes
=============================================================================
