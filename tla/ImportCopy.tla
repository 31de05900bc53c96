----------------------------- MODULE ImportCopy -----------------------------
(***************************************************************************)
(* import_local_service of environment.rs: the database of a local Compose *)
(* service is streamed, pg_dump into psql, into the base branch of a       *)
(* PlanetScale database, under a temporary role, and captured in a backup  *)
(* whose name tells later attempts that the import is done.  The dump, the *)
(* restore, the copy between them and a termination signal race; each call *)
(* may fail; the process may be killed, or give up cleaning 30 s after the *)
(* signal; then `env create` runs the import again.  One process at a time *)
(* and one service; what env create does of the result is here too, as far *)
(* as the code it exits with.                                              *)
(***************************************************************************)
EXTENDS Naturals

CONSTANT MaxAttempts   \* bound: runs of env create

VARIABLES
  base,       \* the content of the base branch; "unread": psql ended well, not at the dump's end
  backup,     \* the newest backup that bears the import's name
  captured,   \* the content of the base branch when it was requested
  role,       \* the temporary role: of this attempt ("ours") or left by another
  source,     \* the Compose service that is copied
  container,  \* the container in which this attempt's psql runs
  dump, restore, transfer,   \* the two children and the copy between them
  pc, wasRunning, error,     \* of the attempt: position, source before it, outcome
  signalled,  \* a termination signal has arrived
  reported,   \* the code that the process exited with
  before,     \* history: source when the attempt began
  attempts

remote == <<base, backup, captured, role>>
children == <<container, dump, restore, transfer>>
attempt == <<wasRunning, error, before, attempts>>
vars == <<remote, source, children, pc, attempt, signalled, reported>>

Labels == {"idle", "database", "backups", "old_role", "create_role", "probe", "up", "ready",
           "extensions", "spawn", "stream", "join", "failed_stream", "grace", "stop_source",
           "drop_role", "backup", "await", "done", "provision", "report"}
Cleanups == {"operation_cleanup_failed", "operation_interrupted_cleanup_incomplete"}
Errors == Cleanups \cup
  {"ok", "operation_interrupted", "request_failed", "planetscale_backup_failed", "io",
   "local_postgres_status_failed", "local_postgres_start_failed", "readiness_timeout",
   "extension_replay_failed", "database_stream_interrupted", "planetscale_import_failed",
   "local_postgres_dump_failed", "transfer", "environment_provision_degraded"}

Contents == {"untouched", "partial", "unread", "whole"}

TypeOK ==
  /\ base \in Contents /\ captured \in Contents
  /\ backup \in {"none", "pending", "success", "failed"}
  /\ role \in {"none", "left", "ours"}
  /\ source \in {"running", "stopped"} /\ before \in {"running", "stopped"}
  /\ container \in BOOLEAN /\ wasRunning \in BOOLEAN /\ signalled \in BOOLEAN
  /\ dump \in {"none", "running", "ok", "failed", "cut", "gone"}
  /\ (dump = "none") = (restore = "none")
  /\ restore \in {"none", "running", "ok", "failed", "cut", "gone"}
  /\ transfer \in {"none", "copying", "ok", "broken", "error"}
  /\ pc \in Labels /\ error \in Errors
  /\ reported \in Errors \cup {"none", "killed"}
  /\ attempts \in Nat

Init ==
  /\ base = "untouched" /\ backup = "none" /\ captured = "untouched" /\ role = "none"
  /\ source \in {"running", "stopped"} /\ before = source
  /\ container = FALSE /\ dump = "none" /\ restore = "none" /\ transfer = "none"
  /\ pc = "idle" /\ wasRunning = FALSE /\ error = "ok"
  /\ signalled = FALSE /\ reported = "none" /\ attempts = 0

-----------------------------------------------------------------------------
(* Control.                                                                *)

Interruptions == {"operation_interrupted", "operation_interrupted_cleanup_incomplete"}

(* Mistake: an error wins over the failure of the cleanup that follows it.  *)
FinishedWithFirstError(code, cleaned) ==
  IF cleaned \/ code # "ok" THEN code ELSE "operation_cleanup_failed"

(* finish_with_cleanup. *)
Finished(code, cleaned) ==
  IF cleaned THEN code
  ELSE IF code \in Interruptions THEN "operation_interrupted_cleanup_incomplete"
  ELSE "operation_cleanup_failed"

(* Where an error in the middle of the import is handled next. *)
Unwound(label) ==
  CASE label \in {"ready", "extensions", "spawn", "stream", "join", "failed_stream", "grace"}
         -> IF wasRunning THEN "drop_role" ELSE "stop_source"
    [] label \in {"probe", "up"} -> "drop_role"
    [] OTHER -> "report"

Goto(label) == pc' = label /\ UNCHANGED <<attempt, signalled, reported>>
Fails(code) ==
  /\ pc' = Unwound(pc) /\ error' = code
  /\ UNCHANGED <<wasRunning, before, attempts, signalled, reported>>

(* OperationCancellation::check, in front of these steps and no others. *)
Checked == {"database", "backups", "old_role", "create_role", "probe", "up", "ready",
            "backup", "await", "done"}
At(label) == pc = label /\ (label \in Checked => ~signalled)

Interrupted ==
  /\ pc \in Checked /\ signalled
  /\ Fails("operation_interrupted")
  /\ UNCHANGED <<remote, source, children>>

Begin ==
  /\ pc = "idle" /\ attempts < MaxAttempts
  /\ pc' = "database" /\ attempts' = attempts + 1
  /\ error' = "ok" /\ reported' = "none" /\ signalled' = FALSE /\ wasRunning' = FALSE
  /\ before' = source
  /\ role' = IF role = "ours" THEN "left" ELSE role
  /\ container' = FALSE /\ dump' = "none" /\ restore' = "none" /\ transfer' = "none"
  /\ UNCHANGED <<base, backup, captured, source>>

Signal ==
  /\ pc \notin {"idle"} /\ ~signalled
  /\ signalled' = TRUE
  /\ UNCHANGED <<remote, source, children, pc, attempt, reported>>

-----------------------------------------------------------------------------
(* The provider.                                                           *)

(* Any request may fail having done nothing. *)
RequestFails ==
  /\ pc \in {"database", "backups", "old_role", "create_role", "backup", "await"} /\ At(pc)
  /\ Fails("request_failed")
  /\ UNCHANGED <<remote, source, children>>

EnsureDatabase ==
  /\ At("database")
  /\ Goto("backups") /\ UNCHANGED <<remote, source, children>>

ReuseBackup ==
  /\ At("backups")
  /\ Goto(CASE backup = "success" -> "done"
            [] backup = "pending" -> "await"
            [] OTHER -> "old_role")
  /\ UNCHANGED <<remote, source, children>>

(* Found by name; its deletion counts also if only its answer is lost. *)
DeleteOldRole ==
  /\ At("old_role")
  /\ role' = "none"
  /\ Goto("create_role") /\ UNCHANGED <<base, backup, captured, source, children>>

CreateRole ==
  /\ At("create_role")
  /\ role' = "ours"
  /\ \/ Goto("probe")
     \/ Fails("request_failed")             \* the answer is lost
  /\ UNCHANGED <<base, backup, captured, source, children>>

DropRole ==
  /\ At("drop_role")
  /\ \E deleted \in BOOLEAN :
       /\ role' = IF deleted THEN "none" ELSE role
       /\ error' = Finished(error, deleted)
       /\ pc' = IF error' = "ok" THEN "backup" ELSE "report"
  /\ UNCHANGED <<base, backup, captured, source, children, wasRunning, before, attempts,
                 signalled, reported>>

CreateBackup ==
  /\ At("backup")
  /\ backup' = "pending" /\ captured' = base
  /\ \/ Goto("await")
     \/ Fails("request_failed")             \* the answer is lost
  /\ UNCHANGED <<base, role, source, children>>

BackupProceeds ==                           \* external
  /\ backup = "pending"
  /\ backup' \in {"success", "failed"}
  /\ UNCHANGED <<base, captured, role, source, children, pc, attempt, signalled, reported>>

(* wait_for_backup: until it ends, or for 30 minutes. *)
AwaitBackup ==
  /\ At("await")
  /\ CASE backup = "success" -> Goto("done")
       [] backup = "failed" -> Fails("planetscale_backup_failed")
       [] OTHER -> Fails("request_failed")  \* provider_timeout
  /\ UNCHANGED <<remote, source, children>>

-----------------------------------------------------------------------------
(* copy_compose_database.                                                  *)

Probe ==
  /\ At("probe")
  /\ \/ /\ wasRunning' = (source = "running")
        /\ pc' = IF wasRunning' THEN "ready" ELSE "up"
        /\ UNCHANGED <<error, before, attempts, signalled, reported>>
     \/ Fails("local_postgres_status_failed")
  /\ UNCHANGED <<remote, source, children>>

Up ==
  /\ At("up")
  /\ source' = "running" /\ Goto("ready")
  /\ UNCHANGED <<remote, children>>

(* The service may have been started even so: it is stopped, unless that fails. *)
UpFails ==
  /\ At("up")
  /\ \E stopped \in BOOLEAN :
       /\ source' = IF stopped THEN "stopped" ELSE "running"
       /\ Fails(Finished("local_postgres_start_failed", stopped))
  /\ UNCHANGED <<remote, children>>

(* wait_for_local_postgres_readiness, only of a service just started. *)
AwaitReady ==
  /\ At("ready")
  /\ \/ Goto("extensions")
     \/ ~wasRunning /\ Fails("readiness_timeout")
  /\ UNCHANGED <<remote, source, children>>

(* local_extensions, replay_extensions: psql on either side; not interrupted. *)
ReplayExtensions ==
  /\ At("extensions")
  /\ \/ Goto("spawn")
     \/ Fails("extension_replay_failed")
  /\ UNCHANGED <<remote, source, children>>

StopSource ==
  /\ At("stop_source")
  /\ \E stopped \in BOOLEAN :
       /\ source' = IF stopped THEN "stopped" ELSE source
       /\ error' = Finished(error, stopped)
  /\ pc' = "drop_role"
  /\ UNCHANGED <<remote, children, wasRunning, before, attempts, signalled, reported>>

-----------------------------------------------------------------------------
(* stream_database_copy.  A child that did not fail by itself but for what *)
(* became of the other end of the pipe is "cut"; a killed one is "gone".   *)

(* Mistake: pg_dump is left alone when psql cannot be started. *)
SpawnDumpAlone ==
  /\ At("spawn")
  /\ base' = "partial" /\ dump' = "running" /\ Fails("io")
  /\ UNCHANGED <<restore, transfer, container, backup, captured, role, source>>

(* If psql cannot be started, pg_dump is dropped and thereby killed. *)
Spawn ==
  /\ At("spawn")
  /\ \/ /\ base' = "partial" /\ dump' = "running" /\ restore' = "running"
        /\ transfer' = "copying" /\ container' \in BOOLEAN
        /\ Goto("stream")
     \/ Fails("io") /\ UNCHANGED <<base, children>>
  /\ UNCHANGED <<backup, captured, role, source>>

(* external: pg_dump ends; once the copy is given up its pipe is closed, and *)
(* so is its control channel.                                              *)
DumpExits ==
  /\ dump = "running"
  /\ dump' \in IF pc = "stream" THEN {"ok", "failed"} ELSE {"cut"}
  /\ UNCHANGED <<remote, source, container, restore, transfer, pc, attempt, signalled, reported>>

(* external: psql ends, with ON_ERROR_STOP at the first statement refused. *)
(* It may end well before it has read all that is or will be in its pipe   *)
(* ("unread").  Input that is cut off may end in the middle of a statement  *)
(* or between two.                                                         *)
Fed == transfer = "ok" /\ dump = "ok"
CutOff == transfer \in {"ok", "error"} /\ ~Fed
RestoreExits ==
  /\ restore = "running"
  /\ \/ restore' = "failed" /\ base' = "partial"
     \/ CutOff /\ restore' \in {"ok", "cut"} /\ base' = "partial"
     \/ ~CutOff /\ restore' = "ok" /\ base' \in {"unread"} \cup (IF Fed THEN {"whole"} ELSE {})
  /\ container' = FALSE                    \* docker run --rm
  /\ UNCHANGED <<backup, captured, role, source, dump, transfer, pc, attempt, signalled, reported>>

(* The copy ends at pg_dump's end of file, also if what it wrote last stays *)
(* in the pipe of a psql that has ended; on a broken pipe, that of a psql   *)
(* that has ended or has closed its input and runs on; or on another error. *)
TransferEnds ==
  /\ pc = "stream" /\ transfer = "copying"
  /\ transfer' \in {"broken", "error"} \cup (IF dump # "running" THEN {"ok"} ELSE {})
  /\ UNCHANGED <<remote, source, container, dump, restore, pc, attempt, signalled, reported>>

(* The biased select: the signal before the copy, the copy before psql's end. *)
RaceCancelled ==
  /\ pc = "stream" /\ signalled
  /\ dump' = IF dump = "running" THEN "gone" ELSE dump
  /\ restore' = IF restore = "running" THEN "gone" ELSE restore
  /\ container' \in {FALSE, container}     \* docker rm may fail, five times
  /\ Fails(IF container' THEN "operation_interrupted_cleanup_incomplete"
           ELSE "operation_interrupted")
  /\ UNCHANGED <<remote, source, transfer>>

RaceTransfer ==
  /\ pc = "stream" /\ ~signalled /\ transfer # "copying"
  /\ Goto(IF transfer = "ok" THEN "join" ELSE "failed_stream")
  /\ UNCHANGED <<remote, source, children>>

(* Mistake: pg_dump is not killed when psql has ended early. *)
RaceRestoreOnly ==
  /\ pc = "stream" /\ ~signalled /\ transfer = "copying" /\ restore # "running"
  /\ Fails("planetscale_import_failed")
  /\ UNCHANGED <<remote, source, container, dump, restore, transfer>>

RaceRestore ==
  /\ pc = "stream" /\ ~signalled /\ transfer = "copying" /\ restore # "running"
  /\ dump' = IF dump = "running" THEN "gone" ELSE dump
  /\ Fails(IF restore = "failed" THEN "planetscale_import_failed"
           ELSE "database_stream_interrupted")
  /\ UNCHANGED <<remote, source, container, restore, transfer>>

FailedTransfer ==
  /\ pc = "failed_stream"
  /\ dump' = IF dump = "running" THEN "gone" ELSE dump
  /\ Goto("grace") /\ UNCHANGED <<remote, source, container, restore, transfer>>

(* Mistake: the end of pg_dump is not looked at. *)
CompletedIgnoringDump(t, d, r) ==
  IF t = "broken" /\ r # "ok" THEN "planetscale_import_failed"
  ELSE IF t = "error" THEN "transfer"
  ELSE IF r # "ok" THEN "planetscale_import_failed"
  ELSE IF t = "broken" THEN "transfer"
  ELSE "ok"

(* Mistake: psql is asked before pg_dump. *)
CompletedRestoreFirst(t, d, r) ==
  IF r # "ok" THEN "planetscale_import_failed"
  ELSE IF d \in {"failed", "cut"} THEN "local_postgres_dump_failed"
  ELSE IF t # "ok" THEN "transfer"
  ELSE "ok"

(* What the ends of the copy, of pg_dump ("gone": no status) and of psql say. *)
Completed(t, d, r) ==
  IF t = "broken" /\ r # "ok" THEN "planetscale_import_failed"
  ELSE IF d \in {"failed", "cut"} THEN "local_postgres_dump_failed"
  ELSE IF t = "error" THEN "transfer"
  ELSE IF r # "ok" THEN "planetscale_import_failed"
  ELSE IF t = "broken" THEN "transfer"
  ELSE "ok"

Classify ==
  LET code == Completed(transfer, dump, restore)
  IN IF code # "ok" THEN Fails(code)
     ELSE Goto(IF wasRunning THEN "drop_role" ELSE "stop_source")

(* No cancellation here. *)
Join ==
  /\ pc = "join" /\ dump # "running" /\ restore # "running"
  /\ Classify /\ UNCHANGED <<remote, source, children>>

RestoreEndsInGrace ==
  /\ pc = "grace" /\ restore # "running"
  /\ Classify /\ UNCHANGED <<remote, source, children>>

(* Mistake: no limit to the wait for psql after the copy has failed. *)
GraceExpiresNever ==
  /\ pc = "grace" /\ restore # "running" /\ transfer = "copying"
  /\ restore' = restore /\ Fails("io") /\ UNCHANGED <<remote, source, container, dump, transfer>>

(* Two seconds later psql is killed; if its container cannot be removed     *)
(* that is the error.                                                      *)
GraceExpires ==
  /\ pc = "grace" /\ restore = "running"
  /\ restore' = "gone" /\ container' \in {FALSE, container}
  /\ Fails(IF container' THEN "io"
           ELSE IF transfer = "error" THEN "transfer" ELSE "database_stream_interrupted")
  /\ UNCHANGED <<remote, source, dump, transfer>>

-----------------------------------------------------------------------------
(* The end of the attempt.                                                 *)

Done ==
  /\ At("done")
  /\ Goto("provision") /\ UNCHANGED <<remote, source, children>>

(* external: provision_service, see EnvironmentLifecycle. *)
Provision ==
  /\ pc = "provision"
  /\ pc' = "report"
  /\ error' \in {"ok", "request_failed"}
               \cup (IF signalled THEN {"operation_interrupted"} ELSE {})
  /\ UNCHANGED <<remote, source, children, wasRunning, before, attempts, signalled, reported>>

(* ensure_with_job: the errors of the services become one. *)
Ensured(code) ==
  IF code = "ok" \/ code \in Interruptions THEN code ELSE "environment_provision_degraded"

(* run_with_graceful_interruption: after the signal, any other end than these *)
(* is an interruption.                                                     *)
AfterSignal(code) ==
  IF code \in Cleanups \cup {"operation_interrupted"} THEN code ELSE "operation_interrupted"

Report ==
  /\ pc = "report"
  /\ reported' = IF signalled THEN AfterSignal(Ensured(error)) ELSE Ensured(error)
  /\ pc' = "idle"
  /\ UNCHANGED <<remote, source, children, attempt, signalled>>

(* The process goes away in the middle: its children are killed, or end as *)
(* their pipes close.                                                      *)
Gone(code) ==
  /\ pc # "idle"
  /\ pc' = "idle" /\ reported' = code
  /\ dump' = IF dump = "running" THEN "gone" ELSE dump
  /\ restore' = IF restore = "running" THEN "gone" ELSE restore
  /\ container' \in {FALSE, container}
  /\ UNCHANGED <<remote, source, transfer, attempt, signalled>>

(* Cleanup has taken more than 30 s. *)
TimesOut == signalled /\ Gone("operation_interrupted_cleanup_incomplete")
Crash == Gone("killed")

-----------------------------------------------------------------------------
StreamStep ==
  RaceCancelled \/ RaceTransfer \/ RaceRestore \/ FailedTransfer \/ Join
  \/ RestoreEndsInGrace \/ GraceExpires

Step ==
  \/ Interrupted \/ RequestFails \/ EnsureDatabase \/ ReuseBackup \/ DeleteOldRole \/ CreateRole
  \/ DropRole \/ CreateBackup \/ AwaitBackup \/ Probe \/ Up \/ UpFails \/ AwaitReady
  \/ ReplayExtensions \/ StopSource \/ Spawn \/ StreamStep \/ Done \/ Provision \/ Report

External == DumpExits \/ RestoreExits \/ BackupProceeds

Next == Begin \/ Signal \/ Step \/ TransferEnds \/ External \/ TimesOut \/ Crash

(* tokio polls the process.  pg_dump ends while its output is read, the copy *)
(* after pg_dump, and psql after the end of its input; of a psql that is fed *)
(* no more after an error nothing is assumed.                              *)
Fairness ==
  /\ WF_vars(Step)
  /\ WF_vars(dump # "running" /\ TransferEnds)
  /\ WF_vars(pc = "stream" /\ DumpExits)
  /\ WF_vars(pc = "join" /\ RestoreExits)

Spec == Init /\ [][Next]_vars /\ Fairness

-----------------------------------------------------------------------------
(* Properties.                                                             *)

(* A backup that bears the import's name, which every later env create     *)
(* takes for a finished import, was requested after pg_dump and psql had    *)
(* both succeeded on an unbroken copy, and nobody has streamed into the    *)
(* branch since: unless psql itself ended before the end of the dump, and   *)
(* well, the backup holds the whole database.                              *)
BackupHoldsTheImport ==
  backup \in {"pending", "success"} => captured \in {"whole", "unread"} /\ base = captured

(* agent-contract.md:220: a psql that exits successfully before it consumed *)
(* the complete dump makes the import fail, so the backup never holds what  *)
(* such a psql left.  But if pg_dump ends, and the rest of its output fits  *)
(* the pipe, before that exit is noticed, the copy has succeeded, and so    *)
(* has the import.                                                         *)
CompleteDumpConsumed ==
  backup \in {"pending", "success"} => captured # "unread"

(* What this attempt created and has not removed, or has changed. *)
Remains == role = "ours" \/ container \/ source # before

(* Whatever an attempt leaves behind, its outcome names a failed cleanup; or *)
(* the request whose answer was lost, or the container that could not be   *)
(* removed ("io"), is the error itself.  In particular an import that ends *)
(* interrupted, or succeeds, leaves no role, no container, and the source  *)
(* service as it found it.                                                 *)
ResidualsAreNamed ==
  pc \in {"provision", "report"} /\ Remains =>
    error \in Cleanups \cup {"request_failed", "io"}

(* When the streaming is over, however it ended, no child of it runs on:   *)
(* the source service is not stopped under a dump nor the role dropped     *)
(* under a restore.                                                        *)
ChildrenAreReaped ==
  pc \notin {"stream", "join", "failed_stream", "grace"} =>
    dump # "running" /\ restore # "running"

(* The side that is blamed failed by itself, and not for what the other, or *)
(* Repobox, did to it.  The exception: if the copy itself broke, pg_dump   *)
(* may be blamed for having been cut.                                      *)
CulpritIsNamed ==
  pc \in {"stop_source", "drop_role"} =>
    /\ error = "planetscale_import_failed" => restore = "failed"
    /\ error = "local_postgres_dump_failed" => dump = "failed" \/ transfer \in {"broken", "error"}

(* Every attempt ends. *)
ImportEnds == pc # "idle" ~> pc = "idle"

(* agent-contract.md:221, configuration.md:189: operation_interrupted says *)
(* that the cleanup is complete.  It is not when a service's cleanup has   *)
(* failed: ensure_with_job wraps that error, and main.rs takes any error   *)
(* it does not know, after a signal, for a clean interruption.             *)
InterruptedMeansClean ==
  reported = "operation_interrupted" => error # "operation_cleanup_failed"
=============================================================================
