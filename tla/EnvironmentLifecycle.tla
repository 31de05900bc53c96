------------------------ MODULE EnvironmentLifecycle ------------------------
(***************************************************************************)
(* The life of one environment under all the commands that change it:      *)
(* `env create` (which `repobox run` also issues), `pull`, `env delete`    *)
(* with and without --keep-state, `job resume` and `job cancel`, one       *)
(* command at a time, each of which may crash, be interrupted, or have any *)
(* of its calls fail.  Which command is accepted depends on what the       *)
(* earlier ones left in the ledger and the state file: resumable_job,      *)
(* validate_unique_mutation_lineage, environment_deletion_targets and      *)
(* reconcile_environment_mutation_jobs of environment.rs.                  *)
(*                                                                         *)
(* A job that no code looks at any more (it succeeded, a delete reconciled *)
(* it, or it was canceled with nothing left to do) leaves the ledger here, *)
(* and its identity is used again.                                         *)
(* The refresh of one service is reduced here to its effects and the       *)
(* checkpoints between them: PullSwap is the detailed model of it.         *)
(***************************************************************************)
CONSTANTS
  Services,     \* the configured database services
  Jobs,         \* identities of create and pull jobs
  NoService,    \* stands for "no service"
  NoJob         \* stands for "no job", and for the canonical branch's owner

ASSUME NonesAssumption == NoService \notin Services /\ NoJob \notin Jobs

VARIABLES
  (*** the job ledger ***)
  kind, status,  \* of each job
  steps,         \* the checkpointed phase of each service in each job
  deletion,      \* how the latest delete of this record stands
  (*** the state file ***)
  record,        \* status of the environment record
  bound,         \* the services with a binding in the record
  (*** the credential store ***)
  key,           \* what the URLs under each canonical key open
  stagingKeys,   \* the staging keys that are stored
  (*** PlanetScale ***)
  canonical,     \* the services whose environment branch exists
  role,          \* the services with the Repobox role on that branch
  staging,       \* the staging branches that exist
  (*** the running command ***)
  pc, job, todo, cur, failed, cancelled,
  targets, branch, cleanup, keep   \* of a delete

ledger == <<kind, status, steps, deletion>>
state == <<record, bound>>
keys == <<key, stagingKeys>>
provider == <<canonical, role, staging>>
delete == <<targets, branch, cleanup, keep>>
process == <<pc, job, todo, cur, failed, cancelled, delete>>
vars == <<ledger, state, keys, provider, process>>

Phases == {"none", "planned", "staged", "credentialed", "old_deleted", "swapped", "complete"}

CreateLabels == {"provision", "restore", "drop_role", "create_role", "store_key", "bind", "mark"}
DeleteLabels == {"delete", "drop_keys", "reconcile", "forget", "deleted"}
Labels == CreateLabels \cup DeleteLabels \cup {"idle", "open", "next", "refresh", "settle"}

TypeOK ==
  /\ kind \in [Jobs -> {"none", "create", "pull"}]
  /\ status \in [Jobs -> {"none", "running", "degraded", "canceled"}]
  /\ steps \in [Jobs -> [Services -> Phases]]
  /\ deletion \in {"none", "unfinished", "done"}
  /\ record \in {"absent", "provisioning", "degraded", "ready"}
  /\ bound \subseteq Services
  /\ key \in [Services -> {"none", "live", "dead"}]
  /\ stagingKeys \subseteq Jobs \X Services
  /\ canonical \subseteq Services /\ role \subseteq canonical
  /\ staging \subseteq Jobs \X Services
  /\ pc \in Labels /\ job \in Jobs \cup {NoJob}
  /\ todo \subseteq Services /\ cur \in Services \cup {NoService}
  /\ failed \in BOOLEAN /\ cancelled \in BOOLEAN
  /\ targets \subseteq (Jobs \cup {NoJob}) \X Services
  /\ branch \in Jobs \cup {NoJob} /\ cleanup \subseteq Jobs
  /\ keep \in BOOLEAN

Init ==
  /\ kind = [j \in Jobs |-> "none"] /\ status = [j \in Jobs |-> "none"]
  /\ steps = [j \in Jobs |-> [s \in Services |-> "none"]]
  /\ deletion = "none"
  /\ record = "absent" /\ bound = {}
  /\ key = [s \in Services |-> "none"] /\ stagingKeys = {}
  /\ canonical = {} /\ role = {} /\ staging = {}
  /\ pc = "idle" /\ job = NoJob /\ todo = {} /\ cur = NoService
  /\ failed = FALSE /\ cancelled = FALSE
  /\ targets = {} /\ branch = NoJob /\ cleanup = {} /\ keep = FALSE

-----------------------------------------------------------------------------
(* What the commands read from the ledger.                                 *)

Scope(j) == {s \in Services : steps[j][s] # "none"}

Nonterminal == {j \in Jobs : status[j] \in {"running", "degraded"}}

(* Canceled with a step that is not complete. *)
Residual == {j \in Jobs : status[j] = "canceled"}

Unreconciled == Nonterminal \cup Residual

(* repobox run: guard_run_against_unresolved_mutation passes, and the       *)
(* record's being ready lets it start without provisioning.                 *)
Runnable == record = "ready" /\ Unreconciled = {}

(* environment_deletion_targets: the branches that bindings and unreconciled *)
(* jobs name; NoJob stands for the canonical branch, j for j's staging one.  *)
DeletionTargets ==
  LET canonicals == bound \cup UNION {Scope(j) : j \in Unreconciled}
      pulls == {j \in Unreconciled : kind[j] = "pull"}
  IN  ({NoJob} \X canonicals) \cup UNION {{j} \X Scope(j) : j \in pulls}

(* environment_delete_identity_missing, environment_not_found. *)
DeleteAccepted ==
  record # "absent" /\ (DeletionTargets # {} \/ Unreconciled # {})

-----------------------------------------------------------------------------
(* Control.                                                                *)

Goto(label) == pc' = label /\ UNCHANGED <<job, todo, cur, failed, cancelled, delete>>

(* The current service's step fails. *)
FailStep ==
  /\ pc' = "next" /\ cur' = NoService /\ failed' = TRUE
  /\ UNCHANGED <<job, todo, cancelled, delete>>

(* A call that took effect; its answer may be lost. *)
Answer(label) ==
  \/ Goto(label)
  \/ FailStep

Checkpoint(ph) == steps' = [steps EXCEPT ![job][cur] = ph]

ProcessEnds ==
  /\ pc' = "idle" /\ job' = NoJob /\ todo' = {} /\ cur' = NoService
  /\ failed' = FALSE /\ cancelled' = FALSE
  /\ targets' = {} /\ branch' = NoJob /\ cleanup' = {} /\ keep' = FALSE

(* No code looks at the job any more. *)
Release(j) ==
  /\ kind' = [kind EXCEPT ![j] = "none"]
  /\ status' = [status EXCEPT ![j] = "none"]
  /\ steps' = [steps EXCEPT ![j] = [s \in Services |-> "none"]]

(* A branch that is gone takes its role along, and its URLs open nothing.  *)
Gone(s) ==
  /\ canonical' = canonical \ {s}
  /\ role' = role \ {s}
  /\ key' = [key EXCEPT ![s] = IF @ = "live" THEN "dead" ELSE @]

-----------------------------------------------------------------------------
(* env create, pull and job resume: which lineage is taken up.             *)

(* Mistake: a canceled job no longer stands in the way of a new one. *)
NewJobPastCanceled(k, j, scope) ==
  /\ pc = "idle"
  /\ status[j] = "none"
  /\ Nonterminal = {}
  /\ kind' = [kind EXCEPT ![j] = k]
  /\ status' = [status EXCEPT ![j] = "running"]
  /\ steps' = [steps EXCEPT ![j] =
                 [s \in Services |-> IF s \in scope THEN "planned" ELSE "none"]]
  /\ job' = j /\ todo' = scope /\ pc' = "open"
  /\ UNCHANGED <<deletion, state, keys, provider, cur, failed, cancelled, delete>>

NewJob(k, j, scope) ==
  /\ pc = "idle"
  /\ status[j] = "none"
  /\ Unreconciled = {}                     \* environment_recovery_required
  /\ kind' = [kind EXCEPT ![j] = k]
  /\ status' = [status EXCEPT ![j] = "running"]
  /\ steps' = [steps EXCEPT ![j] =
                 [s \in Services |-> IF s \in scope THEN "planned" ELSE "none"]]
  /\ job' = j /\ todo' = scope /\ pc' = "open"
  /\ UNCHANGED <<deletion, state, keys, provider, cur, failed, cancelled, delete>>

StartCreate(j) == NewJob("create", j, Services)

StartPull(j, scope) ==
  /\ record = "ready"                      \* environment_not_ready_for_pull
  /\ scope \subseteq bound                 \* environment_binding_config_mismatch
  /\ NewJob("pull", j, scope)

(* The same command again, or `job resume`: the lineage must be the only    *)
(* unreconciled one and not be terminal; a pull needs the record.           *)
Resume(j) ==
  /\ pc = "idle"
  /\ j \in Nonterminal
  /\ Unreconciled = {j}                    \* environment_mutation_lineage_conflict
  /\ kind[j] = "pull" => record # "absent" \* environment_not_found
  /\ status' = [status EXCEPT ![j] = "running"]
  /\ job' = j /\ todo' = Scope(j) /\ pc' = "open"
  /\ UNCHANGED <<kind, steps, deletion, state, keys, provider,
                 cur, failed, cancelled, delete>>

(* A record that is made anew has no delete behind it. *)
OpenRecord ==
  /\ pc = "open"
  /\ record' = "provisioning"
  /\ deletion' = IF record = "absent" THEN "none" ELSE deletion
  /\ Goto("next")
  /\ UNCHANGED <<kind, status, steps, bound, keys, provider>>

(* The loop over the selected services.  A create attempts each of them     *)
(* again, a pull those whose step has not succeeded.                        *)
BeginStep(s) ==
  /\ pc = "next" /\ s \in todo
  /\ kind[job] = "pull" => steps[job][s] # "complete"
  /\ cancelled => kind[job] = "pull" /\ steps[job][s] \in {"credentialed", "old_deleted"}
  /\ todo' = todo \ {s} /\ cur' = s
  /\ pc' = IF kind[job] = "create" THEN "provision" ELSE "refresh"
  /\ UNCHANGED <<ledger, state, keys, provider, job, failed, cancelled, delete>>

SkipStep(s) ==
  /\ pc = "next" /\ s \in todo
  /\ kind[job] = "pull" /\ steps[job][s] = "complete"
  /\ todo' = todo \ {s}
  /\ UNCHANGED <<ledger, state, keys, provider, pc, job, cur, failed, cancelled, delete>>

RefuseStep(s) ==
  /\ pc = "next" /\ s \in todo
  /\ cancelled
  /\ kind[job] = "pull" => steps[job][s] \notin {"credentialed", "old_deleted", "complete"}
  /\ failed' = TRUE /\ todo' = {}
  /\ UNCHANGED <<ledger, state, keys, provider, pc, job, cur, cancelled, delete>>

(* The verdict goes to the state file first, then to the ledger.           *)
SaveVerdict ==
  /\ pc = "next" /\ todo = {}
  /\ failed' = \/ failed
               \/ \E s \in Scope(job) : steps[job][s] # "complete"
               \/ bound # Services
  /\ record' = IF failed' THEN "degraded" ELSE "ready"
  /\ pc' = "settle"
  /\ UNCHANGED <<ledger, bound, keys, provider, job, todo, cur, cancelled, delete>>

(* Mistake: the status JobStatus::Failed, which no code looks for, is used. *)
SettleFailed ==
  /\ pc = "settle"
  /\ \/ /\ failed
        /\ status' = [status EXCEPT ![job] = "failed"] /\ UNCHANGED <<kind, steps>>
     \/ ~failed /\ Release(job)              \* succeeded
  /\ ProcessEnds
  /\ UNCHANGED <<deletion, state, keys, provider>>

Settle ==
  /\ pc = "settle"
  /\ \/ /\ failed
        /\ status' = [status EXCEPT ![job] = "degraded"] /\ UNCHANGED <<kind, steps>>
     \/ ~failed /\ Release(job)              \* succeeded
  /\ ProcessEnds
  /\ UNCHANGED <<deletion, state, keys, provider>>

-----------------------------------------------------------------------------
(* provision_service.                                                      *)

(* Mistake: a branch that an earlier attempt restored is not taken up. *)
ProvisionAnew ==
  /\ pc = "provision"
  /\ LET s == cur IN
     \/ s \in canonical /\ key[s] # "none" /\ s \in role /\ Goto("bind")
     \/ s \notin canonical /\ Goto("restore")
  /\ UNCHANGED <<ledger, state, keys, provider>>

(* An existing branch, stored URLs and a role of the expected name are      *)
(* taken for complete.                                                      *)
Provision ==
  /\ pc = "provision"
  /\ LET s == cur IN
     \/ s \in canonical /\ key[s] # "none" /\ s \in role /\ Goto("bind")
     \/ s \in canonical /\ (key[s] = "none" \/ s \notin role) /\ Goto("drop_role")
     \/ s \notin canonical /\ Goto("restore")
  /\ UNCHANGED <<ledger, state, keys, provider>>

RestoreBranch ==
  /\ pc = "restore"
  /\ canonical' = canonical \cup {cur}
  /\ Answer("drop_role")
  /\ UNCHANGED <<ledger, state, keys, role, staging>>

DropRole ==
  /\ pc = "drop_role"
  /\ role' = role \ {cur}
  /\ key' = [key EXCEPT ![cur] = IF @ = "live" THEN "dead" ELSE @]
  /\ Answer("create_role")
  /\ UNCHANGED <<ledger, state, stagingKeys, canonical, staging>>

CreateRole ==
  /\ pc = "create_role"
  /\ role' = role \cup {cur}
  /\ Answer("store_key")
  /\ UNCHANGED <<ledger, state, keys, canonical, staging>>

(* After the extensions of the base are replayed. *)
StoreKey ==
  /\ pc = "store_key"
  /\ key' = [key EXCEPT ![cur] = "live"]
  /\ Answer("bind")
  /\ UNCHANGED <<ledger, state, stagingKeys, provider>>

Bind ==
  /\ pc = "bind"
  /\ bound' = bound \cup {cur}
  /\ Goto("mark")
  /\ UNCHANGED <<ledger, record, keys, provider>>

MarkComplete ==
  /\ pc = "mark"
  /\ Checkpoint("complete")
  /\ pc' = "next" /\ cur' = NoService
  /\ UNCHANGED <<kind, status, deletion, state, keys, provider,
                 job, todo, failed, cancelled, delete>>

-----------------------------------------------------------------------------
(* pull_service, one effect or one checkpoint at a time.                   *)

Refreshing(ph) == pc = "refresh" /\ steps[job][cur] = ph
Staging == <<job, cur>> \in staging
StagingKey == <<job, cur>> \in stagingKeys

RefreshCheckpoint(ph) ==
  /\ Checkpoint(ph)
  /\ UNCHANGED <<kind, status, deletion, state, keys, provider, process>>

RestoreStaging ==
  /\ Refreshing("planned") /\ ~Staging
  /\ staging' = staging \cup {<<job, cur>>}
  /\ Answer("refresh")
  /\ UNCHANGED <<ledger, state, keys, canonical, role>>

StoreStagingKey ==
  /\ Refreshing("staged") /\ Staging /\ ~StagingKey
  /\ stagingKeys' = stagingKeys \cup {<<job, cur>>}
  /\ Answer("refresh")
  /\ UNCHANGED <<ledger, state, key, provider>>

DeleteOld ==
  /\ Refreshing("credentialed") /\ Staging /\ cur \in canonical
  /\ Gone(cur)
  /\ Answer("refresh")
  /\ UNCHANGED <<ledger, state, stagingKeys, staging>>

Rename ==
  /\ Refreshing("old_deleted") /\ Staging /\ cur \notin canonical
  /\ staging' = staging \ {<<job, cur>>}
  /\ canonical' = canonical \cup {cur} /\ role' = role \cup {cur}
  /\ Answer("refresh")
  /\ UNCHANGED <<ledger, state, keys>>

RefreshMark ==
  \/ Refreshing("planned") /\ Staging /\ RefreshCheckpoint("staged")
  \/ Refreshing("staged") /\ Staging /\ StagingKey /\ RefreshCheckpoint("credentialed")
  \/ /\ Refreshing("credentialed") /\ Staging /\ cur \notin canonical
     /\ RefreshCheckpoint("old_deleted")
  \/ /\ Refreshing("old_deleted") /\ ~Staging /\ cur \in canonical
     /\ RefreshCheckpoint("swapped")

(* The URLs move from the staging key to the canonical key. *)
Opens(s) == IF s \in canonical THEN "live" ELSE "dead"

(* Mistake: the staging key is removed before its URLs are stored anew. *)
TransferKeyDropFirst ==
  /\ Refreshing("swapped") /\ StagingKey
  /\ stagingKeys' = stagingKeys \ {<<job, cur>>} /\ UNCHANGED key
  /\ Answer("refresh")
  /\ UNCHANGED <<ledger, state, provider>>

TransferKey ==
  /\ Refreshing("swapped") /\ StagingKey
  /\ \/ /\ key[cur] # Opens(cur)
        /\ key' = [key EXCEPT ![cur] = Opens(cur)] /\ UNCHANGED stagingKeys
     \/ /\ key[cur] = Opens(cur)
        /\ stagingKeys' = stagingKeys \ {<<job, cur>>} /\ UNCHANGED key
  /\ Answer("refresh")
  /\ UNCHANGED <<ledger, state, provider>>

RefreshBind ==
  /\ Refreshing("swapped") /\ ~StagingKey /\ key[cur] # "none" /\ cur \in role
  /\ bound' = bound \cup {cur}
  /\ Goto("mark")
  /\ UNCHANGED <<ledger, record, keys, provider>>

(* An interrupted delete took away what the checkpoint promises. *)
RefreshMissing ==
  /\ \/ Refreshing("staged") /\ ~Staging        \* pull_staging_branch_missing
     \/ Refreshing("credentialed") /\ ~Staging
     \/ /\ Refreshing("old_deleted") /\ ~Staging /\ cur \notin canonical
     \/ /\ Refreshing("swapped") /\ ~StagingKey /\ (key[cur] = "none" \/ cur \notin role)
  /\ FailStep
  /\ UNCHANGED <<ledger, state, keys, provider>>

-----------------------------------------------------------------------------
(* env delete.                                                             *)

StartDelete(keepState) ==
  /\ pc = "idle"
  /\ DeleteAccepted
  /\ deletion' = "unfinished"
  /\ targets' = DeletionTargets /\ cleanup' = Unreconciled /\ keep' = keepState
  /\ pc' = "delete"
  /\ UNCHANGED <<kind, status, steps, state, keys, provider,
                 job, todo, cur, failed, cancelled, branch>>

(* The targets of one service after the other, in the order of their names; *)
(* an absent branch is fine.                                                *)
DeleteBranch(j, s) ==
  /\ pc = "delete"
  /\ <<j, s>> \in targets
  /\ \/ cur = s
     \/ cur = NoService /\ ~cancelled
  /\ IF j = NoJob THEN Gone(s) /\ UNCHANGED staging
                  ELSE staging' = staging \ {<<j, s>>} /\ UNCHANGED <<canonical, role, key>>
  /\ \/ /\ cur' = s /\ branch' = j /\ pc' = "drop_keys"
        /\ UNCHANGED <<targets, failed>>
     \/ /\ failed' = TRUE             \* the answer is lost
        /\ targets' = targets \ {<<j, s>>}
        /\ cur' = IF \E t \in targets' : t[2] = s THEN s ELSE NoService
        /\ UNCHANGED <<branch, pc>>
  /\ UNCHANGED <<ledger, state, stagingKeys, job, todo, cancelled, cleanup, keep>>

(* Mistake: a credential that could not be removed is not counted as a failure. *)
DropKeysUnchecked ==
  /\ pc = "drop_keys"
  /\ \/ /\ IF branch = NoJob THEN key' = [key EXCEPT ![cur] = "none"] /\ UNCHANGED stagingKeys
                            ELSE stagingKeys' = stagingKeys \ {<<branch, cur>>} /\ UNCHANGED key
        /\ UNCHANGED failed
     \/ UNCHANGED <<failed, keys>>
  /\ targets' = targets \ {<<branch, cur>>}
  /\ cur' = IF \E t \in targets' : t[2] = cur THEN cur ELSE NoService
  /\ pc' = "delete" /\ branch' = NoJob
  /\ UNCHANGED <<ledger, state, provider, job, todo, cancelled, cleanup, keep>>

DropKeys ==
  /\ pc = "drop_keys"
  /\ \/ /\ IF branch = NoJob THEN key' = [key EXCEPT ![cur] = "none"] /\ UNCHANGED stagingKeys
                            ELSE stagingKeys' = stagingKeys \ {<<branch, cur>>} /\ UNCHANGED key
        /\ UNCHANGED failed
     \/ failed' = TRUE /\ UNCHANGED keys
  /\ targets' = targets \ {<<branch, cur>>}
  /\ cur' = IF \E t \in targets' : t[2] = cur THEN cur ELSE NoService
  /\ pc' = "delete" /\ branch' = NoJob
  /\ UNCHANGED <<ledger, state, provider, job, todo, cancelled, cleanup, keep>>

(* All done: the lineages are one append each ... *)
DeleteComplete ==
  /\ pc = "delete" /\ targets = {} /\ ~failed
  /\ Goto("reconcile")
  /\ UNCHANGED <<ledger, state, keys, provider>>

Reconcile(j) ==
  /\ pc = "reconcile" /\ j \in cleanup
  /\ Release(j)                            \* environment_deleted
  /\ cleanup' = cleanup \ {j}
  /\ UNCHANGED <<deletion, state, keys, provider,
                 pc, job, todo, cur, failed, cancelled, targets, branch, keep>>

(* ... then the record is removed, unless --keep-state ... *)
ForgetRecord ==
  /\ pc = "reconcile" /\ cleanup = {}
  /\ IF keep THEN UNCHANGED state ELSE record' = "absent" /\ bound' = {}
  /\ Goto("deleted")
  /\ UNCHANGED <<ledger, keys, provider>>

(* ... and the delete job succeeds. *)
Deleted ==
  /\ pc = "deleted"
  /\ deletion' = "done"
  /\ ProcessEnds
  /\ UNCHANGED <<kind, status, steps, state, keys, provider>>

(* environment_delete_degraded, or the interruption between two services.  *)
DeleteStops ==
  /\ pc = "delete"
  /\ \/ targets = {} /\ failed
     \/ targets # {} /\ cur = NoService /\ cancelled
  /\ ProcessEnds
  /\ UNCHANGED <<ledger, state, keys, provider>>

-----------------------------------------------------------------------------
(* job cancel, and what can go wrong.                                      *)

(* Mistake: nothing looks at the branches of a canceled job. *)
JobCancelForgets(j) ==
  /\ pc = "idle"
  /\ j \in Nonterminal
  /\ Release(j)
  /\ UNCHANGED <<deletion, state, keys, provider, process>>

JobCancel(j) ==
  /\ pc = "idle"
  /\ j \in Nonterminal
  /\ \/ /\ \E s \in Scope(j) : steps[j][s] # "complete"
        /\ status' = [status EXCEPT ![j] = "canceled"] /\ UNCHANGED <<kind, steps>>
     \/ /\ \A s \in Scope(j) : steps[j][s] = "complete"
        /\ Release(j)
  /\ UNCHANGED <<deletion, state, keys, provider, process>>

(* A call of provision_service or pull_service fails without effect.  (An   *)
(* error of the state file or the ledger ends the command as a crash does.) *)
CallFails ==
  /\ pc \in (CreateLabels \ {"bind", "mark"}) \cup {"refresh"}
  /\ FailStep
  /\ UNCHANGED <<ledger, state, keys, provider>>

DeleteCallFails(j, s) ==
  /\ pc = "delete" /\ <<j, s>> \in targets
  /\ cur = s \/ (cur = NoService /\ ~cancelled)
  /\ failed' = TRUE
  /\ targets' = targets \ {<<j, s>>}
  /\ cur' = IF \E t \in targets' : t[2] = s THEN s ELSE NoService
  /\ UNCHANGED <<ledger, state, keys, provider, pc, job, todo, cancelled, branch, cleanup, keep>>

(* cancellation.check() inside a service; a swap half done is finished.     *)
(* The checks lie before and within these steps, so that a step may also be *)
(* taken although the request has been made.                                *)
Interrupt ==
  /\ cancelled
  /\ \/ pc \in {"provision", "restore", "drop_role", "store_key"}
     \/ Refreshing("planned") \/ Refreshing("staged") \/ Refreshing("swapped")
     \/ Refreshing("credentialed") /\ cur \in canonical
  /\ pc' = "next" /\ cur' = NoService /\ failed' = TRUE /\ todo' = {}
  /\ UNCHANGED <<ledger, state, keys, provider, job, cancelled, delete>>

RequestCancel ==
  /\ pc # "idle" /\ ~cancelled
  /\ cancelled' = TRUE
  /\ UNCHANGED <<ledger, state, keys, provider, pc, job, todo, cur, failed, delete>>

Crash ==
  /\ pc # "idle"
  /\ ProcessEnds
  /\ UNCHANGED <<ledger, state, keys, provider>>

-----------------------------------------------------------------------------
CreateStep ==
  \/ Provision \/ RestoreBranch \/ DropRole \/ CreateRole \/ StoreKey \/ Bind \/ MarkComplete

RefreshStep ==
  \/ RestoreStaging \/ StoreStagingKey \/ DeleteOld \/ Rename
  \/ RefreshMark \/ TransferKey \/ RefreshBind \/ RefreshMissing

LoopStep ==
  \/ OpenRecord \/ SaveVerdict \/ Settle
  \/ \E s \in Services : BeginStep(s) \/ SkipStep(s) \/ RefuseStep(s)

DeleteStep ==
  \/ \E j \in Jobs \cup {NoJob}, s \in Services : DeleteBranch(j, s)
  \/ DropKeys \/ DeleteComplete \/ ForgetRecord \/ Deleted \/ DeleteStops
  \/ \E j \in Jobs : Reconcile(j)

CommandStep == CreateStep \/ RefreshStep \/ LoopStep \/ DeleteStep \/ Interrupt

Trouble ==
  \/ CallFails \/ RequestCancel \/ Crash
  \/ \E j \in Jobs \cup {NoJob}, s \in Services : DeleteCallFails(j, s)

Next ==
  \/ \E j \in Jobs : StartCreate(j) \/ Resume(j) \/ JobCancel(j)
  \/ \E j \in Jobs, scope \in (SUBSET Services) \ {{}} : StartPull(j, scope)
  \/ \E keepState \in BOOLEAN : StartDelete(keepState)
  \/ CommandStep
  \/ Trouble

Spec == Init /\ [][Next]_vars

(* A command runs on, and the user resumes a job that may be resumed.      *)
FairSpec == Spec /\ WF_vars(CommandStep) /\ WF_vars(\E j \in Jobs : Resume(j))

-----------------------------------------------------------------------------
(* SAFETY.  No branch and no credential that Repobox made is ever lost from *)
(* sight: the next `env delete` would find it, from a binding or from an    *)
(* unreconciled job (environment_deletion_targets).                         *)
NothingIsOrphaned ==
  /\ \A s \in Services :
       s \in canonical \/ key[s] # "none" => <<NoJob, s>> \in DeletionTargets
  /\ staging \cup stagingKeys \subseteq DeletionTargets

(* SAFETY.  Whatever the staging branches and staging keys of an            *)
(* environment are, they belong to one refresh: no pull begins next to what *)
(* a crashed, canceled or half-deleted one left (the guards of              *)
(* resumable_job against the residue of canceled jobs).                     *)
RefreshesDoNotMix ==
  \A r1, r2 \in staging \cup stagingKeys : r1[1] = r2[1]

(* SAFETY.  An environment that `repobox run` would start (ready, and no    *)
(* unreconciled job), that no delete was begun on and left, has for every   *)
(* service its branch, its role, the URLs that open it, and its binding.    *)
RunnableIsWhole ==
  Runnable /\ deletion = "none" =>
    \A s \in Services : s \in canonical /\ s \in role /\ key[s] = "live" /\ s \in bound

(* SAFETY (action).  When a delete reports success nothing of the           *)
(* environment is left at the provider or in the credential store.          *)
DeletedMeansGone ==
  [][deletion' = "done" /\ deletion # "done" =>
       /\ canonical' = {} /\ staging' = {} /\ stagingKeys' = {}
       /\ \A s \in Services : key'[s] = "none"
       /\ Unreconciled' = {}]_vars

(* LIVENESS.  If from some time on no call of provision_service fails, and  *)
(* the user starts nothing but resumes what may be resumed, then a create   *)
(* comes to its end from whatever point the commands before left it at.     *)
Undisturbed ==
  /\ CommandStep \/ \E j \in Jobs : Resume(j)
  /\ ~(pc \in CreateLabels \ {"mark"} /\ pc' = "next")

CreateCompletes ==
  <>[][Undisturbed]_vars => []<>(\A j \in Nonterminal : kind[j] # "create")

(* What docs and messages say, and the code does not always do.            *)

(* environment_recovery_required, docs/agent-contract.md: "Resume the exact *)
(* UUID when permitted, or explicitly delete the environment before         *)
(* starting a different mutation or runtime."  One of the two is accepted.  *)
RecoveryIsOffered ==
  pc = "idle" /\ Unreconciled # {} =>
    DeleteAccepted \/ \E j \in Nonterminal : kind[j] = "create" \/ record # "absent"

(* docs/agent-contract.md, on an interrupted delete: "rerun the same delete *)
(* or prune command to finish them".                                        *)
DeleteCanBeRerun ==
  pc = "idle" /\ deletion = "unfinished" /\ record # "absent" => DeleteAccepted

(* docs/features/branch-scoped-data.md: Repobox "creates a deterministic    *)
(* role [...], stores its returned one-time credentials [...], and injects" *)
(* them: the URLs stored for a runnable environment are the role's.         *)
InjectedUrlsAreTheRoles ==
  Runnable => \A s \in Services : s \in role => key[s] # "dead"
=============================================================================
