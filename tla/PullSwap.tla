------------------------------ MODULE PullSwap ------------------------------
(***************************************************************************)
(* `repobox pull` and `repobox job resume` of a pull, over any set of      *)
(* database services: pull_with_job and pull_service of environment.rs, at *)
(* the granularity of one provider call, one credential write or one       *)
(* ledger/state write per step.                                            *)
(*                                                                         *)
(* Between any two steps the process may die (signal, power loss, or the   *)
(* 30 second limit after which main.rs drops the operation); a provider    *)
(* call may fail without effect, or take effect with its answer lost; the  *)
(* user may ask for cooperative cancellation.  What survives is the job    *)
(* ledger, the state file, the credential store and the provider.          *)
(*                                                                         *)
(* The module follows the refresh of one environment that is already       *)
(* provisioned.  The provider is reduced to the two branches a refresh     *)
(* touches for each service (the canonical one and this job's staging one) *)
(* and to the role that opens the staging branch; only this job touches    *)
(* them.  Services are visited in any order (the code's is the order of    *)
(* their names).                                                           *)
(***************************************************************************)
CONSTANTS
  Services,     \* the configured database services
  NoService     \* stands for "no service is being refreshed"

ASSUME ServicesAssumption == NoService \notin Services

VARIABLES
  (*** durable: the job ledger's latest snapshot of the pull, and the state file ***)
  job,           \* status of the pull lineage
  scope,         \* the services its steps name
  step,          \* status of each service's step
  phase,         \* each step's checkpointed phase
  record,        \* status of the environment record
  bound,         \* the branch generation whose role the stored binding names
  (*** the credential store, by key ***)
  canonicalKey,  \* what the URLs under the canonical key open
  stagingKey,    \* what the URLs under the staging key open
  (*** PlanetScale ***)
  canonical,     \* the environment's branch of each service
  staging,       \* this job's staging branch of each service
  role,          \* the Repobox role on the branch this job restored
  (*** the running command, lost in a crash ***)
  pc, cur, visited, failed, cancelled,
  (*** the environment of the command ***)
  outage         \* have calls or hosts failed: not yet, or some have, or the trouble is over

ledger == <<job, scope, step, phase>>
state == <<record, bound>>
keys == <<canonicalKey, stagingKey>>
provider == <<canonical, staging, role>>
process == <<pc, cur, visited, failed, cancelled>>
vars == <<ledger, state, keys, provider, process, outage>>

Phases == {"planned", "staged", "credentialed", "old_deleted", "renamed",
           "swapped", "complete"}

ServiceLabels ==   \* the control points inside pull_service
  {"find_staging", "restore", "await_staging", "mark_staged", "ensure_role",
   "create_role", "store_staging_key", "replay_extensions", "mark_credentialed",
   "delete_old", "mark_old_deleted", "rename", "mark_renamed", "await_canonical",
   "transfer", "drop_staging_key", "bind", "mark_complete"}

Labels == ServiceLabels \cup {"idle", "open_record", "next", "settle"}

LedgerTypeOK ==
  /\ job \in {"none", "running", "degraded", "succeeded"}
  /\ scope \subseteq Services
  /\ step \in [Services -> {"pending", "running", "succeeded", "failed"}]
  /\ phase \in [Services -> Phases]

StoreTypeOK ==
  /\ record \in {"ready", "provisioning", "degraded"}
  /\ bound \in [Services -> {"old", "new"}]
  /\ canonicalKey \in [Services -> {"old", "new", "dead"}]
  /\ stagingKey \in [Services -> {"none", "live", "dead"}]
  /\ canonical \in [Services -> {"absent", "old", "renaming", "new"}]
  /\ staging \in [Services -> {"absent", "restoring", "ready", "extended"}]
  /\ role \in [Services -> {"none", "unsaved", "saved"}]

ProcessTypeOK ==
  /\ pc \in Labels
  /\ cur \in Services \cup {NoService}
  /\ visited \subseteq Services
  /\ failed \in BOOLEAN
  /\ cancelled \in BOOLEAN

TypeOK ==
  /\ LedgerTypeOK /\ StoreTypeOK /\ ProcessTypeOK
  /\ outage \in {"none", "some", "over"}

Init ==
  /\ job = "none"
  /\ scope = {}
  /\ step = [s \in Services |-> "pending"]
  /\ phase = [s \in Services |-> "planned"]
  /\ record = "ready"
  /\ bound = [s \in Services |-> "old"]
  /\ canonicalKey = [s \in Services |-> "old"]
  /\ stagingKey = [s \in Services |-> "none"]
  /\ canonical = [s \in Services |-> "old"]
  /\ staging = [s \in Services |-> "absent"]
  /\ role = [s \in Services |-> "none"]
  /\ pc = "idle" /\ cur = NoService /\ visited = {}
  /\ failed = FALSE /\ cancelled = FALSE
  /\ outage = "none"

-----------------------------------------------------------------------------
(* Control: how a step of pull_service continues.                          *)

Unresolved == job \in {"running", "degraded"}

Goto(label) ==
  /\ pc' = label
  /\ UNCHANGED <<cur, visited, failed, cancelled>>

(* A fault of the provider, the network or the host. *)
Fault == outage # "over" /\ outage' = "some"

(* The service's step ends with an error, which is appended to the ledger;  *)
(* an interruption also ends the loop over the services.                    *)
FailStep(label) ==
  /\ step' = [step EXCEPT ![cur] = "failed"]
  /\ failed' = TRUE
  /\ visited' = visited \cup {cur}
  /\ cur' = NoService
  /\ pc' = label
  /\ UNCHANGED <<job, scope, phase, cancelled>>

(* A call that took effect: its answer arrives, or is lost and the call     *)
(* counts as failed.                                                        *)
Answer(label) ==
  \/ Goto(label) /\ UNCHANGED <<ledger, outage>>
  \/ Fault /\ FailStep("next")

(* Append a snapshot with the step's new phase. *)
Checkpoint(ph, label) ==
  /\ phase' = [phase EXCEPT ![cur] = ph]
  /\ Goto(label)
  /\ UNCHANGED <<job, scope, step, state, keys, provider, outage>>

(* pull_service takes up a step at the place its checkpoint ph says. *)
EnterAt(ph) ==
  \/ ph \in {"planned", "staged"} /\ pc' = "find_staging"
  \/ ph = "credentialed" /\ pc' = "delete_old"
  \/ ph = "old_deleted" /\ pc' = "rename"
  \/ ph = "renamed" /\ pc' = "await_canonical"
  \/ ph \in {"swapped", "complete"} /\ pc' = "transfer"

(* Mistake: the rename of the staging branch checks for cancellation too. *)
InterruptibleAtRename(label) ==
  label \in {"find_staging", "restore", "await_staging", "ensure_role", "replay_extensions",
             "delete_old", "rename", "await_canonical", "transfer"}

(* cancellation.check() returns the interruption here ... *)
InterruptibleAt(label) ==
  \/ label \in {"find_staging", "restore", "await_staging", "ensure_role",
                "replay_extensions", "await_canonical", "transfer"}
  \/ label = "delete_old" /\ canonical[cur] # "absent"

(* ... and lets the operation pass here. *)
Uninterrupted == ~(cancelled /\ InterruptibleAt(pc))

-----------------------------------------------------------------------------
(* Commands.                                                               *)

(* A new pull: the environment must be ready and own no unresolved lineage. *)
(* The job's id names a staging branch and a staging key nothing has used.  *)
(* What is served now is the old data of this refresh.                      *)
StartPull(chosen) ==
  /\ pc = "idle"
  /\ ~Unresolved
  /\ record = "ready"
  /\ job' = "running"
  /\ scope' = chosen
  /\ step' = [s \in Services |-> "pending"]
  /\ phase' = [s \in Services |-> "planned"]
  /\ canonical' = [s \in Services |-> IF canonical[s] = "new" THEN "old" ELSE canonical[s]]
  /\ canonicalKey' = [s \in Services |-> "old"]
  /\ bound' = [s \in Services |-> "old"]
  /\ role' = [s \in Services |-> "none"]
  /\ Goto("open_record")
  /\ UNCHANGED <<record, stagingKey, staging, outage>>

(* Mistake: a rerun starts the lineage's steps over. *)
ResumeAnew ==
  /\ pc = "idle"
  /\ Unresolved
  /\ job' = "running"
  /\ step' = [s \in Services |-> "pending"]
  /\ phase' = [s \in Services |-> "planned"]
  /\ Goto("open_record")
  /\ UNCHANGED <<scope, state, keys, provider, outage>>

(* `pull` again, or `job resume`: the unresolved lineage is taken up as it  *)
(* is checkpointed.                                                         *)
Resume ==
  /\ pc = "idle"
  /\ Unresolved
  /\ job' = "running"
  /\ Goto("open_record")
  /\ UNCHANGED <<scope, step, phase, state, keys, provider, outage>>

(* The state file records that the environment is being worked on. *)
OpenRecord ==
  /\ pc = "open_record"
  /\ record' = "provisioning"
  /\ Goto("next")
  /\ UNCHANGED <<ledger, bound, keys, provider, outage>>

(* The loop over the selected services: a succeeded step is skipped; a      *)
(* cancelled command begins a step only to repair a swap it left half done. *)
SkipSucceeded(s) ==
  /\ pc = "next"
  /\ s \in scope \ visited
  /\ step[s] = "succeeded"
  /\ visited' = visited \cup {s}
  /\ UNCHANGED <<ledger, state, keys, provider, pc, cur, failed, cancelled, outage>>

BeginStep(s) ==
  /\ pc = "next"
  /\ s \in scope \ visited
  /\ step[s] # "succeeded"
  /\ cancelled => phase[s] \in {"credentialed", "old_deleted"}
  /\ step' = [step EXCEPT ![s] = "running"]
  /\ cur' = s
  /\ EnterAt(phase[s])
  /\ UNCHANGED <<job, scope, phase, state, keys, provider, visited, failed, cancelled, outage>>

RefuseStep(s) ==
  /\ pc = "next"
  /\ s \in scope \ visited
  /\ step[s] # "succeeded"
  /\ cancelled /\ phase[s] \notin {"credentialed", "old_deleted"}
  /\ failed' = TRUE
  /\ visited' = scope       \* break
  /\ UNCHANGED <<ledger, state, keys, provider, pc, cur, cancelled, outage>>

(* The verdict is saved in the state file ... *)
SaveVerdict ==
  /\ pc = "next"
  /\ scope \subseteq visited
  /\ failed' = (failed \/ \E s \in scope : step[s] # "succeeded")
  /\ record' = IF failed' THEN "degraded" ELSE "ready"
  /\ pc' = "settle"
  /\ UNCHANGED <<ledger, bound, keys, provider, cur, visited, cancelled, outage>>

ProcessEnds ==
  /\ pc' = "idle" /\ cur' = NoService /\ visited' = {}
  /\ failed' = FALSE /\ cancelled' = FALSE

(* Mistake: the status JobStatus::Failed, which no code looks for, is used. *)
SettleFailed ==
  /\ pc = "settle"
  /\ job' = IF failed THEN "failed" ELSE "succeeded"
  /\ ProcessEnds
  /\ UNCHANGED <<scope, step, phase, state, keys, provider, outage>>

(* ... and then in the ledger. *)
Settle ==
  /\ pc = "settle"
  /\ job' = IF failed THEN "degraded" ELSE "succeeded"
  /\ ProcessEnds
  /\ UNCHANGED <<scope, step, phase, state, keys, provider, outage>>

-----------------------------------------------------------------------------
(* pull_service: prepare the staging branch.                               *)

(* Mistake: a step that was checkpointed as staged needs no role any more. *)
FindStagingWithRole ==
  /\ pc = "find_staging"
  /\ Uninterrupted
  /\ \/ staging[cur] = "absent" /\ phase[cur] = "planned" /\ Goto("restore")
     \/ /\ staging[cur] \in {"ready", "extended"}
        /\ Goto(IF phase[cur] = "planned" THEN "mark_staged" ELSE "mark_credentialed")
  /\ UNCHANGED <<ledger, state, keys, provider, outage>>

FindStaging ==
  /\ pc = "find_staging"
  /\ Uninterrupted
  /\ \/ /\ staging[cur] = "absent" /\ phase[cur] = "planned"
        /\ Goto("restore") /\ UNCHANGED ledger
     \/ /\ staging[cur] = "absent" /\ phase[cur] # "planned"
        /\ FailStep("next")                        \* pull_staging_branch_missing
     \/ /\ staging[cur] \in {"ready", "extended"}
        /\ Goto(IF phase[cur] = "planned" THEN "mark_staged" ELSE "ensure_role")
        /\ UNCHANGED ledger
  /\ UNCHANGED <<state, keys, provider, outage>>

RestoreStaging ==
  /\ pc = "restore"
  /\ Uninterrupted
  /\ staging' = [staging EXCEPT ![cur] = "restoring"]
  /\ Answer("await_staging")
  /\ UNCHANGED <<state, keys, canonical, role>>

AwaitStaging ==
  /\ pc = "await_staging"
  /\ Uninterrupted
  /\ staging[cur] = "ready"
  /\ Goto("mark_staged")
  /\ UNCHANGED <<ledger, state, keys, provider, outage>>

MarkStaged == pc = "mark_staged" /\ Checkpoint("staged", "ensure_role")

(* ensure_pull_role: stored URLs are kept if the role is there; a role      *)
(* whose one-time password was not stored is deleted and created anew.      *)
EnsureRole ==
  /\ pc = "ensure_role"
  /\ Uninterrupted
  /\ \/ /\ stagingKey[cur] # "none" /\ role[cur] # "none"
        /\ Goto("replay_extensions")
        /\ UNCHANGED <<ledger, role, stagingKey, outage>>
     \/ /\ stagingKey[cur] # "none" /\ role[cur] = "none"
        /\ FailStep("next")                        \* staging_role_missing
        /\ UNCHANGED <<role, stagingKey, outage>>
     \/ /\ stagingKey[cur] = "none" /\ role[cur] # "none"
        /\ role' = [role EXCEPT ![cur] = "none"]
        /\ Answer("create_role")
        /\ UNCHANGED stagingKey
     \/ /\ stagingKey[cur] = "none" /\ role[cur] = "none"
        /\ Goto("create_role")
        /\ UNCHANGED <<ledger, role, stagingKey, outage>>
  /\ UNCHANGED <<state, canonicalKey, canonical, staging>>

(* The password is returned once, in the answer.  URLs of an earlier role   *)
(* no longer open anything.                                                 *)
CreateRole ==
  /\ pc = "create_role"
  /\ role' = [role EXCEPT ![cur] = "unsaved"]
  /\ stagingKey' = [stagingKey EXCEPT ![cur] = IF @ = "live" THEN "dead" ELSE @]
  /\ Answer("store_staging_key")
  /\ UNCHANGED <<state, canonicalKey, canonical, staging>>

(* Mistake: the base's extensions are not replayed. *)
StoreStagingKeyOnly ==
  /\ pc = "store_staging_key"
  /\ stagingKey' = [stagingKey EXCEPT ![cur] = "live"]
  /\ role' = [role EXCEPT ![cur] = "saved"]
  /\ Answer("mark_credentialed")
  /\ UNCHANGED <<state, canonicalKey, canonical, staging>>

StoreStagingKey ==
  /\ pc = "store_staging_key"
  /\ stagingKey' = [stagingKey EXCEPT ![cur] = "live"]
  /\ role' = [role EXCEPT ![cur] = "saved"]
  /\ Answer("replay_extensions")
  /\ UNCHANGED <<state, canonicalKey, canonical, staging>>

(* psql logs in with the staging URLs. *)
ReplayExtensions ==
  /\ pc = "replay_extensions"
  /\ Uninterrupted
  /\ \/ /\ stagingKey[cur] = "live"
        /\ staging' = [staging EXCEPT ![cur] = "extended"]
        /\ Answer("mark_credentialed")
     \/ /\ stagingKey[cur] # "live"
        /\ FailStep("next")
        /\ UNCHANGED <<staging, outage>>
  /\ UNCHANGED <<state, keys, canonical, role>>

(* The checkpoint is followed by a cancellation check, which delete_old's   *)
(* own check makes: the canonical branch is there when a step gets here.    *)
MarkCredentialed == pc = "mark_credentialed" /\ Checkpoint("credentialed", "delete_old")

-----------------------------------------------------------------------------
(* pull_service: swap forward.                                             *)

DeleteOld ==
  /\ pc = "delete_old"
  /\ Uninterrupted
  /\ \/ /\ staging[cur] = "absent"
        /\ FailStep("next")                        \* pull_staging_branch_missing
        /\ UNCHANGED <<canonical, outage>>
     \/ /\ staging[cur] # "absent"
        /\ IF canonical[cur] = "absent"
           THEN Goto("mark_old_deleted") /\ UNCHANGED <<ledger, canonical, outage>>
           ELSE /\ canonical' = [canonical EXCEPT ![cur] = "absent"]
                /\ Answer("mark_old_deleted")
  /\ UNCHANGED <<state, keys, staging, role>>

MarkOldDeleted == pc = "mark_old_deleted" /\ Checkpoint("old_deleted", "rename")

(* Mistake: a rename whose answer was lost is not recognised as done. *)
RenameOnce ==
  /\ pc = "rename"
  /\ \/ /\ staging[cur] # "absent"
        /\ staging' = [staging EXCEPT ![cur] = "absent"]
        /\ canonical' = [canonical EXCEPT ![cur] = "renaming"]
        /\ Answer("mark_renamed")
     \/ /\ staging[cur] = "absent"
        /\ FailStep("next")
        /\ UNCHANGED <<canonical, staging, outage>>
  /\ UNCHANGED <<state, keys, role>>

Rename ==
  /\ pc = "rename"
  /\ \/ /\ staging[cur] # "absent"
        /\ staging' = [staging EXCEPT ![cur] = "absent"]
        /\ canonical' = [canonical EXCEPT ![cur] = "renaming"]
        /\ Answer("mark_renamed")
     \/ /\ staging[cur] = "absent" /\ canonical[cur] # "absent"
        /\ Goto("mark_renamed")
        /\ UNCHANGED <<ledger, canonical, staging, outage>>
     \/ /\ staging[cur] = "absent" /\ canonical[cur] = "absent"
        /\ FailStep("next")                        \* pull_swap_missing_branches
        /\ UNCHANGED <<canonical, staging, outage>>
  /\ UNCHANGED <<state, keys, role>>

MarkRenamed == pc = "mark_renamed" /\ Checkpoint("renamed", "await_canonical")

AwaitCanonical ==
  /\ pc = "await_canonical"
  /\ Uninterrupted
  /\ canonical[cur] \in {"old", "new"}
  /\ Checkpoint("swapped", "transfer")

-----------------------------------------------------------------------------
(* pull_service: hand the staging credentials over, and bind.              *)

(* Mistake: the URLs stored under the canonical key are preferred. *)
TransferCanonical ==
  /\ pc = "transfer"
  /\ Uninterrupted
  /\ Answer("drop_staging_key")
  /\ UNCHANGED <<state, keys, provider>>

Transfer ==
  /\ pc = "transfer"
  /\ Uninterrupted
  /\ \/ /\ stagingKey[cur] # "none"
        /\ canonicalKey' = [canonicalKey EXCEPT ![cur] =
                              IF stagingKey[cur] = "live" THEN "new" ELSE "dead"]
     \/ /\ stagingKey[cur] = "none"       \* database_urls_or_fallback
        /\ UNCHANGED canonicalKey
  /\ Answer("drop_staging_key")
  /\ UNCHANGED <<state, stagingKey, provider>>

DropStagingKey ==
  /\ pc = "drop_staging_key"
  /\ stagingKey' = [stagingKey EXCEPT ![cur] = "none"]
  /\ Answer("bind")
  /\ UNCHANGED <<state, canonicalKey, provider>>

Bind ==
  /\ pc = "bind"
  /\ \/ /\ role[cur] # "none"
        /\ bound' = [bound EXCEPT ![cur] = "new"]
        /\ Goto("mark_complete")
        /\ UNCHANGED ledger
     \/ /\ role[cur] = "none"
        /\ FailStep("next")                        \* planetscale_role_not_found
        /\ UNCHANGED bound
  /\ UNCHANGED <<record, keys, provider, outage>>

MarkComplete ==
  /\ pc = "mark_complete"
  /\ step' = [step EXCEPT ![cur] = "succeeded"]
  /\ phase' = [phase EXCEPT ![cur] = "complete"]
  /\ visited' = visited \cup {cur}
  /\ cur' = NoService
  /\ pc' = "next"
  /\ UNCHANGED <<job, scope, state, keys, provider, failed, cancelled, outage>>

-----------------------------------------------------------------------------
(* What can go wrong, and what the provider does by itself.                *)

(* A provider call, a credential write or psql fails without effect, a wait *)
(* for the provider runs into its time limit.                               *)
CallFails ==
  /\ pc \in ServiceLabels \ {"mark_staged", "mark_credentialed", "mark_old_deleted",
                             "mark_renamed", "mark_complete"}
  /\ Fault
  /\ FailStep("next")
  /\ UNCHANGED <<state, keys, provider>>

Interrupt ==
  /\ pc \in ServiceLabels
  /\ cancelled /\ InterruptibleAt(pc)
  /\ step' = [step EXCEPT ![cur] = "failed"]
  /\ failed' = TRUE
  /\ visited' = scope       \* break
  /\ cur' = NoService
  /\ pc' = "next"
  /\ UNCHANGED <<job, scope, phase, state, keys, provider, cancelled, outage>>

RequestCancel ==
  /\ pc # "idle"
  /\ ~cancelled
  /\ outage # "over"
  /\ cancelled' = TRUE
  /\ UNCHANGED <<ledger, state, keys, provider, pc, cur, visited, failed, outage>>

Crash ==
  /\ pc # "idle"
  /\ Fault
  /\ ProcessEnds
  /\ UNCHANGED <<ledger, state, keys, provider>>

RestoreCompletes(s) ==
  /\ staging[s] = "restoring"
  /\ staging' = [staging EXCEPT ![s] = "ready"]
  /\ UNCHANGED <<ledger, state, keys, canonical, role, process, outage>>

RenameCompletes(s) ==
  /\ canonical[s] = "renaming"
  /\ canonical' = [canonical EXCEPT ![s] = "new"]
  /\ UNCHANGED <<ledger, state, keys, staging, role, process, outage>>

OutageEnds ==
  /\ outage # "over"
  /\ outage' = "over"
  /\ UNCHANGED <<ledger, state, keys, provider, process>>

-----------------------------------------------------------------------------
ServiceStep ==
  \/ FindStaging \/ RestoreStaging \/ AwaitStaging \/ MarkStaged
  \/ EnsureRole \/ CreateRole \/ StoreStagingKey \/ ReplayExtensions \/ MarkCredentialed
  \/ DeleteOld \/ MarkOldDeleted \/ Rename \/ MarkRenamed \/ AwaitCanonical
  \/ Transfer \/ DropStagingKey \/ Bind \/ MarkComplete
  \/ Interrupt

CommandStep ==
  \/ OpenRecord \/ SaveVerdict \/ Settle
  \/ \E s \in Services : SkipSucceeded(s) \/ BeginStep(s) \/ RefuseStep(s)

ProviderStep == \E s \in Services : RestoreCompletes(s) \/ RenameCompletes(s)

Next ==
  \/ \E chosen \in (SUBSET Services) \ {{}} : StartPull(chosen)
  \/ Resume
  \/ CommandStep
  \/ ServiceStep
  \/ ProviderStep
  \/ CallFails \/ RequestCancel \/ Crash \/ OutageEnds

Spec == Init /\ [][Next]_vars

(* The command runs on, the provider completes what it accepted, and the    *)
(* user reruns an unresolved job, as the error of a degraded pull says.     *)
(* Nobody is obliged to start a pull, to cancel one, or to fail.            *)
FairSpec ==
  /\ Spec
  /\ WF_vars(CommandStep) /\ WF_vars(ServiceStep)
  /\ WF_vars(ProviderStep)
  /\ WF_vars(Resume)

-----------------------------------------------------------------------------
(* The copy of s that may replace its data: restored, with the base's       *)
(* extensions, and with a role whose URLs are stored.                       *)
UsableCopy(s) ==
  staging[s] = "extended" /\ role[s] = "saved" /\ stagingKey[s] = "live"

(* SAFETY.  At every instant -- whatever crashed, failed or was cancelled   *)
(* before it -- each service has its branch, or the copy that replaces it   *)
(* is complete and a stored credential opens it (the deletion of the        *)
(* canonical branch in pull_service's "credentialed" phase).                *)
DataSurvives == \A s \in Services : canonical[s] # "absent" \/ UsableCopy(s)

(* SAFETY.  Whenever the runtime may be started on the environment (the     *)
(* record is ready and no unresolved job blocks `repobox run`), the stored  *)
(* URLs open the branch that is there, the binding names its role, and the  *)
(* refresh has left neither a staging branch nor a staging key behind.      *)
OpenEnvironmentIsCoherent ==
  record = "ready" /\ ~Unresolved =>
    \A s \in Services :
      /\ canonical[s] = canonicalKey[s]
      /\ bound[s] = canonicalKey[s]
      /\ staging[s] = "absent" /\ stagingKey[s] = "none"
      /\ s \in scope => job = "none" \/ canonical[s] = "new"

(* SAFETY.  As long as nothing but cancellation stops commands, none of     *)
(* them returns in the middle of a swap: docs/agent-contract.md, "Once an   *)
(* irreversible branch swap begins, Repobox finishes the current            *)
(* consistency phase, checkpoints it, and stops".                           *)
CancellationIsNotMidSwap ==
  pc = "idle" /\ outage = "none" =>
    \A s \in Services : canonical[s] # "absent" /\ phase[s] # "old_deleted"

(* SAFETY (action).  A resumed pull does not touch what a service that      *)
(* succeeded in an earlier attempt of the same job holds.                   *)
SucceededServicesAreKept ==
  [][\A s \in scope :
       step[s] = "succeeded" /\ job # "succeeded" =>
         UNCHANGED <<canonical[s], staging[s], role[s], canonicalKey[s], phase[s]>>]_vars

(* REFINEMENT.  The pull implements ForwardSwap: the runtime may be started  *)
(* when the record is ready and no job is unresolved, and a branch that is   *)
(* still being renamed serves nothing else than the new data.                *)
Open == record = "ready" /\ ~Unresolved

Serving(s) == IF canonical[s] = "old" THEN "old"
              ELSE IF canonical[s] = "absent" THEN "none" ELSE "new"

Replacement(s) == IF staging[s] = "absent" THEN "absent"
                  ELSE IF UsableCopy(s) THEN "usable" ELSE "partial"

Forward == INSTANCE ForwardSwap WITH
  open <- Open,
  selected <- scope,
  serving <- [s \in Services |-> Serving(s)],
  replacement <- [s \in Services |-> Replacement(s)],
  access <- canonicalKey

ForwardSpec == Forward!Spec

(* LIVENESS.  Once calls and hosts stop failing and nobody cancels, a pull  *)
(* that is rerun completes, from whatever point it was left at.             *)
PullCompletes == outage = "over" /\ Unresolved ~> ~Unresolved /\ record = "ready"
==============================================================================
