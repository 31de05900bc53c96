------------------------ MODULE ConfiguredEnvironment -----------------------
(***************************************************************************)
(* The document .repobox.yml against what one environment holds.  The      *)
(* document may be edited at any time, also while a command runs, and may  *)
(* move a service to another database, rename it, add or drop it, or hand  *)
(* its variables to another service.  Bindings, checkpoints and stored     *)
(* URLs keep what an earlier document said; `env create`, `pull`, `run`    *)
(* and `job resume` compare the two before they act, and `env delete` goes *)
(* by the older ones.  The steps of a service are those of                 *)
(* EnvironmentLifecycle in less detail: of a refresh, the branch that is   *)
(* swapped in, its role, its URLs and the binding.                         *)
(***************************************************************************)
CONSTANTS
  Names, Databases,    \* of services, of the provider's databases
  NoDatabase,
  Documents,           \* what .repobox.yml may say, before it is validated
  Dependencies,        \* the Compose project: a service's depends_on
  OwnVariables         \* the variables each of its services sets itself

VARIABLES
  config,    \* the document in force
  record,    \* status of the environment's record
  bindings,  \* in the record: the database of each service
  kind, status, \* of the create or pull job no command has settled
  steps,     \* its checkpoints: database and phase of each service
  branches,  \* at the provider: the databases with this environment's branch
  roles,     \* and its roles, by service
  keys,      \* in the credential store: whose URLs each service's key holds
  pc, loaded, todo, cur, failed, \* of the command in progress, and its document
  starting,  \* it is a run
  targets,   \* what a delete has still to delete
  keep       \* --keep-state

job == <<kind, status, steps>>
provider == <<branches, roles>>
command == <<pc, loaded, todo, cur, failed, starting, targets, keep>>
vars == <<config, record, bindings, job, provider, keys, command>>

Unloaded == <<>>
Phases == {"none", "planned", "complete"}
NoSteps == [s \in Names |-> [database |-> NoDatabase, phase |-> "none"]]

TypeOK ==
  /\ config \in Documents /\ loaded \in Documents \cup {Unloaded}
  /\ record \in {"absent", "provisioning", "degraded", "ready"}
  /\ bindings \in [Names -> Databases \cup {NoDatabase}]
  /\ kind \in {"create", "pull"} /\ status \in {"none", "running", "degraded", "canceled"}
  /\ steps \in [Names -> [database : Databases \cup {NoDatabase}, phase : Phases]]
  /\ branches \subseteq Databases /\ roles \subseteq branches \X Names
  /\ keys \in [Names -> Databases \cup {NoDatabase}]
  /\ pc \in {"idle", "open", "next", "store", "bind", "mark", "settle", "start",
             "delete", "drop_key", "forget"}
  /\ todo \subseteq Names /\ cur \subseteq Names /\ failed \in BOOLEAN
  /\ starting \in BOOLEAN /\ keep \in BOOLEAN
  /\ targets \subseteq Names \X Databases

-----------------------------------------------------------------------------
(* What the commands ask of a document.                                    *)

(* RepoboxConfig::validate: no two services share a Compose service, and no *)
(* variable is assigned twice.                                             *)
Valid(d) ==
  /\ \A s \in DOMAIN d : d[s].pooled # d[s].direct
  /\ \A s, t \in DOMAIN d : s # t =>
       /\ d[s].local # d[t].local
       /\ {d[s].pooled, d[s].direct} \cap {d[t].pooled, d[t].direct} = {}

(* Mistake: of a binding only its being there is looked at. *)
AgreesLoosely(d, required) == required => \A s \in DOMAIN d : bindings[s] # NoDatabase

(* validate_selected_binding_identity; with all required, also the checks   *)
(* of environment_variables and incomplete_environment_services.           *)
Agrees(d, required) ==
  \A s \in DOMAIN d :
    \/ bindings[s] = d[s].database
    \/ bindings[s] = NoDatabase /\ ~required

Scope == {s \in Names : steps[s].phase # "none"}

(* selected_services: a service that the document does not name is an error. *)
Selected(d, scope) == scope \subseteq DOMAIN d   \* service_not_found

(* validate_resumable_job, job_scope_matches. *)
Resumable(k, scope) == kind = k /\ status \in {"running", "degraded"} /\ scope = Scope

(* prepare_create_job_resources, of a job that is resumed. *)
MayResume(d, scope) == \A s \in scope : steps[s].database = d[s].database

(* prepare_pull_job_resources: the same of a pull, which does not look at   *)
(* the bindings again.                                                     *)
MayResumePull(d, scope) == \A s \in scope : steps[s].database = d[s].database

(* environment_deletion_targets: bindings and checkpoints, never the        *)
(* document.                                                               *)
Targets ==
  {t \in Names \X Databases : bindings[t[1]] = t[2] \/ steps[t[1]].database = t[2]}

-----------------------------------------------------------------------------
Init ==
  /\ config \in {d \in Documents : Valid(d)}
  /\ record = "absent" /\ bindings = [s \in Names |-> NoDatabase]
  /\ kind = "create" /\ status = "none" /\ steps = NoSteps
  /\ branches = {} /\ roles = {} /\ keys = [s \in Names |-> NoDatabase]
  /\ pc = "idle" /\ loaded = Unloaded /\ todo = {} /\ cur = {} /\ failed = FALSE
  /\ starting = FALSE /\ targets = {} /\ keep = FALSE

Goto(label) == pc' = label /\ UNCHANGED <<loaded, todo, cur, failed, starting, targets, keep>>

ProcessEnds ==
  /\ pc' = "idle" /\ todo' = {} /\ cur' = {} /\ failed' = FALSE
  /\ starting' = FALSE /\ targets' = {} /\ keep' = FALSE /\ loaded' = Unloaded

(* config update, or an editor: a document that is not valid is not loaded. *)
(* Of the commands in progress only a run loads the document again.         *)
Update(d) ==
  /\ pc = "idle" \/ starting
  /\ Valid(d) /\ d # config /\ config' = d
  /\ UNCHANGED <<record, bindings, job, provider, keys, command>>

(* resumable_job: the lineage of the command, a new one or the unresolved.  *)
NewJob(k, d, scope) ==
  /\ status = "none" /\ kind' = k
  /\ steps' = [s \in Names |-> IF s \in scope
                               THEN [database |-> d[s].database, phase |-> "planned"]
                               ELSE NoSteps[s]]
  /\ todo' = scope

(* The lineage that is unresolved, if it is of this kind and scope. *)
OldJob(k, scope, remaining) ==
  /\ Resumable(k, scope) /\ todo' = remaining
  /\ UNCHANGED <<kind, steps>>

Begins(d) ==
  /\ status' = "running" /\ loaded' = d /\ pc' = "open"
  /\ UNCHANGED <<config, record, bindings, provider, keys, cur, failed, targets, keep>>

(* ensure_with_job: every step of a create is done again.                  *)
Take(d, scope) ==
  /\ Agrees([s \in scope |-> d[s]], FALSE)
  /\ \/ NewJob("create", d, scope)
     \/ OldJob("create", scope, scope) /\ MayResume(d, scope)
  /\ Begins(d)

(* pull_with_job: a new one asks for a ready environment and all bindings;  *)
(* of a resumed one the steps that succeeded are left alone.               *)
TakePull(d, scope) ==
  /\ \/ /\ record = "ready" /\ Agrees([s \in scope |-> d[s]], TRUE)
        /\ NewJob("pull", d, scope)
     \/ /\ record # "absent" /\ MayResumePull(d, scope)
        /\ OldJob("pull", scope, {s \in scope : steps[s].phase # "complete"})
  /\ Begins(d)

Create == pc = "idle" /\ Take(config, DOMAIN config) /\ UNCHANGED starting

(* pull, with --database for some of the services or without.              *)
Pull(scope) == pc = "idle" /\ Selected(config, scope) /\ TakePull(config, scope) /\ UNCHANGED starting

JobResume ==
  /\ pc = "idle" /\ status # "none" /\ Selected(config, Scope)
  /\ IF kind = "create" THEN Take(config, Scope) ELSE TakePull(config, Scope)
  /\ UNCHANGED starting

JobCancel ==
  /\ pc = "idle" /\ status \in {"running", "degraded"}
  /\ IF \A s \in Scope : steps[s].phase = "complete"     \* no residual checkpoint
     THEN status' = "none" /\ steps' = NoSteps
     ELSE status' = "canceled" /\ UNCHANGED steps
  /\ UNCHANGED <<config, record, bindings, kind, provider, keys, command>>

(* run: the guard, and the provisioning of an environment that is not ready. *)
Run ==
  /\ pc = "idle" /\ status = "none"
  /\ IF record = "ready"
     THEN /\ pc' = "start" /\ starting' = TRUE
          /\ UNCHANGED <<config, record, bindings, job, provider, keys, loaded, todo, cur,
                         failed, targets, keep>>
     ELSE Take(config, DOMAIN config) /\ starting' = TRUE

-----------------------------------------------------------------------------
(* ensure_with_job, provision_service; pull_with_job, pull_service.        *)

OpenRecord ==
  /\ pc = "open" /\ record' = "provisioning" /\ Goto("next")
  /\ UNCHANGED <<config, bindings, job, provider, keys>>

(* The fast path, with stored URLs and a role of the service's name; or the *)
(* branch is restored where it is missing and a role is made anew, which    *)
(* may fail with the old role gone.                                        *)
Provision(s) ==
  LET d == loaded[s].database
      fast == d \in branches /\ keys[s] # NoDatabase /\ <<d, s>> \in roles IN
  /\ pc = "next" /\ s \in todo /\ kind = "create"
  /\ todo' = todo \ {s} /\ cur' = {s}
  /\ \/ fast /\ pc' = "bind" /\ UNCHANGED provider
     \/ /\ ~fast /\ pc' = "store"
        /\ branches' = branches \cup {d}
        /\ roles' \in {roles \cup {<<d, s>>}, roles \ {<<d, s>>}}
  /\ UNCHANGED <<config, record, bindings, job, keys, loaded, failed, starting, targets,
                 keep>>

(* pull_service up to the swap: a branch takes the place of the one there,  *)
(* if there is one, with a role of its own.                                *)
Refresh(s) ==
  LET d == loaded[s].database IN
  /\ pc = "next" /\ s \in todo /\ kind = "pull"
  /\ todo' = todo \ {s} /\ cur' = {s} /\ pc' = "store"
  /\ branches' = branches \cup {d}
  /\ roles' = {r \in roles : r[1] # d} \cup {<<d, s>>}
  /\ UNCHANGED <<config, record, bindings, job, keys, loaded, failed, starting, targets,
                 keep>>

StoreKey(s) ==
  /\ pc = "store" /\ cur = {s} /\ <<loaded[s].database, s>> \in roles
  /\ keys' = [keys EXCEPT ![s] = loaded[s].database]
  /\ Goto("bind")
  /\ UNCHANGED <<config, record, bindings, job, provider>>

Bind(s) ==
  /\ pc = "bind" /\ cur = {s}
  /\ bindings' = [bindings EXCEPT ![s] = loaded[s].database]
  /\ Goto("mark")
  /\ UNCHANGED <<config, record, job, provider, keys>>

MarkComplete(s) ==
  /\ pc = "mark" /\ cur = {s}
  /\ steps' = [steps EXCEPT ![s].phase = "complete"]
  /\ pc' = "next" /\ cur' = {}
  /\ UNCHANGED <<config, record, bindings, kind, status, provider, keys, loaded, todo,
                 failed, starting, targets, keep>>

StepFails ==
  /\ \/ pc = "next" /\ \E s \in todo : todo' = todo \ {s}
     \/ pc = "store" /\ UNCHANGED todo
  /\ pc' = "next" /\ cur' = {} /\ failed' = TRUE
  /\ UNCHANGED <<config, record, bindings, job, provider, keys, loaded, starting,
                 targets, keep>>

(* incomplete_environment_services looks at the whole document.            *)
SaveVerdict ==
  /\ pc = "next" /\ todo = {}
  /\ failed' = (failed \/ ~Agrees(loaded, TRUE))
  /\ record' = IF failed' THEN "degraded" ELSE "ready"
  /\ pc' = "settle"
  /\ UNCHANGED <<config, bindings, job, provider, keys, loaded, todo, cur, starting, targets,
                 keep>>

Settle ==
  /\ pc = "settle"
  /\ IF failed THEN status' = "degraded" /\ UNCHANGED steps
               ELSE status' = "none" /\ steps' = NoSteps
  /\ UNCHANGED kind
  /\ IF starting /\ ~failed THEN Goto("start") ELSE ProcessEnds
  /\ UNCHANGED <<config, record, bindings, provider, keys>>

-----------------------------------------------------------------------------
(* run_project: the document is loaded anew, its variables are collected    *)
(* and the Compose project is transformed.                                 *)

Mapped(d) == {d[s].local : s \in DOMAIN d}

(* environment_variables, in the order of the services: of two that assign  *)
(* one variable either may come last.                                      *)
EnvironmentVariables(d) ==
  LET assigned == {d[s].pooled : s \in DOMAIN d} \cup {d[s].direct : s \in DOMAIN d}
      last(v) == CHOOSE s \in DOMAIN d : v \in {d[s].pooled, d[s].direct}
  IN  [v \in assigned |->
         <<keys[last(v)], IF v = d[last(v)].direct THEN "direct" ELSE "pooled">>]

(* remove_dependencies. *)
Remaining(dependencies, removed) == dependencies \ removed

(* ComposeEnvironment::insert: what is injected takes precedence over what  *)
(* a service sets itself.                                                  *)
Inserted(own, injected) ==
  [v \in own \cup DOMAIN injected |->
     IF v \in DOMAIN injected THEN injected[v] ELSE <<NoDatabase, "own">>]

(* transform_project: mapped services go. *)
Transformed(d) ==
  [c \in DOMAIN Dependencies \ Mapped(d) |->
     [dependencies |-> Remaining(Dependencies[c], Mapped(d)),
      variables |-> Inserted(OwnVariables[c], EnvironmentVariables(d))]]

(* environment_variables; with it fails the run.                           *)
MayStart ==
  /\ record = "ready"                           \* environment_not_ready
  /\ Agrees(config, TRUE)                       \* environment_binding_config_mismatch
  /\ \A s \in DOMAIN config : keys[s] # NoDatabase   \* database_credentials_not_found

(* Containers are started with Transformed(config), or the run fails.      *)
Start ==
  /\ pc = "start" /\ ProcessEnds
  /\ UNCHANGED <<config, record, bindings, job, provider, keys>>

-----------------------------------------------------------------------------
(* EnvironmentManager::delete.                                             *)

Delete(keepState) ==
  /\ pc = "idle" /\ record # "absent" /\ (Targets # {} \/ status # "none")
  /\ pc' = "delete" /\ targets' = Targets /\ keep' = keepState
  /\ UNCHANGED <<config, record, bindings, job, provider, keys, loaded, todo, cur, failed,
                 starting>>

DeleteBranch(t) ==
  /\ pc = "delete" /\ t \in targets
  /\ branches' = branches \ {t[2]}
  /\ roles' = {r \in roles : r[1] # t[2]}
  /\ targets' = targets \ {t} /\ cur' = {t[1]} /\ pc' = "drop_key"
  /\ UNCHANGED <<config, record, bindings, job, keys, loaded, todo, failed, starting, keep>>

DropKey(s) ==
  /\ pc = "drop_key" /\ cur = {s}
  /\ keys' = [keys EXCEPT ![s] = NoDatabase]
  /\ cur' = {} /\ pc' = "delete"
  /\ UNCHANGED <<config, record, bindings, job, provider, loaded, todo, failed, starting,
                 targets, keep>>

(* All targets are gone: the jobs are reconciled, then the record removed.  *)
Reconcile ==
  /\ pc = "delete" /\ targets = {}
  /\ status' = "none" /\ steps' = NoSteps /\ UNCHANGED kind
  /\ Goto("forget")
  /\ UNCHANGED <<config, record, bindings, provider, keys>>

Forget ==
  /\ pc = "forget"
  /\ IF keep THEN UNCHANGED <<record, bindings>>
     ELSE record' = "absent" /\ bindings' = [s \in Names |-> NoDatabase]
  /\ ProcessEnds
  /\ UNCHANGED <<config, job, provider, keys>>

(* The process stops, or a delete meets a failure.                         *)
Crash ==
  /\ pc # "idle" /\ ProcessEnds
  /\ UNCHANGED <<config, record, bindings, job, provider, keys>>

Next ==
  \/ \E d \in Documents : Update(d)
  \/ Create \/ JobResume \/ JobCancel \/ Run
  \/ \E scope \in SUBSET Names \ {{}} : Pull(scope)
  \/ OpenRecord \/ StepFails \/ SaveVerdict \/ Settle \/ Start
  \/ \E s \in Names : Provision(s) \/ Refresh(s) \/ StoreKey(s) \/ Bind(s) \/ MarkComplete(s) \/ DropKey(s)
  \/ \E k \in BOOLEAN : Delete(k)
  \/ \E t \in targets : DeleteBranch(t)
  \/ Reconcile \/ Forget \/ Crash

Spec == Init /\ [][Next]_vars

-----------------------------------------------------------------------------
(* Properties.                                                             *)

(* Whatever was edited, created, refreshed and deleted before: each container that a  *)
(* run starts has under every variable of the document the URL of the       *)
(* database that the document names there, of the right kind, and depends   *)
(* on no mapped service.                                                   *)
UrlsReachTheirDatabase ==
  pc = "start" /\ MayStart =>
    LET containers == Transformed(config) IN
    \A c \in DOMAIN containers :
      /\ containers[c].dependencies \subseteq DOMAIN containers
      /\ \A s \in DOMAIN config :
           /\ containers[c].variables[config[s].pooled] = <<config[s].database, "pooled">>
           /\ containers[c].variables[config[s].direct] = <<config[s].database, "direct">>

(* No edit makes Repobox forget a branch or credentials: a delete finds     *)
(* each of them by a binding or a checkpoint.                              *)
NothingIsForgotten ==
  /\ \A d \in branches : \E s \in Names : <<s, d>> \in Targets
  /\ \A s \in Names : keys[s] # NoDatabase => \E d \in Databases : <<s, d>> \in Targets

EditsAreSafe == UrlsReachTheirDatabase /\ NothingIsForgotten
=============================================================================
