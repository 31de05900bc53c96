# A verification of repobox

Repobox gives every Git environment of a repository its own PlanetScale
Postgres branches: `env create` restores them from a backup and stores their
credentials, `pull` replaces their data, `env delete` removes them, `run`
starts the local services on them. Each of these commands is a sequence of
provider calls, credential writes, state-file writes and ledger appends, any of
which may fail or be the last one before a crash, and each must be resumable.
This directory holds TLA+ models of that logic, the TLC runs that check them and
the TLAPS proofs about them. Line numbers below refer to
`src/crates/repobox/src/environment.rs` unless another file is named.

## The system

| Component | State it keeps | Operations | What is hard about it |
|---|---|---|---|
| Environment refresh (`pull_with_job`, `pull_service`, `ensure_pull_role`) | phase of each service in the job's steps; two branches, one role and two credential keys per service | restore a staging branch, create its role, replay extensions, delete the canonical branch, rename, hand the credentials over, bind | forward-only swap; a crash or a lost answer anywhere; cancellation at some points only |
| Environment lifecycle (`ensure_with_job`, `provision_service`, `delete`, `resumable_job`, `environment_deletion_targets`; `jobs` in `app.rs`) | jobs and their checkpoints, the environment record and its bindings | create, delete (with or without `--keep-state`), resume, cancel | which command is accepted depends on what earlier, half-done commands left; ownership of billable branches is inferred from checkpoints |
| Job ledger (`repobox-core/src/jobs.rs`) | append-only file of job snapshots, the last one of a job counts | append, list, get | no lock; a running process and `job cancel` both append; torn lines |
| State store (`repobox-core/src/state.rs`) | one JSON file for all environments | load, save (temporary file and rename) | loaded at the start of a command and saved minutes later: lost updates between processes |
| Credential store (`credentials.rs`) | OS keyring, fallback file, evidence of which holds a key | store, read, remove | two writes that may fail separately, rollback that may fail |
| Local import (`import_local_service`, `copy_compose_database`, `stream_database_copy`) | temporary role, source container, two child processes | dump, restore, replay, back up, clean up | the race of dump, restore, copy and cancellation; cleanup of everything |
| Run and runtime gate (`run_project`, `pull` in `app.rs`) | whether the local services run | guard, provision, start, stop, restart | checks and starts are far apart; restart only after success |
| Graceful interruption (`main.rs`, `OperationCancellation`) | cancellation flag, 30 second limit | cancel, drop the operation | the operation is dropped inside any await |
| PlanetScale client (`client.rs`) | none | requests with up to a fixed number of retries, pagination | retry of what already took effect |
| Device login (`auth.rs`, `auth` in `app.rs`) | device code, interval, expiry; the token at the service and in the credential store | login, logout | slow_down and expiry; a token that lives and is stored nowhere |
| Terminal UI kernel (`tui/kernel.rs`, `tui/dashboard.rs`) | newest frame, writer thread | draw, flush, acknowledge | a change that comes while a frame is in flight; a terminal that fails |
| Compose driver (`driver.rs`, `model.rs`) | the containers | up, stop, restart, ps; transform the Compose project | containers keep the URLs they were created with |
| Configuration and identities (`config.rs`, `validate_*_identity`) | the document `.repobox.yml` | validate, load, compare with what an environment holds | edited between and during commands |
| CLI, output, initialisation, guides | none that outlives a command | parse, print, write a file | sequential; naming limits (63 characters) |

How they interact: `app.rs` builds an `EnvironmentManager` over the provider
client, the credential store, the state store and the job store, and awaits one
operation of it; `main.rs` races that operation against SIGINT/SIGTERM. The
operations communicate with later ones only through the four durable stores,
and with a concurrent process not at all.

What makes each correct: a refresh never gives data up without a complete and
accessible replacement, and what is offered to the runtime afterwards is
coherent; the lifecycle never loses sight of a branch or credential it made,
never runs an incomplete environment, and always offers a way on; the ledger
keeps a canceled job canceled; the state store keeps every process's updates;
the credential store behaves like one register over its two places; an import
leaves neither role nor container nor child behind, or says what remains; the
runtime runs only on what no refresh is replacing; a retry never turns what took
effect into a failure; a token that lives is stored or named; an edited document
leads no container to another database and hides no branch from a delete.

`PROJECT.json` lists every component and every hazard with its line.

## The modules

| Module | What it is |
|---|---|
| `ForwardSwap` | Abstract specification of a refresh: what is served, the copy being prepared, what the stored credential opens, and whether the environment is open to the runtime. |
| `PullSwap` | The refresh in detail, one action per provider call, credential write or ledger/state write. |
| `PullSwapProofs` | Inductive invariant of `PullSwap`, the safety theorems, and the proof that it implements `ForwardSwap`. |
| `EnvironmentLifecycle` | All commands on one environment, in any sequence, each of which may be stopped anywhere. |
| `MCEnvironmentLifecycle` | Its instance for TLC. |
| `EnvironmentLifecycleProofs` | Its inductive invariant and its safety theorems. |
| `ConcurrentCommands`, `MCConcurrentCommands` | Commands in several processes over the job ledger and the state file, one action per file access. |
| `ConcurrentCommandsProofs` | Its inductive invariant and its safety theorems. |
| `ImportCopy` | The import of a local database and what the process reports of it. |
| `ImportCopyProofs` | Its inductive invariant and its safety theorems. |
| `MCOperations` | `PullSwap`, `ImportCopy` and a small `EnvironmentLifecycle` in one run; an execution is of one of them. |
| `OperationsProofs` | The safety theorems of the import, carried over to that run. |
| `ConfiguredEnvironment` | One environment while its document is edited. |
| `ConfiguredEnvironmentProofs` | Its inductive invariant and its safety theorem, for any documents. |
| `LocalRuntime` | The local services under `run`, `stop`, `pull`, `job resume` and `service restart`. |
| `NativeChild` | The child process of a native runtime and the signals. |
| `ProviderRequest` | One request of the PlanetScale client with its retries. |
| `DeviceLogin` | `auth login`, `auth logout`. |
| `FrameKernel` | The dashboard's task and its writer thread. |
| `SecretRegister` | Abstract specification of the credential store: a register. |
| `CredentialStore` | Keyring, file and evidence, one action per call. |
| `CredentialStoreProofs` | Proof that `CredentialStore` implements `SecretRegister`. |
| `MCParts` | One instance of each of the seven modules from `ConfiguredEnvironment` to `CredentialStore`, for one run. |
| `PartsProofs` | An inductive invariant for each of the seven, and their safety theorems. |

### PullSwap

State. `job`, `scope`, `step`, `phase` are the latest snapshot of the pull in the
ledger; `record` and `bound` the state file (a binding is reduced to the branch
generation whose role it names); `canonicalKey` and `stagingKey` what the URLs
under the two credential keys of a service open; `canonical`, `staging` and
`role` what exists at PlanetScale. `pc`, `cur`, `visited`, `failed` and
`cancelled` are the running process and vanish in `Crash`. `outage` is the
environment of the command: whether anything has failed yet, and whether that is
over (it exists for the liveness property and for `CancellationIsNotMidSwap`).

Actions. `StartPull`, `Resume`, `OpenRecord`, the loop (`SkipSucceeded`,
`BeginStep`, `RefuseStep`), `SaveVerdict` and `Settle` are `pull_with_job`; the
eighteen actions from `FindStaging` to `MarkComplete` are `pull_service` and
`ensure_pull_role` in the order of their code. A call that takes effect may still
count as failed (`Answer`); a call may fail without effect (`CallFails`); the
process may end at every label (`Crash`, which also stands for the drop of the
operation after 30 seconds); the user may ask for cancellation, which the code
checks at the labels of `InterruptibleAt` only (`delete_old` checks only if the
canonical branch is still there, line 1792). The provider finishes restores and
renames by itself.

Abstractions. Backups, cluster sizes and URLs are not represented. Services are
visited in any order (the code's is alphabetical). Identity checks that compare a
checkpoint with the configuration always pass here: the configuration does not
change. Nobody else touches the two branches.

Properties. `DataSurvives`, `OpenEnvironmentIsCoherent`,
`CancellationIsNotMidSwap`, `SucceededServicesAreKept`, `ForwardSpec` (the
refinement) and `PullCompletes` (liveness); each is stated in words above its
definition.

### EnvironmentLifecycle

State. `kind`, `status` and `steps` are the create and pull jobs in the ledger
(`steps` holds the `phase` of each step's resource, which is what
`pull_job_has_residual_checkpoint` and `create_job_has_residual_checkpoint` look
at); `deletion` is how the last delete of this record stands; `record` and
`bound` the state file; `key` and `stagingKeys` the credential store;
`canonical`, `role` and `staging` PlanetScale; the rest is the running process.
A job that no code looks at any more leaves the ledger, so that two job
identities are enough for behaviours of any length.

Actions. `StartCreate`, `StartPull`, `Resume`, `StartDelete` and `JobCancel` are
the commands, guarded as `resumable_job`, `validate_unique_mutation_lineage`,
`environment_deletion_targets` and `jobs` guard them. `Provision` ... `MarkComplete`
are `provision_service` and the bookkeeping after it; `RestoreStaging` ...
`RefreshMissing` are `pull_service`, reduced to its effects and checkpoints
(`PullSwap` is the detailed model); `DeleteBranch` ... `DeleteStops` are `delete`.
`Crash`, `CallFails`, `DeleteCallFails`, `RequestCancel` and `Interrupt` are what
can go wrong. Branches are deleted in any order within and between services:
the code's order is that of their names, and a staging name sorts before or
after the canonical one depending on whether the name had to be truncated
(`staging_branch_name`).

Left out here: several environments at once (`env prune` is a loop of deletes),
and the deletion of a branch outside Repobox. The import mode of `env create` is
`ImportCopy`, a document edited between commands `ConfiguredEnvironment`, two
processes at the same time `ConcurrentCommands`.
Deadlock checking is off because the system really may stop: see
`RecoveryIsOffered` below, where no command is accepted any more.

### ConcurrentCommands

State. `ledger` is what `JobStore::list` makes of the file: the last complete line
of each job, or an error if a line is `damaged`. `stateFile` and `tmpFile` are what
stands under `state.json` and `state.json.tmp`; `fd` is where the file that a
process has open for a save is now, because a rename by another process moves the
file under it. Of each process: its command, its position in `Path` (the order of
the file accesses in `ensure_with_job`, `delete` and `jobs`), its job, and the
state it loaded.

Actions. `Load`, `PickCreate`, `PickDelete`, `PickCancel` read. An append is
`AppendBegins` and `AppendEnds`: the record is serialised into a file without a
buffer (jobs.rs:170), so that lines of two processes mix and a reader between the
two sees half a line. A save is `SaveOpens`, `SaveWrites`, `SaveRenames`
(state.rs:122). `Crash` may come between any two. Provider and credentials are
`Work`, which succeeds or fails.

`delete_keep` is `env delete --keep-state`: it reconciles the jobs and closes its own
without a save (lines 1129-1134), so that the record stays.

Abstractions. A pull has the same accesses in the same order as a create. The kind of a
job tells the two sorts of delete apart, which the ledger does not. History
variables say when the properties promise anything: `overlap` (two creates or
deletes ran at the same time), `collided` (two appends or two saves did, or one was
cut), `quiet` (jobs canceled while no other process had them in memory). Under these
premises `FilesAreReadable` and `VerdictsAreRecorded` are about crashes, kills, failures
and cancels; of appends, saves and commands that do overlap they claim nothing, and
without the premises TLC finds them violated. Nothing in the repository promises
otherwise, so that these interleavings are hazards without a property.

### ImportCopy

State. The content of the base branch and of the newest backup of the import's
name, the temporary role, the source service, the container that psql runs in, the
two children and the copy between them, and the attempt in progress.

Actions. In the order of `import_local_service`: database, backups (an import that is
done is found by its backup), the old role, the new role, then `copy_compose_database`
(probe, start, readiness, extensions) and `stream_database_copy`: `DumpExits`,
`RestoreExits` and `TransferEnds` race with the signal, and the `Race...` actions are
the arms of the biased select in their order, with what each does to the other side.
`psql` may end at any time, with success too ("unread": what it read was restored, the
rest was not), or close its input and run on. A copy that has met neither by the end of
the dump ends well, since what it wrote last may stay in the pipe of a `psql` that is
gone; one that has, ends with a broken pipe, and a `psql` that still runs is killed two
seconds later. Then the cleanups, each of which may fail, the backup, and what
`ensure_with_job` and `main.rs` make of the error. `OperationCancellation::check` is in
front of the labels in `Checked` and no others. A process that has been signalled may
end at any await once 30 seconds are over.

### ConfiguredEnvironment

State. `config` is the document in force, out of the set `Documents` (`MCParts` has
six: a service alone, renamed, with a second one, with databases and variables
exchanged, two services on one database, and one that `validate` refuses); bindings,
checkpoints, branches, roles and stored URLs as in `EnvironmentLifecycle`, each with
the database it belongs to.

Actions. `Update` may come whenever no command is in progress, and during a `Run`,
which loads the document again before it starts anything (app.rs:359). `Create`,
`Pull` (of any services), `JobResume`, `JobCancel`, `Run` and `Delete` are the
commands with their comparisons: `Agrees` is `validate_selected_binding_identity`,
`MayResume` and `MayResumePull` those of the checkpoints, `Targets`
`environment_deletion_targets`. `Transformed` is what the Compose driver makes of the
project: the mapped services go, and what is injected goes before what a service sets
itself.

### LocalRuntime and NativeChild

`LocalRuntime`: `data` is the generation of the branch and roles, `containers` the
generation whose URLs the containers were created with. `Guard`, `Ensure`, `Read`,
`RunUp`, `FollowLogs`, `StreamEnds`, `Down` are `run` in its four output modes;
`Status`, `StopFirst`, `Open`, `Work`, `Read`, `RunUp` are `pull` and `job resume`;
`RestartService` starts what is stopped. Every call of docker may fail. The history
variable `quiet` ends when two commands overlap, when `ps` fails while the services
run (driver.rs:296 then says that nothing runs), and when `service restart` starts
stopped containers: after each of these `ServicesMatchTheData` would fail. The
property is thus about commands that follow each other and calls that fail, and not
about a pull that begins between the guard of a run and its start (app.rs:314).

`NativeChild`: a foreground child hears a Ctrl-C from the terminal itself, an
isolated one only what Repobox sends. `SeeCtrlC`, `SeeCancelled`, `Forward`,
`SeeEnd`, `OutputCloses`, `Reap`, `EndsInGrace`, `GraceExpires` and `TimesOut` are
the arms of `wait_native_runtime_child` and of the waits after it.

### ProviderRequest, DeviceLogin, FrameKernel

`ProviderRequest`: an attempt is served or not, and its answer arrives or not; a
read and a deletion are tried again (up to `MaxRetries`, which is MAX_RETRIES), a
creation is not. `DeviceLogin`: `Sleep`, `Tick`, `Wake`, `Polled` are
`wait_for_access_token` with a unit of 5 s; `Validate`, `Store`, `RevokeNew` are
`finish_auth_login`; `RevokeStored`, `RemoveStored` the logout. A store or a revocation
that fails may have been done. `FrameKernel`: `Paint`, `Flush`, `Painted`,
`Acknowledge`, `Closed`, `Drop` are the task; `Receive`, `Write` the thread; the
channel between them has room for one message, and a drawing flushes twice
(ratatui's `Terminal::draw` hides the cursor with a flush of its own), so that the
task may wait inside it.

### SecretRegister and CredentialStore

`SecretRegister` is what the callers count on: one secret or none, a store or a removal
that takes effect at one moment and may be taken back before it ends, a success that is
true, and a read that returns the secret or, unless its storing was confirmed, nothing,
or fails. `WeakSpec` is the register of which a store that fails may, after a removal,
bring an old secret back (`Resurface`). `CredentialStore` is `store_value_with`,
`remove_value_with` and `stored_value_with`: `Purge`, `SetKnown`, `Probe`, `Set`,
`WriteFile`, `Rollback`, each of which may fail, and `Crash` between any two. A write of
the file fails with the old file in place or with the new one: its permissions are set
after the rename (credentials.rs:427). Files of an earlier version (no evidence, perhaps
a second copy in the keyring) are initial states.

## The runs

| Run | Instance | Result |
|---|---|---|
| `operations` | see below | 111,649 states, all properties hold |
| `env_lifecycle` | 2 services, 2 job identities, symmetry in both | 1,050,578 states, all properties hold |
| `concurrent_commands` | 2 processes, 2 environments, 3 commands, 1 crash, symmetry of the processes, see “Why the bounds are enough” | 2,010,829 states, all properties hold |
| `parts` | the seven parts, see below | 331,210 states, all properties hold |
| `recovery_is_offered` | 1 service, 1 job | violated |
| `delete_can_be_rerun` | 1 service, 1 job | violated |
| `injected_urls` | 1 service, 1 job | violated |
| `canceled_never_resumed` | as `concurrent_commands` | violated |
| `complete_dump_consumed` | 1 attempt | violated |
| `interrupted_means_clean` | 1 attempt | violated |
| `secrets_do_not_resurface` | 2 secrets | violated |
| `resume_restarts_services` | 1 process, 3 commands, 1 refresh | violated |

What the passing runs show, beyond the types.

- `operations`. An execution is a refresh of two services (60,769 states), two attempts
  of an import (25,734), or commands on an environment of one service with two job
  identities, without symmetry (25,146); the three share nothing. For the properties of
  the refresh see above; `CreateCompletes` is the liveness of the third. Of the import,
  `BackupHoldsTheImport`: a backup that later attempts take for a finished import was
  requested after `pg_dump`, copy and `psql` had all succeeded, and nothing has changed
  the branch since. `ResidualsAreNamed`: whatever remains, the outcome names it.
  `ChildrenAreReaped`, `CulpritIsNamed`, `ImportEnds`: no child runs on, the side that is
  blamed failed by itself, every attempt ends.
- `env_lifecycle`: see the properties above.
- `concurrent_commands`. `FilesAreReadable`: as long as no two writes collide and
  none is cut inside an append, the files can be read, whoever stops inside a save.
  `VerdictsAreRecorded`: if creates and deletes run one after the other, crashes and
  concurrent cancels included, the last verdict in the ledger is the one in the state
  file. `QuietCancelIsFinal`: a job canceled while nobody runs it is never taken up
  again.
- `parts`. An execution is one of one part, chosen at the start; the others keep a
  state they may start in. The parts share nothing, so that one run asks the questions
  of seven small ones: `ServicesMatchTheData`, `SuccessMeansStopped` (2 processes, 3
  commands, 2 refreshes); `WeakRegisterSpec`, `StoredLeavesEvidence` (3 secrets);
  `AskedOncePerSignal`, `OkIsGraceful`, `SignalEndsRun` (3 signals);
  `DeletionIsIdempotent`, `RefusedMeansNotCreated` (4 retries, as in the code);
  `PollsWhenAsked`, `WaitEnds`, `ResultTellsTheToken`, `LogoutKeepsWhatLives` (2
  logins, a code that lives for 30 s, intervals of 5 and 10 s); `ChangesAreShown`,
  `DeadTerminalEndsIt` (3 changes); `EditsAreSafe` (2 services, 2 databases, 6
  documents).

Why the bounds are enough. Services are independent of each other except through
the loop, the verdict and the interruption that breaks the loop; two of them give
every combination of succeeded, failed, half-swapped and not yet begun that these
conditions distinguish. In `PullSwap`, `EnvironmentLifecycle`,
`ConfiguredEnvironment` and `CredentialStore` no counter is
bounded: the state spaces are finite as they are, and behaviours of any number of
crashes, retries, cancellations, edits and commands are covered. Two job
identities suffice because the question about jobs is whether a second one may
exist next to the first. `CreateCompletes` has one service because symmetry is
not sound for liveness; with two services and one job identity it was also
checked (2,095,396 states, about three minutes).

Elsewhere a bound is a CONSTANT whose comment says so. Three commands of two
processes are what the interleavings need: one that leaves something, and two that
overlap over it; a cancel needs a create before it and a create after it. Two
limits of `MCConcurrentCommands` keep that run short. The environments are
interchangeable, so the first command that names one names `AnyEnv`, which loses
nothing. And no command begins once commands have overlapped and writes have collided
as well (`BeginsInOrder`): from there `FilesAreReadable` and `VerdictsAreRecorded` say
nothing, and `QuietCancelIsFinal` is still checked after either of the two. Without
these limits the run has 3,659,294 states and passes too, in some three minutes; the
theorems are about the specification without them. Two
attempts of an import: the second meets everything that the first can leave, and a
third would meet nothing else. Three signals are one more than the two (Ctrl-C and
the forwarded one) whose confusion `AskedOncePerSignal` is about. A code of six
units lets intervals be raised until a sleep is cut short at the deadline. Three
changes: one shown, one in flight, one waiting.

Deadlock is checked in `operations`, of the refresh. In the other runs it is off: those
with such bounds stop when the bounds are reached, a request or an import has an end,
and in `EnvironmentLifecycle` no command may be accepted any more (`RecoveryIsOffered`).

### What the code does not do

Eight runs check what the documentation and comments say, and TLC finds a behaviour of
the code that does otherwise.

1. `RecoveryIsOffered` (docs/agent-contract.md:225). A create appends its job
   before it saves the record. If it crashes between the two and the job is
   canceled, the job blocks every create and run (`environment_recovery_required`),
   cannot be resumed, and `env delete`, which the error recommends, answers
   `environment_not_found`.
2. `DeleteCanBeRerun` (docs/agent-contract.md:221 and :246). A delete marks the
   jobs as reconciled and then removes the record. If it crashes between the two
   and the environment has no binding, the rerun is refused with
   `environment_delete_identity_missing` and the record stays.
3. `InjectedUrlsAreTheRoles` (docs/features/branch-scoped-data.md:67). A delete
   that removes a branch but not its stored URLs leaves URLs that open nothing.
   If a resumed create then stops between the creation of the new role and the
   storing of its URLs, the next resume sees a branch, a role and URLs, takes the
   service for complete and reports the environment ready. The fallback of
   `database_urls_or_fallback` has the same effect for a pull that crashed right
   after its rename, a delete that removed its staging key and then failed for
   the canonical branch, and a resume. `RunnableIsWhole` is therefore stated for
   environments that no delete was begun on and left.

4. `CanceledIsNeverResumed` (app.rs:1684, main.rs:45). A job that is canceled while
   its create runs is running again with the next snapshot of that process, may even
   succeed, and may be taken up by a later create.
5. `InterruptedMeansClean` (docs/configuration.md:189, docs/agent-contract.md:221). An
   import fails, a signal arrives, the temporary role cannot be deleted:
   `ensure_with_job` wraps `operation_cleanup_failed`, and main.rs:183 reports
   `operation_interrupted` with "Cleanup completed."
6. `ResumeRestartsServices` (docs/agent-contract.md:210). The services that a failed
   pull stopped are stopped still after its successful resume: `job resume` restarts
   only what runs when it begins (app.rs:1774).
7. `CompleteDumpConsumed` (docs/agent-contract.md:220). A `psql` that exits with success
   before it has read the whole dump makes the import fail with
   `database_stream_interrupted` only if that is seen. If `pg_dump` ends first and the
   rest of its output fits the pipe, the copy has succeeded, the biased select (line
   2901) takes that, both children have exited with success, and the backup of a part of
   the database marks the import as done.
8. `RegisterSpec` (credentials.rs:94). A removal passes over a keyring that is not
   available and leaves an old second copy in it. A later store overwrites that entry and
   writes the file, which fails at the permissions, after the rename; the entry is put
   back, and the file no longer says that the secret was removed: reads return it.

Seen while modelling and outside what the runs check: after `env delete --keep-state`
the record is still ready, and `run` starts on deleted branches; a delete that fails
half way leaves a ready record as it was; the marker that an import was done
(environment.rs:905) is never read, and what keeps the import from being repeated is
the name of its backup; a refresh of two services that are configured for one
database deletes the first one's new branch with the second. `PROJECT.json` lists
these and others as hazards without a property.

## Fairness

`PullSwap!FairSpec`: the running command goes on (its future is polled until it
returns), PlanetScale finishes what it accepted, and the user reruns a job that
is not resolved, as the error of a degraded pull tells them to. Nobody is obliged
to start a pull, to cancel one or to fail. `PullCompletes` says that once failures
and cancellations are over, an unresolved pull ends with a ready environment.

`EnvironmentLifecycle!FairSpec`: the running command goes on, and a job that may
be resumed is resumed. `CreateCompletes` has as a premise that from some time on
nothing but commands in progress and resumes happens, and that the calls of
`provision_service` succeed.

`ImportCopy`: the attempt goes on, pg_dump ends while its output is read, the copy after
pg_dump, and psql after the end of its input; of a psql that is fed no more after an
error nothing is assumed, it is killed after a grace period (`GraceExpires`). Nobody is
obliged to signal, to fail or to begin. `NativeChild`: Repobox goes on; nothing is
assumed of the child or the user. `DeviceLogin`: time passes and each request has an end
(its timeout is 30 s); the service may answer `authorization_pending` for ever.
`FrameKernel`: tokio polls the task and the system runs the thread, which includes that
the terminal takes output; one that does not take any freezes the dashboard. The other
modules state no fairness and no liveness property. In `MCParts` and `MCOperations` the
fairness of a part is that of its module, of the executions that are its own.

## The proofs

The proofs about the refresh hold for every set `Services`; the only assumption is
`ServicesAssumption` (the value that stands for "no service" is not one), which TLC also
evaluates. Those about the lifecycle hold for every set of services and of job
identities, with `NonesAssumption` (the same of "no service" and "no job"). Those about
the credential store hold for every set `Values`, with `ConstantsAssumption` (the same
of "no secret"). Those about the import hold for any bound on the attempts, without an
assumption, those about concurrent commands for any processes, environments and numbers
of commands and crashes (`BoundsAssumption`: they are numbers; `EnvsAssumption`: there
is an environment). Those about one configured environment hold for any documents that
are `WellFormed`, which each of them states as its hypothesis: the value that stands for
"no database" is not one, the services and databases of a document are among `Names` and
`Databases`, and a Compose service depends on services of the same file. Those about the
other small parts hold for all bounds of `MCParts` (`BoundsAssumption`: they are
numbers, and so are the intervals of a poll); `DocumentsAssumption` says that `MCParts`
has the two services and the two databases its documents are made of, and
`DocumentsWellFormed` proves the hypothesis from it.

`PullSwapProofs`. None of the safety properties is inductive: that the canonical
branch may be deleted depends on what `phase` and `pc` promise about the staging
branch, its role and its stored URLs, and those promises must survive `Crash`
followed by `Resume`. `IInv` adds to `TypeOK` these promises: per service, what
each checkpointed phase guarantees about the two branches, the role and the two
keys (it holds while no process runs), and what each control point of the
running process guarantees beyond the checkpoint of its current service. The
proof that a step preserves `IInv` has one lemma or step per action. From `IInv`
follow `TypeCorrect`, `DataAlwaysSurvives`, `OpenIsCoherent` and `SucceededKept`.
`NotCancelledMidSwap` needs one invariant more, `MidSwapInv`: while nothing has
failed, only the current service can be between the deletion and the checkpoint
after the rename, and only at the three control points that do not check for
cancellation.

The refinement. Under the mapping at the end of `PullSwap` each action is a step of
`ForwardSwap` or a stutter: `StartPull` is `Begin`, `DeleteOld` is `Retire` (which needs
`IInv` to know that the copy is usable), `Rename` is `Promote`, `Transfer` is
`HandOver`, a successful `Settle` is `Finish`, everything before the deletion is
`Prepare` or a stutter.

`EnvironmentLifecycleProofs`. A command may be stopped at any point and be followed by
any other that is accepted, so every safety property rests on what each checkpoint and
each position of a command leaves behind. `IInv` has, next to the types (`DataType` and
`ControlType`), five parts. `LedgerInv`: at most one job is unreconciled. `CommandInv`:
what holds of the job and its current service at each position of a create or pull.
`DeleteInv`: whatever is left of the environment is still among the targets of the
running delete unless something has failed, and nothing is left once it reconciles.
`OwnedInv`: each branch and credential has a binding or a step that names it; a staging
branch or key belongs to a pull. `PromiseInv`: as long as no delete was begun on the
record, what each phase of a create and of a pull guarantees (after a refresh was
swapped, the URLs are under one of two keys). There is one lemma per action, with one
step per part. `NothingIsEverOrphaned` follows from `LedgerInv` and `OwnedInv`,
`RefreshesNeverMix` from the two as well, `RunnableAlwaysWhole` from `PromiseInv`, and
`DeletionIsComplete` from `DeleteInv` with the lemma that only `Deleted` reports success.
The run `env_lifecycle` checks the four properties on two services and two jobs.

`CredentialStoreProofs`. `WeakRegisterSpec` is not inductive: that a rollback puts the
register back needs to know what was read before the entry was overwritten, and that
a failed write may be followed by `Ends` needs to know which of file and keyring is
looked at. `IInv` adds to `TypeOK` what the steps of a store (`Storing`) or of a
removal (`Removing`) have established at each control point: where the secret was,
which file is about to be written or, after a failure, may have been, and what
`previous` has to do with what the register held. One lemma per action (`StoreKeeps` to
`ReadKeeps`) proves that the invariant is kept and that the step is one of
`SecretRegister` or a stutter, under the mapping `secret <- Stored`: of `Register!Next`,
and for `Rollback`, whose file may be the old one or the new one, of `Register!Next` or
`Resurface`. Nothing is assumed of the calls. That `WeakSpec` is not weaker than need be
is what the run `secrets_do_not_resurface` shows.

`ImportCopyProofs`. What an attempt leaves depends on how far it came when it failed, so
`IInv` says for each label what stands and who must answer for it. `ErrorInv`: no error
before the import is unwound. `SourceInv`: the source service is as it was found, or
runs for the copy. `ChildInv`: which ends of `pg_dump`, `psql` and the copy between them
go together. `BaseInv`: once dump and copy have succeeded and `psql` with them, the
branch is whole or, if `psql` ended before the end of its input, "unread", and only then
is a backup taken. `LeftInv`: the role and the container are gone, or the error in hand
names them. `BackupHoldsTheImport` follows from `BaseInv`, `ResidualsAreNamed` from
`SourceInv` and `LeftInv`, `ChildrenAreReaped` and `CulpritIsNamed` from `ChildInv`.
`OperationsProofs` carries them over to the executions of `MCOperations`, whose steps
are steps of the import or leave it alone, through an instance of these proofs
(`Proved`).

`ConcurrentCommandsProofs`. A verdict reaches the ledger and the record the state file
in different steps, so `VerdictsAreRecorded` is kept only because of what every process
that is under way remembers. `IInv` has these parts. `FreshInv`: every identifier in use
or to be drawn was paid for by a command, so that a new one exists (a counting
argument). `ControlInv`: where in its `Path` a process is and what it holds there.
`SaveInv` and `AppendInv`: a save and an append are alone on their file unless two have
met. `QuietInv`: nobody has a job in hand that was canceled while nobody had.
`AloneInv`, `HeldInv`, `OrderInv`: as long as changing commands do not overlap there is
one of them, the jobs it holds are in the ledger and are its own, and identifiers are
used in order. `MemoryInv`: what a command has in memory agrees with the file on every
other environment (and, when it has just been read, on its own), and the verdict it is
about to close is in the file; the record that `delete --keep-state` leaves is still
there. `LineageInv`: an environment with an unfinished creation has no finished last
job, and that creation is in the hands of the command that works there. One family of
lemmas gives the positions of each `Path`, one the effect of a step of each kind on each
part.

`ConfiguredEnvironmentProofs`. `EditsAreSafe` is about what the next command may do with a
document that was edited since, so `IInv` relates bindings, checkpoints, branches and
stored URLs by the database that each of them names. `LedgerInv`: a checkpoint names a
database from the moment it is planned, and a complete one is bound to it.
`IdentityInv`: a binding, a checkpoint and the URLs of a service never name two different
databases. `BranchInv`: a branch has a binding or a checkpoint. `CommandInv`: a create or
pull works on a document that agrees with its checkpoints, and what it settles without a
failure is bound. `DeleteInv`: what a delete has ticked off is gone. There is one lemma
per action. `NothingForgotten` follows from `BranchInv` and the lemma `NothingLeft`;
`UrlsReach` from `IdentityInv`, with `VariablesReach` for what the Compose driver makes
of the mapped variables.

`PartsProofs`. Each part of `MCParts` is a machine of its own, and a step of `PartsSpec`
is a step of one part and leaves the variables of the others alone; the invariants are
per part. `RuntimeInv`: while conditions are `quiet` one command is under way, the URLs
it has read are those of the data, and the services do not run while it refreshes
(`Placed` ties a command to its positions, `Alone` is what it may rely on there).
`NativeInv`: the child was asked to stop no more often than signals were sent, and a
child that was killed is not reported as `ok`. `RequestInv`: what an answer says the
service did, it did; a deletion that finds nothing after an answer that got lost is a
retry. `LoginInv`: the sleep before a poll ends at the interval that was asked for or at
the deadline, and a token on its way to the store lives. `FramesInv`: a drawing needs a
change since the last one, which bounds the flushes and with them the numbers of the
frames; an acknowledged frame was flushed before. An execution of the store in
`PartsSpec` is one of `CredentialStore` (`StoreIsPart`), so that its theorems carry
over. For the configured environment the lemmas of `ConfiguredEnvironmentProofs` are
taken through an instance (`Proved`), once `DocumentsWellFormed` has shown that the six
documents meet their hypothesis.

The inductive invariants of `ConcurrentCommands`, `ImportCopy` and
`ConfiguredEnvironment` were first checked by TLC as invariants of the runs
`concurrent_commands`, `operations` and `parts`.

Only model-checked: the liveness properties (`PullCompletes`, `CreateCompletes`,
`ImportEnds`, `SignalEndsRun`, `WaitEnds`, `ChangesAreShown`, `DeadTerminalEndsIt`),
which need fairness and ENABLED and are out of the proof system's reach. The runs that
expect a violation have nothing to prove. Every other property of a passing run is a
theorem.

## Not modelled

- The provider's side with two processes: two commands that take up one job
  (environment.rs:2710) work on the same branches. `ConcurrentCommands` follows the
  files only; with branches and credentials its state space would be out of reach.
- `env prune` over several environments; it deletes one after the other.
- The pagination of the client, `Retry-After`, the decoding of answers.
- The docker daemon as an actor of its own: a container exists from the start of its
  client on, and the attempts of `docker rm` are one step that may fail.
- Two processes that write the file of credentials.
- The derivation of branch and role names (63 characters, truncation, hash), the
  order of extensions, the choice of a cluster size: pure functions of strings.
- Command line, output, redaction, initialisation, agent guides, site, release
  scripts: sequential, and without state that the rest depends on.

## Plan

1. Two services on one database in the detailed refresh (`PullSwap` with a map from
   services to databases), with its invariant and the refinement proved again.
2. `env prune`, and the names of branches.
3. A proof that `LocalRuntime` under `quiet` is a sequence of commands, so that
   `ServicesMatchTheData` becomes a refinement.
