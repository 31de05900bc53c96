------------------------- MODULE ConcurrentCommands -------------------------
(***************************************************************************)
(* Repobox commands running at the same time in several processes.  They   *)
(* share two files and no lock: the job ledger (JobStore of jobs.rs), of   *)
(* which the last line of a job counts, and the state file (StateStore of  *)
(* state.rs), which a command loads when it starts and writes back, whole, *)
(* minutes later.  The commands are those of EnvironmentLifecycle reduced  *)
(* to the reads and writes of these files and the order they come in; here *)
(* a read, each half of an append and each call of a save is a step of its *)
(* own, and other processes run in between.                                *)
(***************************************************************************)
EXTENDS Naturals, Sequences

CONSTANTS
  Procs,        \* operating system processes
  Envs,         \* names of environments
  MaxCommands,  \* bound: commands started
  MaxCrashes    \* bound: processes killed

ASSUME BoundsAssumption == MaxCommands \in Nat /\ MaxCrashes \in Nat
ASSUME EnvsAssumption == Envs # {}

Jobs == 1..MaxCommands       \* in the order of created_at
NoJob == 0

VARIABLES
  ledger,     \* what list() returns for each job: its last complete line; the kind tells
              \* a delete that keeps the record from others, which the line does not
  damaged,    \* a line of the ledger that does not parse
  stateFile,  \* the content under the name state.json
  tmpFile,    \* the content under the name state.json.tmp
  cmd, env, at, ok,   \* of each process: command, its environment, position, outcome
  job, cleanup,       \* the job it writes; a delete's jobs to reconcile
  memory,     \* the ProjectState it has loaded
  appending,  \* the processes in the middle of an append
  fd,         \* where the file that a process has open for a save now is
  written,    \* the processes that have written it
  commands, crashes,  \* counters
  overlap, collided, canceledOnce, quiet   \* history, for the properties

files == <<ledger, damaged, stateFile, tmpFile>>
process == <<cmd, env, at, ok, job, cleanup, memory>>
counters == <<commands, crashes>>
history == <<overlap, collided, canceledOnce, quiet>>
vars == <<files, process, appending, fd, written, counters, history>>

Statuses == {"none", "running", "degraded", "succeeded", "canceled", "reconciled"}
States == [Envs -> {"absent", "provisioning", "degraded", "ready"}]
(* Content that is no state: no file, an empty file, two writes mixed.      *)
Unread(how) == [e \in Envs |-> how]
Contents == States \cup {Unread(how) : how \in {"missing", "empty", "mixed"}}

(* Mistake: the verdict reaches the ledger before the state file.           *)
VerdictLedgerFirst == <<"close", "settle">>

(* Mistake: the verdict is appended once more. *)
VerdictTwice == <<"settle", "close", "close">>

(* Saved in the state file, then appended to the ledger.                    *)
Verdict == <<"settle", "close">>

(* The order of the file accesses of a command: ensure_with_job (pull_with_job *)
(* has the same), delete, delete with keep_state, jobs::Cancel.  A command   *)
(* whose work fails skips what only success leads to.                        *)
Path(c, success) ==
  CASE c = "create" -> <<"load", "pick", "announce", "open", "begin", "work">>
                       \o (IF success THEN <<"bind">> ELSE <<>>)
                       \o <<"report">> \o Verdict
    [] c = "delete" -> <<"load", "pick", "announce", "begin", "work", "report">>
                       \o (IF success THEN <<"reconcile">> \o Verdict ELSE <<"close">>)
    [] c = "delete_keep" -> <<"load", "pick", "announce", "begin", "work", "report">>
                       \o (IF success THEN <<"reconcile", "close">> ELSE <<"close">>)
    [] c = "cancel" -> <<"pick", "close">>
    [] OTHER -> <<>>

Label(p) == IF cmd[p] = "none" THEN "idle" ELSE Path(cmd[p], ok[p])[at[p]]
Active(p) == cmd[p] # "none"
Deletions == {"delete", "delete_keep"}
Mutations == {"create"} \cup Deletions
Mutating(p) == cmd[p] \in Mutations

TypeOK ==
  /\ ledger \in [Jobs -> [env : Envs, kind : Mutations, status : Statuses]]
  /\ damaged \in BOOLEAN
  /\ stateFile \in Contents /\ tmpFile \in Contents
  /\ cmd \in [Procs -> Mutations \cup {"none", "cancel"}]
  /\ env \in [Procs -> Envs] /\ at \in [Procs -> 1..10] /\ ok \in [Procs -> BOOLEAN]
  /\ job \in [Procs -> Jobs \cup {NoJob}] /\ cleanup \in [Procs -> SUBSET Jobs]
  /\ memory \in [Procs -> States]
  /\ appending \subseteq Procs /\ fd \in [Procs -> {"none", "tmp", "state", "unlinked"}]
  /\ written \subseteq Procs
  /\ commands \in 0..MaxCommands /\ crashes \in 0..MaxCrashes
  /\ overlap \in BOOLEAN /\ collided \in BOOLEAN
  /\ canceledOnce \subseteq Jobs /\ quiet \subseteq Jobs

AnyEnv == CHOOSE e \in Envs : TRUE
NothingYet == [e \in Envs |-> "absent"]     \* ProjectState::new

Init ==
  /\ ledger = [j \in Jobs |-> [env |-> AnyEnv, kind |-> "create", status |-> "none"]]
  /\ damaged = FALSE
  /\ stateFile = NothingYet /\ tmpFile = Unread("missing")
  /\ cmd = [p \in Procs |-> "none"] /\ env = [p \in Procs |-> AnyEnv]
  /\ at = [p \in Procs |-> 1] /\ ok = [p \in Procs |-> TRUE]
  /\ job = [p \in Procs |-> NoJob] /\ cleanup = [p \in Procs |-> {}]
  /\ memory = [p \in Procs |-> NothingYet]
  /\ appending = {} /\ fd = [p \in Procs |-> "none"] /\ written = {}
  /\ commands = 0 /\ crashes = 0
  /\ overlap = FALSE /\ collided = FALSE /\ canceledOnce = {} /\ quiet = {}

-----------------------------------------------------------------------------
(* Control.                                                                *)

Advance(p) ==
  IF at[p] < Len(Path(cmd[p], ok[p]))
  THEN at' = [at EXCEPT ![p] = @ + 1] /\ UNCHANGED <<cmd, env, ok, job, cleanup, memory>>
  ELSE /\ cmd' = [cmd EXCEPT ![p] = "none"] /\ at' = [at EXCEPT ![p] = 1]
       /\ job' = [job EXCEPT ![p] = NoJob] /\ cleanup' = [cleanup EXCEPT ![p] = {}]
       /\ env' = [env EXCEPT ![p] = AnyEnv] /\ ok' = [ok EXCEPT ![p] = TRUE]
       /\ memory' = [memory EXCEPT ![p] = NothingYet]

(* An error returned with `?`: the process ends and nothing is undone. *)
Ends(p) ==
  /\ cmd' = [cmd EXCEPT ![p] = "none"] /\ at' = [at EXCEPT ![p] = 1]
  /\ job' = [job EXCEPT ![p] = NoJob] /\ cleanup' = [cleanup EXCEPT ![p] = {}]
  /\ env' = [env EXCEPT ![p] = AnyEnv] /\ ok' = [ok EXCEPT ![p] = TRUE]
  /\ memory' = [memory EXCEPT ![p] = NothingYet]

Start(p, c, e) ==
  /\ ~Active(p) /\ commands < MaxCommands
  /\ cmd' = [cmd EXCEPT ![p] = c] /\ env' = [env EXCEPT ![p] = e]
  /\ commands' = commands + 1
  /\ overlap' = (overlap \/ (c # "cancel" /\ \E q \in Procs : Mutating(q)))
  /\ UNCHANGED <<files, at, ok, job, cleanup, memory, appending, fd, written, crashes, collided,
                 canceledOnce, quiet>>

-----------------------------------------------------------------------------
(* Reading.                                                                *)

(* StateStore::load; state_decode_failed ends the command. *)
Load(p) ==
  /\ Label(p) = "load"
  /\ IF stateFile \in States
     THEN /\ memory' = [memory EXCEPT ![p] = stateFile]
          /\ at' = [at EXCEPT ![p] = @ + 1]
          /\ UNCHANGED <<cmd, env, ok, job, cleanup>>
     ELSE Ends(p)
  /\ UNCHANGED <<files, appending, fd, written, counters, history>>

(* JobStore::list fails on a line that does not parse, be it damaged or     *)
(* still being written.                                                    *)
Listed == ~damaged /\ appending = {}

(* Mistake: a canceled job counts as unfinished. *)
LineagesCanceled(e) ==
  {j \in Jobs : ledger[j].env = e /\ ledger[j].kind = "create"
                /\ ledger[j].status \in {"running", "degraded", "canceled"}}

(* nonterminal_environment_mutation_jobs, and with the canceled ones that   *)
(* no delete has reconciled: unreconciled_environment_checkpoint_jobs.      *)
Lineages(e) ==
  {j \in Jobs : ledger[j].env = e /\ ledger[j].kind = "create"
                /\ ledger[j].status \in {"running", "degraded"}}
Unreconciled(e) ==
  Lineages(e) \cup {j \in Jobs : ledger[j].env = e /\ ledger[j].kind = "create"
                                  /\ ledger[j].status = "canceled"}

(* A new UUID: unlike every one in the ledger or in a process. *)
Fresh ==
  CHOOSE j \in Jobs : /\ ledger[j].status = "none" /\ \A p \in Procs : job[p] # j
                      /\ \A k \in Jobs : k < j => ledger[k].status # "none"
                                                  \/ \E p \in Procs : job[p] = k

Take(p, j) == job' = [job EXCEPT ![p] = j] /\ at' = [at EXCEPT ![p] = @ + 1]

(* resumable_job, prepare_resumable_job: the environment's one unfinished   *)
(* job is taken up, no matter which process is still running it.           *)
PickCreate(p) ==
  /\ Label(p) = "pick" /\ cmd[p] = "create"
  /\ IF Listed /\ Unreconciled(env[p]) = {}
     THEN Take(p, Fresh) /\ UNCHANGED <<cmd, env, ok, cleanup, memory>>
     ELSE IF Listed /\ Unreconciled(env[p]) = Lineages(env[p])
                    /\ \A j, k \in Lineages(env[p]) : j = k
     THEN /\ \E j \in Lineages(env[p]) : Take(p, j)
          /\ UNCHANGED <<cmd, env, ok, cleanup, memory>>
     ELSE Ends(p)
  /\ UNCHANGED <<files, appending, fd, written, counters, history>>

(* delete: the record must be there, and with no database bound some job    *)
(* must name what there is to delete.                                       *)
PickDelete(p) ==
  /\ Label(p) = "pick" /\ cmd[p] \in Deletions
  /\ IF Listed /\ memory[p][env[p]] # "absent"
     THEN /\ Take(p, Fresh) /\ cleanup' = [cleanup EXCEPT ![p] = Unreconciled(env[p])]
          /\ UNCHANGED <<cmd, env, ok, memory>>
     ELSE Ends(p)
  /\ UNCHANGED <<files, appending, fd, written, counters, history>>

(* jobs::Cancel: any job named by its UUID that is not terminal; then the   *)
(* command waits for the confirmation.                                     *)
PickCancel(p) ==
  /\ Label(p) = "pick" /\ cmd[p] = "cancel"
  /\ \/ /\ Listed
        /\ \E j \in Jobs : ledger[j].status \in {"running", "degraded"} /\ Take(p, j)
        /\ UNCHANGED <<cmd, env, ok, cleanup, memory>>
     \/ Ends(p)
  /\ UNCHANGED <<files, appending, fd, written, counters, history>>

-----------------------------------------------------------------------------
(* JobStore::append writes through no buffer, in many small writes.         *)

AppendLabels == {"announce", "begin", "report", "reconcile", "close"}

AppendBegins(p) ==
  /\ Label(p) \in AppendLabels /\ p \notin appending
  /\ Label(p) = "reconcile" => cleanup[p] # {}
  /\ appending' = appending \cup {p}
  /\ damaged' = (damaged \/ appending # {})
  /\ collided' = (collided \/ appending # {})
  /\ UNCHANGED <<ledger, stateFile, tmpFile, process, fd, written, counters, overlap, canceledOnce,
                 quiet>>

(* The snapshot that the process has in memory. *)
Snapshot(p) ==
  [env |-> IF cmd[p] = "cancel" THEN ledger[job[p]].env ELSE env[p],
   kind |-> IF cmd[p] = "cancel" THEN ledger[job[p]].kind ELSE cmd[p],
   status |-> IF cmd[p] = "cancel" THEN "canceled"
              ELSE IF Label(p) # "close" THEN "running"
              ELSE IF ok[p] THEN "succeeded" ELSE "degraded"]

Holders(j) == {p \in Procs : job[p] = j \/ j \in cleanup[p]}

(* reconcile_environment_mutation_jobs appends one job after the other, in  *)
(* the state in which the delete once read it.                              *)
Reconciled(p) == CHOOSE j \in cleanup[p] : \A k \in cleanup[p] : j <= k

AppendEnds(p) ==
  /\ p \in appending
  /\ appending' = appending \ {p}
  /\ IF Label(p) = "reconcile"
     THEN /\ ledger' = [ledger EXCEPT ![Reconciled(p)].status = "reconciled"]
          /\ cleanup' = [cleanup EXCEPT ![p] = @ \ {Reconciled(p)}]
          /\ UNCHANGED <<cmd, env, at, ok, job, memory>>
     ELSE ledger' = [ledger EXCEPT ![job[p]] = Snapshot(p)] /\ Advance(p)
  /\ LET canceled == IF cmd[p] = "cancel" THEN {job[p]} ELSE {}
     IN  /\ canceledOnce' = canceledOnce \cup canceled
         /\ quiet' = quiet \cup {j \in canceled : Holders(j) = {p}}
  /\ UNCHANGED <<damaged, stateFile, tmpFile, fd, written, counters, overlap, collided>>

NothingToReconcile(p) ==
  /\ Label(p) = "reconcile" /\ cleanup[p] = {}
  /\ Advance(p)
  /\ UNCHANGED <<files, appending, fd, written, counters, history>>

-----------------------------------------------------------------------------
(* The work between the files: provider calls, credentials.                 *)

Work(p, success) ==
  /\ Label(p) = "work"
  /\ ok' = [ok EXCEPT ![p] = success] /\ at' = [at EXCEPT ![p] = @ + 1]
  /\ UNCHANGED <<files, cmd, env, job, cleanup, memory, appending, fd, written, counters, history>>

(* StateStore::save: the temporary file is the same one for every process.  *)

SaveLabels == {"open", "bind", "settle"}

Recorded(p) ==
  IF Label(p) \in {"open", "bind"} THEN "provisioning"
  ELSE IF cmd[p] = "delete" THEN "absent"
  ELSE IF ok[p] THEN "ready" ELSE "degraded"

(* Mistake: state.json itself is truncated and written. *)
SaveTargetInPlace == "state"

SaveTarget == "tmp"

SaveOpens(p) ==
  /\ Label(p) \in SaveLabels /\ fd[p] = "none"
  /\ memory' = [memory EXCEPT ![p][env[p]] = Recorded(p)]
  /\ tmpFile' = IF SaveTarget = "tmp" THEN Unread("empty") ELSE tmpFile
  /\ stateFile' = IF SaveTarget = "state" THEN Unread("empty") ELSE stateFile
  /\ fd' = [fd EXCEPT ![p] = SaveTarget]
  /\ collided' = (collided \/ \E q \in Procs : fd[q] # "none")
  /\ UNCHANGED <<ledger, damaged, cmd, env, at, ok, job, cleanup, appending, written,
                 counters, overlap, canceledOnce, quiet>>

(* Written over what another process wrote, at the same offset: the shorter *)
(* of the two leaves a tail of the longer.                                 *)
Written(p, content) ==
  IF content \in {Unread("empty"), memory[p]} THEN {memory[p]}
                                           ELSE {memory[p], Unread("mixed")}

SaveWrites(p) ==
  /\ fd[p] # "none" /\ p \notin written
  /\ written' = written \cup {p}
  /\ tmpFile' \in IF fd[p] = "tmp" THEN Written(p, tmpFile) ELSE {tmpFile}
  /\ stateFile' \in IF fd[p] = "state" THEN Written(p, stateFile) ELSE {stateFile}
  /\ UNCHANGED <<ledger, damaged, process, appending, fd, counters, history>>

(* The name moves with the file: who has it open goes on writing to it.     *)
Moved == [tmp |-> "state", state |-> "unlinked", unlinked |-> "unlinked", none |-> "none"]

SaveRenames(p) ==
  /\ p \in written
  /\ written' = written \ {p}
  /\ IF tmpFile = Unread("missing")
     THEN Ends(p) /\ fd' = [fd EXCEPT ![p] = "none"] /\ UNCHANGED <<stateFile, tmpFile>>
     ELSE /\ stateFile' = tmpFile /\ tmpFile' = Unread("missing")
          /\ fd' = [q \in Procs |-> IF q = p THEN "none" ELSE Moved[fd[q]]]
          /\ Advance(p)
  /\ UNCHANGED <<ledger, damaged, appending, counters, history>>

-----------------------------------------------------------------------------
(* SIGKILL, a power failure, or an I/O error in the middle of a write.      *)
Crash(p) ==
  /\ Active(p) /\ crashes < MaxCrashes
  /\ crashes' = crashes + 1
  /\ Ends(p)
  /\ damaged' = (damaged \/ p \in appending)
  /\ collided' = (collided \/ p \in appending)
  /\ appending' = appending \ {p} /\ written' = written \ {p}
  /\ fd' = [fd EXCEPT ![p] = "none"]
  /\ UNCHANGED <<ledger, stateFile, tmpFile, commands, overlap, canceledOnce, quiet>>

Step(p) ==
  \/ \E c \in Mutations, e \in Envs : Start(p, c, e)
  \/ Start(p, "cancel", AnyEnv)
  \/ Load(p) \/ PickCreate(p) \/ PickDelete(p) \/ PickCancel(p)
  \/ AppendBegins(p) \/ AppendEnds(p) \/ NothingToReconcile(p)
  \/ \E success \in BOOLEAN : Work(p, success)
  \/ SaveOpens(p) \/ SaveWrites(p) \/ SaveRenames(p)
  \/ Crash(p)

Next == \E p \in Procs : Step(p)

Spec == Init /\ [][Next]_vars

-----------------------------------------------------------------------------
(* Properties.                                                             *)

(* Unless two processes wrote at the same time, or one stopped inside an    *)
(* append, every file can be read: in particular a process that stops       *)
(* anywhere inside a save leaves the old state file or the new one.         *)
FilesAreReadable == ~collided => ~damaged /\ stateFile \in States

(* The last job of an environment and the state file agree: once the ledger *)
(* says that a create, or a delete, succeeded, the record is ready, or      *)
(* gone, or still there if it was to be kept.  Only commands that ran one   *)
(* after the other guarantee it.                                           *)
LatestJob(e) ==
  {j \in Jobs : /\ ledger[j].env = e /\ ledger[j].status # "none"
                /\ \A k \in Jobs : ledger[k].env = e /\ ledger[k].status # "none" => k <= j}

RecordFits(kind, e) ==
  /\ kind = "create" => stateFile[e] = "ready"
  /\ kind = "delete" => stateFile[e] = "absent"
  /\ kind = "delete_keep" => stateFile[e] # "absent"

VerdictsAreRecorded ==
  ~overlap =>
    \A e \in Envs : \A j \in LatestJob(e) :
      ledger[j].status = "succeeded" => RecordFits(ledger[j].kind, e)

(* A job that `job cancel` canceled while no other process had it in memory *)
(* stays canceled: no command that begins later takes it up.                *)
QuietCancelIsFinal == \A j \in quiet : ledger[j].status \in {"canceled", "reconciled"}

(* A canceled durable job cannot be resumed: no command that creates, or    *)
(* resumes a create, takes up a job that was canceled before.               *)
CanceledIsNeverResumed ==
  [][\A p \in Procs, j \in canceledOnce :
       cmd[p] = "create" /\ job'[p] = j => job[p] = j]_vars
=============================================================================
