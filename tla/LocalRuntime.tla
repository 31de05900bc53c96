---------------------------- MODULE LocalRuntime ----------------------------
(***************************************************************************)
(* The commands of app.rs that start and stop the Compose services of an   *)
(* environment, around the refresh of its data: run, stop, service         *)
(* restart, pull and job resume.  The containers keep the URLs they were   *)
(* created with; a refresh replaces the branch and the roles that these    *)
(* URLs lead to.  The refresh itself is PullSwap; here it is a generation  *)
(* number, and the job and the readiness that the commands look at.        *)
(***************************************************************************)
EXTENDS Naturals

CONSTANTS
  Procs,        \* operating system processes, one command each at a time
  MaxCommands,  \* bound: commands started
  MaxRefreshes  \* bound: refreshes that reach the swap

VARIABLES
  data,       \* the generation of the environment's branch and roles
  unresolved, \* a pull job of the environment has not ended well
  ready,      \* the status of the environment's record
  containers, \* the generation whose URLs the containers hold; 0: none created
  running,    \* they run
  cmd, mode, at, restart, urls, outcome,   \* of each process
  commands,
  quiet,      \* history: so far every condition of ServicesMatchTheData holds
  owed        \* history: stopped by a pull or resume that failed, and not touched since

compose == <<containers, running>>
environment == <<data, unresolved, ready>>
process == <<cmd, mode, at, restart, urls, outcome>>
history == <<quiet, owed>>
vars == <<environment, compose, process, commands, history>>

Generations == 1..(MaxRefreshes + 1)
Refreshing == {"pull", "resume"}
Foreground == {"json", "plain", "dashboard"}

TypeOK ==
  /\ data \in Generations /\ unresolved \in BOOLEAN /\ ready \in BOOLEAN
  /\ containers \in Generations \cup {0} /\ running \in BOOLEAN
  /\ running => containers # 0
  /\ cmd \in [Procs -> {"none", "run", "stop", "service_restart"} \cup Refreshing]
  /\ mode \in [Procs -> Foreground \cup {"detach"}]
  /\ at \in [Procs -> {"idle", "guard", "ensure", "read", "up", "logs", "stream", "down",
                       "status", "stop", "open", "work", "restart_read", "report"}]
  /\ restart \in [Procs -> BOOLEAN] /\ urls \in [Procs -> Generations]
  /\ outcome \in [Procs -> {"ok", "error", "cleanup_incomplete"}]
  /\ commands \in 0..MaxCommands /\ quiet \in BOOLEAN /\ owed \in BOOLEAN

Init ==
  /\ data = 1 /\ unresolved = FALSE /\ ready = TRUE
  /\ containers = 0 /\ running = FALSE
  /\ cmd = [p \in Procs |-> "none"] /\ mode = [p \in Procs |-> "detach"]
  /\ at = [p \in Procs |-> "idle"] /\ restart = [p \in Procs |-> FALSE]
  /\ urls = [p \in Procs |-> 1] /\ outcome = [p \in Procs |-> "ok"]
  /\ commands = 0 /\ quiet = TRUE /\ owed = FALSE

-----------------------------------------------------------------------------
Goto(p, label) == at' = [at EXCEPT ![p] = label] /\ UNCHANGED <<cmd, mode, commands>>
Stays == UNCHANGED <<restart, urls, outcome>>
Ends(p, code) ==
  /\ Goto(p, "report") /\ outcome' = [outcome EXCEPT ![p] = code]
  /\ UNCHANGED <<restart, urls>>

First(c) == CASE c = "run" -> "guard" [] c \in Refreshing -> "status" [] OTHER -> "stop"

Start(p, c, m) ==
  /\ cmd[p] = "none" /\ commands < MaxCommands
  /\ c # "run" => m = "detach"
  /\ c = "resume" => unresolved               \* job_already_terminal
  /\ cmd' = [cmd EXCEPT ![p] = c] /\ mode' = [mode EXCEPT ![p] = m]
  /\ at' = [at EXCEPT ![p] = First(c)]
  /\ outcome' = [outcome EXCEPT ![p] = "ok"] /\ restart' = [restart EXCEPT ![p] = FALSE]
  /\ commands' = commands + 1
  /\ quiet' = (quiet /\ \A q \in Procs : cmd[q] = "none")
  /\ UNCHANGED <<environment, compose, urls, owed>>

Leave(p) ==
  /\ cmd' = [cmd EXCEPT ![p] = "none"] /\ at' = [at EXCEPT ![p] = "idle"]
  /\ mode' = [mode EXCEPT ![p] = "detach"] /\ outcome' = [outcome EXCEPT ![p] = "ok"]
  /\ restart' = [restart EXCEPT ![p] = FALSE] /\ urls' = [urls EXCEPT ![p] = 1]
  /\ UNCHANGED <<environment, compose, commands, history>>

Report(p) == at[p] = "report" /\ Leave(p)

(* Killed, or gone 30 s after a signal. *)
Crash(p) == cmd[p] # "none" /\ at[p] # "report" /\ Leave(p)

-----------------------------------------------------------------------------
(* docker compose.                                                         *)

(* up --detach recreates the containers whose environment has changed; when it *)
(* fails it may have done nothing, or some of them may run.                *)
Up(p, next) ==
  /\ \/ containers' = urls[p] /\ running' = TRUE /\ owed' = FALSE /\ Goto(p, next) /\ Stays
     \/ containers' = urls[p] /\ running' \in BOOLEAN /\ owed' = FALSE /\ Ends(p, "error")
     \/ UNCHANGED <<compose, owed>> /\ Ends(p, "error")
  /\ UNCHANGED <<environment, quiet>>

Stopped == running' = FALSE /\ UNCHANGED containers
StopFails == UNCHANGED compose

-----------------------------------------------------------------------------
(* repobox run.                                                            *)

(* guard_run_against_unresolved_mutation, after the state file was read. *)
Guard(p) ==
  /\ at[p] = "guard"
  /\ IF unresolved THEN Ends(p, "error")
     ELSE Goto(p, IF ready THEN "read" ELSE "ensure") /\ Stays
  /\ UNCHANGED <<environment, compose, history>>

(* EnvironmentManager::ensure, see EnvironmentLifecycle; a refresh that is   *)
(* under way makes it fail, and it has nothing to do after one.              *)
Ensure(p) ==
  /\ at[p] = "ensure"
  /\ \/ ready /\ ~unresolved /\ Goto(p, "read") /\ Stays
     \/ Ends(p, "error")
  /\ UNCHANGED <<environment, compose, history>>

(* The state file is read again: environment_variables wants a ready record. *)
Read(p) ==
  /\ at[p] \in {"read", "restart_read"}
  /\ IF ready
     THEN /\ urls' = [urls EXCEPT ![p] = data]
          /\ Goto(p, "up") /\ UNCHANGED <<restart, outcome>>
     ELSE Ends(p, "error")
  /\ UNCHANGED <<environment, compose, history>>

RunUp(p) ==
  /\ at[p] = "up"
  /\ Up(p, IF cmd[p] = "run" /\ mode[p] \in Foreground THEN "logs" ELSE "report")

(* The logs are followed.  If they cannot be, or standard output is gone,  *)
(* json and plain mode return without stopping the services; the dashboard *)
(* stops them.                                                             *)
FollowLogs(p) ==
  /\ at[p] = "logs"
  /\ \/ Goto(p, "stream") /\ Stays
     \/ mode[p] # "dashboard" /\ Ends(p, "error")
     \/ mode[p] = "dashboard" /\ outcome' = [outcome EXCEPT ![p] = "error"]
        /\ Goto(p, "down") /\ UNCHANGED <<restart, urls>>
  /\ UNCHANGED <<environment, compose, history>>

(* Until a signal or the dashboard's user asks for the end ("ok"), or       *)
(* the logs fail.                                                          *)
StreamEnds(p) ==
  /\ at[p] = "stream"
  /\ \E code \in {"ok", "error"} : outcome' = [outcome EXCEPT ![p] = code]
  /\ Goto(p, "down") /\ UNCHANGED <<restart, urls>>
  /\ UNCHANGED <<environment, compose, history>>

(* Mistake: the result of the stop is not looked at. *)
DownUnchecked(p) ==
  /\ at[p] = "down"
  /\ (Stopped \/ StopFails) /\ Goto(p, "report") /\ Stays
  /\ UNCHANGED <<environment, history>>

(* finish_compose_shutdown. *)
Down(p) ==
  /\ at[p] = "down"
  /\ \/ Stopped /\ Goto(p, "report") /\ Stays
     \/ StopFails /\ Ends(p, "cleanup_incomplete")
  /\ UNCHANGED <<environment, history>>

-----------------------------------------------------------------------------
(* repobox stop, service restart.                                          *)

Stop(p) ==
  /\ at[p] = "stop" /\ cmd[p] = "stop"
  /\ \/ Stopped /\ owed' = FALSE /\ Ends(p, "ok")
     \/ StopFails /\ Ends(p, "error") /\ UNCHANGED owed
  /\ UNCHANGED <<environment, quiet>>

(* Mistake: success is reported for services that were never created. *)
RestartServiceBlind(p) ==
  /\ at[p] = "stop" /\ cmd[p] = "service_restart"
  /\ running' = TRUE /\ owed' = FALSE /\ Ends(p, "ok")
  /\ UNCHANGED <<environment, containers, quiet>>

(* docker compose restart starts stopped containers too, as they are; the    *)
(* command looks neither at the job nor at the record.                     *)
RestartService(p) ==
  /\ at[p] = "stop" /\ cmd[p] = "service_restart"
  /\ \/ /\ containers # 0 /\ running' = TRUE /\ owed' = FALSE
        /\ quiet' = (quiet /\ running) /\ Ends(p, "ok")
     \/ /\ Ends(p, "error") /\ UNCHANGED <<running, owed, quiet>>
  /\ UNCHANGED <<environment, containers>>

-----------------------------------------------------------------------------
(* repobox pull, job resume.                                               *)

(* If `docker compose ps` fails, status says that nothing runs. *)
Status(p) ==
  /\ at[p] = "status"
  /\ \E answered \in BOOLEAN :
       /\ restart' = [restart EXCEPT ![p] = answered /\ running]
       /\ quiet' = (quiet /\ (running => answered))
       /\ Goto(p, IF answered /\ running THEN "stop" ELSE "open")
  /\ UNCHANGED <<environment, compose, urls, outcome, owed>>

(* Mistake: the refresh goes on although the services could not be stopped. *)
StopFirstUnchecked(p) ==
  /\ at[p] = "stop" /\ cmd[p] \in Refreshing
  /\ (Stopped \/ StopFails) /\ Goto(p, "open") /\ Stays
  /\ UNCHANGED <<environment, history>>

StopFirst(p) ==
  /\ at[p] = "stop" /\ cmd[p] \in Refreshing
  /\ \/ Stopped /\ Goto(p, "open") /\ Stays
     \/ StopFails /\ Ends(p, "error")
  /\ UNCHANGED <<environment, history>>

(* Credentials, then the checks of the manager: an error here comes after  *)
(* the stop, and before any job.                                           *)
Open(p) ==
  /\ at[p] = "open"
  /\ \/ unresolved' = TRUE /\ ready' = FALSE /\ Goto(p, "work") /\ Stays
     \/ Ends(p, "error") /\ UNCHANGED <<unresolved, ready>>
  /\ UNCHANGED <<data, compose, history>>

(* A refresh that fails may have passed the swap; then a resume completes it. *)
Swap(p) ==
  /\ at[p] = "work" /\ data <= MaxRefreshes
  /\ data' = data + 1
  /\ UNCHANGED <<unresolved, ready, compose, process, commands, history>>

Work(p) ==
  /\ at[p] = "work"
  /\ \/ /\ unresolved' = FALSE /\ ready' = TRUE
        /\ Goto(p, IF restart[p] THEN "restart_read" ELSE "report") /\ Stays
        /\ UNCHANGED owed
     \/ /\ Ends(p, "error") /\ UNCHANGED <<unresolved, ready>>
        /\ owed' = (owed \/ restart[p])
  /\ UNCHANGED <<data, compose, quiet>>

-----------------------------------------------------------------------------
Next == \E p \in Procs :
  \/ \E c \in {"run", "stop", "service_restart"} \cup Refreshing, m \in Foreground \cup {"detach"} :
       Start(p, c, m)
  \/ Report(p) \/ Crash(p)
  \/ Guard(p) \/ Ensure(p) \/ Read(p) \/ RunUp(p) \/ FollowLogs(p) \/ StreamEnds(p) \/ Down(p)
  \/ Stop(p) \/ RestartService(p)
  \/ Status(p) \/ StopFirst(p) \/ Open(p) \/ Swap(p) \/ Work(p)

Spec == Init /\ [][Next]_vars

-----------------------------------------------------------------------------
(* Properties.                                                             *)

(* The services never run on the URLs of a branch that has been replaced,   *)
(* nor while a refresh is unresolved; whatever failed or was killed before, *)
(* as long as no two commands ran at the same time, docker answered ps      *)
(* whenever they ran, and no `service restart` started stopped containers. *)
ServicesMatchTheData ==
  quiet /\ running => containers = data /\ ready /\ ~unresolved

(* configuration.md:199: a foreground run exits with success only when its *)
(* services have been stopped.                                             *)
SuccessMeansStopped ==
  \A p \in Procs :
    quiet /\ at[p] = "report" /\ cmd[p] = "run" /\ mode[p] \in Foreground /\ outcome[p] = "ok"
      => ~running

(* agent-contract.md:210: a failed pull leaves the services stopped until a *)
(* successful resume.  After that they are stopped still: the resume finds *)
(* them stopped and has nothing to restart.                                *)
ResumeRestartsServices ==
  \A p \in Procs :
    at[p] = "report" /\ cmd[p] = "resume" /\ outcome[p] = "ok" /\ owed => running
=============================================================================
