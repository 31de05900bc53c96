------------------------------- MODULE MCParts ------------------------------
(***************************************************************************)
(* Seven parts that are too small for a run of their own: an execution is    *)
(* one of one part, chosen at the start, and the others keep a state they  *)
(* may start in.  A prefix keeps the variables of the parts apart.         *)
(***************************************************************************)
EXTENDS CredentialStore, Naturals

CONSTANTS
  Procs, MaxCommands, MaxRefreshes,  \* LocalRuntime
  MaxSignals,                      \* NativeChild
  MaxRetries,                      \* ProviderRequest
  MaxLogins, Expiry, Intervals,    \* DeviceLogin
  MaxChanges, FlushesPerDraw,      \* FrameKernel
  Names, Databases, NoDatabase     \* ConfiguredEnvironment

(* The bounds are numbers; an interval past the deadline is as good as another. *)
ASSUME BoundsAssumption ==
  /\ MaxCommands \in Nat /\ MaxRefreshes \in Nat
  /\ MaxSignals \in Nat
  /\ MaxRetries \in Nat
  /\ MaxLogins \in Nat /\ Expiry \in Nat /\ Intervals \subseteq 0..(Expiry + 1)
  /\ MaxChanges \in Nat /\ FlushesPerDraw \in Nat

(* The documents below need two services and two databases. *)
ASSUME DocumentsAssumption ==
  /\ NoDatabase \notin Databases
  /\ \E s, t \in Names : s # t
  /\ \E d, e \in Databases : d # e

VARIABLES
  part,
  r_data, r_unresolved, r_ready, r_containers, r_running, r_cmd, r_mode,
  r_at, r_restart, r_urls, r_outcome, r_commands, r_quiet, r_owed,
  n_control, n_child, n_asked, n_sent, n_arrived, n_cancelled, n_ctrlC,
  n_pc, n_result,
  q_method, q_tries, q_resource, q_created, q_deleted, q_phase, q_answer,
  q_result,
  l_cmd, l_dry, l_pc, l_left, l_sleep, l_interval, l_asked, l_since,
  l_logins, l_live, l_stored, l_result,
  f_changes, f_dirty, f_inFlight, f_immediate, f_lastSeq, f_due, f_ui,
  f_toFlush, f_drawing, f_sequence, f_channel, f_writer, f_message, f_acks,
  f_shown,
  c_config, c_record, c_bindings, c_kind, c_status, c_steps, c_branches, c_roles,
  c_keys, c_pc, c_loaded, c_todo, c_cur, c_failed, c_starting, c_targets,
  c_keep

runtime == <<
  r_data, r_unresolved, r_ready, r_containers, r_running, r_cmd, r_mode,
  r_at, r_restart, r_urls, r_outcome, r_commands, r_quiet, r_owed>>
native == <<
  n_control, n_child, n_asked, n_sent, n_arrived, n_cancelled, n_ctrlC,
  n_pc, n_result>>
request == <<
  q_method, q_tries, q_resource, q_created, q_deleted, q_phase, q_answer,
  q_result>>
login == <<
  l_cmd, l_dry, l_pc, l_left, l_sleep, l_interval, l_asked, l_since,
  l_logins, l_live, l_stored, l_result>>
frames == <<
  f_changes, f_dirty, f_inFlight, f_immediate, f_lastSeq, f_due, f_ui,
  f_toFlush, f_drawing, f_sequence, f_channel, f_writer, f_message, f_acks,
  f_shown>>
configured == <<
  c_config, c_record, c_bindings, c_kind, c_status, c_steps, c_branches, c_roles,
  c_keys, c_pc, c_loaded, c_todo, c_cur, c_failed, c_starting, c_targets,
  c_keep>>

(* Documents for ConfiguredEnvironment: a service alone, renamed, with a    *)
(* second one, the two with databases and variables exchanged, the two on   *)
(* one database, and a document that assigns a variable twice.             *)
Service(d, p, q, l) == [database |-> d, pooled |-> p, direct |-> q, local |-> l]

PartsDocuments ==
  LET first == CHOOSE s \in Names : TRUE
      second == CHOOSE s \in Names : s # first
      x == CHOOSE d \in Databases : TRUE
      y == CHOOSE d \in Databases : d # x
      One(s, e) == [n \in {s} |-> e]
      Two(e, f) == [n \in Names |-> IF n = first THEN e ELSE f] IN
  {One(first, Service(x, "v1", "v2", "pg")), One(second, Service(x, "v1", "v2", "pg")),
   Two(Service(x, "v1", "v2", "pg"), Service(y, "v3", "v4", "audit")),
   Two(Service(y, "v3", "v4", "pg"), Service(x, "v1", "v2", "audit")),
   Two(Service(x, "v1", "v2", "pg"), Service(x, "v3", "v4", "audit")),
   Two(Service(x, "v1", "v2", "pg"), Service(y, "v2", "v3", "audit"))}

PartsDependencies == [c \in {"app", "pg", "audit"} |-> IF c = "app" THEN {"pg"} ELSE {}]
PartsOwnVariables == [c \in {"app", "pg", "audit"} |-> IF c = "app" THEN {"v1"} ELSE {}]

Runtime == INSTANCE LocalRuntime WITH
  data <- r_data, unresolved <- r_unresolved, ready <- r_ready,
  containers <- r_containers, running <- r_running, cmd <- r_cmd,
  mode <- r_mode, at <- r_at, restart <- r_restart, urls <- r_urls,
  outcome <- r_outcome, commands <- r_commands, quiet <- r_quiet,
  owed <- r_owed
Native == INSTANCE NativeChild WITH
  control <- n_control, child <- n_child, asked <- n_asked, sent <- n_sent,
  arrived <- n_arrived, cancelled <- n_cancelled, ctrlC <- n_ctrlC,
  pc <- n_pc, result <- n_result
Request == INSTANCE ProviderRequest WITH
  method <- q_method, tries <- q_tries, resource <- q_resource,
  created <- q_created, deleted <- q_deleted, phase <- q_phase,
  answer <- q_answer, result <- q_result
Login == INSTANCE DeviceLogin WITH
  cmd <- l_cmd, dry <- l_dry, pc <- l_pc, left <- l_left, sleep <- l_sleep,
  interval <- l_interval, asked <- l_asked, since <- l_since,
  logins <- l_logins, live <- l_live, stored <- l_stored, result <- l_result
Frames == INSTANCE FrameKernel WITH
  changes <- f_changes, dirty <- f_dirty, inFlight <- f_inFlight,
  immediate <- f_immediate, lastSeq <- f_lastSeq, due <- f_due, ui <- f_ui,
  toFlush <- f_toFlush, drawing <- f_drawing, sequence <- f_sequence,
  channel <- f_channel, writer <- f_writer, message <- f_message,
  acks <- f_acks, shown <- f_shown
Configured == INSTANCE ConfiguredEnvironment WITH
  Documents <- PartsDocuments, Dependencies <- PartsDependencies,
  OwnVariables <- PartsOwnVariables, config <- c_config, record <- c_record,
  bindings <- c_bindings, kind <- c_kind, status <- c_status, steps <- c_steps,
  branches <- c_branches, roles <- c_roles, keys <- c_keys, pc <- c_pc,
  loaded <- c_loaded, todo <- c_todo, cur <- c_cur, failed <- c_failed,
  starting <- c_starting, targets <- c_targets, keep <- c_keep

-----------------------------------------------------------------------------
PartsInit ==
  /\ part \in {"runtime", "credentials", "native", "request", "login", "frames", "configured"}
  /\ Init /\ Runtime!Init /\ Native!Init /\ Request!Init /\ Login!Init /\ Frames!Init
  /\ Configured!Init
  /\ part # "credentials" => file.item = NoValue /\ ring = NoValue
  /\ part # "native" => n_control = "json"
  /\ part # "configured" => c_config = CHOOSE d \in PartsDocuments : Configured!Valid(d)
  /\ part # "request" => q_method = "get" /\ q_resource = 0

PartsNext ==
  \/ /\ part = "runtime" /\ Runtime!Next
     /\ UNCHANGED <<part, vars, native, request, login, frames, configured>>
  \/ /\ part = "credentials" /\ Next
     /\ UNCHANGED <<part, runtime, native, request, login, frames, configured>>
  \/ /\ part = "native" /\ Native!Next
     /\ UNCHANGED <<part, vars, runtime, request, login, frames, configured>>
  \/ /\ part = "request" /\ Request!Next
     /\ UNCHANGED <<part, vars, runtime, native, login, frames, configured>>
  \/ /\ part = "login" /\ Login!Next
     /\ UNCHANGED <<part, vars, runtime, native, request, frames, configured>>
  \/ /\ part = "frames" /\ Frames!Next
     /\ UNCHANGED <<part, vars, runtime, native, request, login, configured>>
  \/ /\ part = "configured" /\ Configured!Next
     /\ UNCHANGED <<part, vars, runtime, native, request, login, frames>>

all == <<part, vars, runtime, native, request, login, frames, configured>>

(* The fairness of each part, as its own module states it. *)
PartsSpec ==
  /\ PartsInit /\ [][PartsNext]_all
  /\ WF_native(part = "native" /\ Native!Step)
  /\ WF_login(part = "login" /\ Login!Tick)
  /\ WF_login(part = "login" /\ Login!Step)
  /\ WF_frames(part = "frames" /\ Frames!Task)
  /\ WF_frames(part = "frames" /\ Frames!Thread)

-----------------------------------------------------------------------------
(* The types of all parts. *)
PartsTypeOK ==
  /\ TypeOK /\ Runtime!TypeOK /\ Native!TypeOK /\ Request!TypeOK /\ Login!TypeOK
  /\ Frames!TypeOK /\ Configured!TypeOK

(* app.rs: services never run on the URLs of data that has been replaced. *)
ServicesMatchTheData == Runtime!ServicesMatchTheData

(* app.rs: a foreground run that reports success has stopped its services. *)
SuccessMeansStopped == Runtime!SuccessMeansStopped

(* app.rs: the child is interrupted at most once for each signal. *)
AskedOncePerSignal == Native!AskedOncePerSignal

(* app.rs: a run that reports success has killed no child and left none. *)
OkIsGraceful == Native!OkIsGraceful

(* app.rs: a signal ends the run, whatever the child does. *)
SignalEndsRun == Native!SignalEndsRun

(* client.rs: a deletion that was done is never reported as missing. *)
DeletionIsIdempotent == Request!DeletionIsIdempotent

(* client.rs: a creation that is refused has created nothing. *)
RefusedMeansNotCreated == Request!RefusedMeansNotCreated

(* auth.rs: no poll comes too early, or after the deadline. *)
PollsWhenAsked == Login!PollsWhenAsked

(* auth.rs: the wait for an approval ends. *)
WaitEnds == Login!WaitEnds

(* app.rs: the result of a browser login tells what became of its token. *)
ResultTellsTheToken == Login!ResultTellsTheToken

(* app.rs: a logout drops no local copy of a token that is still valid. *)
LogoutKeepsWhatLives == Login!LogoutKeepsWhatLives

(* config.rs, environment.rs, driver.rs: an edit of the document misleads no  *)
(* container and loses no branch.                                          *)
EditsAreSafe == Configured!EditsAreSafe

(* kernel.rs: every change is shown at last. *)
ChangesAreShown == Frames!ChangesAreShown

(* kernel.rs: a terminal that fails ends the dashboard. *)
DeadTerminalEndsIt == Frames!DeadTerminalEndsIt
=============================================================================
