----------------------------- MODULE NativeChild ----------------------------
(***************************************************************************)
(* The child of a native runtime (ManagedRuntimeChild of app.rs) and the   *)
(* signals that end it.  An interactive child shares the terminal's        *)
(* foreground group: Ctrl-C reaches it and Repobox together, and must not  *)
(* be passed on a second time; SIGTERM reaches Repobox alone.  Any other   *)
(* child has a group of its own and hears only what Repobox sends.         *)
(***************************************************************************)
EXTENDS Naturals

CONSTANT MaxSignals   \* bound: Ctrl-C and SIGTERM together

VARIABLES
  control,   \* "foreground", "isolated", or "json": isolated, its output read
  child,     \* "running", how it ended, or "killed"
  asked,     \* SIGINTs the child was sent
  sent,      \* signals the user sent
  arrived,   \* one has arrived that main.rs waits for
  cancelled, \* OperationCancellation
  ctrlC,     \* a Ctrl-C that foreground_ctrl_c has yet to see
  pc, result

vars == <<control, child, asked, sent, arrived, cancelled, ctrlC, pc, result>>
signals == <<asked, sent, arrived, cancelled, ctrlC>>

Results == {"none", "ok", "native_runtime_failed", "native_runtime_cleanup_incomplete",
            "operation_interrupted_cleanup_incomplete"}

TypeOK ==
  /\ control \in {"foreground", "isolated", "json"}
  /\ child \in {"running", "success", "failure", "by_interrupt", "killed"}
  /\ asked \in 0..(2 * MaxSignals) /\ sent \in 0..MaxSignals
  /\ arrived \in BOOLEAN /\ cancelled \in BOOLEAN /\ ctrlC \in BOOLEAN
  /\ pc \in {"wait", "reap", "propagation", "grace", "ended"}
  /\ result \in Results /\ (pc = "ended") = (result # "none")

Init ==
  /\ control \in {"foreground", "isolated", "json"}
  /\ child = "running" /\ asked = 0 /\ sent = 0
  /\ arrived = FALSE /\ cancelled = FALSE /\ ctrlC = FALSE
  /\ pc = "wait" /\ result = "none"

Foreground == control = "foreground"

-----------------------------------------------------------------------------
(* The user and the child: external.                                       *)

CtrlC ==
  /\ pc # "ended" /\ sent < MaxSignals
  /\ sent' = sent + 1 /\ arrived' = TRUE
  /\ ctrlC' = (ctrlC \/ Foreground)
  /\ asked' = IF Foreground /\ child = "running" THEN asked + 1 ELSE asked
  /\ UNCHANGED <<control, child, cancelled, pc, result>>

Sigterm ==
  /\ pc # "ended" /\ sent < MaxSignals
  /\ sent' = sent + 1 /\ arrived' = TRUE
  /\ UNCHANGED <<control, child, asked, cancelled, ctrlC, pc, result>>

ChildEnds ==
  /\ child = "running"
  /\ child' \in {"success", "failure"} \cup (IF asked > 0 THEN {"by_interrupt"} ELSE {})
  /\ UNCHANGED <<control, signals, pc, result>>

-----------------------------------------------------------------------------
(* Repobox.                                                                *)

(* run_with_graceful_interruption: the first signal cancels. *)
Cancel ==
  /\ arrived /\ ~cancelled /\ pc # "ended"
  /\ cancelled' = TRUE
  /\ UNCHANGED <<control, child, asked, sent, arrived, ctrlC, pc, result>>

Ends(code) == pc' = "ended" /\ result' = code

(* native_foreground_status_was_interrupted counts as a clean end. *)
ByStatus ==
  IF child = "success" \/ (Foreground /\ child = "by_interrupt") THEN "ok"
  ELSE "native_runtime_failed"

(* The biased select of wait_native_runtime_child: Ctrl-C first ... *)
SeeCtrlC ==
  /\ pc \in {"wait", "propagation"} /\ Foreground /\ ctrlC
  /\ ctrlC' = FALSE /\ pc' = "grace"
  /\ UNCHANGED <<control, child, asked, sent, arrived, cancelled, result>>

(* Mistake: the cancellation is forwarded at once, also to a foreground child. *)
ForwardAtOnce ==
  /\ pc = "wait" /\ cancelled
  /\ asked' = IF child = "running" THEN asked + 1 ELSE asked
  /\ pc' = "grace"
  /\ UNCHANGED <<control, child, sent, arrived, cancelled, ctrlC, result>>

(* ... then the cancellation: a foreground child is given 50 ms in which     *)
(* the Ctrl-C may show that it has heard it itself ...                     *)
SeeCancelled ==
  /\ pc = "wait" /\ cancelled /\ ~ctrlC /\ Foreground
  /\ pc' = "propagation"
  /\ UNCHANGED <<control, child, signals, result>>

(* ... and is sent SIGINT, as an isolated one is at once.  Where that       *)
(* fails the child is killed as it is dropped.                             *)
Forward ==
  /\ ~ctrlC /\ cancelled /\ pc = IF Foreground THEN "propagation" ELSE "wait"
  /\ \/ /\ asked' = IF child = "running" THEN asked + 1 ELSE asked
        /\ pc' = "grace" /\ UNCHANGED <<child, result>>
     \/ /\ child = "running" /\ child' = "killed"
        /\ Ends("native_runtime_cleanup_incomplete") /\ UNCHANGED asked
  /\ UNCHANGED <<control, sent, arrived, cancelled, ctrlC>>

(* ... and last its end.  With json the loop over its output ends first, once *)
(* the pipes are closed, by the child's end or before it; a select without *)
(* bias may prefer that to a cancellation.                                 *)
SeeEnd ==
  /\ pc = "wait" /\ control # "json" /\ child # "running" /\ ~cancelled /\ ~ctrlC
  /\ Ends(ByStatus)
  /\ UNCHANGED <<control, child, signals>>

OutputCloses ==
  /\ pc = "wait" /\ control = "json"
  /\ pc' = "reap"
  /\ UNCHANGED <<control, child, signals, result>>

(* This wait sees neither signal nor cancellation. *)
Reap ==
  /\ pc = "reap" /\ child # "running"
  /\ Ends(ByStatus)
  /\ UNCHANGED <<control, child, signals>>

(* stop_interrupted_runtime. *)
EndsInGrace ==
  /\ pc = "grace" /\ child # "running"
  /\ Ends("ok")
  /\ UNCHANGED <<control, child, signals>>

(* Mistake: a forced end is taken for a clean one. *)
GraceExpiresQuietly ==
  /\ pc = "grace" /\ child = "running"
  /\ child' = "killed" /\ Ends("ok")
  /\ UNCHANGED <<control, signals>>

(* Mistake: no limit to the grace period. *)
GraceExpiresNever ==
  /\ pc = "grace" /\ child = "running" /\ sent > MaxSignals
  /\ child' = "killed" /\ Ends("native_runtime_cleanup_incomplete")
  /\ UNCHANGED <<control, signals>>

(* 10 s. *)
GraceExpires ==
  /\ pc = "grace" /\ child = "running"
  /\ child' = "killed" /\ Ends("native_runtime_cleanup_incomplete")
  /\ UNCHANGED <<control, signals>>

(* The 30 s of main.rs; 10 s and 50 ms pass before only in Reap. *)
TimesOut ==
  /\ pc = "reap" /\ cancelled
  /\ child' = IF child = "running" THEN "killed" ELSE child
  /\ Ends("operation_interrupted_cleanup_incomplete")
  /\ UNCHANGED <<control, signals>>

Step == Cancel \/ SeeCtrlC \/ SeeCancelled \/ Forward \/ SeeEnd \/ Reap \/ EndsInGrace
        \/ GraceExpires \/ TimesOut

Next == CtrlC \/ Sigterm \/ ChildEnds \/ OutputCloses \/ Step

(* tokio polls the process; nothing is assumed of the user or the child. *)
Spec == Init /\ [][Next]_vars /\ WF_vars(Step)

-----------------------------------------------------------------------------
(* Properties.                                                             *)

(* The child is asked to end at most once for each signal of the user: a    *)
(* second SIGINT makes many programs abandon their cleanup.                *)
AskedOncePerSignal == asked <= sent

(* Whatever the order of signals and ends, a run that says ok leaves no     *)
(* child, and has killed none.                                             *)
OkIsGraceful == result = "ok" => child \notin {"running", "killed"}

(* A signal ends the run, whatever the child does. *)
SignalEndsRun == arrived ~> pc = "ended"
=============================================================================
