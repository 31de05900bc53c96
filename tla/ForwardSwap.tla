----------------------------- MODULE ForwardSwap -----------------------------
(***************************************************************************)
(* What `repobox pull` promises, without saying how: the data behind every *)
(* selected service is replaced by a prepared copy, the old copy is given  *)
(* up only for a copy that is complete and that a stored credential opens, *)
(* and the environment is offered to the runtime again only when every     *)
(* selected service serves the new data under a credential that opens it.  *)
(***************************************************************************)
CONSTANT Services   \* the configured database services

VARIABLES
  open,         \* may the local runtime be started on the environment?
  selected,     \* the services the current (or last) refresh replaces
  serving,      \* what the environment's own branch of a service holds
  replacement,  \* the copy being prepared for a service
  access        \* the data that the environment's stored credential opens

vars == <<open, selected, serving, replacement, access>>

TypeOK ==
  /\ open \in BOOLEAN
  /\ selected \subseteq Services
  /\ serving \in [Services -> {"old", "none", "new"}]
  /\ replacement \in [Services -> {"absent", "partial", "usable"}]
  /\ access \in [Services -> {"old", "new"}]

Init ==
  /\ open = TRUE
  /\ selected = {}
  /\ serving = [s \in Services |-> "old"]
  /\ replacement = [s \in Services |-> "absent"]
  /\ access = [s \in Services |-> "old"]

Begin(chosen) ==   \* a refresh of the chosen services; what is served now is the old data
  /\ open
  /\ open' = FALSE
  /\ selected' = chosen
  /\ serving' = [s \in Services |-> "old"]
  /\ access' = [s \in Services |-> "old"]
  /\ UNCHANGED replacement

Prepare(s) ==      \* work on the copy; it may become usable, never the reverse
  /\ ~open
  /\ s \in selected
  /\ serving[s] = "old"
  /\ replacement[s] # "usable"
  /\ replacement' \in {[replacement EXCEPT ![s] = "partial"],
                       [replacement EXCEPT ![s] = "usable"]}
  /\ UNCHANGED <<open, selected, serving, access>>

Retire(s) ==       \* give the old data up, for a copy that is usable
  /\ replacement[s] = "usable"
  /\ serving[s] = "old"
  /\ serving' = [serving EXCEPT ![s] = "none"]
  /\ UNCHANGED <<open, selected, replacement, access>>

Promote(s) ==      \* the copy becomes what the environment serves
  /\ replacement[s] = "usable"
  /\ serving[s] = "none"
  /\ serving' = [serving EXCEPT ![s] = "new"]
  /\ replacement' = [replacement EXCEPT ![s] = "absent"]
  /\ UNCHANGED <<open, selected, access>>

HandOver(s) ==     \* the environment's credential now opens the new data
  /\ serving[s] = "new"
  /\ access' = [access EXCEPT ![s] = "new"]
  /\ UNCHANGED <<open, selected, serving, replacement>>

Finish ==
  /\ ~open
  /\ \A s \in selected : serving[s] = "new" /\ access[s] = "new"
  /\ open' = TRUE
  /\ UNCHANGED <<selected, serving, replacement, access>>

Next ==
  \/ \E chosen \in (SUBSET Services) \ {{}} : Begin(chosen)
  \/ \E s \in Services : Prepare(s) \/ Retire(s) \/ Promote(s) \/ HandOver(s)
  \/ Finish

Spec == Init /\ [][Next]_vars
==============================================================================
