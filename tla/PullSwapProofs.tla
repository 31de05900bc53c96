--------------------------- MODULE PullSwapProofs ---------------------------
(***************************************************************************)
(* Proofs about PullSwap, for every set of services.                       *)
(***************************************************************************)
EXTENDS PullSwap, TLAPS

(* What the ledger's checkpoint of a step says about the provider and the   *)
(* credential store, no matter where the last command stopped.              *)
Untouched(s) ==
  canonical[s] = "old" /\ canonicalKey[s] = "old" /\ bound[s] = "old"

CheckpointHolds(s) ==
  /\ phase[s] = "planned" =>
       /\ Untouched(s)
       /\ staging[s] # "extended" /\ role[s] = "none" /\ stagingKey[s] = "none"
  /\ phase[s] = "staged" =>
       /\ Untouched(s)
       /\ staging[s] \in {"ready", "extended"}
       /\ stagingKey[s] # "dead"
       /\ stagingKey[s] = "live" <=> role[s] = "saved"
       /\ staging[s] = "extended" => stagingKey[s] = "live"
  /\ phase[s] = "credentialed" =>
       /\ UsableCopy(s)
       /\ canonical[s] \in {"old", "absent"}
       /\ canonicalKey[s] = "old" /\ bound[s] = "old"
  /\ phase[s] = "old_deleted" =>
       /\ role[s] = "saved" /\ stagingKey[s] = "live"
       /\ \/ canonical[s] = "absent" /\ staging[s] = "extended"
          \/ canonical[s] \in {"renaming", "new"} /\ staging[s] = "absent"
       /\ canonicalKey[s] = "old" /\ bound[s] = "old"
  /\ phase[s] = "renamed" =>
       /\ role[s] = "saved" /\ stagingKey[s] = "live"
       /\ canonical[s] \in {"renaming", "new"} /\ staging[s] = "absent"
       /\ canonicalKey[s] = "old" /\ bound[s] = "old"
  /\ phase[s] = "swapped" =>
       /\ role[s] = "saved"
       /\ canonical[s] = "new" /\ staging[s] = "absent"
       /\ stagingKey[s] = "live" \/ (stagingKey[s] = "none" /\ canonicalKey[s] = "new")
       /\ canonicalKey[s] # "dead"
  /\ phase[s] = "complete" =>
       /\ role[s] = "saved"
       /\ canonical[s] = "new" /\ staging[s] = "absent"
       /\ stagingKey[s] = "none" /\ canonicalKey[s] = "new" /\ bound[s] = "new"

(* What the control point of the running command adds for its service.      *)
ControlHolds(s) ==
  /\ pc = "find_staging" => phase[s] \in {"planned", "staged"}
  /\ pc = "restore" => phase[s] = "planned"
  /\ pc = "await_staging" => phase[s] = "planned" /\ staging[s] \in {"restoring", "ready"}
  /\ pc = "mark_staged" => phase[s] = "planned" /\ staging[s] = "ready"
  /\ pc \in {"ensure_role", "create_role", "store_staging_key", "replay_extensions",
             "mark_credentialed"} => phase[s] = "staged"
  /\ pc = "create_role" => role[s] = "none" /\ stagingKey[s] = "none"
  /\ pc = "store_staging_key" => stagingKey[s] = "none"
  /\ pc = "replay_extensions" => stagingKey[s] = "live"
  /\ pc = "mark_credentialed" => staging[s] = "extended"
  /\ pc \in {"delete_old", "mark_old_deleted"} => phase[s] = "credentialed"
  /\ pc = "mark_old_deleted" => canonical[s] = "absent"
  /\ pc \in {"rename", "mark_renamed"} => phase[s] = "old_deleted"
  /\ pc = "mark_renamed" => staging[s] = "absent"
  /\ pc = "await_canonical" => phase[s] = "renamed"
  /\ pc \in {"transfer", "drop_staging_key", "bind", "mark_complete"} => phase[s] = "swapped"
  /\ pc = "drop_staging_key" => canonicalKey[s] = "new"
  /\ pc \in {"bind", "mark_complete"} => stagingKey[s] = "none"
  /\ pc = "mark_complete" => bound[s] = "new"

(* A service outside the refresh, or one whose refresh is over. *)
AtRest(s) ==
  /\ staging[s] = "absent" /\ stagingKey[s] = "none"
  /\ canonical[s] \in {"old", "new"}
  /\ canonicalKey[s] = canonical[s] /\ bound[s] = canonical[s]

CommandInv ==
  /\ pc # "idle" => job = "running"
  /\ pc \in ServiceLabels <=> cur # NoService
  /\ pc \in ServiceLabels => cur \in scope /\ step[cur] # "succeeded"
  /\ pc = "settle" /\ ~failed => \A s \in scope : step[s] = "succeeded"

ServiceInv(s) ==
  /\ Unresolved /\ s \in scope => CheckpointHolds(s)
  /\ s \in scope => (step[s] = "succeeded" <=> phase[s] = "complete")
  /\ Unresolved /\ s \notin scope => AtRest(s) /\ canonical[s] = "old"
  /\ ~Unresolved => AtRest(s)
  /\ job = "succeeded" /\ s \in scope => canonical[s] = "new"
  /\ job = "none" => s \notin scope
  /\ s = cur => ControlHolds(s)

IInv ==
  /\ TypeOK
  /\ CommandInv
  /\ \A s \in Services : ServiceInv(s)

-----------------------------------------------------------------------------
(* How a step of pull_service leaves the command: at its next control       *)
(* point, or with the service's step failed.                                *)

USE DEF ledger, state, keys, provider, process, vars, Unresolved

InService == pc \in ServiceLabels /\ job = "running" /\ cur \in Services /\ cur \in scope

LEMMA InServiceFact ==
  ASSUME TypeOK, CommandInv, pc \in ServiceLabels
  PROVE  InService
  BY DEF TypeOK, LedgerTypeOK, CommandInv, InService, ServiceLabels

Leaves(label) == FailStep("next") \/ (Goto(label) /\ UNCHANGED ledger)

LEMMA AnswerLeaves ==
  ASSUME TypeOK, NEW label, Answer(label)
  PROVE  Leaves(label) /\ outage' \in {"none", "some", "over"}
  BY DEF TypeOK, Answer, Leaves, Fault, Goto, FailStep

LEMMA LeavesType ==
  ASSUME TypeOK, InService, NEW label \in ServiceLabels, Leaves(label)
  PROVE  LedgerTypeOK' /\ ProcessTypeOK'
<1>1. CASE Goto(label) /\ UNCHANGED ledger
  BY <1>1 DEF TypeOK, LedgerTypeOK, ProcessTypeOK, Goto, Labels
<1>2. CASE FailStep("next")
  BY <1>2 DEF TypeOK, LedgerTypeOK, ProcessTypeOK, FailStep, Labels, InService
<1> QED BY <1>1, <1>2 DEF Leaves

LEMMA LeavesCommandInv ==
  ASSUME TypeOK, CommandInv, InService, NEW label \in ServiceLabels, Leaves(label)
  PROVE  CommandInv'
<1>1. CASE Goto(label) /\ UNCHANGED ledger
  BY <1>1 DEF CommandInv, Goto, InService, ServiceLabels
<1>2. CASE FailStep("next")
  BY <1>2 DEF CommandInv, FailStep, InService, ServiceLabels
<1> QED BY <1>1, <1>2 DEF Leaves

(* The values a step may have changed for a service. *)
Values(s) == <<step[s], phase[s], bound[s], canonicalKey[s], stagingKey[s],
               canonical[s], staging[s], role[s]>>

LEMMA OtherServiceKept ==
  ASSUME InService, NEW s \in Services, ServiceInv(s), s # cur,
         UNCHANGED <<job, scope>>, UNCHANGED Values(s), cur' \in {cur, NoService}, s # NoService
  PROVE  ServiceInv(s)'
  BY DEF Values, ServiceInv, CheckpointHolds, AtRest, Untouched, UsableCopy, InService

LEMMA LeavesKeepsIInv ==
  ASSUME IInv, InService, NEW label \in ServiceLabels, Leaves(label),
         StoreTypeOK', outage' \in {"none", "some", "over"},
         \A s \in Services : s # cur => UNCHANGED Values(s),
         \A s \in Services : s = cur => ServiceInv(s)'
  PROVE  IInv'
<1>1. TypeOK'
  BY LeavesType DEF IInv, TypeOK
<1>2. CommandInv'
  BY LeavesCommandInv DEF IInv
<1>3. ASSUME NEW s \in Services, s # cur PROVE ServiceInv(s)'
  <2>1. UNCHANGED <<job, scope>> /\ cur' \in {cur, NoService}
    BY DEF Leaves, Goto, FailStep
  <2> QED BY <1>3, <2>1, OtherServiceKept, ServicesAssumption DEF IInv
<1> QED BY <1>1, <1>2, <1>3 DEF IInv

LEMMA RestoreStagingKeeps == ASSUME IInv, RestoreStaging PROVE IInv'
<1>1. InService
  BY InServiceFact DEF IInv, RestoreStaging, ServiceLabels
<1>2. Leaves("await_staging")
  BY AnswerLeaves, <1>1 DEF RestoreStaging, Leaves, IInv, InService, TypeOK
<1>3. "await_staging" \in ServiceLabels
  BY DEF ServiceLabels
<1>4. outage' \in {"none", "some", "over"}
  BY AnswerLeaves, <1>1 DEF RestoreStaging, IInv, TypeOK
<1>5. StoreTypeOK'
  BY <1>1 DEF RestoreStaging, IInv, TypeOK, StoreTypeOK, InService
<1>6. ASSUME NEW s \in Services, s # cur PROVE UNCHANGED Values(s)
  BY <1>6, <1>2 DEF RestoreStaging, Values, Leaves, Goto, FailStep, IInv, TypeOK, StoreTypeOK, LedgerTypeOK
<1>7. ASSUME NEW s \in Services, s = cur PROVE ServiceInv(s)'
  <2>1. CASE Goto("await_staging") /\ UNCHANGED ledger
    BY <2>1, <1>1, <1>7 DEF RestoreStaging, ServiceInv, CheckpointHolds, ControlHolds, AtRest, Untouched, UsableCopy, IInv, TypeOK, StoreTypeOK, LedgerTypeOK, InService, Goto
  <2>2. CASE FailStep("next")
    BY <2>2, <1>1, <1>7, ServicesAssumption DEF RestoreStaging, ServiceInv, CheckpointHolds, ControlHolds, AtRest, Untouched, UsableCopy, IInv, TypeOK, StoreTypeOK, LedgerTypeOK, InService, FailStep, CommandInv
  <2> QED BY <1>2, <2>1, <2>2 DEF Leaves
<1> QED BY <1>1, <1>2, <1>3, <1>4, <1>5, <1>6, <1>7, LeavesKeepsIInv

LEMMA CreateRoleKeeps == ASSUME IInv, CreateRole PROVE IInv'
<1>1. InService
  BY InServiceFact DEF IInv, CreateRole, ServiceLabels
<1>2. Leaves("store_staging_key")
  BY AnswerLeaves, <1>1 DEF CreateRole, Leaves, IInv, InService, TypeOK
<1>3. "store_staging_key" \in ServiceLabels
  BY DEF ServiceLabels
<1>4. outage' \in {"none", "some", "over"}
  BY AnswerLeaves, <1>1 DEF CreateRole, IInv, TypeOK
<1>5. StoreTypeOK'
  BY <1>1 DEF CreateRole, IInv, TypeOK, StoreTypeOK, InService
<1>6. ASSUME NEW s \in Services, s # cur PROVE UNCHANGED Values(s)
  BY <1>6, <1>2 DEF CreateRole, Values, Leaves, Goto, FailStep, IInv, TypeOK, StoreTypeOK, LedgerTypeOK
<1>7. ASSUME NEW s \in Services, s = cur PROVE ServiceInv(s)'
  <2>1. CASE Goto("store_staging_key") /\ UNCHANGED ledger
    BY <2>1, <1>1, <1>7 DEF CreateRole, ServiceInv, CheckpointHolds, ControlHolds, AtRest, Untouched, UsableCopy, IInv, TypeOK, StoreTypeOK, LedgerTypeOK, InService, Goto
  <2>2. CASE FailStep("next")
    BY <2>2, <1>1, <1>7, ServicesAssumption DEF CreateRole, ServiceInv, CheckpointHolds, ControlHolds, AtRest, Untouched, UsableCopy, IInv, TypeOK, StoreTypeOK, LedgerTypeOK, InService, FailStep, CommandInv
  <2> QED BY <1>2, <2>1, <2>2 DEF Leaves
<1> QED BY <1>1, <1>2, <1>3, <1>4, <1>5, <1>6, <1>7, LeavesKeepsIInv

LEMMA StoreStagingKeyKeeps == ASSUME IInv, StoreStagingKey PROVE IInv'
<1>1. InService
  BY InServiceFact DEF IInv, StoreStagingKey, ServiceLabels
<1>2. Leaves("replay_extensions")
  BY AnswerLeaves, <1>1 DEF StoreStagingKey, Leaves, IInv, InService, TypeOK
<1>3. "replay_extensions" \in ServiceLabels
  BY DEF ServiceLabels
<1>4. outage' \in {"none", "some", "over"}
  BY AnswerLeaves, <1>1 DEF StoreStagingKey, IInv, TypeOK
<1>5. StoreTypeOK'
  BY <1>1 DEF StoreStagingKey, IInv, TypeOK, StoreTypeOK, InService
<1>6. ASSUME NEW s \in Services, s # cur PROVE UNCHANGED Values(s)
  BY <1>6, <1>2 DEF StoreStagingKey, Values, Leaves, Goto, FailStep, IInv, TypeOK, StoreTypeOK, LedgerTypeOK
<1>7. ASSUME NEW s \in Services, s = cur PROVE ServiceInv(s)'
  <2>1. CASE Goto("replay_extensions") /\ UNCHANGED ledger
    BY <2>1, <1>1, <1>7 DEF StoreStagingKey, ServiceInv, CheckpointHolds, ControlHolds, AtRest, Untouched, UsableCopy, IInv, TypeOK, StoreTypeOK, LedgerTypeOK, InService, Goto
  <2>2. CASE FailStep("next")
    BY <2>2, <1>1, <1>7, ServicesAssumption DEF StoreStagingKey, ServiceInv, CheckpointHolds, ControlHolds, AtRest, Untouched, UsableCopy, IInv, TypeOK, StoreTypeOK, LedgerTypeOK, InService, FailStep, CommandInv
  <2> QED BY <1>2, <2>1, <2>2 DEF Leaves
<1> QED BY <1>1, <1>2, <1>3, <1>4, <1>5, <1>6, <1>7, LeavesKeepsIInv

LEMMA ReplayExtensionsKeeps == ASSUME IInv, ReplayExtensions PROVE IInv'
<1>1. InService
  BY InServiceFact DEF IInv, ReplayExtensions, ServiceLabels
<1>2. Leaves("mark_credentialed")
  BY AnswerLeaves, <1>1 DEF ReplayExtensions, Leaves, IInv, InService, TypeOK
<1>3. "mark_credentialed" \in ServiceLabels
  BY DEF ServiceLabels
<1>4. outage' \in {"none", "some", "over"}
  BY AnswerLeaves, <1>1 DEF ReplayExtensions, IInv, TypeOK
<1>5. StoreTypeOK'
  BY <1>1 DEF ReplayExtensions, IInv, TypeOK, StoreTypeOK, InService
<1>6. ASSUME NEW s \in Services, s # cur PROVE UNCHANGED Values(s)
  BY <1>6, <1>2 DEF ReplayExtensions, Values, Leaves, Goto, FailStep, IInv, TypeOK, StoreTypeOK, LedgerTypeOK
<1>7. ASSUME NEW s \in Services, s = cur PROVE ServiceInv(s)'
  <2>1. CASE Goto("mark_credentialed") /\ UNCHANGED ledger
    BY <2>1, <1>1, <1>7 DEF ReplayExtensions, ServiceInv, CheckpointHolds, ControlHolds, AtRest, Untouched, UsableCopy, IInv, TypeOK, StoreTypeOK, LedgerTypeOK, InService, Goto
  <2>2. CASE FailStep("next")
    BY <2>2, <1>1, <1>7, ServicesAssumption DEF ReplayExtensions, ServiceInv, CheckpointHolds, ControlHolds, AtRest, Untouched, UsableCopy, IInv, TypeOK, StoreTypeOK, LedgerTypeOK, InService, FailStep, CommandInv
  <2> QED BY <1>2, <2>1, <2>2 DEF Leaves
<1> QED BY <1>1, <1>2, <1>3, <1>4, <1>5, <1>6, <1>7, LeavesKeepsIInv

LEMMA TransferKeeps == ASSUME IInv, Transfer PROVE IInv'
<1>1. InService
  BY InServiceFact DEF IInv, Transfer, ServiceLabels
<1>2. Leaves("drop_staging_key")
  BY AnswerLeaves, <1>1 DEF Transfer, Leaves, IInv, InService, TypeOK
<1>3. "drop_staging_key" \in ServiceLabels
  BY DEF ServiceLabels
<1>4. outage' \in {"none", "some", "over"}
  BY AnswerLeaves, <1>1 DEF Transfer, IInv, TypeOK
<1>5. StoreTypeOK'
  BY <1>1 DEF Transfer, IInv, TypeOK, StoreTypeOK, InService
<1>6. ASSUME NEW s \in Services, s # cur PROVE UNCHANGED Values(s)
  BY <1>6, <1>2 DEF Transfer, Values, Leaves, Goto, FailStep, IInv, TypeOK, StoreTypeOK, LedgerTypeOK
<1>7. ASSUME NEW s \in Services, s = cur PROVE ServiceInv(s)'
  <2>1. CASE Goto("drop_staging_key") /\ UNCHANGED ledger
    BY <2>1, <1>1, <1>7 DEF Transfer, ServiceInv, CheckpointHolds, ControlHolds, AtRest, Untouched, UsableCopy, IInv, TypeOK, StoreTypeOK, LedgerTypeOK, InService, Goto
  <2>2. CASE FailStep("next")
    BY <2>2, <1>1, <1>7, ServicesAssumption DEF Transfer, ServiceInv, CheckpointHolds, ControlHolds, AtRest, Untouched, UsableCopy, IInv, TypeOK, StoreTypeOK, LedgerTypeOK, InService, FailStep, CommandInv
  <2> QED BY <1>2, <2>1, <2>2 DEF Leaves
<1> QED BY <1>1, <1>2, <1>3, <1>4, <1>5, <1>6, <1>7, LeavesKeepsIInv

LEMMA DropStagingKeyKeeps == ASSUME IInv, DropStagingKey PROVE IInv'
<1>1. InService
  BY InServiceFact DEF IInv, DropStagingKey, ServiceLabels
<1>2. Leaves("bind")
  BY AnswerLeaves, <1>1 DEF DropStagingKey, Leaves, IInv, InService, TypeOK
<1>3. "bind" \in ServiceLabels
  BY DEF ServiceLabels
<1>4. outage' \in {"none", "some", "over"}
  BY AnswerLeaves, <1>1 DEF DropStagingKey, IInv, TypeOK
<1>5. StoreTypeOK'
  BY <1>1 DEF DropStagingKey, IInv, TypeOK, StoreTypeOK, InService
<1>6. ASSUME NEW s \in Services, s # cur PROVE UNCHANGED Values(s)
  BY <1>6, <1>2 DEF DropStagingKey, Values, Leaves, Goto, FailStep, IInv, TypeOK, StoreTypeOK, LedgerTypeOK
<1>7. ASSUME NEW s \in Services, s = cur PROVE ServiceInv(s)'
  <2>1. CASE Goto("bind") /\ UNCHANGED ledger
    BY <2>1, <1>1, <1>7 DEF DropStagingKey, ServiceInv, CheckpointHolds, ControlHolds, AtRest, Untouched, UsableCopy, IInv, TypeOK, StoreTypeOK, LedgerTypeOK, InService, Goto
  <2>2. CASE FailStep("next")
    BY <2>2, <1>1, <1>7, ServicesAssumption DEF DropStagingKey, ServiceInv, CheckpointHolds, ControlHolds, AtRest, Untouched, UsableCopy, IInv, TypeOK, StoreTypeOK, LedgerTypeOK, InService, FailStep, CommandInv
  <2> QED BY <1>2, <2>1, <2>2 DEF Leaves
<1> QED BY <1>1, <1>2, <1>3, <1>4, <1>5, <1>6, <1>7, LeavesKeepsIInv

LEMMA AwaitStagingKeeps == ASSUME IInv, AwaitStaging PROVE IInv'
<1>1. InService
  BY InServiceFact DEF IInv, AwaitStaging, ServiceLabels
<1>2. Leaves("mark_staged")
  BY AnswerLeaves, <1>1 DEF AwaitStaging, Leaves, IInv, InService, TypeOK
<1>3. "mark_staged" \in ServiceLabels
  BY DEF ServiceLabels
<1>4. outage' \in {"none", "some", "over"}
  BY AnswerLeaves, <1>1 DEF AwaitStaging, IInv, TypeOK
<1>5. StoreTypeOK'
  BY <1>1 DEF AwaitStaging, IInv, TypeOK, StoreTypeOK, InService
<1>6. ASSUME NEW s \in Services, s # cur PROVE UNCHANGED Values(s)
  BY <1>6, <1>2 DEF AwaitStaging, Values, Leaves, Goto, FailStep, IInv, TypeOK, StoreTypeOK, LedgerTypeOK
<1>7. ASSUME NEW s \in Services, s = cur PROVE ServiceInv(s)'
  <2>1. CASE Goto("mark_staged") /\ UNCHANGED ledger
    BY <2>1, <1>1, <1>7 DEF AwaitStaging, ServiceInv, CheckpointHolds, ControlHolds, AtRest, Untouched, UsableCopy, IInv, TypeOK, StoreTypeOK, LedgerTypeOK, InService, Goto
  <2>2. CASE FailStep("next")
    BY <2>2, <1>1, <1>7, ServicesAssumption DEF AwaitStaging, ServiceInv, CheckpointHolds, ControlHolds, AtRest, Untouched, UsableCopy, IInv, TypeOK, StoreTypeOK, LedgerTypeOK, InService, FailStep, CommandInv
  <2> QED BY <1>2, <2>1, <2>2 DEF Leaves
<1> QED BY <1>1, <1>2, <1>3, <1>4, <1>5, <1>6, <1>7, LeavesKeepsIInv

LEMMA BindKeeps == ASSUME IInv, Bind PROVE IInv'
<1>1. InService
  BY InServiceFact DEF IInv, Bind, ServiceLabels
<1>2. Leaves("mark_complete")
  BY AnswerLeaves, <1>1 DEF Bind, Leaves, IInv, InService, TypeOK
<1>3. "mark_complete" \in ServiceLabels
  BY DEF ServiceLabels
<1>4. outage' \in {"none", "some", "over"}
  BY AnswerLeaves, <1>1 DEF Bind, IInv, TypeOK
<1>5. StoreTypeOK'
  BY <1>1 DEF Bind, IInv, TypeOK, StoreTypeOK, InService
<1>6. ASSUME NEW s \in Services, s # cur PROVE UNCHANGED Values(s)
  BY <1>6, <1>2 DEF Bind, Values, Leaves, Goto, FailStep, IInv, TypeOK, StoreTypeOK, LedgerTypeOK
<1>7. ASSUME NEW s \in Services, s = cur PROVE ServiceInv(s)'
  <2>1. CASE Goto("mark_complete") /\ UNCHANGED ledger
    BY <2>1, <1>1, <1>7 DEF Bind, ServiceInv, CheckpointHolds, ControlHolds, AtRest, Untouched, UsableCopy, IInv, TypeOK, StoreTypeOK, LedgerTypeOK, InService, Goto
  <2>2. CASE FailStep("next")
    BY <2>2, <1>1, <1>7, ServicesAssumption DEF Bind, ServiceInv, CheckpointHolds, ControlHolds, AtRest, Untouched, UsableCopy, IInv, TypeOK, StoreTypeOK, LedgerTypeOK, InService, FailStep, CommandInv
  <2> QED BY <1>2, <2>1, <2>2 DEF Leaves
<1> QED BY <1>1, <1>2, <1>3, <1>4, <1>5, <1>6, <1>7, LeavesKeepsIInv

LEMMA DeleteOldKeeps == ASSUME IInv, DeleteOld PROVE IInv'
<1>1. InService
  BY InServiceFact DEF IInv, DeleteOld, ServiceLabels
<1>2. Leaves("mark_old_deleted")
  BY AnswerLeaves, <1>1 DEF DeleteOld, Leaves, IInv, InService, TypeOK
<1>3. "mark_old_deleted" \in ServiceLabels
  BY DEF ServiceLabels
<1>4. outage' \in {"none", "some", "over"}
  BY AnswerLeaves, <1>1 DEF DeleteOld, IInv, TypeOK
<1>5. StoreTypeOK'
  BY <1>1 DEF DeleteOld, IInv, TypeOK, StoreTypeOK, InService
<1>6. ASSUME NEW s \in Services, s # cur PROVE UNCHANGED Values(s)
  BY <1>6, <1>2 DEF DeleteOld, Values, Leaves, Goto, FailStep, IInv, TypeOK, StoreTypeOK, LedgerTypeOK
<1>7. ASSUME NEW s \in Services, s = cur PROVE ServiceInv(s)'
  <2>1. CASE Goto("mark_old_deleted") /\ UNCHANGED ledger
    BY <2>1, <1>1, <1>7 DEF DeleteOld, ServiceInv, CheckpointHolds, ControlHolds, AtRest, Untouched, UsableCopy, IInv, TypeOK, StoreTypeOK, LedgerTypeOK, InService, Goto
  <2>2. CASE FailStep("next")
    BY <2>2, <1>1, <1>7, ServicesAssumption DEF DeleteOld, ServiceInv, CheckpointHolds, ControlHolds, AtRest, Untouched, UsableCopy, IInv, TypeOK, StoreTypeOK, LedgerTypeOK, InService, FailStep, CommandInv
  <2> QED BY <1>2, <2>1, <2>2 DEF Leaves
<1> QED BY <1>1, <1>2, <1>3, <1>4, <1>5, <1>6, <1>7, LeavesKeepsIInv

LEMMA RenameKeeps == ASSUME IInv, Rename PROVE IInv'
<1>1. InService
  BY InServiceFact DEF IInv, Rename, ServiceLabels
<1>2. Leaves("mark_renamed")
  BY AnswerLeaves, <1>1 DEF Rename, Leaves, IInv, InService, TypeOK
<1>3. "mark_renamed" \in ServiceLabels
  BY DEF ServiceLabels
<1>4. outage' \in {"none", "some", "over"}
  BY AnswerLeaves, <1>1 DEF Rename, IInv, TypeOK
<1>5. StoreTypeOK'
  BY <1>1 DEF Rename, IInv, TypeOK, StoreTypeOK, InService
<1>6. ASSUME NEW s \in Services, s # cur PROVE UNCHANGED Values(s)
  BY <1>6, <1>2 DEF Rename, Values, Leaves, Goto, FailStep, IInv, TypeOK, StoreTypeOK, LedgerTypeOK
<1>7. ASSUME NEW s \in Services, s = cur PROVE ServiceInv(s)'
  <2>1. CASE Goto("mark_renamed") /\ UNCHANGED ledger
    BY <2>1, <1>1, <1>7 DEF Rename, ServiceInv, CheckpointHolds, ControlHolds, AtRest, Untouched, UsableCopy, IInv, TypeOK, StoreTypeOK, LedgerTypeOK, InService, Goto
  <2>2. CASE FailStep("next")
    BY <2>2, <1>1, <1>7, ServicesAssumption DEF Rename, ServiceInv, CheckpointHolds, ControlHolds, AtRest, Untouched, UsableCopy, IInv, TypeOK, StoreTypeOK, LedgerTypeOK, InService, FailStep, CommandInv
  <2> QED BY <1>2, <2>1, <2>2 DEF Leaves
<1> QED BY <1>1, <1>2, <1>3, <1>4, <1>5, <1>6, <1>7, LeavesKeepsIInv

LEMMA FindStagingKeeps == ASSUME IInv, FindStaging PROVE IInv'
<1>1. InService
  BY InServiceFact DEF IInv, FindStaging, ServiceLabels
<1>2. PICK label \in {"restore", "mark_staged", "ensure_role"} : Leaves(label)
  BY <1>1 DEF FindStaging, Leaves
<1>3. label \in ServiceLabels
  BY DEF ServiceLabels
<1>4. outage' \in {"none", "some", "over"}
  BY DEF FindStaging, IInv, TypeOK
<1>5. StoreTypeOK'
  BY <1>1 DEF FindStaging, IInv, TypeOK, StoreTypeOK, InService
<1>6. ASSUME NEW s \in Services, s # cur PROVE UNCHANGED Values(s)
  BY <1>6, <1>2 DEF FindStaging, Values, Leaves, Goto, FailStep, IInv, TypeOK, StoreTypeOK, LedgerTypeOK
<1>7. ASSUME NEW s \in Services, s = cur PROVE ServiceInv(s)'
  <2>1. CASE Goto(label) /\ UNCHANGED ledger
    BY <2>1, <1>1, <1>7 DEF FindStaging, ServiceInv, CheckpointHolds, ControlHolds, AtRest, Untouched, UsableCopy, IInv, TypeOK, StoreTypeOK, LedgerTypeOK, InService, Goto, Answer, FailStep
  <2>2. CASE FailStep("next")
    BY <2>2, <1>1, <1>7, ServicesAssumption DEF FindStaging, ServiceInv, CheckpointHolds, ControlHolds, AtRest, Untouched, UsableCopy, IInv, TypeOK, StoreTypeOK, LedgerTypeOK, InService, FailStep, CommandInv
  <2> QED BY <1>2, <2>1, <2>2 DEF Leaves
<1> QED BY <1>1, <1>2, <1>3, <1>4, <1>5, <1>6, <1>7, LeavesKeepsIInv

LEMMA EnsureRoleKeeps == ASSUME IInv, EnsureRole PROVE IInv'
<1>1. InService
  BY InServiceFact DEF IInv, EnsureRole, ServiceLabels
<1>2. PICK label \in {"create_role", "replay_extensions"} : Leaves(label)
  <2>1. CASE Answer("create_role")
    BY <2>1, AnswerLeaves DEF IInv
  <2>2. CASE ~Answer("create_role")
    BY <2>2, <1>1 DEF EnsureRole, Leaves
  <2> QED BY <2>1, <2>2
<1>3. label \in ServiceLabels
  BY DEF ServiceLabels
<1>4. outage' \in {"none", "some", "over"}
  BY AnswerLeaves, <1>1 DEF EnsureRole, IInv, TypeOK
<1>5. StoreTypeOK'
  BY <1>1 DEF EnsureRole, IInv, TypeOK, StoreTypeOK, InService
<1>6. ASSUME NEW s \in Services, s # cur PROVE UNCHANGED Values(s)
  BY <1>6, <1>2 DEF EnsureRole, Values, Leaves, Goto, FailStep, IInv, TypeOK, StoreTypeOK, LedgerTypeOK
<1>7. ASSUME NEW s \in Services, s = cur PROVE ServiceInv(s)'
  <2>1. CASE Goto(label) /\ UNCHANGED ledger
    BY <2>1, <1>1, <1>7 DEF EnsureRole, ServiceInv, CheckpointHolds, ControlHolds, AtRest, Untouched, UsableCopy, IInv, TypeOK, StoreTypeOK, LedgerTypeOK, InService, Goto, Answer, FailStep
  <2>2. CASE FailStep("next")
    BY <2>2, <1>1, <1>7, ServicesAssumption DEF EnsureRole, ServiceInv, CheckpointHolds, ControlHolds, AtRest, Untouched, UsableCopy, IInv, TypeOK, StoreTypeOK, LedgerTypeOK, InService, FailStep, CommandInv
  <2> QED BY <1>2, <2>1, <2>2 DEF Leaves
<1> QED BY <1>1, <1>2, <1>3, <1>4, <1>5, <1>6, <1>7, LeavesKeepsIInv

LEMMA OwnStepKeepsIInv ==
  ASSUME IInv, InService, TypeOK', CommandInv',
         UNCHANGED <<job, scope>>, cur' \in {cur, NoService},
         \A s \in Services : s # cur => UNCHANGED Values(s),
         \A s \in Services : s = cur => ServiceInv(s)'
  PROVE  IInv'
BY OtherServiceKept, ServicesAssumption DEF IInv

LEMMA CheckpointKeepsIInv ==
  ASSUME IInv, InService, NEW ph \in Phases, NEW label \in ServiceLabels,
         Checkpoint(ph, label),
         \A s \in Services : s = cur => ServiceInv(s)'
  PROVE  IInv'
<1>1. TypeOK'
  BY DEF Checkpoint, Goto, IInv, TypeOK, LedgerTypeOK, StoreTypeOK, ProcessTypeOK, Labels
<1>2. CommandInv'
  BY DEF Checkpoint, Goto, IInv, CommandInv, InService, ServiceLabels
<1>3. ASSUME NEW s \in Services, s # cur PROVE UNCHANGED Values(s)
  BY <1>3 DEF Checkpoint, Goto, Values, IInv, TypeOK, LedgerTypeOK
<1>4. UNCHANGED <<job, scope>> /\ cur' \in {cur, NoService}
  BY DEF Checkpoint, Goto
<1> QED BY <1>1, <1>2, <1>3, <1>4, OwnStepKeepsIInv

LEMMA MarkStagedKeeps == ASSUME IInv, MarkStaged PROVE IInv'
<1>1. InService
  BY InServiceFact DEF IInv, MarkStaged, ServiceLabels
<1>2. ASSUME NEW s \in Services, s = cur PROVE ServiceInv(s)'
  BY <1>1, <1>2 DEF MarkStaged, Checkpoint, Goto, ServiceInv, CheckpointHolds, ControlHolds, AtRest, Untouched, UsableCopy, IInv, TypeOK, StoreTypeOK, LedgerTypeOK, InService
<1> QED
  BY <1>1, <1>2, CheckpointKeepsIInv DEF MarkStaged, Phases, ServiceLabels

LEMMA MarkCredentialedKeeps == ASSUME IInv, MarkCredentialed PROVE IInv'
<1>1. InService
  BY InServiceFact DEF IInv, MarkCredentialed, ServiceLabels
<1>2. ASSUME NEW s \in Services, s = cur PROVE ServiceInv(s)'
  BY <1>1, <1>2 DEF MarkCredentialed, Checkpoint, Goto, ServiceInv, CheckpointHolds, ControlHolds, AtRest, Untouched, UsableCopy, IInv, TypeOK, StoreTypeOK, LedgerTypeOK, InService
<1> QED
  BY <1>1, <1>2, CheckpointKeepsIInv DEF MarkCredentialed, Phases, ServiceLabels

LEMMA MarkOldDeletedKeeps == ASSUME IInv, MarkOldDeleted PROVE IInv'
<1>1. InService
  BY InServiceFact DEF IInv, MarkOldDeleted, ServiceLabels
<1>2. ASSUME NEW s \in Services, s = cur PROVE ServiceInv(s)'
  BY <1>1, <1>2 DEF MarkOldDeleted, Checkpoint, Goto, ServiceInv, CheckpointHolds, ControlHolds, AtRest, Untouched, UsableCopy, IInv, TypeOK, StoreTypeOK, LedgerTypeOK, InService
<1> QED
  BY <1>1, <1>2, CheckpointKeepsIInv DEF MarkOldDeleted, Phases, ServiceLabels

LEMMA MarkRenamedKeeps == ASSUME IInv, MarkRenamed PROVE IInv'
<1>1. InService
  BY InServiceFact DEF IInv, MarkRenamed, ServiceLabels
<1>2. ASSUME NEW s \in Services, s = cur PROVE ServiceInv(s)'
  BY <1>1, <1>2 DEF MarkRenamed, Checkpoint, Goto, ServiceInv, CheckpointHolds, ControlHolds, AtRest, Untouched, UsableCopy, IInv, TypeOK, StoreTypeOK, LedgerTypeOK, InService
<1> QED
  BY <1>1, <1>2, CheckpointKeepsIInv DEF MarkRenamed, Phases, ServiceLabels

LEMMA AwaitCanonicalKeeps == ASSUME IInv, AwaitCanonical PROVE IInv'
<1>1. InService
  BY InServiceFact DEF IInv, AwaitCanonical, ServiceLabels
<1>2. ASSUME NEW s \in Services, s = cur PROVE ServiceInv(s)'
  BY <1>1, <1>2 DEF AwaitCanonical, Checkpoint, Goto, ServiceInv, CheckpointHolds, ControlHolds, AtRest, Untouched, UsableCopy, IInv, TypeOK, StoreTypeOK, LedgerTypeOK, InService
<1> QED
  BY <1>1, <1>2, CheckpointKeepsIInv DEF AwaitCanonical, Phases, ServiceLabels

LEMMA MarkCompleteKeeps == ASSUME IInv, MarkComplete PROVE IInv'
<1>1. InService
  BY InServiceFact DEF IInv, MarkComplete, ServiceLabels
<1>2. TypeOK'
  BY <1>1 DEF MarkComplete, IInv, TypeOK, LedgerTypeOK, StoreTypeOK, ProcessTypeOK, InService, Labels, Phases
<1>3. CommandInv'
  BY <1>1 DEF MarkComplete, IInv, CommandInv, InService, ServiceLabels
<1>4. ASSUME NEW s \in Services, s # cur PROVE UNCHANGED Values(s)
  BY <1>4 DEF MarkComplete, Values, IInv, TypeOK, LedgerTypeOK
<1>5. ASSUME NEW s \in Services, s = cur PROVE ServiceInv(s)'
  BY <1>1, <1>5, ServicesAssumption DEF MarkComplete, ServiceInv, CheckpointHolds, ControlHolds, AtRest, Untouched, UsableCopy, IInv, TypeOK, StoreTypeOK, LedgerTypeOK, InService
<1> QED BY <1>1, <1>2, <1>3, <1>4, <1>5, OwnStepKeepsIInv DEF MarkComplete

(* A step that fails, for whatever reason, and ends the loop or goes on. *)
LEMMA FailureKeepsIInv ==
  ASSUME IInv, InService,
         step' = [step EXCEPT ![cur] = "failed"], failed' = TRUE,
         visited' \in SUBSET Services, cur' = NoService, pc' = "next",
         UNCHANGED <<job, scope, phase, cancelled, state, keys, provider>>,
         outage' \in {"none", "some", "over"}
  PROVE  IInv'
<1>1. TypeOK'
  BY DEF IInv, TypeOK, LedgerTypeOK, StoreTypeOK, ProcessTypeOK, Labels
<1>2. CommandInv'
  BY DEF IInv, CommandInv, InService, ServiceLabels
<1>3. ASSUME NEW s \in Services, s # cur PROVE UNCHANGED Values(s)
  BY <1>3 DEF Values, IInv, TypeOK, LedgerTypeOK
<1>4. ASSUME NEW s \in Services, s = cur PROVE ServiceInv(s)'
  BY <1>4, ServicesAssumption DEF ServiceInv, CheckpointHolds, ControlHolds, AtRest, Untouched, UsableCopy, IInv, TypeOK, LedgerTypeOK, InService, CommandInv
<1> QED BY <1>1, <1>2, <1>3, <1>4, OwnStepKeepsIInv

LEMMA CallFailsKeeps == ASSUME IInv, CallFails PROVE IInv'
<1>1. InService
  BY InServiceFact DEF IInv, CallFails
<1>2. visited' \in SUBSET Services
  BY <1>1 DEF CallFails, FailStep, IInv, TypeOK, ProcessTypeOK, InService
<1> QED BY <1>1, <1>2, FailureKeepsIInv DEF CallFails, FailStep, Fault

LEMMA InterruptKeeps == ASSUME IInv, Interrupt PROVE IInv'
<1>1. InService
  BY InServiceFact DEF IInv, Interrupt
<1>2. visited' \in SUBSET Services
  BY DEF Interrupt, IInv, TypeOK, LedgerTypeOK
<1> QED BY <1>1, <1>2, FailureKeepsIInv DEF Interrupt, IInv, TypeOK

-----------------------------------------------------------------------------
(* The command around the services, and the environment.                    *)

LEMMA StartPullKeeps == ASSUME IInv, NEW chosen \in SUBSET Services, StartPull(chosen) PROVE IInv'
<1>1. TypeOK'
  BY ServicesAssumption DEF StartPull, IInv, TypeOK, LedgerTypeOK, StoreTypeOK, ProcessTypeOK, Labels, Goto, Phases
<1>2. CommandInv'
  BY ServicesAssumption DEF StartPull, IInv, TypeOK, LedgerTypeOK, StoreTypeOK, ProcessTypeOK, CommandInv, ServiceLabels, Goto, Phases
<1>3. ASSUME NEW s \in Services PROVE ServiceInv(s)'
  BY <1>3, ServicesAssumption DEF StartPull, ServiceInv, CheckpointHolds, ControlHolds, AtRest, Untouched, UsableCopy, IInv, TypeOK, LedgerTypeOK, StoreTypeOK, ProcessTypeOK, CommandInv, ServiceLabels, Goto, Phases
<1> QED BY <1>1, <1>2, <1>3 DEF IInv

LEMMA ResumeKeeps == ASSUME IInv, Resume PROVE IInv'
<1>1. TypeOK'
  BY ServicesAssumption DEF Resume, IInv, TypeOK, LedgerTypeOK, StoreTypeOK, ProcessTypeOK, Labels, Goto
<1>2. CommandInv'
  BY ServicesAssumption DEF Resume, IInv, TypeOK, LedgerTypeOK, StoreTypeOK, ProcessTypeOK, CommandInv, ServiceLabels, Goto
<1>3. ASSUME NEW s \in Services PROVE ServiceInv(s)'
  BY <1>3, ServicesAssumption DEF Resume, ServiceInv, CheckpointHolds, ControlHolds, AtRest, Untouched, UsableCopy, IInv, TypeOK, LedgerTypeOK, StoreTypeOK, ProcessTypeOK, CommandInv, ServiceLabels, Goto
<1> QED BY <1>1, <1>2, <1>3 DEF IInv

LEMMA OpenRecordKeeps == ASSUME IInv, OpenRecord PROVE IInv'
<1>1. TypeOK'
  BY ServicesAssumption DEF OpenRecord, IInv, TypeOK, LedgerTypeOK, StoreTypeOK, ProcessTypeOK, Labels, Goto
<1>2. CommandInv'
  BY ServicesAssumption DEF OpenRecord, IInv, TypeOK, LedgerTypeOK, StoreTypeOK, ProcessTypeOK, CommandInv, ServiceLabels, Goto
<1>3. ASSUME NEW s \in Services PROVE ServiceInv(s)'
  BY <1>3, ServicesAssumption DEF OpenRecord, ServiceInv, CheckpointHolds, ControlHolds, AtRest, Untouched, UsableCopy, IInv, TypeOK, LedgerTypeOK, StoreTypeOK, ProcessTypeOK, CommandInv, ServiceLabels, Goto
<1> QED BY <1>1, <1>2, <1>3 DEF IInv

LEMMA SkipSucceededKeeps == ASSUME IInv, NEW s \in Services, SkipSucceeded(s) PROVE IInv'
<1>1. TypeOK'
  BY ServicesAssumption DEF SkipSucceeded, IInv, TypeOK, LedgerTypeOK, StoreTypeOK, ProcessTypeOK, Labels
<1>2. CommandInv'
  BY ServicesAssumption DEF SkipSucceeded, IInv, TypeOK, LedgerTypeOK, StoreTypeOK, ProcessTypeOK, CommandInv, ServiceLabels
<1>3. ASSUME NEW t \in Services PROVE ServiceInv(t)'
  BY <1>3, ServicesAssumption DEF SkipSucceeded, ServiceInv, CheckpointHolds, ControlHolds, AtRest, Untouched, UsableCopy, IInv, TypeOK, LedgerTypeOK, StoreTypeOK, ProcessTypeOK, CommandInv, ServiceLabels
<1> QED BY <1>1, <1>2, <1>3 DEF IInv

LEMMA BeginStepKeeps == ASSUME IInv, NEW s \in Services, BeginStep(s) PROVE IInv'
<1>1. TypeOK'
  BY ServicesAssumption DEF BeginStep, IInv, TypeOK, LedgerTypeOK, StoreTypeOK, ProcessTypeOK, Labels, ServiceLabels, EnterAt, Phases
<1>2. CommandInv'
  BY ServicesAssumption DEF BeginStep, IInv, TypeOK, LedgerTypeOK, StoreTypeOK, ProcessTypeOK, CommandInv, ServiceLabels, EnterAt, Phases
<1>3. ASSUME NEW t \in Services PROVE ServiceInv(t)'
  BY <1>3, ServicesAssumption DEF BeginStep, ServiceInv, CheckpointHolds, ControlHolds, AtRest, Untouched, UsableCopy, IInv, TypeOK, LedgerTypeOK, StoreTypeOK, ProcessTypeOK, CommandInv, ServiceLabels, EnterAt, Phases
<1> QED BY <1>1, <1>2, <1>3 DEF IInv

LEMMA RefuseStepKeeps == ASSUME IInv, NEW s \in Services, RefuseStep(s) PROVE IInv'
<1>1. TypeOK'
  BY ServicesAssumption DEF RefuseStep, IInv, TypeOK, LedgerTypeOK, StoreTypeOK, ProcessTypeOK, Labels
<1>2. CommandInv'
  BY ServicesAssumption DEF RefuseStep, IInv, TypeOK, LedgerTypeOK, StoreTypeOK, ProcessTypeOK, CommandInv, ServiceLabels
<1>3. ASSUME NEW t \in Services PROVE ServiceInv(t)'
  BY <1>3, ServicesAssumption DEF RefuseStep, ServiceInv, CheckpointHolds, ControlHolds, AtRest, Untouched, UsableCopy, IInv, TypeOK, LedgerTypeOK, StoreTypeOK, ProcessTypeOK, CommandInv, ServiceLabels
<1> QED BY <1>1, <1>2, <1>3 DEF IInv

LEMMA SaveVerdictKeeps == ASSUME IInv, SaveVerdict PROVE IInv'
<1>1. TypeOK'
  BY ServicesAssumption DEF SaveVerdict, IInv, TypeOK, LedgerTypeOK, StoreTypeOK, ProcessTypeOK, Labels
<1>2. CommandInv'
  BY ServicesAssumption DEF SaveVerdict, IInv, TypeOK, LedgerTypeOK, StoreTypeOK, ProcessTypeOK, CommandInv, ServiceLabels
<1>3. ASSUME NEW s \in Services PROVE ServiceInv(s)'
  BY <1>3, ServicesAssumption DEF SaveVerdict, ServiceInv, CheckpointHolds, ControlHolds, AtRest, Untouched, UsableCopy, IInv, TypeOK, LedgerTypeOK, StoreTypeOK, ProcessTypeOK, CommandInv, ServiceLabels
<1> QED BY <1>1, <1>2, <1>3 DEF IInv

LEMMA SettleKeeps == ASSUME IInv, Settle PROVE IInv'
<1>1. TypeOK'
  BY ServicesAssumption DEF Settle, IInv, TypeOK, LedgerTypeOK, StoreTypeOK, ProcessTypeOK, Labels, ProcessEnds
<1>2. CommandInv'
  BY ServicesAssumption DEF Settle, IInv, TypeOK, LedgerTypeOK, StoreTypeOK, ProcessTypeOK, CommandInv, ServiceLabels, ProcessEnds
<1>3. ASSUME NEW s \in Services PROVE ServiceInv(s)'
  BY <1>3, ServicesAssumption DEF Settle, ServiceInv, CheckpointHolds, ControlHolds, AtRest, Untouched, UsableCopy, IInv, TypeOK, LedgerTypeOK, StoreTypeOK, ProcessTypeOK, CommandInv, ServiceLabels, ProcessEnds
<1> QED BY <1>1, <1>2, <1>3 DEF IInv

LEMMA RequestCancelKeeps == ASSUME IInv, RequestCancel PROVE IInv'
<1>1. TypeOK'
  BY ServicesAssumption DEF RequestCancel, IInv, TypeOK, LedgerTypeOK, StoreTypeOK, ProcessTypeOK, Labels
<1>2. CommandInv'
  BY ServicesAssumption DEF RequestCancel, IInv, TypeOK, LedgerTypeOK, StoreTypeOK, ProcessTypeOK, CommandInv, ServiceLabels
<1>3. ASSUME NEW s \in Services PROVE ServiceInv(s)'
  BY <1>3, ServicesAssumption DEF RequestCancel, ServiceInv, CheckpointHolds, ControlHolds, AtRest, Untouched, UsableCopy, IInv, TypeOK, LedgerTypeOK, StoreTypeOK, ProcessTypeOK, CommandInv, ServiceLabels
<1> QED BY <1>1, <1>2, <1>3 DEF IInv

LEMMA CrashKeeps == ASSUME IInv, Crash PROVE IInv'
<1>1. TypeOK'
  BY ServicesAssumption DEF Crash, IInv, TypeOK, LedgerTypeOK, StoreTypeOK, ProcessTypeOK, Labels, ProcessEnds, Fault
<1>2. CommandInv'
  BY ServicesAssumption DEF Crash, IInv, TypeOK, LedgerTypeOK, StoreTypeOK, ProcessTypeOK, CommandInv, ServiceLabels, ProcessEnds, Fault
<1>3. ASSUME NEW s \in Services PROVE ServiceInv(s)'
  BY <1>3, ServicesAssumption DEF Crash, ServiceInv, CheckpointHolds, ControlHolds, AtRest, Untouched, UsableCopy, IInv, TypeOK, LedgerTypeOK, StoreTypeOK, ProcessTypeOK, CommandInv, ServiceLabels, ProcessEnds, Fault
<1> QED BY <1>1, <1>2, <1>3 DEF IInv

LEMMA OutageEndsKeeps == ASSUME IInv, OutageEnds PROVE IInv'
<1>1. TypeOK'
  BY ServicesAssumption DEF OutageEnds, IInv, TypeOK, LedgerTypeOK, StoreTypeOK, ProcessTypeOK, Labels
<1>2. CommandInv'
  BY ServicesAssumption DEF OutageEnds, IInv, TypeOK, LedgerTypeOK, StoreTypeOK, ProcessTypeOK, CommandInv, ServiceLabels
<1>3. ASSUME NEW s \in Services PROVE ServiceInv(s)'
  BY <1>3, ServicesAssumption DEF OutageEnds, ServiceInv, CheckpointHolds, ControlHolds, AtRest, Untouched, UsableCopy, IInv, TypeOK, LedgerTypeOK, StoreTypeOK, ProcessTypeOK, CommandInv, ServiceLabels
<1> QED BY <1>1, <1>2, <1>3 DEF IInv

LEMMA RestoreCompletesKeeps == ASSUME IInv, NEW s \in Services, RestoreCompletes(s) PROVE IInv'
<1>1. TypeOK'
  BY ServicesAssumption DEF RestoreCompletes, IInv, TypeOK, LedgerTypeOK, StoreTypeOK, ProcessTypeOK, Labels
<1>2. CommandInv'
  BY ServicesAssumption DEF RestoreCompletes, IInv, TypeOK, LedgerTypeOK, StoreTypeOK, ProcessTypeOK, CommandInv, ServiceLabels
<1>3. ASSUME NEW t \in Services PROVE ServiceInv(t)'
  BY <1>3, ServicesAssumption DEF RestoreCompletes, ServiceInv, CheckpointHolds, ControlHolds, AtRest, Untouched, UsableCopy, IInv, TypeOK, LedgerTypeOK, StoreTypeOK, ProcessTypeOK, CommandInv, ServiceLabels
<1> QED BY <1>1, <1>2, <1>3 DEF IInv

LEMMA RenameCompletesKeeps == ASSUME IInv, NEW s \in Services, RenameCompletes(s) PROVE IInv'
<1>1. TypeOK'
  BY ServicesAssumption DEF RenameCompletes, IInv, TypeOK, LedgerTypeOK, StoreTypeOK, ProcessTypeOK, Labels
<1>2. CommandInv'
  BY ServicesAssumption DEF RenameCompletes, IInv, TypeOK, LedgerTypeOK, StoreTypeOK, ProcessTypeOK, CommandInv, ServiceLabels
<1>3. ASSUME NEW t \in Services PROVE ServiceInv(t)'
  BY <1>3, ServicesAssumption DEF RenameCompletes, ServiceInv, CheckpointHolds, ControlHolds, AtRest, Untouched, UsableCopy, IInv, TypeOK, LedgerTypeOK, StoreTypeOK, ProcessTypeOK, CommandInv, ServiceLabels
<1> QED BY <1>1, <1>2, <1>3 DEF IInv

-----------------------------------------------------------------------------
(* The invariant.                                                          *)

LEMMA InitIInv == ASSUME Init PROVE IInv
<1>1. TypeOK
  BY DEF Init, TypeOK, LedgerTypeOK, StoreTypeOK, ProcessTypeOK, Labels, Phases
<1>2. CommandInv
  BY DEF Init, CommandInv, ServiceLabels
<1>3. ASSUME NEW s \in Services PROVE ServiceInv(s)
  BY <1>3, ServicesAssumption DEF Init, ServiceInv, AtRest
<1> QED BY <1>1, <1>2, <1>3 DEF IInv

LEMMA ServiceStepKeepsIInv == ASSUME IInv, ServiceStep PROVE IInv'
<1>1. CASE FindStaging
  BY <1>1, FindStagingKeeps
<1>2. CASE RestoreStaging
  BY <1>2, RestoreStagingKeeps
<1>3. CASE AwaitStaging
  BY <1>3, AwaitStagingKeeps
<1>4. CASE MarkStaged
  BY <1>4, MarkStagedKeeps
<1>5. CASE EnsureRole
  BY <1>5, EnsureRoleKeeps
<1>6. CASE CreateRole
  BY <1>6, CreateRoleKeeps
<1>7. CASE StoreStagingKey
  BY <1>7, StoreStagingKeyKeeps
<1>8. CASE ReplayExtensions
  BY <1>8, ReplayExtensionsKeeps
<1>9. CASE MarkCredentialed
  BY <1>9, MarkCredentialedKeeps
<1>10. CASE DeleteOld
  BY <1>10, DeleteOldKeeps
<1>11. CASE MarkOldDeleted
  BY <1>11, MarkOldDeletedKeeps
<1>12. CASE Rename
  BY <1>12, RenameKeeps
<1>13. CASE MarkRenamed
  BY <1>13, MarkRenamedKeeps
<1>14. CASE AwaitCanonical
  BY <1>14, AwaitCanonicalKeeps
<1>15. CASE Transfer
  BY <1>15, TransferKeeps
<1>16. CASE DropStagingKey
  BY <1>16, DropStagingKeyKeeps
<1>17. CASE Bind
  BY <1>17, BindKeeps
<1>18. CASE MarkComplete
  BY <1>18, MarkCompleteKeeps
<1>19. CASE Interrupt
  BY <1>19, InterruptKeeps
<1> QED
  BY <1>1, <1>2, <1>3, <1>4, <1>5, <1>6, <1>7, <1>8, <1>9, <1>10, <1>11,
     <1>12, <1>13, <1>14, <1>15, <1>16, <1>17, <1>18, <1>19 DEF ServiceStep

LEMMA CommandStepKeepsIInv == ASSUME IInv, CommandStep PROVE IInv'
<1>1. CASE OpenRecord
  BY <1>1, OpenRecordKeeps
<1>2. CASE SaveVerdict
  BY <1>2, SaveVerdictKeeps
<1>3. CASE Settle
  BY <1>3, SettleKeeps
<1>4. ASSUME NEW s \in Services, SkipSucceeded(s) PROVE IInv'
  BY <1>4, SkipSucceededKeeps
<1>5. ASSUME NEW s \in Services, BeginStep(s) PROVE IInv'
  BY <1>5, BeginStepKeeps
<1>6. ASSUME NEW s \in Services, RefuseStep(s) PROVE IInv'
  BY <1>6, RefuseStepKeeps
<1> QED
  BY <1>1, <1>2, <1>3, <1>4, <1>5, <1>6 DEF CommandStep

LEMMA NextKeepsIInv == ASSUME IInv, [Next]_vars PROVE IInv'
<1>1. ASSUME NEW chosen \in SUBSET Services, StartPull(chosen) PROVE IInv'
  BY <1>1, StartPullKeeps
<1>2. CASE Resume
  BY <1>2, ResumeKeeps
<1>3. CASE CommandStep
  BY <1>3, CommandStepKeepsIInv
<1>4. CASE ServiceStep
  BY <1>4, ServiceStepKeepsIInv
<1>5. CASE ProviderStep
  BY <1>5, RestoreCompletesKeeps, RenameCompletesKeeps DEF ProviderStep
<1>6. CASE CallFails
  BY <1>6, CallFailsKeeps
<1>7. CASE RequestCancel
  BY <1>7, RequestCancelKeeps
<1>8. CASE Crash
  BY <1>8, CrashKeeps
<1>9. CASE OutageEnds
  BY <1>9, OutageEndsKeeps
<1>10. CASE UNCHANGED vars
  BY <1>10 DEF IInv, TypeOK, LedgerTypeOK, StoreTypeOK, ProcessTypeOK, CommandInv, ServiceInv,
     CheckpointHolds, ControlHolds, AtRest, Untouched, UsableCopy
<1> QED
  BY <1>1, <1>2, <1>3, <1>4, <1>5, <1>6, <1>7, <1>8, <1>9, <1>10 DEF Next

(* In every state of every behaviour -- after any sequence of crashes,      *)
(* failed calls, lost answers and cancellations -- the checkpoint of each    *)
(* step tells the truth about the provider and the credential store.        *)
THEOREM Invariance == Spec => []IInv
<1>1. IInv /\ [Next]_vars => IInv'
  BY NextKeepsIInv
<1> QED
  BY InitIInv, <1>1, PTL DEF Spec

(* Every variable keeps its type: a control point, a checkpoint or a         *)
(* credential never takes a value pull_service has no case for.              *)
THEOREM TypeCorrect == Spec => []TypeOK
<1>1. IInv => TypeOK
  BY DEF IInv
<1> QED
  BY Invariance, <1>1, PTL

(* The deletion of the canonical branch never loses the service: the branch  *)
(* is there, or the copy that replaces it is complete and its URLs are kept. *)
THEOREM DataAlwaysSurvives == Spec => []DataSurvives
<1>1. ASSUME IInv, NEW s \in Services, canonical[s] = "absent" PROVE UsableCopy(s)
  <2>1. Unresolved /\ s \in scope /\ CheckpointHolds(s) /\ phase[s] \in Phases
    BY <1>1 DEF IInv, ServiceInv, AtRest, TypeOK, LedgerTypeOK
  <2> QED
    BY <1>1, <2>1 DEF CheckpointHolds, Untouched, UsableCopy, Phases
<1>2. IInv => DataSurvives
  BY <1>1 DEF DataSurvives
<1> QED
  BY Invariance, <1>2, PTL

(* Whenever `repobox run` may start services on the environment, the stored  *)
(* URLs and the binding match the branch that is there, and nothing of the   *)
(* refresh is left over.                                                     *)
THEOREM OpenIsCoherent == Spec => []OpenEnvironmentIsCoherent
<1>1. ASSUME IInv, ~Unresolved, NEW s \in Services
      PROVE  /\ canonical[s] = canonicalKey[s]
             /\ bound[s] = canonicalKey[s]
             /\ staging[s] = "absent" /\ stagingKey[s] = "none"
             /\ s \in scope => job = "none" \/ canonical[s] = "new"
  BY <1>1 DEF IInv, ServiceInv, AtRest, TypeOK, LedgerTypeOK
<1>2. IInv => OpenEnvironmentIsCoherent
  BY <1>1 DEF OpenEnvironmentIsCoherent
<1> QED
  BY Invariance, <1>2, PTL

(* A resumed pull leaves what an earlier attempt completed as it is.         *)
Kept == \A s \in scope :
          step[s] = "succeeded" /\ job # "succeeded" =>
            UNCHANGED <<canonical[s], staging[s], role[s], canonicalKey[s], phase[s]>>

THEOREM SucceededKept == Spec => SucceededServicesAreKept
<1>1. ASSUME IInv, [Next]_vars, NEW s \in scope, step[s] = "succeeded", job # "succeeded"
      PROVE  UNCHANGED <<canonical[s], staging[s], role[s], canonicalKey[s], phase[s]>>
  <2>1. /\ s \in Services /\ Unresolved /\ CheckpointHolds(s) /\ phase[s] = "complete"
        /\ pc \in ServiceLabels => cur \in Services /\ s # cur
    BY <1>1, ServicesAssumption DEF IInv, CommandInv, ServiceInv, TypeOK, LedgerTypeOK
  <2>2. StoreTypeOK /\ LedgerTypeOK
    BY <1>1 DEF IInv, TypeOK
  <2>3. CASE ServiceStep
    <3>1. pc \in ServiceLabels
      BY <2>3 DEF ServiceStep, ServiceLabels, FindStaging, RestoreStaging, AwaitStaging,
         MarkStaged, EnsureRole, CreateRole, StoreStagingKey, ReplayExtensions,
         MarkCredentialed, DeleteOld, MarkOldDeleted, Rename, MarkRenamed, AwaitCanonical,
         Transfer, DropStagingKey, Bind, MarkComplete, Interrupt
    <3>2. s # cur
      BY <2>1, <3>1
    <3> QED
      BY <1>1, <2>2, <2>3, <3>2 DEF ServiceStep, StoreTypeOK, LedgerTypeOK, TypeOK,
         FindStaging, RestoreStaging, AwaitStaging, MarkStaged, EnsureRole, CreateRole,
         StoreStagingKey, ReplayExtensions, MarkCredentialed, DeleteOld, MarkOldDeleted,
         Rename, MarkRenamed, AwaitCanonical, Transfer, DropStagingKey, Bind, MarkComplete,
         Interrupt, Checkpoint, Goto, Answer, FailStep
  <2>4. CASE ProviderStep
    BY <2>1, <2>2, <2>4 DEF ProviderStep, RestoreCompletes, RenameCompletes, CheckpointHolds,
       StoreTypeOK
  <2>5. CASE ~ServiceStep /\ ~ProviderStep
    BY <1>1, <2>1, <2>5 DEF Next, StartPull, Resume, CommandStep, OpenRecord, SaveVerdict,
       Settle, SkipSucceeded, BeginStep, RefuseStep, CallFails, FailStep, RequestCancel,
       Crash, OutageEnds
  <2> QED
    BY <2>3, <2>4, <2>5
<1>2. IInv /\ [Next]_vars => [Kept]_vars
  BY <1>1 DEF Kept
<1>3. Spec => [][Kept]_vars
  BY Invariance, <1>2, PTL DEF Spec
<1> QED
  BY <1>3 DEF SucceededServicesAreKept, Kept

-----------------------------------------------------------------------------
(* Cancellation.                                                           *)

MidSwapHolds(s) ==
  canonical[s] = "absent" \/ phase[s] = "old_deleted" =>
    s = cur /\ pc \in {"mark_old_deleted", "rename", "mark_renamed"}

MidSwapInv == outage = "none" => \A s \in Services : MidSwapHolds(s)

(* As long as no call and no host fails, a command that is cancelled returns *)
(* with no service between the deletion of its old branch and the checkpoint *)
(* of its new one.                                                           *)
THEOREM NotCancelledMidSwap == Spec => []CancellationIsNotMidSwap
<1>1. Init => MidSwapInv
  BY DEF Init, MidSwapInv, MidSwapHolds
<1>2. ASSUME IInv, MidSwapInv, [Next]_vars, outage' = "none", NEW s \in Services
      PROVE  MidSwapHolds(s)'
  <2>1. /\ outage = "none" /\ MidSwapHolds(s)
        /\ ~Fault
        /\ pc \in ServiceLabels <=> cur # NoService
    BY <1>2 DEF MidSwapInv, Fault, IInv, CommandInv, Next, StartPull, Resume, CommandStep,
       OpenRecord, SaveVerdict, Settle, SkipSucceeded, BeginStep, RefuseStep, ServiceStep,
       FindStaging, RestoreStaging, AwaitStaging, MarkStaged, EnsureRole, CreateRole,
       StoreStagingKey, ReplayExtensions, MarkCredentialed, DeleteOld, MarkOldDeleted,
       Rename, MarkRenamed, AwaitCanonical, Transfer, DropStagingKey, Bind, MarkComplete,
       Interrupt, Checkpoint, Answer, ProviderStep, RestoreCompletes, RenameCompletes,
       CallFails, RequestCancel, Crash, OutageEnds
  <2>2. TypeOK
    BY <1>2 DEF IInv
  <2>3. CASE ServiceStep
    <3>1. InService /\ ServiceInv(s)
      BY <1>2, <2>3, InServiceFact DEF IInv, ServiceStep, ServiceLabels, FindStaging,
         RestoreStaging, AwaitStaging, MarkStaged, EnsureRole, CreateRole, StoreStagingKey,
         ReplayExtensions, MarkCredentialed, DeleteOld, MarkOldDeleted, Rename, MarkRenamed,
         AwaitCanonical, Transfer, DropStagingKey, Bind, MarkComplete, Interrupt
    <3>2. CASE FindStaging \/ RestoreStaging \/ AwaitStaging \/ MarkStaged
      BY <2>1, <2>2, <3>1, <3>2 DEF FindStaging, RestoreStaging, AwaitStaging, MarkStaged,
         MidSwapHolds, Goto, Answer, FailStep, Checkpoint, InService, TypeOK, LedgerTypeOK
    <3>3. CASE EnsureRole \/ CreateRole \/ StoreStagingKey \/ ReplayExtensions
      BY <2>1, <2>2, <3>1, <3>3 DEF EnsureRole, CreateRole, StoreStagingKey,
         ReplayExtensions, MidSwapHolds, Goto, Answer, FailStep, InService
    <3>4. CASE MarkCredentialed \/ DeleteOld \/ MarkOldDeleted
      BY <2>1, <2>2, <3>1, <3>4 DEF MarkCredentialed, DeleteOld, MarkOldDeleted,
         MidSwapHolds, Goto, Answer, FailStep, Checkpoint, InService, TypeOK, LedgerTypeOK,
         StoreTypeOK, ServiceInv, CheckpointHolds, ControlHolds, UsableCopy
    <3>5. CASE Rename \/ MarkRenamed \/ AwaitCanonical
      BY <2>1, <2>2, <3>1, <3>5 DEF Rename, MarkRenamed, AwaitCanonical,
         MidSwapHolds, Goto, Answer, FailStep, Checkpoint, InService, TypeOK, LedgerTypeOK,
         StoreTypeOK, ServiceInv, CheckpointHolds, ControlHolds, UsableCopy
    <3>6. CASE Transfer \/ DropStagingKey \/ Bind \/ MarkComplete
      BY <2>1, <2>2, <3>1, <3>6 DEF Transfer, DropStagingKey, Bind, MarkComplete,
         MidSwapHolds, Goto, Answer, FailStep, InService, TypeOK, LedgerTypeOK
    <3>7. CASE Interrupt
      BY <2>1, <3>7 DEF Interrupt, InterruptibleAt, MidSwapHolds
    <3> QED
      BY <2>3, <3>2, <3>3, <3>4, <3>5, <3>6, <3>7 DEF ServiceStep
  <2>4. CASE ProviderStep
    BY <2>1, <2>2, <2>4 DEF ProviderStep, RestoreCompletes, RenameCompletes, MidSwapHolds,
       TypeOK, StoreTypeOK
  <2>5. CASE \E chosen \in (SUBSET Services) \ {{}} : StartPull(chosen)
    BY <2>1, <2>2, <2>5 DEF StartPull, Goto, MidSwapHolds, ServiceLabels, TypeOK, StoreTypeOK
  <2>6. CASE ~ServiceStep /\ ~ProviderStep /\ ~\E chosen \in (SUBSET Services) \ {{}} : StartPull(chosen)
    BY <1>2, <2>1, <2>6 DEF Next, Resume, Goto, CommandStep, OpenRecord, SaveVerdict,
       Settle, ProcessEnds, SkipSucceeded, BeginStep, RefuseStep, CallFails, RequestCancel,
       Crash, OutageEnds, MidSwapHolds, ServiceLabels
  <2> QED
    BY <2>3, <2>4, <2>5, <2>6
<1>3. IInv /\ MidSwapInv /\ [Next]_vars => MidSwapInv'
  BY <1>2 DEF MidSwapInv
<1>4. ASSUME IInv, MidSwapInv PROVE CancellationIsNotMidSwap
  BY <1>4 DEF IInv, TypeOK, StoreTypeOK, CommandInv, MidSwapInv, MidSwapHolds,
     CancellationIsNotMidSwap
<1> QED
  BY Invariance, <1>1, <1>3, <1>4, PTL DEF Spec

-----------------------------------------------------------------------------
(* The pull implements what ForwardSwap promises: each step of the detailed *)
(* pull is a step of ForwardSwap or leaves everything ForwardSwap speaks of *)
(* as it is.                                                               *)

(* What ForwardSwap's state is computed from, besides Open. *)
Facts == <<scope, canonical, staging, role, stagingKey, canonicalKey>>

ServingOf == [s \in Services |-> Serving(s)]
ReplacementOf == [s \in Services |-> Replacement(s)]

LEMMA ViewKept ==
  ASSUME UNCHANGED Facts, UNCHANGED Open
  PROVE  UNCHANGED Forward!vars
BY DEF Facts, Forward!vars, Serving, Replacement, UsableCopy

(* While a command runs the environment is closed, whatever is written. *)
LEMMA Closed ==
  ASSUME IInv, pc # "idle"
  PROVE  Open = FALSE /\ (job' = job => Open' = FALSE)
BY DEF IInv, CommandInv, Open

LEMMA OnlyOneServes ==
  ASSUME NEW c \in Services,
         \A s \in Services : s # c => UNCHANGED canonical[s]
  PROVE  ServingOf' = [ServingOf EXCEPT ![c] = Serving(c)']
BY DEF ServingOf, Serving

LEMMA OnlyOneCopy ==
  ASSUME NEW c \in Services,
         \A s \in Services : s # c => UNCHANGED <<staging[s], role[s], stagingKey[s]>>
  PROVE  ReplacementOf' = [ReplacementOf EXCEPT ![c] = Replacement(c)']
  <1>1. \A s \in Services : s # c => Replacement(s)' = Replacement(s)
    BY DEF Replacement, UsableCopy
  <1> QED
    BY <1>1 DEF ReplacementOf

(* What every step of pull_service keeps, and what it finds. *)
LEMMA ServiceStepFrame ==
  ASSUME IInv, ServiceStep
  PROVE  /\ cur \in Services /\ cur \in scope
         /\ StoreTypeOK /\ LedgerTypeOK
         /\ CheckpointHolds(cur) /\ ControlHolds(cur)
         /\ Open = FALSE /\ Open' = FALSE /\ UNCHANGED scope
<1>1. pc \in ServiceLabels
  BY DEF ServiceStep, ServiceLabels, FindStaging, RestoreStaging, AwaitStaging, MarkStaged,
     EnsureRole, CreateRole, StoreStagingKey, ReplayExtensions, MarkCredentialed, DeleteOld,
     MarkOldDeleted, Rename, MarkRenamed, AwaitCanonical, Transfer, DropStagingKey, Bind,
     MarkComplete, Interrupt
<1>2. InService
  BY <1>1, InServiceFact DEF IInv
<1>3. UNCHANGED <<job, scope>>
  BY DEF ServiceStep, FindStaging, RestoreStaging, AwaitStaging, MarkStaged,
     EnsureRole, CreateRole, StoreStagingKey, ReplayExtensions, MarkCredentialed, DeleteOld,
     MarkOldDeleted, Rename, MarkRenamed, AwaitCanonical, Transfer, DropStagingKey, Bind,
     MarkComplete, Interrupt, Goto, FailStep, Answer, Checkpoint
<1> QED
  BY <1>1, <1>2, <1>3, Closed DEF IInv, TypeOK, InService, ServiceInv, ServiceLabels

(* A step of pull_service that touches nothing ForwardSwap speaks of. *)
LEMMA ServiceStepAside ==
  ASSUME IInv, ServiceStep, UNCHANGED <<canonical, staging, role, stagingKey, canonicalKey>>
  PROVE  UNCHANGED Forward!vars
BY ServiceStepFrame, ViewKept DEF Facts

(* A step of pull_service that works on the copy of its service. *)
LEMMA ServiceStepPrepares ==
  ASSUME IInv, ServiceStep, UNCHANGED canonical, UNCHANGED canonicalKey,
         NEW c \in Services, c = cur,
         phase[c] \in {"planned", "staged"},
         \A s \in Services : s # c => UNCHANGED <<staging[s], role[s], stagingKey[s]>>,
         \/ Replacement(c) # "usable" /\ Replacement(c)' \in {"partial", "usable"}
         \/ Replacement(c)' = Replacement(c)
  PROVE  [Forward!Next]_(Forward!vars)
<1>1. /\ c \in scope /\ Open = FALSE /\ Open' = FALSE /\ UNCHANGED scope
      /\ canonical[c] = "old"
  BY ServiceStepFrame DEF CheckpointHolds, Untouched
<1>2. ReplacementOf' = [ReplacementOf EXCEPT ![c] = Replacement(c)']
  BY OnlyOneCopy
<1>3. UNCHANGED ServingOf /\ ServingOf[c] = "old" /\ ReplacementOf[c] = Replacement(c)
  BY <1>1 DEF ServingOf, Serving, ReplacementOf
<1>4. CASE Replacement(c)' = Replacement(c)
  <2>1. UNCHANGED ReplacementOf
    BY <1>2, <1>3, <1>4 DEF ReplacementOf
  <2> QED BY <1>1, <1>3, <2>1 DEF Forward!vars, ServingOf, ReplacementOf
<1>5. CASE Replacement(c) # "usable" /\ Replacement(c)' \in {"partial", "usable"}
  <2>1. Forward!Prepare(c)
    BY <1>1, <1>2, <1>3, <1>5 DEF Forward!Prepare, ServingOf, ReplacementOf
  <2> QED BY <2>1 DEF Forward!Next
<1> QED BY <1>4, <1>5

LEMMA PreparationForward ==
  ASSUME IInv, RestoreStaging \/ EnsureRole \/ CreateRole \/ StoreStagingKey \/ ReplayExtensions
  PROVE  [Forward!Next]_(Forward!vars)
<1>1. ServiceStep /\ canonical' = canonical /\ canonicalKey' = canonicalKey
  BY DEF ServiceStep, RestoreStaging, EnsureRole, CreateRole, StoreStagingKey, ReplayExtensions
<1>2. PICK c \in Services : c = cur
  BY <1>1, ServiceStepFrame
<1>3. /\ StoreTypeOK /\ CheckpointHolds(c) /\ ControlHolds(c)
      /\ phase[c] \in {"planned", "staged"}
  BY <1>1, <1>2, ServiceStepFrame DEF ControlHolds, RestoreStaging, EnsureRole, CreateRole,
     StoreStagingKey, ReplayExtensions
<1>4. \A s \in Services : s # c => UNCHANGED <<staging[s], role[s], stagingKey[s]>>
  BY <1>2, <1>3 DEF RestoreStaging, EnsureRole, CreateRole, StoreStagingKey,
     ReplayExtensions, StoreTypeOK
<1>5. \/ Replacement(c) # "usable" /\ Replacement(c)' \in {"partial", "usable"}
      \/ Replacement(c)' = Replacement(c)
  <2>1. CASE RestoreStaging
    BY <1>2, <1>3, <2>1 DEF RestoreStaging, StoreTypeOK, CheckpointHolds, ControlHolds,
       Replacement, UsableCopy
  <2>2. CASE EnsureRole
    BY <1>2, <1>3, <2>2 DEF EnsureRole, StoreTypeOK, CheckpointHolds, ControlHolds,
       Replacement, UsableCopy
  <2>3. CASE CreateRole
    BY <1>2, <1>3, <2>3 DEF CreateRole, StoreTypeOK, CheckpointHolds, ControlHolds,
       Replacement, UsableCopy
  <2>4. CASE StoreStagingKey
    BY <1>2, <1>3, <2>4 DEF StoreStagingKey, StoreTypeOK, CheckpointHolds, ControlHolds,
       Replacement, UsableCopy
  <2>5. CASE ReplayExtensions
    BY <1>2, <1>3, <2>5 DEF ReplayExtensions, StoreTypeOK, CheckpointHolds, ControlHolds,
       Replacement, UsableCopy
  <2> QED BY <2>1, <2>2, <2>3, <2>4, <2>5
<1> QED BY <1>1, <1>2, <1>3, <1>4, <1>5, ServiceStepPrepares

LEMMA DeleteOldForward == ASSUME IInv, DeleteOld PROVE [Forward!Next]_(Forward!vars)
<1>1. PICK c \in Services : c = cur
  BY ServiceStepFrame DEF ServiceStep
<1>2. /\ Open = FALSE /\ Open' = FALSE /\ UNCHANGED scope /\ StoreTypeOK
      /\ UsableCopy(c) /\ canonical[c] \in {"old", "absent"}
  BY <1>1, ServiceStepFrame DEF ServiceStep, DeleteOld, ControlHolds, CheckpointHolds
<1>3. CASE UNCHANGED canonical
  BY <1>3, ServiceStepAside DEF ServiceStep, DeleteOld
<1>4. CASE canonical # canonical'
  <2>1. canonical[c] = "old" /\ canonical' = [canonical EXCEPT ![c] = "absent"]
    BY <1>1, <1>2, <1>4 DEF DeleteOld
  <2>2. Serving(c)' = "none" /\ \A s \in Services : s # c => UNCHANGED canonical[s]
    BY <1>2, <2>1 DEF StoreTypeOK, Serving
  <2>3. ServingOf' = [ServingOf EXCEPT ![c] = "none"]
    BY <2>2, OnlyOneServes
  <2>4. /\ UNCHANGED <<ReplacementOf, canonicalKey>>
        /\ ServingOf[c] = "old" /\ ReplacementOf[c] = "usable"
    BY <1>2, <2>1 DEF DeleteOld, ServingOf, Serving, ReplacementOf, Replacement, UsableCopy
  <2>5. Forward!Retire(c)
    BY <1>2, <2>3, <2>4 DEF Forward!Retire, ServingOf, ReplacementOf
  <2> QED BY <2>5 DEF Forward!Next
<1> QED BY <1>3, <1>4

LEMMA RenameForward == ASSUME IInv, Rename PROVE [Forward!Next]_(Forward!vars)
<1>1. PICK c \in Services : c = cur
  BY ServiceStepFrame DEF ServiceStep
<1>2. /\ Open = FALSE /\ Open' = FALSE /\ UNCHANGED scope /\ StoreTypeOK
      /\ role[c] = "saved" /\ stagingKey[c] = "live"
      /\ \/ canonical[c] = "absent" /\ staging[c] = "extended"
         \/ canonical[c] \in {"renaming", "new"} /\ staging[c] = "absent"
  BY <1>1, ServiceStepFrame DEF ServiceStep, Rename, ControlHolds, CheckpointHolds
<1>3. CASE staging[c] = "absent"
  BY <1>1, <1>2, <1>3, ServiceStepAside DEF ServiceStep, Rename
<1>4. CASE staging[c] # "absent"
  <2>1. /\ canonical' = [canonical EXCEPT ![c] = "renaming"]
        /\ staging' = [staging EXCEPT ![c] = "absent"]
    BY <1>1, <1>2, <1>4 DEF Rename
  <2>2. /\ Serving(c)' = "new" /\ Replacement(c)' = "absent"
        /\ \A s \in Services : s # c =>
              UNCHANGED canonical[s] /\ UNCHANGED <<staging[s], role[s], stagingKey[s]>>
    BY <1>2, <2>1 DEF Rename, StoreTypeOK, Serving, Replacement
  <2>3. ServingOf' = [ServingOf EXCEPT ![c] = "new"]
    BY <2>2, OnlyOneServes
  <2>4. ReplacementOf' = [ReplacementOf EXCEPT ![c] = "absent"]
    BY <2>2, OnlyOneCopy
  <2>5. canonicalKey' = canonicalKey /\ ServingOf[c] = "none" /\ ReplacementOf[c] = "usable"
    BY <1>2, <1>4 DEF Rename, ServingOf, Serving, ReplacementOf, Replacement, UsableCopy
  <2>6. Forward!Promote(c)
    BY <1>2, <2>3, <2>4, <2>5 DEF Forward!Promote, ServingOf, ReplacementOf
  <2> QED BY <2>6 DEF Forward!Next
<1> QED BY <1>3, <1>4

LEMMA TransferForward == ASSUME IInv, Transfer PROVE [Forward!Next]_(Forward!vars)
<1>1. PICK c \in Services : c = cur
  BY ServiceStepFrame DEF ServiceStep
<1>2. /\ Open = FALSE /\ Open' = FALSE /\ UNCHANGED scope /\ StoreTypeOK
      /\ canonical[c] = "new" /\ stagingKey[c] \in {"live", "none"}
  BY <1>1, ServiceStepFrame DEF ServiceStep, Transfer, ControlHolds, CheckpointHolds
<1>3. CASE stagingKey[c] = "none"
  BY <1>1, <1>3, ServiceStepAside DEF ServiceStep, Transfer
<1>4. CASE stagingKey[c] = "live"
  <2>1. canonicalKey' = [canonicalKey EXCEPT ![c] = "new"]
    BY <1>1, <1>4 DEF Transfer
  <2>2. UNCHANGED <<ServingOf, ReplacementOf>> /\ ServingOf[c] = "new"
    BY <1>2 DEF Transfer, ServingOf, Serving, ReplacementOf, Replacement, UsableCopy
  <2>3. Forward!HandOver(c)
    BY <1>2, <2>1, <2>2 DEF Forward!HandOver, ServingOf, ReplacementOf
  <2> QED BY <2>3 DEF Forward!Next
<1> QED BY <1>2, <1>3, <1>4

LEMMA DropStagingKeyForward == ASSUME IInv, DropStagingKey PROVE UNCHANGED Forward!vars
<1>1. PICK c \in Services : c = cur
  BY ServiceStepFrame DEF ServiceStep
<1>2. /\ Open = FALSE /\ Open' = FALSE /\ UNCHANGED scope /\ StoreTypeOK
      /\ staging[c] = "absent"
  BY <1>1, ServiceStepFrame DEF ServiceStep, DropStagingKey, ControlHolds, CheckpointHolds
<1>3. ASSUME NEW s \in Services PROVE Replacement(s)' = Replacement(s)
  BY <1>1, <1>2 DEF DropStagingKey, Replacement, UsableCopy, StoreTypeOK
<1>4. UNCHANGED ReplacementOf
  BY <1>3 DEF ReplacementOf
<1> QED
  BY <1>2, <1>4 DEF DropStagingKey, Forward!vars, ServingOf, Serving, ReplacementOf

LEMMA ServiceStepForward == ASSUME IInv, ServiceStep PROVE [Forward!Next]_(Forward!vars)
<1>1. CASE RestoreStaging \/ EnsureRole \/ CreateRole \/ StoreStagingKey \/ ReplayExtensions
  BY <1>1, PreparationForward
<1>2. CASE DeleteOld
  BY <1>2, DeleteOldForward
<1>3. CASE Rename
  BY <1>3, RenameForward
<1>4. CASE Transfer
  BY <1>4, TransferForward
<1>5. CASE DropStagingKey
  BY <1>5, DropStagingKeyForward
<1>6. CASE \/ FindStaging \/ AwaitStaging \/ MarkStaged \/ MarkCredentialed \/ MarkOldDeleted
           \/ MarkRenamed \/ AwaitCanonical \/ Bind \/ MarkComplete \/ Interrupt
  <2>1. UNCHANGED <<canonical, staging, role, stagingKey, canonicalKey>>
    BY <1>6 DEF FindStaging, AwaitStaging, MarkStaged, MarkCredentialed, MarkOldDeleted,
       MarkRenamed, AwaitCanonical, Bind, MarkComplete, Interrupt, Checkpoint
  <2> QED BY <2>1, ServiceStepAside
<1> QED BY <1>1, <1>2, <1>3, <1>4, <1>5, <1>6 DEF ServiceStep

LEMMA StartPullForward ==
  ASSUME IInv, NEW chosen \in (SUBSET Services) \ {{}}, StartPull(chosen)
  PROVE  Forward!Next
<1>1. StoreTypeOK /\ \A s \in Services : canonical[s] \in {"old", "new"}
  BY DEF IInv, TypeOK, ServiceInv, AtRest, StartPull
<1>2. Open = TRUE /\ Open' = FALSE /\ scope' = chosen
  BY DEF StartPull, Open
<1>3. ServingOf' = [s \in Services |-> "old"]
  BY <1>1 DEF StartPull, StoreTypeOK, ServingOf, Serving
<1>4. canonicalKey' = [s \in Services |-> "old"]
  BY DEF StartPull
<1>5. UNCHANGED ReplacementOf
  BY DEF StartPull, IInv, ServiceInv, AtRest, ReplacementOf, Replacement
<1>6. Forward!Begin(chosen)
  BY <1>2, <1>3, <1>4, <1>5 DEF Forward!Begin, ServingOf, ReplacementOf
<1> QED BY <1>6 DEF Forward!Next

LEMMA SettleForward == ASSUME IInv, Settle PROVE [Forward!Next]_(Forward!vars)
<1>1. Open = FALSE /\ UNCHANGED <<scope, ServingOf, ReplacementOf, canonicalKey>>
  BY Closed DEF Settle, ServingOf, Serving, ReplacementOf, Replacement, UsableCopy
<1>2. CASE Open' = FALSE
  BY <1>1, <1>2 DEF Forward!vars, ServingOf, ReplacementOf
<1>3. CASE Open' = TRUE
  <2>1. \A s \in scope : canonical[s] = "new" /\ canonicalKey[s] = "new"
    BY <1>3 DEF Settle, Open, IInv, TypeOK, LedgerTypeOK, CommandInv, ServiceInv, CheckpointHolds
  <2>2. \A s \in scope : ServingOf[s] = "new"
    BY <2>1 DEF ServingOf, Serving, IInv, TypeOK, LedgerTypeOK
  <2>3. Forward!Finish
    BY <1>1, <1>3, <2>1, <2>2 DEF Forward!Finish, ServingOf, ReplacementOf
  <2> QED BY <2>3 DEF Forward!Next
<1> QED BY <1>2, <1>3 DEF Open

LEMMA ProviderStepForward == ASSUME IInv, ProviderStep PROVE UNCHANGED Forward!vars
<1>1. UNCHANGED <<Open, scope, canonicalKey>>
  BY DEF ProviderStep, RestoreCompletes, RenameCompletes, Open
<1>2. StoreTypeOK
  BY DEF IInv, TypeOK
<1>3. UNCHANGED ServingOf
  BY <1>2 DEF ProviderStep, RestoreCompletes, RenameCompletes, ServingOf, Serving, StoreTypeOK
<1>4. UNCHANGED ReplacementOf
  BY <1>2 DEF ProviderStep, RestoreCompletes, RenameCompletes, ReplacementOf, Replacement,
     UsableCopy, StoreTypeOK
<1> QED BY <1>1, <1>3, <1>4 DEF Forward!vars, ServingOf, ReplacementOf

LEMMA NextForward == ASSUME IInv, [Next]_vars PROVE [Forward!Next]_(Forward!vars)
<1>1. CASE \E chosen \in (SUBSET Services) \ {{}} : StartPull(chosen)
  BY <1>1, StartPullForward
<1>2. CASE ServiceStep
  BY <1>2, ServiceStepForward
<1>3. CASE Settle
  BY <1>3, SettleForward
<1>4. CASE ProviderStep
  BY <1>4, ProviderStepForward
<1>5. CASE \/ Resume \/ OpenRecord \/ SaveVerdict
           \/ \E s \in Services : SkipSucceeded(s) \/ BeginStep(s) \/ RefuseStep(s)
           \/ CallFails \/ RequestCancel \/ Crash \/ OutageEnds \/ UNCHANGED vars
  <2>1. UNCHANGED Facts
    BY <1>5 DEF Facts, Resume, OpenRecord, SaveVerdict, SkipSucceeded, BeginStep, RefuseStep,
       CallFails, FailStep, RequestCancel, Crash, OutageEnds
  <2>2. UNCHANGED Open
    BY <1>5 DEF Open, IInv, CommandInv, Resume, OpenRecord, SaveVerdict, SkipSucceeded,
       BeginStep, RefuseStep, CallFails, FailStep, RequestCancel, Crash, OutageEnds
  <2> QED BY <2>1, <2>2, ViewKept
<1> QED BY <1>1, <1>2, <1>3, <1>4, <1>5 DEF Next, CommandStep

LEMMA InitForward == ASSUME Init PROVE Forward!Init
BY DEF Init, Forward!Init, Open, Serving, Replacement

(* The pull gives an old branch up only for a copy that is complete and that *)
(* stored URLs open, hands over only credentials of the new data, and        *)
(* reopens the environment only when every selected service serves it.       *)
THEOREM PullImplementsForwardSwap == Spec => ForwardSpec
<1>1. Init => Forward!Init
  BY InitForward
<1>2. IInv /\ [Next]_vars => [Forward!Next]_(Forward!vars)
  BY NextForward
<1> QED
  BY Invariance, <1>1, <1>2, PTL DEF Spec, ForwardSpec, Forward!Spec
=============================================================================
