--------------------------- MODULE ImportCopyProofs --------------------------
(***************************************************************************)
(* The safety properties of ImportCopy, for every number of attempts.  Only *)
(* ChildrenAreReaped is nearly inductive as it stands: what the backup      *)
(* holds, what remains, and who is to blame depend on how the copy came to *)
(* its end, which the parts of IInv say for each position of the attempt.  *)
(***************************************************************************)
EXTENDS ImportCopy, TLAPS

Streaming == {"stream", "join", "failed_stream", "grace"}
Copying == {"ready", "extensions", "spawn"} \cup Streaming
Importing == {"old_role", "create_role", "probe", "up", "stop_source", "drop_role", "backup"}
             \cup Copying

(* No error has been met before the import is unwound.                     *)
ErrorInv ==
  pc \notin {"idle", "stop_source", "drop_role", "provision", "report"} => error = "ok"

(* The source service: as it was found, or running for the copy.           *)
SourceInv ==
  /\ pc \in {"database", "backups", "old_role", "create_role", "probe", "up", "backup",
             "await", "done", "provision"} => source = before
  /\ pc = "up" => ~wasRunning /\ source = "stopped"
  /\ pc \in Copying => source = "running" /\ (wasRunning <=> before = "running")
  /\ pc = "stop_source" => source = "running" /\ before = "stopped"
  /\ pc \in {"drop_role", "report"} /\ source # before => error \in Cleanups

(* The two children and the copy between them.                             *)
ChildInv ==
  /\ pc \notin Streaming => dump # "running" /\ restore # "running"
  /\ pc \in Streaming => transfer # "none" /\ dump # "none"
  /\ pc = "stream" => dump \in {"running", "ok", "failed"}
  /\ pc = "join" => transfer = "ok"
  /\ pc \in {"failed_stream", "grace"} => transfer \in {"broken", "error"}
  /\ pc = "grace" => dump # "running"
  /\ transfer = "ok" => dump # "running"
  /\ pc = "join" => dump \in {"ok", "failed"}
  /\ pc \in Streaming => restore # "gone"
  /\ pc \in Streaming /\ transfer \in {"copying", "broken"} => restore # "cut"
  /\ transfer = "ok" /\ dump = "ok" => restore # "cut"

(* Once psql has succeeded on a copy that fed it the complete dump, the    *)
(* branch is whole, or psql left the rest unread.                          *)
BaseInv ==
  /\ pc \in Streaming /\ transfer = "copying" /\ restore = "ok" => base = "unread"
  /\ pc \in Streaming /\ transfer = "ok" /\ dump = "ok" /\ restore = "ok" =>
       base \in {"whole", "unread"}
  /\ pc \in {"stop_source", "drop_role", "backup"} /\ error = "ok" => base \in {"whole", "unread"}
  /\ pc \in Importing => backup \in {"none", "failed"}
  /\ BackupHoldsTheImport

(* The role of this attempt, and the container of its psql.                *)
LeftInv ==
  /\ pc \in {"database", "backups", "old_role", "backup", "await", "done", "provision"} =>
       role # "ours"
  /\ pc = "create_role" => role = "none"
  /\ pc = "report" /\ role = "ours" =>
       error \in Cleanups \cup {"request_failed"}
  /\ restore \in {"none", "ok", "failed", "cut"} => ~container
  /\ pc \in {"stop_source", "drop_role", "report"} /\ container => error \in Cleanups \cup {"io"}
  /\ pc \notin Streaming \cup {"idle", "stop_source", "drop_role", "report"} => ~container

IInv ==
  /\ TypeOK /\ ErrorInv /\ SourceInv /\ ChildInv /\ BaseInv /\ LeftInv
  /\ CulpritIsNamed

-----------------------------------------------------------------------------
LEMMA InitIInv == Init => IInv
  <1>1. Init => TypeOK
    <2>1. Init => attempts \in Nat
      BY DEF Init
    <2>2. Init => container \in BOOLEAN /\ wasRunning \in BOOLEAN
      BY DEF Init
    <2> QED
      BY <2>1, <2>2 DEF Init, TypeOK, Contents, Labels, Errors
  <1>2. Init => ErrorInv /\ ChildInv /\ CulpritIsNamed
    BY DEF Init, ErrorInv, ChildInv, CulpritIsNamed, Streaming
  <1>3. Init => SourceInv /\ BaseInv /\ LeftInv
    BY DEF Init, SourceInv, BaseInv, BackupHoldsTheImport, LeftInv, Cleanups, Importing,
           Copying, Streaming
  <1> QED
    BY <1>1, <1>2, <1>3 DEF IInv

LEMMA StutterKeeps ==
  ASSUME IInv, UNCHANGED vars
  PROVE  IInv'
  BY DEF IInv, TypeOK, ErrorInv, SourceInv, ChildInv, BaseInv, BackupHoldsTheImport, LeftInv,
         CulpritIsNamed, vars, remote, children, attempt

-----------------------------------------------------------------------------
(* An attempt begins; the steps before the copy, and the unwinding after it.*)

LEMMA BeginKeeps ==
  ASSUME IInv, Begin
  PROVE  IInv'
  <1>1. TypeOK'
    <2>1. attempts' \in Nat
      BY DEF IInv, TypeOK, Begin
    <2> QED
      BY <2>1 DEF IInv, TypeOK, Labels, Errors, Begin
  <1>2. ErrorInv'
    BY DEF IInv, ErrorInv, Begin
  <1>3. SourceInv'
    BY DEF IInv, SourceInv, Copying, Streaming, Begin
  <1>4. ChildInv'
    BY DEF IInv, ChildInv, Streaming, Begin
  <1>5. BaseInv'
    BY DEF IInv, BaseInv, BackupHoldsTheImport, Importing, Copying, Streaming, Begin
  <1>6. LeftInv'
    BY DEF IInv, LeftInv, Begin
  <1>7. CulpritIsNamed'
    BY DEF IInv, CulpritIsNamed, Begin
  <1> QED
    BY <1>1, <1>2, <1>3, <1>4, <1>5, <1>6, <1>7 DEF IInv

LEMMA SignalKeeps ==
  ASSUME IInv, Signal
  PROVE  IInv'
  <1>1. TypeOK'
    BY DEF IInv, TypeOK, Signal, attempt, children, remote
  <1>2. ErrorInv'
    BY DEF IInv, ErrorInv, Signal, attempt
  <1>3. SourceInv'
    BY DEF IInv, SourceInv, Signal, attempt, remote
  <1>4. ChildInv'
    BY DEF IInv, ChildInv, Signal, attempt, children
  <1>5. BaseInv'
    BY DEF IInv, BaseInv, BackupHoldsTheImport, Signal, attempt, children, remote
  <1>6. LeftInv'
    BY DEF IInv, LeftInv, Signal, attempt, children, remote
  <1>7. CulpritIsNamed'
    BY DEF IInv, CulpritIsNamed, Signal, attempt, children
  <1> QED
    BY <1>1, <1>2, <1>3, <1>4, <1>5, <1>6, <1>7 DEF IInv

LEMMA InterruptedKeeps ==
  ASSUME IInv, Interrupted
  PROVE  IInv'
  <1>1. TypeOK'
    BY DEF IInv, TypeOK, Labels, Errors, Interrupted, Checked, Fails, children, remote,
           Unwound
  <1>2. ErrorInv'
    BY DEF IInv, ErrorInv, Interrupted, Checked, Fails, Unwound
  <1>3. SourceInv'
    BY DEF IInv, SourceInv, Copying, Streaming, TypeOK, Interrupted, Checked, Fails,
           remote, Unwound
  <1>4. ChildInv'
    BY DEF IInv, ChildInv, Streaming, Interrupted, Checked, Fails, children, Unwound
  <1>5. BaseInv'
    BY DEF IInv, BaseInv, BackupHoldsTheImport, Importing, Copying, Streaming, Interrupted,
           Checked, Fails, children, remote, Unwound
  <1>6. LeftInv'
    BY DEF IInv, LeftInv, Streaming, Interrupted, Checked, Fails, children, remote,
           Unwound
  <1>7. CulpritIsNamed'
    BY DEF IInv, CulpritIsNamed, Interrupted, Checked, Fails, children, Unwound
  <1> QED
    BY <1>1, <1>2, <1>3, <1>4, <1>5, <1>6, <1>7 DEF IInv

LEMMA RequestFailsKeeps ==
  ASSUME IInv, RequestFails
  PROVE  IInv'
  <1>1. TypeOK'
    BY DEF IInv, TypeOK, Labels, Errors, RequestFails, At, Fails, children, remote,
           Checked, Unwound
  <1>2. ErrorInv'
    BY DEF IInv, ErrorInv, RequestFails, At, Fails, Checked, Unwound
  <1>3. SourceInv'
    BY DEF IInv, SourceInv, Copying, Streaming, RequestFails, At, Fails, remote,
           Checked, Unwound
  <1>4. ChildInv'
    BY DEF IInv, ChildInv, Streaming, RequestFails, At, Fails, children, Checked,
           Unwound
  <1>5. BaseInv'
    BY DEF IInv, BaseInv, BackupHoldsTheImport, Importing, Copying, Streaming, RequestFails,
           At, Fails, children, remote, Checked, Unwound
  <1>6. LeftInv'
    BY DEF IInv, LeftInv, Streaming, RequestFails, At, Fails, children, remote, Checked,
           Unwound
  <1>7. CulpritIsNamed'
    BY DEF IInv, CulpritIsNamed, RequestFails, At, Fails, children, Checked, Unwound
  <1> QED
    BY <1>1, <1>2, <1>3, <1>4, <1>5, <1>6, <1>7 DEF IInv

LEMMA EnsureDatabaseKeeps ==
  ASSUME IInv, EnsureDatabase
  PROVE  IInv'
  <1>1. TypeOK'
    BY DEF IInv, TypeOK, Labels, EnsureDatabase, At, Goto, children, remote, Checked,
           attempt
  <1>2. ErrorInv'
    BY DEF IInv, ErrorInv, EnsureDatabase, At, Goto, Checked, attempt
  <1>3. SourceInv'
    BY DEF IInv, SourceInv, Copying, Streaming, EnsureDatabase, At, Goto, remote,
           Checked, attempt
  <1>4. ChildInv'
    BY DEF IInv, ChildInv, Streaming, EnsureDatabase, At, Goto, children, Checked,
           attempt
  <1>5. BaseInv'
    BY DEF IInv, BaseInv, BackupHoldsTheImport, Importing, Copying, Streaming, EnsureDatabase,
           At, Goto, children, remote, Checked, attempt
  <1>6. LeftInv'
    BY DEF IInv, LeftInv, Streaming, EnsureDatabase, At, Goto, children, remote,
           Checked, attempt
  <1>7. CulpritIsNamed'
    BY DEF IInv, CulpritIsNamed, EnsureDatabase, At, Goto, children, Checked, attempt
  <1> QED
    BY <1>1, <1>2, <1>3, <1>4, <1>5, <1>6, <1>7 DEF IInv

LEMMA ReuseBackupKeeps ==
  ASSUME IInv, ReuseBackup
  PROVE  IInv'
  <1>1. TypeOK'
    BY DEF IInv, TypeOK, Labels, ReuseBackup, At, Goto, children, remote, Checked,
           attempt
  <1>2. ErrorInv'
    BY DEF IInv, ErrorInv, ReuseBackup, At, Goto, Checked, attempt
  <1>3. SourceInv'
    BY DEF IInv, SourceInv, Copying, Streaming, ReuseBackup, At, Goto, remote, Checked,
           attempt
  <1>4. ChildInv'
    BY DEF IInv, ChildInv, Streaming, ReuseBackup, At, Goto, children, Checked, attempt
  <1>5. BaseInv'
    BY DEF IInv, BaseInv, BackupHoldsTheImport, Importing, Copying, Streaming, TypeOK,
           ReuseBackup, At, Goto, children, remote, Checked, attempt
  <1>6. LeftInv'
    BY DEF IInv, LeftInv, Streaming, ReuseBackup, At, Goto, children, remote, Checked,
           attempt
  <1>7. CulpritIsNamed'
    BY DEF IInv, CulpritIsNamed, ReuseBackup, At, Goto, children, Checked, attempt
  <1> QED
    BY <1>1, <1>2, <1>3, <1>4, <1>5, <1>6, <1>7 DEF IInv

LEMMA DeleteOldRoleKeeps ==
  ASSUME IInv, DeleteOldRole
  PROVE  IInv'
  <1>1. TypeOK'
    BY DEF IInv, TypeOK, Labels, DeleteOldRole, At, Goto, children, Checked, attempt
  <1>2. ErrorInv'
    BY DEF IInv, ErrorInv, DeleteOldRole, At, Goto, Checked, attempt
  <1>3. SourceInv'
    BY DEF IInv, SourceInv, Copying, Streaming, DeleteOldRole, At, Goto, Checked,
           attempt
  <1>4. ChildInv'
    BY DEF IInv, ChildInv, Streaming, DeleteOldRole, At, Goto, children, Checked,
           attempt
  <1>5. BaseInv'
    BY DEF IInv, BaseInv, BackupHoldsTheImport, Importing, Streaming, DeleteOldRole, At, Goto,
           children, Checked, attempt
  <1>6. LeftInv'
    BY DEF IInv, LeftInv, Streaming, DeleteOldRole, At, Goto, children, Checked, attempt
  <1>7. CulpritIsNamed'
    BY DEF IInv, CulpritIsNamed, DeleteOldRole, At, Goto, children, Checked, attempt
  <1> QED
    BY <1>1, <1>2, <1>3, <1>4, <1>5, <1>6, <1>7 DEF IInv

LEMMA CreateRoleKeeps ==
  ASSUME IInv, CreateRole
  PROVE  IInv'
  <1>1. TypeOK'
    BY DEF IInv, TypeOK, Labels, Errors, CreateRole, At, Fails, Goto, children, Checked,
           Unwound, attempt
  <1>2. ErrorInv'
    BY DEF IInv, ErrorInv, CreateRole, At, Fails, Goto, Checked, Unwound, attempt
  <1>3. SourceInv'
    BY DEF IInv, SourceInv, Copying, Streaming, CreateRole, At, Fails, Goto, Checked,
           Unwound, attempt
  <1>4. ChildInv'
    BY DEF IInv, ChildInv, Streaming, CreateRole, At, Fails, Goto, children, Checked,
           Unwound, attempt
  <1>5. BaseInv'
    BY DEF IInv, BaseInv, BackupHoldsTheImport, Importing, Streaming, CreateRole, At, Fails,
           Goto, children, Checked, Unwound, attempt
  <1>6. LeftInv'
    BY DEF IInv, LeftInv, Streaming, CreateRole, At, Fails, Goto, children, Checked,
           Unwound, attempt
  <1>7. CulpritIsNamed'
    BY DEF IInv, CulpritIsNamed, CreateRole, At, Fails, Goto, children, Checked,
           Unwound, attempt
  <1> QED
    BY <1>1, <1>2, <1>3, <1>4, <1>5, <1>6, <1>7 DEF IInv

LEMMA DropRoleKeeps ==
  ASSUME IInv, DropRole
  PROVE  IInv'
  <1>1. TypeOK'
    BY DEF IInv, TypeOK, Labels, Errors, Cleanups, DropRole, At, Finished, children,
           Checked, Interruptions
  <1>2. ErrorInv'
    BY DEF IInv, ErrorInv, DropRole, At, Finished, Checked, Interruptions
  <1>3. SourceInv'
    BY DEF IInv, SourceInv, Cleanups, Copying, Streaming, DropRole, At, Finished,
           Checked, Interruptions
  <1>4. ChildInv'
    BY DEF IInv, ChildInv, Streaming, DropRole, At, Finished, children, Checked,
           Interruptions
  <1>5. BaseInv'
    BY DEF IInv, BaseInv, BackupHoldsTheImport, Importing, Streaming, DropRole, At, Finished,
           children, Checked, Interruptions
  <1>6. LeftInv'
    BY DEF IInv, LeftInv, Cleanups, DropRole, At, Finished, children, Checked,
           Interruptions
  <1>7. CulpritIsNamed'
    BY DEF IInv, CulpritIsNamed, DropRole, At, Finished, children, Checked,
           Interruptions
  <1> QED
    BY <1>1, <1>2, <1>3, <1>4, <1>5, <1>6, <1>7 DEF IInv

LEMMA CreateBackupKeeps ==
  ASSUME IInv, CreateBackup
  PROVE  IInv'
  <1>1. TypeOK'
    BY DEF IInv, TypeOK, Labels, Errors, CreateBackup, At, Fails, Goto, children,
           Checked, Unwound, attempt
  <1>2. ErrorInv'
    BY DEF IInv, ErrorInv, CreateBackup, At, Fails, Goto, Checked, Unwound, attempt
  <1>3. SourceInv'
    BY DEF IInv, SourceInv, Copying, Streaming, CreateBackup, At, Fails, Goto, Checked,
           Unwound, attempt
  <1>4. ChildInv'
    BY DEF IInv, ChildInv, Streaming, CreateBackup, At, Fails, Goto, children, Checked,
           Unwound, attempt
  <1>5. BaseInv'
    BY DEF IInv, BaseInv, BackupHoldsTheImport, Importing, Copying, Streaming, ErrorInv,
           CreateBackup, At, Fails, Goto, children, Checked, Unwound, attempt
  <1>6. LeftInv'
    BY DEF IInv, LeftInv, Streaming, CreateBackup, At, Fails, Goto, children, Checked,
           Unwound, attempt
  <1>7. CulpritIsNamed'
    BY DEF IInv, CulpritIsNamed, CreateBackup, At, Fails, Goto, children, Checked,
           Unwound, attempt
  <1> QED
    BY <1>1, <1>2, <1>3, <1>4, <1>5, <1>6, <1>7 DEF IInv

LEMMA BackupProceedsKeeps ==
  ASSUME IInv, BackupProceeds
  PROVE  IInv'
  <1>1. TypeOK'
    BY DEF IInv, TypeOK, BackupProceeds, attempt, children
  <1>2. ErrorInv'
    BY DEF IInv, ErrorInv, BackupProceeds, attempt
  <1>3. SourceInv'
    BY DEF IInv, SourceInv, BackupProceeds, attempt
  <1>4. ChildInv'
    BY DEF IInv, ChildInv, BackupProceeds, attempt, children
  <1>5. BaseInv'
    BY DEF IInv, BaseInv, BackupHoldsTheImport, BackupProceeds, attempt, children
  <1>6. LeftInv'
    BY DEF IInv, LeftInv, BackupProceeds, attempt, children
  <1>7. CulpritIsNamed'
    BY DEF IInv, CulpritIsNamed, BackupProceeds, attempt, children
  <1> QED
    BY <1>1, <1>2, <1>3, <1>4, <1>5, <1>6, <1>7 DEF IInv

LEMMA AwaitBackupKeeps ==
  ASSUME IInv, AwaitBackup
  PROVE  IInv'
  <1>1. TypeOK'
    BY DEF IInv, TypeOK, Labels, Errors, AwaitBackup, At, Fails, Goto, children, remote,
           Checked, Unwound, attempt
  <1>2. ErrorInv'
    BY DEF IInv, ErrorInv, AwaitBackup, At, Fails, Goto, Checked, Unwound, attempt
  <1>3. SourceInv'
    BY DEF IInv, SourceInv, Copying, Streaming, AwaitBackup, At, Fails, Goto, remote,
           Checked, Unwound, attempt
  <1>4. ChildInv'
    BY DEF IInv, ChildInv, Streaming, AwaitBackup, At, Fails, Goto, children, Checked,
           Unwound, attempt
  <1>5. BaseInv'
    BY DEF IInv, BaseInv, BackupHoldsTheImport, Importing, Copying, Streaming, AwaitBackup,
           At, Fails, Goto, children, remote, Checked, Unwound, attempt
  <1>6. LeftInv'
    BY DEF IInv, LeftInv, Streaming, AwaitBackup, At, Fails, Goto, children, remote,
           Checked, Unwound, attempt
  <1>7. CulpritIsNamed'
    BY DEF IInv, CulpritIsNamed, AwaitBackup, At, Fails, Goto, children, Checked,
           Unwound, attempt
  <1> QED
    BY <1>1, <1>2, <1>3, <1>4, <1>5, <1>6, <1>7 DEF IInv

LEMMA ProbeKeeps ==
  ASSUME IInv, Probe
  PROVE  IInv'
  <1>1. TypeOK'
    <2>1. container' \in BOOLEAN /\ wasRunning' \in BOOLEAN
      BY DEF IInv, TypeOK, Probe, At, Fails, children, remote, Checked, Unwound
    <2> QED
      BY <2>1 DEF IInv, TypeOK, Labels, Errors, Cleanups, Probe, At, Fails, children,
             remote, Checked, Unwound
  <1>2. ErrorInv'
    BY DEF IInv, ErrorInv, Probe, At, Fails, Checked, Unwound
  <1>3. SourceInv'
    BY DEF IInv, SourceInv, Copying, Streaming, TypeOK, Probe, At, Fails, remote,
           Checked, Unwound
  <1>4. ChildInv'
    BY DEF IInv, ChildInv, Streaming, Probe, At, Fails, children, Checked, Unwound
  <1>5. BaseInv'
    BY DEF IInv, BaseInv, BackupHoldsTheImport, Importing, Streaming, Probe, At, Fails,
           children, remote, Checked, Unwound
  <1>6. LeftInv'
    BY DEF IInv, LeftInv, Streaming, Probe, At, Fails, children, remote, Checked,
           Unwound
  <1>7. CulpritIsNamed'
    BY DEF IInv, CulpritIsNamed, Probe, At, Fails, children, Checked, Unwound
  <1> QED
    BY <1>1, <1>2, <1>3, <1>4, <1>5, <1>6, <1>7 DEF IInv

LEMMA UpKeeps ==
  ASSUME IInv, Up
  PROVE  IInv'
  <1>1. TypeOK'
    BY DEF IInv, TypeOK, Labels, Up, At, Goto, children, remote, Checked, attempt
  <1>2. ErrorInv'
    BY DEF IInv, ErrorInv, Up, At, Goto, Checked, attempt
  <1>3. SourceInv'
    BY DEF IInv, SourceInv, Up, At, Goto, remote, Checked, attempt
  <1>4. ChildInv'
    BY DEF IInv, ChildInv, Streaming, Up, At, Goto, children, Checked, attempt
  <1>5. BaseInv'
    BY DEF IInv, BaseInv, BackupHoldsTheImport, Importing, Streaming, Up, At, Goto, children,
           remote, Checked, attempt
  <1>6. LeftInv'
    BY DEF IInv, LeftInv, Streaming, Up, At, Goto, children, remote, Checked, attempt
  <1>7. CulpritIsNamed'
    BY DEF IInv, CulpritIsNamed, Up, At, Goto, children, Checked, attempt
  <1> QED
    BY <1>1, <1>2, <1>3, <1>4, <1>5, <1>6, <1>7 DEF IInv

LEMMA UpFailsKeeps ==
  ASSUME IInv, UpFails
  PROVE  IInv'
  <1>1. TypeOK'
    BY DEF IInv, TypeOK, Labels, Errors, Cleanups, UpFails, At, Fails, Finished,
           children, remote, Checked, Unwound, Interruptions
  <1>2. ErrorInv'
    BY DEF IInv, ErrorInv, UpFails, At, Fails, Finished, Checked, Unwound, Interruptions
  <1>3. SourceInv'
    BY DEF IInv, SourceInv, Cleanups, Copying, Streaming, UpFails, At, Fails, Finished,
           remote, Checked, Unwound, Interruptions
  <1>4. ChildInv'
    BY DEF IInv, ChildInv, Streaming, UpFails, At, Fails, Finished, children, Checked,
           Unwound, Interruptions
  <1>5. BaseInv'
    BY DEF IInv, BaseInv, BackupHoldsTheImport, Importing, Streaming, UpFails, At, Fails,
           Finished, children, remote, Checked, Unwound, Interruptions
  <1>6. LeftInv'
    BY DEF IInv, LeftInv, Streaming, UpFails, At, Fails, Finished, children, remote,
           Checked, Unwound, Interruptions
  <1>7. CulpritIsNamed'
    BY DEF IInv, CulpritIsNamed, UpFails, At, Fails, Finished, children, Checked,
           Unwound, Interruptions
  <1> QED
    BY <1>1, <1>2, <1>3, <1>4, <1>5, <1>6, <1>7 DEF IInv

LEMMA AwaitReadyKeeps ==
  ASSUME IInv, AwaitReady
  PROVE  IInv'
  <1>1. TypeOK'
    BY DEF IInv, TypeOK, Labels, Errors, AwaitReady, At, Fails, Goto, children, remote,
           Checked, Unwound, attempt
  <1>2. ErrorInv'
    BY DEF IInv, ErrorInv, AwaitReady, At, Fails, Goto, Checked, Unwound, attempt
  <1>3. SourceInv'
    BY DEF IInv, SourceInv, Copying, TypeOK, AwaitReady, At, Fails, Goto, remote,
           Checked, Unwound, attempt
  <1>4. ChildInv'
    BY DEF IInv, ChildInv, Streaming, AwaitReady, At, Fails, Goto, children, Checked,
           Unwound, attempt
  <1>5. BaseInv'
    BY DEF IInv, BaseInv, BackupHoldsTheImport, Importing, Copying, Streaming, AwaitReady, At,
           Fails, Goto, children, remote, Checked, Unwound, attempt
  <1>6. LeftInv'
    BY DEF IInv, LeftInv, Streaming, AwaitReady, At, Fails, Goto, children, remote,
           Checked, Unwound, attempt
  <1>7. CulpritIsNamed'
    BY DEF IInv, CulpritIsNamed, AwaitReady, At, Fails, Goto, children, Checked,
           Unwound, attempt
  <1> QED
    BY <1>1, <1>2, <1>3, <1>4, <1>5, <1>6, <1>7 DEF IInv

LEMMA ReplayExtensionsKeeps ==
  ASSUME IInv, ReplayExtensions
  PROVE  IInv'
  <1>1. TypeOK'
    BY DEF IInv, TypeOK, Labels, Errors, ReplayExtensions, At, Fails, Goto, children,
           remote, Checked, Unwound, attempt
  <1>2. ErrorInv'
    BY DEF IInv, ErrorInv, ReplayExtensions, At, Fails, Goto, Checked, Unwound, attempt
  <1>3. SourceInv'
    BY DEF IInv, SourceInv, Copying, TypeOK, ReplayExtensions, At, Fails, Goto, remote,
           Checked, Unwound, attempt
  <1>4. ChildInv'
    BY DEF IInv, ChildInv, Streaming, ReplayExtensions, At, Fails, Goto, children,
           Checked, Unwound, attempt
  <1>5. BaseInv'
    BY DEF IInv, BaseInv, BackupHoldsTheImport, Importing, Copying, Streaming,
           ReplayExtensions, At, Fails, Goto, children, remote, Checked, Unwound, attempt
  <1>6. LeftInv'
    BY DEF IInv, LeftInv, Streaming, ReplayExtensions, At, Fails, Goto, children,
           remote, Checked, Unwound, attempt
  <1>7. CulpritIsNamed'
    BY DEF IInv, CulpritIsNamed, ReplayExtensions, At, Fails, Goto, children, Checked,
           Unwound, attempt
  <1> QED
    BY <1>1, <1>2, <1>3, <1>4, <1>5, <1>6, <1>7 DEF IInv

LEMMA StopSourceKeeps ==
  ASSUME IInv, StopSource
  PROVE  IInv'
  <1>1. TypeOK'
    BY DEF IInv, TypeOK, Labels, Errors, Cleanups, StopSource, At, Finished, children,
           remote, Checked, Interruptions
  <1>2. ErrorInv'
    BY DEF IInv, ErrorInv, StopSource, At, Finished, Checked, Interruptions
  <1>3. SourceInv'
    BY DEF IInv, SourceInv, Cleanups, Copying, Streaming, StopSource, At, Finished,
           remote, Checked, Interruptions
  <1>4. ChildInv'
    BY DEF IInv, ChildInv, Streaming, StopSource, At, Finished, children, Checked,
           Interruptions
  <1>5. BaseInv'
    BY DEF IInv, BaseInv, BackupHoldsTheImport, Importing, Streaming, StopSource, At,
           Finished, children, remote, Checked, Interruptions
  <1>6. LeftInv'
    BY DEF IInv, LeftInv, Cleanups, StopSource, At, Finished, children, remote, Checked,
           Interruptions
  <1>7. CulpritIsNamed'
    BY DEF IInv, CulpritIsNamed, StopSource, At, Finished, children, Checked,
           Interruptions
  <1> QED
    BY <1>1, <1>2, <1>3, <1>4, <1>5, <1>6, <1>7 DEF IInv

-----------------------------------------------------------------------------
(* The copy: pg_dump, psql and the stream between them.                    *)

LEMMA SpawnKeeps ==
  ASSUME IInv, Spawn
  PROVE  IInv'
  <1>1. TypeOK'
    BY DEF IInv, TypeOK, Contents, Labels, Errors, Spawn, At, Fails, Goto, children, Checked,
           Unwound, attempt
  <1>2. ErrorInv'
    BY DEF IInv, ErrorInv, Spawn, At, Fails, Goto, Checked, Unwound, attempt
  <1>3. SourceInv'
    BY DEF IInv, SourceInv, Copying, TypeOK, Spawn, At, Fails, Goto, Checked, Unwound,
           attempt
  <1>4. ChildInv'
    BY DEF IInv, ChildInv, Streaming, Spawn, At, Fails, Goto, children, Checked,
           Unwound, attempt
  <1>5. BaseInv'
    BY DEF IInv, BaseInv, BackupHoldsTheImport, Importing, Copying, Streaming, Spawn, At,
           Fails, Goto, children, Checked, Unwound, attempt
  <1>6. LeftInv'
    BY DEF IInv, LeftInv, Streaming, Spawn, At, Fails, Goto, children, Checked, Unwound,
           attempt
  <1>7. CulpritIsNamed'
    BY DEF IInv, CulpritIsNamed, Spawn, At, Fails, Goto, children, Checked, Unwound,
           attempt
  <1> QED
    BY <1>1, <1>2, <1>3, <1>4, <1>5, <1>6, <1>7 DEF IInv

LEMMA DumpExitsKeeps ==
  ASSUME IInv, DumpExits
  PROVE  IInv'
  <1>1. TypeOK'
    BY DEF IInv, TypeOK, DumpExits, attempt, remote
  <1>2. ErrorInv'
    BY DEF IInv, ErrorInv, DumpExits, attempt
  <1>3. SourceInv'
    BY DEF IInv, SourceInv, DumpExits, attempt, remote
  <1>4. ChildInv'
    BY DEF IInv, ChildInv, DumpExits, attempt
  <1>5. BaseInv'
    BY DEF IInv, BaseInv, BackupHoldsTheImport, ChildInv, DumpExits, attempt, remote
  <1>6. LeftInv'
    BY DEF IInv, LeftInv, DumpExits, attempt, remote
  <1>7. CulpritIsNamed'
    BY DEF IInv, CulpritIsNamed, DumpExits, attempt
  <1> QED
    BY <1>1, <1>2, <1>3, <1>4, <1>5, <1>6, <1>7 DEF IInv

LEMMA RestoreExitsKeeps ==
  ASSUME IInv, RestoreExits
  PROVE  IInv'
  <1>1. TypeOK'
    <2>1. container' \in BOOLEAN /\ wasRunning' \in BOOLEAN
      BY DEF IInv, TypeOK, RestoreExits, Fed, CutOff, attempt
    <2> QED
      BY <2>1
         DEF IInv, TypeOK, Contents, Labels, Errors, Cleanups, RestoreExits, Fed, CutOff,
             attempt
  <1>2. ErrorInv'
    BY DEF IInv, ErrorInv, RestoreExits, Fed, CutOff, attempt
  <1>3. SourceInv'
    BY DEF IInv, SourceInv, RestoreExits, Fed, CutOff, attempt
  <1>4. ChildInv'
    BY DEF IInv, ChildInv, RestoreExits, Fed, CutOff, attempt
  <1>5. BaseInv'
    BY DEF IInv, BaseInv, BackupHoldsTheImport, Importing, Copying, Streaming, ChildInv,
           RestoreExits, Fed, CutOff, attempt
  <1>6. LeftInv'
    BY DEF IInv, LeftInv, RestoreExits, Fed, CutOff, attempt
  <1>7. CulpritIsNamed'
    BY DEF IInv, CulpritIsNamed, RestoreExits, Fed, CutOff, attempt
  <1> QED
    BY <1>1, <1>2, <1>3, <1>4, <1>5, <1>6, <1>7 DEF IInv

LEMMA TransferEndsKeeps ==
  ASSUME IInv, TransferEnds
  PROVE  IInv'
  <1>1. TypeOK'
    BY DEF IInv, TypeOK, TransferEnds, attempt, remote
  <1>2. ErrorInv'
    BY DEF IInv, ErrorInv, TransferEnds, attempt
  <1>3. SourceInv'
    BY DEF IInv, SourceInv, TransferEnds, attempt, remote
  <1>4. ChildInv'
    BY DEF IInv, ChildInv, Streaming, TypeOK, TransferEnds, attempt
  <1>5. BaseInv'
    BY DEF IInv, BaseInv, BackupHoldsTheImport, TransferEnds, attempt, remote
  <1>6. LeftInv'
    BY DEF IInv, LeftInv, TransferEnds, attempt, remote
  <1>7. CulpritIsNamed'
    BY DEF IInv, CulpritIsNamed, TransferEnds, attempt
  <1> QED
    BY <1>1, <1>2, <1>3, <1>4, <1>5, <1>6, <1>7 DEF IInv

LEMMA RaceCancelledKeeps ==
  ASSUME IInv, RaceCancelled
  PROVE  IInv'
  <1>1. TypeOK'
    <2>1. container' \in BOOLEAN /\ wasRunning' \in BOOLEAN
      BY DEF IInv, TypeOK, RaceCancelled, Fails, remote, Unwound
    <2> QED
      BY <2>1 DEF IInv, TypeOK, Labels, Errors, Cleanups, RaceCancelled, Fails, remote,
             Unwound
  <1>2. ErrorInv'
    BY DEF IInv, ErrorInv, RaceCancelled, Fails, Unwound
  <1>3. SourceInv'
    BY DEF IInv, SourceInv, Copying, Streaming, TypeOK, RaceCancelled, Fails, remote,
           Unwound
  <1>4. ChildInv'
    BY DEF IInv, ChildInv, Streaming, RaceCancelled, Fails, Unwound
  <1>5. BaseInv'
    BY DEF IInv, BaseInv, BackupHoldsTheImport, Importing, Copying, Streaming, RaceCancelled,
           Fails, remote, Unwound
  <1>6. LeftInv'
    BY DEF IInv, LeftInv, Cleanups, TypeOK, ChildInv, RaceCancelled, Fails, remote,
           Unwound
  <1>7. CulpritIsNamed'
    BY DEF IInv, CulpritIsNamed, RaceCancelled, Fails, Unwound
  <1> QED
    BY <1>1, <1>2, <1>3, <1>4, <1>5, <1>6, <1>7 DEF IInv

LEMMA RaceTransferKeeps ==
  ASSUME IInv, RaceTransfer
  PROVE  IInv'
  <1>1. TypeOK'
    BY DEF IInv, TypeOK, Labels, RaceTransfer, Goto, children, remote, attempt
  <1>2. ErrorInv'
    BY DEF IInv, ErrorInv, RaceTransfer, Goto, attempt
  <1>3. SourceInv'
    BY DEF IInv, SourceInv, Copying, Streaming, RaceTransfer, Goto, remote, attempt
  <1>4. ChildInv'
    BY DEF IInv, ChildInv, Streaming, TypeOK, RaceTransfer, Goto, children, attempt
  <1>5. BaseInv'
    BY DEF IInv, BaseInv, BackupHoldsTheImport, Importing, Copying, Streaming, RaceTransfer,
           Goto, children, remote, attempt
  <1>6. LeftInv'
    BY DEF IInv, LeftInv, Streaming, RaceTransfer, Goto, children, remote, attempt
  <1>7. CulpritIsNamed'
    BY DEF IInv, CulpritIsNamed, RaceTransfer, Goto, children, attempt
  <1> QED
    BY <1>1, <1>2, <1>3, <1>4, <1>5, <1>6, <1>7 DEF IInv

LEMMA RaceRestoreKeeps ==
  ASSUME IInv, RaceRestore
  PROVE  IInv'
  <1>1. TypeOK'
    BY DEF IInv, TypeOK, Labels, Errors, RaceRestore, Fails, remote, Unwound
  <1>2. ErrorInv'
    BY DEF IInv, ErrorInv, RaceRestore, Fails, Unwound
  <1>3. SourceInv'
    BY DEF IInv, SourceInv, Copying, Streaming, TypeOK, RaceRestore, Fails, remote,
           Unwound
  <1>4. ChildInv'
    BY DEF IInv, ChildInv, Streaming, RaceRestore, Fails, Unwound
  <1>5. BaseInv'
    BY DEF IInv, BaseInv, BackupHoldsTheImport, Importing, Copying, Streaming, RaceRestore,
           Fails, remote, Unwound
  <1>6. LeftInv'
    BY DEF IInv, LeftInv, TypeOK, ChildInv, RaceRestore, Fails, remote, Unwound
  <1>7. CulpritIsNamed'
    BY DEF IInv, CulpritIsNamed, RaceRestore, Fails, Unwound
  <1> QED
    BY <1>1, <1>2, <1>3, <1>4, <1>5, <1>6, <1>7 DEF IInv

LEMMA FailedTransferKeeps ==
  ASSUME IInv, FailedTransfer
  PROVE  IInv'
  <1>1. TypeOK'
    BY DEF IInv, TypeOK, Labels, FailedTransfer, Goto, remote, attempt
  <1>2. ErrorInv'
    BY DEF IInv, ErrorInv, FailedTransfer, Goto, attempt
  <1>3. SourceInv'
    BY DEF IInv, SourceInv, Copying, Streaming, FailedTransfer, Goto, remote, attempt
  <1>4. ChildInv'
    BY DEF IInv, ChildInv, Streaming, FailedTransfer, Goto, attempt
  <1>5. BaseInv'
    BY DEF IInv, BaseInv, BackupHoldsTheImport, Importing, Copying, Streaming, FailedTransfer,
           Goto, remote, attempt
  <1>6. LeftInv'
    BY DEF IInv, LeftInv, Streaming, FailedTransfer, Goto, remote, attempt
  <1>7. CulpritIsNamed'
    BY DEF IInv, CulpritIsNamed, FailedTransfer, Goto, attempt
  <1> QED
    BY <1>1, <1>2, <1>3, <1>4, <1>5, <1>6, <1>7 DEF IInv

LEMMA JoinKeeps ==
  ASSUME IInv, Join
  PROVE  IInv'
  <1>1. TypeOK'
    BY DEF IInv, TypeOK, Labels, Errors, Join, Classify, children, remote, Completed,
           Fails, Goto, Unwound, attempt
  <1>2. ErrorInv'
    BY DEF IInv, ErrorInv, Join, Classify, Completed, Fails, Goto, Unwound, attempt
  <1>3. SourceInv'
    BY DEF IInv, SourceInv, Copying, Streaming, TypeOK, Join, Classify, remote,
           Completed, Fails, Goto, Unwound, attempt
  <1>4. ChildInv'
    BY DEF IInv, ChildInv, Streaming, Join, Classify, children, Completed, Fails, Goto,
           Unwound, attempt
  <1>5. BaseInv'
    BY DEF IInv, BaseInv, BackupHoldsTheImport, Importing, Copying, Streaming, ChildInv, Join,
           Classify, children, remote, Completed, Fails, Goto, Unwound, attempt
  <1>6. LeftInv'
    BY DEF IInv, LeftInv, TypeOK, ChildInv, Join, Classify, children, remote, Completed,
           Fails, Goto, Unwound, attempt
  <1>7. CulpritIsNamed'
    BY DEF IInv, CulpritIsNamed, TypeOK, ErrorInv, ChildInv, Streaming, Join, Classify,
           children, Completed, Fails, Goto, Unwound, attempt
  <1> QED
    BY <1>1, <1>2, <1>3, <1>4, <1>5, <1>6, <1>7 DEF IInv

LEMMA RestoreEndsInGraceKeeps ==
  ASSUME IInv, RestoreEndsInGrace
  PROVE  IInv'
  <1>1. TypeOK'
    BY DEF IInv, TypeOK, Labels, Errors, RestoreEndsInGrace, Classify, children, remote,
           Completed, Fails, Goto, Unwound, attempt
  <1>2. ErrorInv'
    BY DEF IInv, ErrorInv, RestoreEndsInGrace, Classify, Completed, Fails, Goto,
           Unwound, attempt
  <1>3. SourceInv'
    BY DEF IInv, SourceInv, Copying, Streaming, TypeOK, RestoreEndsInGrace, Classify,
           remote, Completed, Fails, Goto, Unwound, attempt
  <1>4. ChildInv'
    BY DEF IInv, ChildInv, Streaming, RestoreEndsInGrace, Classify, children, Completed,
           Fails, Goto, Unwound, attempt
  <1>5. BaseInv'
    BY DEF IInv, BaseInv, BackupHoldsTheImport, Importing, Copying, Streaming, ChildInv,
           RestoreEndsInGrace, Classify, children, remote, Completed, Fails, Goto, Unwound,
           attempt
  <1>6. LeftInv'
    BY DEF IInv, LeftInv, TypeOK, ChildInv, RestoreEndsInGrace, Classify, children,
           remote, Completed, Fails, Goto, Unwound, attempt
  <1>7. CulpritIsNamed'
    BY DEF IInv, CulpritIsNamed, TypeOK, ErrorInv, ChildInv, Streaming, RestoreEndsInGrace,
           Classify, children, Completed, Fails, Goto, Unwound, attempt
  <1> QED
    BY <1>1, <1>2, <1>3, <1>4, <1>5, <1>6, <1>7 DEF IInv

LEMMA GraceExpiresKeeps ==
  ASSUME IInv, GraceExpires
  PROVE  IInv'
  <1>1. TypeOK'
    <2>1. container' \in BOOLEAN /\ wasRunning' \in BOOLEAN
      BY DEF IInv, TypeOK, GraceExpires, Fails, remote, Unwound
    <2> QED
      BY <2>1 DEF IInv, TypeOK, Labels, Errors, Cleanups, GraceExpires, Fails, remote,
             Unwound
  <1>2. ErrorInv'
    BY DEF IInv, ErrorInv, GraceExpires, Fails, Unwound
  <1>3. SourceInv'
    BY DEF IInv, SourceInv, Copying, Streaming, TypeOK, GraceExpires, Fails, remote,
           Unwound
  <1>4. ChildInv'
    BY DEF IInv, ChildInv, Streaming, GraceExpires, Fails, Unwound
  <1>5. BaseInv'
    BY DEF IInv, BaseInv, BackupHoldsTheImport, Importing, Copying, Streaming, GraceExpires,
           Fails, remote, Unwound
  <1>6. LeftInv'
    BY DEF IInv, LeftInv, GraceExpires, Fails, remote, Unwound
  <1>7. CulpritIsNamed'
    BY DEF IInv, CulpritIsNamed, GraceExpires, Fails, Unwound
  <1> QED
    BY <1>1, <1>2, <1>3, <1>4, <1>5, <1>6, <1>7 DEF IInv

-----------------------------------------------------------------------------
(* The report, the timeout and the crash.                                  *)

LEMMA DoneKeeps ==
  ASSUME IInv, Done
  PROVE  IInv'
  <1>1. TypeOK'
    BY DEF IInv, TypeOK, Labels, Done, At, Goto, children, remote, Checked, attempt
  <1>2. ErrorInv'
    BY DEF IInv, ErrorInv, Done, At, Goto, Checked, attempt
  <1>3. SourceInv'
    BY DEF IInv, SourceInv, Copying, Streaming, Done, At, Goto, remote, Checked, attempt
  <1>4. ChildInv'
    BY DEF IInv, ChildInv, Streaming, Done, At, Goto, children, Checked, attempt
  <1>5. BaseInv'
    BY DEF IInv, BaseInv, BackupHoldsTheImport, Importing, Copying, Streaming, Done, At, Goto,
           children, remote, Checked, attempt
  <1>6. LeftInv'
    BY DEF IInv, LeftInv, Streaming, Done, At, Goto, children, remote, Checked, attempt
  <1>7. CulpritIsNamed'
    BY DEF IInv, CulpritIsNamed, Done, At, Goto, children, Checked, attempt
  <1> QED
    BY <1>1, <1>2, <1>3, <1>4, <1>5, <1>6, <1>7 DEF IInv

LEMMA ProvisionKeeps ==
  ASSUME IInv, Provision
  PROVE  IInv'
  <1>1. TypeOK'
    BY DEF IInv, TypeOK, Labels, Errors, Provision, children, remote
  <1>2. ErrorInv'
    BY DEF IInv, ErrorInv, Provision
  <1>3. SourceInv'
    BY DEF IInv, SourceInv, Copying, Streaming, Provision, remote
  <1>4. ChildInv'
    BY DEF IInv, ChildInv, Streaming, Provision, children
  <1>5. BaseInv'
    BY DEF IInv, BaseInv, BackupHoldsTheImport, Importing, Copying, Streaming, Provision,
           children, remote
  <1>6. LeftInv'
    BY DEF IInv, LeftInv, Streaming, Provision, children, remote
  <1>7. CulpritIsNamed'
    BY DEF IInv, CulpritIsNamed, Provision, children
  <1> QED
    BY <1>1, <1>2, <1>3, <1>4, <1>5, <1>6, <1>7 DEF IInv

LEMMA ReportKeeps ==
  ASSUME IInv, Report
  PROVE  IInv'
  <1>1. TypeOK'
    BY DEF IInv, TypeOK, Labels, Errors, Report, AfterSignal, Ensured, attempt,
           children, remote, Interruptions
  <1>2. ErrorInv'
    BY DEF IInv, ErrorInv, Report, AfterSignal, Ensured, attempt, Interruptions
  <1>3. SourceInv'
    BY DEF IInv, SourceInv, Copying, Streaming, Report, AfterSignal, Ensured, attempt,
           remote, Interruptions
  <1>4. ChildInv'
    BY DEF IInv, ChildInv, Streaming, Report, AfterSignal, Ensured, attempt, children,
           Interruptions
  <1>5. BaseInv'
    BY DEF IInv, BaseInv, BackupHoldsTheImport, Importing, Copying, Streaming, Report,
           AfterSignal, Ensured, attempt, children, remote, Interruptions
  <1>6. LeftInv'
    BY DEF IInv, LeftInv, Report, AfterSignal, Ensured, attempt, children, remote,
           Interruptions
  <1>7. CulpritIsNamed'
    BY DEF IInv, CulpritIsNamed, Report, AfterSignal, Ensured, attempt, children,
           Interruptions
  <1> QED
    BY <1>1, <1>2, <1>3, <1>4, <1>5, <1>6, <1>7 DEF IInv

LEMMA TimesOutKeeps ==
  ASSUME IInv, TimesOut
  PROVE  IInv'
  <1>1. TypeOK'
    <2>1. container' \in BOOLEAN /\ wasRunning' \in BOOLEAN
      BY DEF IInv, TypeOK, TimesOut, Gone, attempt, remote
    <2> QED
      BY <2>1 DEF IInv, TypeOK, Labels, Errors, Cleanups, TimesOut, Gone, attempt,
             remote
  <1>2. ErrorInv'
    BY DEF IInv, ErrorInv, TimesOut, Gone, attempt
  <1>3. SourceInv'
    BY DEF IInv, SourceInv, Copying, Streaming, TimesOut, Gone, attempt, remote
  <1>4. ChildInv'
    BY DEF IInv, ChildInv, Streaming, TimesOut, Gone, attempt
  <1>5. BaseInv'
    BY DEF IInv, BaseInv, BackupHoldsTheImport, Importing, Copying, Streaming, TimesOut, Gone,
           attempt, remote
  <1>6. LeftInv'
    BY DEF IInv, LeftInv, TypeOK, ErrorInv, Errors, TimesOut, Gone, attempt, remote
  <1>7. CulpritIsNamed'
    BY DEF IInv, CulpritIsNamed, TimesOut, Gone, attempt
  <1> QED
    BY <1>1, <1>2, <1>3, <1>4, <1>5, <1>6, <1>7 DEF IInv

LEMMA CrashKeeps ==
  ASSUME IInv, Crash
  PROVE  IInv'
  <1>1. TypeOK'
    <2>1. container' \in BOOLEAN /\ wasRunning' \in BOOLEAN
      BY DEF IInv, TypeOK, Crash, Gone, attempt, remote
    <2> QED
      BY <2>1 DEF IInv, TypeOK, Labels, Errors, Cleanups, Crash, Gone, attempt, remote
  <1>2. ErrorInv'
    BY DEF IInv, ErrorInv, Crash, Gone, attempt
  <1>3. SourceInv'
    BY DEF IInv, SourceInv, Copying, Streaming, Crash, Gone, attempt, remote
  <1>4. ChildInv'
    BY DEF IInv, ChildInv, Streaming, Crash, Gone, attempt
  <1>5. BaseInv'
    BY DEF IInv, BaseInv, BackupHoldsTheImport, Importing, Copying, Streaming, Crash, Gone,
           attempt, remote
  <1>6. LeftInv'
    BY DEF IInv, LeftInv, TypeOK, ErrorInv, Errors, Crash, Gone, attempt, remote
  <1>7. CulpritIsNamed'
    BY DEF IInv, CulpritIsNamed, Crash, Gone, attempt
  <1> QED
    BY <1>1, <1>2, <1>3, <1>4, <1>5, <1>6, <1>7 DEF IInv

-----------------------------------------------------------------------------
LEMMA StreamKeeps ==
  ASSUME IInv, StreamStep
  PROVE  IInv'
  BY RaceCancelledKeeps, RaceTransferKeeps, RaceRestoreKeeps,
     FailedTransferKeeps, JoinKeeps, RestoreEndsInGraceKeeps, GraceExpiresKeeps DEF StreamStep

LEMMA NextKeeps ==
  ASSUME IInv, [Next]_vars
  PROVE  IInv'
  <1>1. CASE UNCHANGED vars
    BY <1>1, StutterKeeps
  <1>2. CASE Step
    BY <1>2, StreamKeeps, InterruptedKeeps, RequestFailsKeeps, EnsureDatabaseKeeps,
       ReuseBackupKeeps, DeleteOldRoleKeeps, CreateRoleKeeps, DropRoleKeeps,
       CreateBackupKeeps, AwaitBackupKeeps, ProbeKeeps, UpKeeps, UpFailsKeeps,
       AwaitReadyKeeps, ReplayExtensionsKeeps, StopSourceKeeps, SpawnKeeps, DoneKeeps,
       ProvisionKeeps, ReportKeeps
    DEF Step
  <1>3. CASE Begin \/ Signal \/ TransferEnds \/ External \/ TimesOut \/ Crash
    BY <1>3, BeginKeeps, SignalKeeps, TransferEndsKeeps, DumpExitsKeeps, RestoreExitsKeeps,
       BackupProceedsKeeps, TimesOutKeeps, CrashKeeps DEF External
  <1> QED
    BY <1>1, <1>2, <1>3 DEF Next

-----------------------------------------------------------------------------
(* What the invariant says of the properties. *)
LEMMA InvImplies ==
  ASSUME IInv
  PROVE  BackupHoldsTheImport /\ ResidualsAreNamed /\ ChildrenAreReaped /\ CulpritIsNamed
  <1>1. BackupHoldsTheImport
    BY DEF IInv, BaseInv, BackupHoldsTheImport
  <1>2. ResidualsAreNamed
    BY DEF IInv, TypeOK, SourceInv, LeftInv, ResidualsAreNamed, Remains, Cleanups, Streaming,
           Copying
  <1>3. ChildrenAreReaped
    BY DEF IInv, ChildInv, Streaming, ChildrenAreReaped
  <1>4. CulpritIsNamed
    BY DEF IInv
  <1> QED
    BY <1>1, <1>2, <1>3, <1>4

(* At every position of every attempt, after any interruption, timeout or   *)
(* crash of the ones before: what is remembered of the source service, what *)
(* the children and the copy between them have come to, what the branch and *)
(* the backup hold and what remains to be removed fit together.            *)
THEOREM ImportInvariance == Spec => []IInv
  <1>1. Init => IInv
    BY InitIInv
  <1>2. IInv /\ [Next]_vars => IInv'
    BY NextKeeps
  <1> QED
    BY <1>1, <1>2, PTL DEF Spec

(* The remote side, the container, the children, the position and the error *)
(* hold values of their kinds, however many attempts were made.            *)
THEOREM ImportTypeCorrect == Spec => []TypeOK
  <1>1. IInv => TypeOK
    BY DEF IInv
  <1> QED
    BY <1>1, ImportInvariance, PTL

(* A backup under the import's name, which every later create restores from *)
(* without asking, was requested only after both children of an unbroken   *)
(* copy had succeeded, and the branch has not changed since: it holds the  *)
(* whole database, unless psql itself ended before the end of the dump and *)
(* called that a success, however the pipe, the ends of the two children   *)
(* and a signal interleave.                                                *)
THEOREM ImportedBackupSucceeded == Spec => []BackupHoldsTheImport
  BY ImportInvariance, InvImplies, PTL

(* No attempt reports an outcome that hides what it leaves behind: a role, a *)
(* container, or a source service that it started and did not stop.        *)
THEOREM ResidualsAlwaysNamed == Spec => []ResidualsAreNamed
  BY ImportInvariance, InvImplies, PTL

(* Neither pg_dump nor psql outlives the copy: the source is not stopped   *)
(* under a dump, and the role is not dropped under a restore.              *)
THEOREM ChildrenAlwaysReaped == Spec => []ChildrenAreReaped
  BY ImportInvariance, InvImplies, PTL

(* The error names the side that failed by itself: a child that was cut by  *)
(* the failure of the other one is not blamed for it.                      *)
THEOREM CulpritAlwaysNamed == Spec => []CulpritIsNamed
  BY ImportInvariance, InvImplies, PTL
=============================================================================
