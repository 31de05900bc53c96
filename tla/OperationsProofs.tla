--------------------------- MODULE OperationsProofs -------------------------
(***************************************************************************)
(* What ImportCopyProofs proves of the import, for the executions of        *)
(* MCOperations: a step of OperationsSpec is one of the import, or leaves  *)
(* it alone.                                                               *)
(***************************************************************************)
EXTENDS MCOperations, TLAPS

(* The instance of the proofs about the import. *)
Proved == INSTANCE ImportCopyProofs WITH
  base <- i_base, backup <- i_backup, captured <- i_captured, role <- i_role,
  source <- i_source, container <- i_container, dump <- i_dump,
  restore <- i_restore, transfer <- i_transfer, pc <- i_pc,
  wasRunning <- i_wasRunning, error <- i_error, signalled <- i_signalled,
  reported <- i_reported, before <- i_before, attempts <- i_attempts

LEMMA ImportMoves ==
  ASSUME [OperationsNext \/ Rests]_all
  PROVE  Import!Next \/ UNCHANGED import
  BY DEF OperationsNext, Rests, all

(* The two instances have the same definitions. *)
LEMMA SameInit == Import!Init => Proved!Init
  BY DEF Import!Init, Proved!Init

(* And the same steps. *)
LEMMA SameNext == Import!Next => Proved!Next
  BY DEF
     Import!remote, Proved!remote, Import!children, Proved!children, Import!attempt,
     Proved!attempt, Import!vars, Proved!vars, Import!Labels, Proved!Labels,
     Import!Cleanups, Proved!Cleanups, Import!Errors, Proved!Errors, Import!Contents,
     Proved!Contents, Import!Interruptions, Proved!Interruptions, Import!Finished,
     Proved!Finished, Import!Unwound, Proved!Unwound, Import!Goto, Proved!Goto,
     Import!Fails, Proved!Fails, Import!Checked, Proved!Checked, Import!At, Proved!At,
     Import!Interrupted, Proved!Interrupted, Import!Begin, Proved!Begin, Import!Signal,
     Proved!Signal, Import!RequestFails, Proved!RequestFails, Import!EnsureDatabase,
     Proved!EnsureDatabase, Import!ReuseBackup, Proved!ReuseBackup, Import!DeleteOldRole,
     Proved!DeleteOldRole, Import!CreateRole, Proved!CreateRole, Import!DropRole,
     Proved!DropRole, Import!CreateBackup, Proved!CreateBackup, Import!BackupProceeds,
     Proved!BackupProceeds, Import!AwaitBackup, Proved!AwaitBackup, Import!Probe,
     Proved!Probe, Import!Up, Proved!Up, Import!UpFails, Proved!UpFails,
     Import!AwaitReady, Proved!AwaitReady, Import!ReplayExtensions,
     Proved!ReplayExtensions, Import!StopSource, Proved!StopSource, Import!Spawn,
     Proved!Spawn, Import!DumpExits, Proved!DumpExits, Import!Fed, Proved!Fed,
     Import!CutOff, Proved!CutOff, Import!RestoreExits, Proved!RestoreExits,
     Import!TransferEnds, Proved!TransferEnds, Import!RaceCancelled,
     Proved!RaceCancelled, Import!RaceTransfer, Proved!RaceTransfer, Import!RaceRestore,
     Proved!RaceRestore, Import!FailedTransfer, Proved!FailedTransfer, Import!Completed,
     Proved!Completed, Import!Classify, Proved!Classify, Import!Join, Proved!Join,
     Import!RestoreEndsInGrace, Proved!RestoreEndsInGrace, Import!GraceExpires,
     Proved!GraceExpires, Import!Done, Proved!Done, Import!Provision, Proved!Provision,
     Import!Ensured, Proved!Ensured, Import!AfterSignal, Proved!AfterSignal,
     Import!Report, Proved!Report, Import!Gone, Proved!Gone, Import!TimesOut,
     Proved!TimesOut, Import!Crash, Proved!Crash, Import!StreamStep, Proved!StreamStep,
     Import!Step, Proved!Step, Import!External, Proved!External, Import!Next, Proved!Next

(* So have the properties. *)
LEMMA SameProperties ==
  /\ Proved!TypeOK => Import!TypeOK
  /\ Proved!BackupHoldsTheImport => Import!BackupHoldsTheImport
  /\ Proved!ResidualsAreNamed => Import!ResidualsAreNamed
  /\ Proved!ChildrenAreReaped => Import!ChildrenAreReaped
  /\ Proved!CulpritIsNamed => Import!CulpritIsNamed
  <1>1. Proved!TypeOK => Import!TypeOK
    BY DEF Import!TypeOK, Proved!TypeOK, Import!Contents, Proved!Contents, Import!Labels,
           Proved!Labels, Import!Errors, Proved!Errors, Import!Cleanups, Proved!Cleanups
  <1>2. Proved!BackupHoldsTheImport => Import!BackupHoldsTheImport
    BY DEF Import!BackupHoldsTheImport, Proved!BackupHoldsTheImport
  <1>3. Proved!ResidualsAreNamed => Import!ResidualsAreNamed
    BY DEF Import!ResidualsAreNamed, Proved!ResidualsAreNamed, Import!Remains, Proved!Remains,
           Import!Cleanups, Proved!Cleanups
  <1>4. Proved!ChildrenAreReaped => Import!ChildrenAreReaped
    BY DEF Import!ChildrenAreReaped, Proved!ChildrenAreReaped
  <1>5. Proved!CulpritIsNamed => Import!CulpritIsNamed
    BY DEF Import!CulpritIsNamed, Proved!CulpritIsNamed
  <1> QED
    BY <1>1, <1>2, <1>3, <1>4, <1>5

(* The inductive invariant of ImportCopyProofs holds here too. *)
LEMMA ImportPartInvariance == OperationsSpec => []Proved!IInv
  <1>1. OperationsInit => Proved!IInv
    BY SameInit, Proved!InitIInv DEF OperationsInit
  <1>2. Proved!IInv /\ [OperationsNext \/ Rests]_all => Proved!IInv'
    <2> SUFFICES ASSUME Proved!IInv, [OperationsNext \/ Rests]_all
                 PROVE  Proved!IInv'
      OBVIOUS
    <2>1. CASE Import!Next
      BY <2>1, SameNext, Proved!NextKeeps
    <2>2. CASE UNCHANGED import
      <3>1. UNCHANGED Proved!vars
        BY <2>2 DEF import, Proved!vars, Proved!remote, Proved!children, Proved!attempt
      <3> QED
        BY <3>1, Proved!StutterKeeps
    <2> QED
      BY <2>1, <2>2, ImportMoves
  <1> QED
    BY <1>1, <1>2, PTL DEF OperationsSpec

(* Every variable of the import keeps its type. *)
THEOREM ImportAlwaysTyped == OperationsSpec => []ImportTypeOK
  <1>1. Proved!IInv => ImportTypeOK
    BY SameProperties DEF Proved!IInv, ImportTypeOK
  <1> QED
    BY <1>1, ImportPartInvariance, PTL

(* environment.rs: the backup that later attempts take for a finished import
   was requested after pg_dump, copy and psql had all succeeded. *)
THEOREM ImportBackupSucceeded == OperationsSpec => []BackupHoldsTheImport
  <1>1. Proved!IInv => BackupHoldsTheImport
    BY SameProperties, Proved!InvImplies DEF BackupHoldsTheImport
  <1> QED
    BY <1>1, ImportPartInvariance, PTL

(* environment.rs: the role, the container or the source service that an
   attempt leaves behind is named by its error. *)
THEOREM ImportResidualsNamed == OperationsSpec => []ResidualsAreNamed
  <1>1. Proved!IInv => ResidualsAreNamed
    BY SameProperties, Proved!InvImplies DEF ResidualsAreNamed
  <1> QED
    BY <1>1, ImportPartInvariance, PTL

(* environment.rs: outside the streaming neither pg_dump nor psql runs. *)
THEOREM ImportChildrenReaped == OperationsSpec => []ChildrenAreReaped
  <1>1. Proved!IInv => ChildrenAreReaped
    BY SameProperties, Proved!InvImplies DEF ChildrenAreReaped
  <1> QED
    BY <1>1, ImportPartInvariance, PTL

(* environment.rs: of two ends of a copy the one that is blamed failed by
   itself. *)
THEOREM ImportCulpritNamed == OperationsSpec => []CulpritIsNamed
  <1>1. Proved!IInv => CulpritIsNamed
    BY SameProperties, Proved!InvImplies DEF CulpritIsNamed
  <1> QED
    BY <1>1, ImportPartInvariance, PTL
=============================================================================
