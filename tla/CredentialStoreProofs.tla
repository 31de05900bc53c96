------------------------ MODULE CredentialStoreProofs -----------------------
(***************************************************************************)
(* Whatever call of the keyring or write of the file fails, and wherever   *)
(* the process stops, CredentialStore implements the weaker promise of     *)
(* SecretRegister, for any set of secrets.                                 *)
(***************************************************************************)
EXTENDS CredentialStore, TLAPS

(* What the steps of an operation have established so far: of the file     *)
(* (what Stored is read from), of the entry that a rollback puts back, and  *)
(* of the file that is about to be written.                                *)
Storing ==
  /\ val \in Values
  /\ pc = "purge" => file.item # NoValue /\ plan = InFile(val)
  /\ pc = "set_known" => file.item = NoValue /\ file.known
  /\ pc = "probe" =>
       /\ file.item = NoValue /\ plan = InFile(val)
       /\ before \in IF file.removed THEN {NoValue} ELSE {ring}
  /\ pc = "set" => file.item = NoValue /\ plan = InFile(val) /\ before \in {NoValue, previous}
  /\ pc = "write" => plan = InFile(val) \/ (plan = InKeyring /\ ring = val)
  /\ pc \in {"write_known", "rollback"} =>
       /\ file.item = NoValue /\ plan = InKeyring /\ ring = val
       /\ before \in {NoValue, previous}

Removing == val = NoValue /\ pc \in {"purge", "write"} /\ plan = Tombstone

IInv ==
  /\ TypeOK
  /\ (pc = "idle") <=> (op = "none")
  /\ op = "none" => val = NoValue
  /\ op = "store" => Storing
  /\ op = "remove" => Removing
  /\ confirmed => op = "none"
  /\ StoredLeavesEvidence

-----------------------------------------------------------------------------
(* Steps that all operations share.                                        *)

LEMMA ContentFacts ==
  NoValue \in Content /\ Values \subseteq Content /\ NoValue \notin Values
  BY ConstantsAssumption DEF Content

(* The three files that are ever planned. *)
LEMMA PlanFacts ==
  /\ \A v \in Content : InFile(v) \in Files
  /\ InKeyring \in Files /\ Tombstone \in Files
  BY ContentFacts DEF InFile, InKeyring, Tombstone, Files

LEMMA StoredInContent ==
  ASSUME TypeOK PROVE Stored \in Content
  BY ContentFacts DEF TypeOK, Stored, Files

(* An operation that ends keeps the invariant, if with success it leaves    *)
(* evidence of what it stored.                                             *)
LEMMA EndKeepsInvariant ==
  ASSUME IInv, NEW s \in BOOLEAN, Ends(s), file' \in Files, ring' \in Content,
         s /\ Stored' # NoValue => Evidence'
  PROVE  IInv'
  <1>1. TypeOK'
    <2>1. Stored' \in Content
      BY ContentFacts DEF Stored, Files
    <2> QED BY <2>1, ContentFacts DEF IInv, TypeOK, Ends
  <1>2. StoredLeavesEvidence'
    BY DEF Ends, StoredLeavesEvidence
  <1> QED BY <1>1, <1>2 DEF IInv, Ends

(* The steps of the register, with the one that the weaker promise excepts. *)
RegisterNext == Register!Next \/ Register!Resurface

(* It is the end of an operation of the register, if it leaves the secret   *)
(* there was, the one before the operation, or its value, and with success *)
(* the latter.                                                             *)
LEMMA EndIsEnd ==
  ASSUME NEW s \in BOOLEAN, Ends(s), op # "none",
         Stored' \in {Stored, val, before}, s => Stored' = val
  PROVE  RegisterNext
  <1>1. Register!End
    BY DEF Ends, Register!End
  <1> QED BY <1>1 DEF RegisterNext, Register!Next

(* A step within an operation is one of the register, if the secret stays   *)
(* or becomes the operation's.                                             *)
LEMMA GotoSimulates ==
  ASSUME NEW label, Goto(label), op # "none", Stored' \in {Stored, val}
  PROVE  [RegisterNext]_(Register!vars)
  <1>1. CASE Stored' = Stored
    BY <1>1 DEF Goto, Register!vars
  <1>2. CASE Stored' = val
    <2>1. Register!TakeEffect
      BY <1>2 DEF Goto, Register!TakeEffect
    <2> QED BY <2>1 DEF RegisterNext, Register!Next
  <1> QED BY <1>1, <1>2

(* Both at once: what a step of the store keeps and what it implements.     *)
Kept == IInv' /\ [RegisterNext]_(Register!vars)

-----------------------------------------------------------------------------
(* One lemma for each action.                                              *)

LEMMA InitHolds == Init => IInv /\ Register!Init
  <1> SUFFICES ASSUME Init PROVE IInv /\ Register!Init
    OBVIOUS
  <1>1. Stored \in Content /\ TypeOK
    BY ContentFacts DEF Init, Files, Stored, TypeOK
  <1>2. IInv
    BY <1>1 DEF Init, IInv, StoredLeavesEvidence
  <1>3. Register!Init
    BY <1>1 DEF Init, Register!Init, Register!Content, Content
  <1> QED BY <1>2, <1>3

LEMMA StoreKeeps == ASSUME IInv, NEW v \in Values, Store(v) PROVE Kept
  <1>1. TypeOK'
    BY ContentFacts, PlanFacts, StoredInContent DEF IInv, TypeOK, Store
  <1>2. Storing'
    BY ContentFacts DEF IInv, TypeOK, Store, Storing, Stored, Files
  <1>3. IInv'
    BY <1>1, <1>2 DEF IInv, Store, StoredLeavesEvidence
  <1>4. Register!Begin("store", v)
    BY DEF IInv, Store, Stored, Register!Begin
  <1> QED BY <1>3, <1>4 DEF Kept, RegisterNext, Register!Next

LEMMA RemoveKeeps == ASSUME IInv, Remove PROVE Kept
  <1>1. TypeOK'
    BY ContentFacts, PlanFacts, StoredInContent DEF IInv, TypeOK, Remove
  <1>2. IInv'
    BY <1>1 DEF IInv, Remove, Removing, StoredLeavesEvidence
  <1>3. Register!Begin("remove", NoValue)
    BY DEF IInv, Remove, Stored, Register!Begin
  <1> QED BY <1>2, <1>3 DEF Kept, RegisterNext, Register!Next

(* The operation is given up, with both places as they are. *)
LEMMA FailureKeeps ==
  ASSUME IInv, op # "none", Ends(FALSE), UNCHANGED <<file, ring>> PROVE Kept
  <1>1. IInv'
    BY EndKeepsInvariant DEF IInv, TypeOK
  <1>2. Stored' = Stored
    BY DEF Stored
  <1>3. RegisterNext
    BY <1>2, EndIsEnd
  <1> QED BY <1>1, <1>3 DEF Kept

LEMMA PurgeKeeps == ASSUME IInv, Purge PROVE Kept
  <1> USE DEF Purge
  <1>0. op \in {"store", "remove"}
    BY DEF IInv, TypeOK
  <1>1. CASE UNCHANGED ring /\ Ends(FALSE)
    BY <1>0, <1>1, FailureKeeps
  <1>2. CASE ring' \in {NoValue, ring} /\ Purged
    <2>1. file' = file /\ ring' \in Content
      BY <1>2, ContentFacts DEF IInv, TypeOK
    <2>2. CASE op = "remove" /\ plan = file
      <3>1. Ends(TRUE) /\ file = Tombstone /\ val = NoValue
        BY <1>2, <2>2 DEF Purged, IInv, Removing
      <3>2. Stored' = NoValue
        BY <2>1, <3>1 DEF Stored, Tombstone
      <3>3. IInv'
        BY <2>1, <3>1, <3>2, EndKeepsInvariant DEF IInv, TypeOK
      <3>4. RegisterNext
        BY <1>0, <3>1, <3>2, EndIsEnd
      <3> QED BY <3>3, <3>4 DEF Kept
    <2>3. CASE ~(op = "remove" /\ plan = file)
      <3>1. Goto("write") /\ UNCHANGED <<previous, plan>>
        BY <1>2, <2>3 DEF Purged
      <3>2. TypeOK'
        BY <2>1, <3>1 DEF IInv, TypeOK, Goto
      <3>3. (op = "store" => Storing') /\ (op = "remove" => Removing')
        BY <3>1 DEF IInv, Storing, Removing, Goto, InFile
      <3>4. IInv'
        BY <1>0, <2>1, <3>1, <3>2, <3>3 DEF IInv, Goto, StoredLeavesEvidence
      <3>5. Stored' \in {Stored, val}
        BY <1>0, <1>2, <2>1 DEF IInv, Storing, Removing, Stored
      <3>6. [RegisterNext]_(Register!vars)
        BY <1>0, <3>1, <3>5, GotoSimulates
      <3> QED BY <3>4, <3>6 DEF Kept
    <2> QED BY <2>2, <2>3
  <1> QED BY <1>1, <1>2

LEMMA SetKnownKeeps == ASSUME IInv, SetKnown PROVE Kept
  <1> USE DEF SetKnown
  <1>0. /\ op = "store" /\ val \in Values /\ file \in Files
        /\ file.item = NoValue /\ file.known /\ file' = file
    BY DEF IInv, TypeOK, Storing, Removing
  <1>1. CASE UNCHANGED ring /\ Ends(FALSE)
    BY <1>0, <1>1, FailureKeeps
  <1>2. CASE /\ file.removed /\ ring' = val
             /\ plan' = [file EXCEPT !.removed = FALSE] /\ Goto("write") /\ UNCHANGED previous
    <2>1. plan' = InKeyring
      BY <1>0, <1>2 DEF InKeyring, Files
    <2>2. TypeOK'
      BY <1>0, <1>2, <2>1, ContentFacts, PlanFacts DEF IInv, TypeOK, Goto
    <2>3. Storing'
      BY <1>0, <1>2, <2>1 DEF Storing, Goto
    <2>4. IInv'
      BY <1>0, <1>2, <2>2, <2>3 DEF IInv, Goto, StoredLeavesEvidence
    <2>5. Stored' = Stored
      BY <1>0, <1>2 DEF Stored
    <2>6. [RegisterNext]_(Register!vars)
      BY <1>0, <1>2, <2>5, GotoSimulates
    <2> QED BY <2>4, <2>6 DEF Kept
  <1>3. CASE ~file.removed /\ ring' = val /\ Ends(TRUE)
    <2>1. Stored' = val /\ Evidence'
      BY <1>0, <1>3 DEF Stored, Evidence
    <2>2. IInv'
      BY <1>0, <1>3, <2>1, ContentFacts, EndKeepsInvariant
    <2>3. RegisterNext
      BY <1>0, <1>3, <2>1, EndIsEnd
    <2> QED BY <2>2, <2>3 DEF Kept
  <1> QED BY <1>1, <1>2, <1>3

LEMMA ProbeKeeps == ASSUME IInv, Probe PROVE Kept
  <1> USE DEF Probe
  <1>0. op = "store" /\ Storing
    BY DEF IInv, TypeOK, Removing
  <1>1. PICK label \in {"set", "write"} : Goto(label)
    OBVIOUS
  <1>2. TypeOK'
    BY <1>1 DEF IInv, TypeOK, Goto
  <1>3. Storing'
    BY <1>0 DEF Storing, Goto, InFile
  <1>4. IInv'
    BY <1>0, <1>1, <1>2, <1>3 DEF IInv, Goto, StoredLeavesEvidence
  <1>5. Stored' = Stored
    BY DEF Stored
  <1>6. [RegisterNext]_(Register!vars)
    BY <1>0, <1>1, <1>5, GotoSimulates
  <1> QED BY <1>4, <1>6 DEF Kept

LEMMA SetKeeps == ASSUME IInv, Set PROVE Kept
  <1> USE DEF Set
  <1>0. op = "store" /\ Storing /\ file' = file /\ file.item = NoValue
    BY DEF IInv, TypeOK, Storing, Removing
  <1>1. CASE UNCHANGED ring /\ Ends(FALSE)
    BY <1>0, <1>1, FailureKeeps
  <1>2. CASE ring' = val /\ plan' = InKeyring /\ Goto("write_known") /\ UNCHANGED previous
    <2>1. TypeOK'
      BY <1>0, <1>2, ContentFacts, PlanFacts DEF IInv, TypeOK, Storing, Goto
    <2>2. Storing'
      BY <1>0, <1>2 DEF Storing, Goto
    <2>3. IInv'
      BY <1>0, <1>2, <2>1, <2>2 DEF IInv, Goto, StoredLeavesEvidence
    <2>4. Stored' \in {Stored, val}
      BY <1>0, <1>2 DEF Stored
    <2>5. [RegisterNext]_(Register!vars)
      BY <1>0, <1>2, <2>4, GotoSimulates
    <2> QED BY <2>3, <2>5 DEF Kept
  <1>3. CASE Goto("write") /\ UNCHANGED <<ring, previous, plan>>
    <2>1. TypeOK'
      BY <1>0, <1>3 DEF IInv, TypeOK, Goto
    <2>2. Storing'
      BY <1>0, <1>3 DEF Storing, Goto, InFile
    <2>3. IInv'
      BY <1>0, <1>3, <2>1, <2>2 DEF IInv, Goto, StoredLeavesEvidence
    <2>4. Stored' = Stored
      BY <1>0, <1>3 DEF Stored
    <2>5. [RegisterNext]_(Register!vars)
      BY <1>0, <1>3, <2>4, GotoSimulates
    <2> QED BY <2>3, <2>5 DEF Kept
  <1> QED BY <1>1, <1>2, <1>3

(* A write that succeeds has done what the operation is for; one that fails *)
(* has done it or not.                                                     *)
LEMMA WriteFileKeeps == ASSUME IInv, WriteFile PROVE Kept
  <1> USE DEF WriteFile
  <1>0. ring' = ring /\ op \in {"store", "remove"} /\ plan \in Files /\ file \in Files
    BY DEF IInv, TypeOK
  <1>1. file' = plan => Stored' = val /\ (Stored' # NoValue => Evidence')
    <2>1. CASE op = "remove"
      BY <1>0, <2>1 DEF IInv, Removing, Tombstone, Stored
    <2>2. CASE op = "store" /\ plan = InFile(val)
      BY <2>2, ContentFacts DEF IInv, Storing, InFile, Stored, Evidence
    <2>3. CASE op = "store" /\ plan = InKeyring /\ ring = val
      BY <1>0, <2>3 DEF InKeyring, Stored, Evidence
    <2> QED BY <1>0, <2>1, <2>2, <2>3 DEF IInv, Storing
  <1>2. CASE file' = plan /\ \E success \in BOOLEAN : Ends(success)
    <2>1. PICK success \in BOOLEAN : Ends(success)
      BY <1>2
    <2>2. IInv'
      BY <1>0, <1>1, <1>2, <2>1, EndKeepsInvariant DEF IInv, TypeOK
    <2>3. RegisterNext
      BY <1>0, <1>1, <1>2, <2>1, EndIsEnd
    <2> QED BY <2>2, <2>3 DEF Kept
  <1>3. CASE /\ file' \in {file, plan} /\ pc = "write_known"
             /\ Goto("rollback") /\ UNCHANGED <<previous, plan>>
    <2>0. op = "store" /\ Storing
      BY <1>0, <1>3 DEF IInv, Removing
    <2>1. TypeOK'
      BY <1>0, <1>3 DEF IInv, TypeOK, Goto
    <2>2. Storing'
      BY <1>0, <1>3, <2>0 DEF Storing, Goto, InKeyring
    <2>3. IInv'
      BY <1>3, <2>0, <2>1, <2>2 DEF IInv, Goto, StoredLeavesEvidence
    <2>4. Stored' \in {Stored, val}
      BY <1>0, <1>1, <1>3 DEF Stored
    <2>5. [RegisterNext]_(Register!vars)
      BY <1>0, <1>3, <2>4, GotoSimulates
    <2> QED BY <2>3, <2>5 DEF Kept
  <1>4. CASE file' = file /\ Ends(FALSE)
    BY <1>0, <1>4, FailureKeeps
  <1> QED BY <1>1, <1>2, <1>3, <1>4

(* What a rollback puts back is the secret of before the operation, or, if  *)
(* there was none, what had been hidden by the evidence of its removal.    *)
LEMMA RollbackKeeps == ASSUME IInv, Rollback PROVE Kept
  <1> USE DEF Rollback
  <1>0. /\ op = "store" /\ Storing /\ file' = file /\ Ends(FALSE)
        /\ ring' \in {previous, ring}
    BY DEF IInv, TypeOK, Removing, Restored
  <1>1. file' \in Files /\ ring' \in Content
    BY <1>0 DEF IInv, TypeOK
  <1>2. IInv'
    BY <1>0, <1>1, EndKeepsInvariant
  <1>3. CASE before = previous
    <2>1. Stored' \in {Stored, before}
      BY <1>0, <1>3 DEF Storing, Stored
    <2>2. RegisterNext
      BY <1>0, <2>1, EndIsEnd
    <2> QED BY <1>2, <2>2 DEF Kept
  <1>4. CASE before = NoValue
    <2>1. Stored' \in Content
      BY <1>2, StoredInContent DEF IInv, TypeOK, Ends
    <2>2. Register!Resurface
      BY <1>0, <1>4, <2>1 DEF Ends, Register!Resurface, Register!Content, Content
    <2> QED BY <1>2, <2>2 DEF Kept, RegisterNext
  <1> QED BY <1>0, <1>3, <1>4 DEF Storing

LEMMA CrashKeeps == ASSUME IInv, Crash PROVE Kept
  BY FailureKeeps DEF Crash, IInv

(* Only where the invariant says that nothing was stored with success does  *)
(* a read answer that there is nothing, with the keyring out of reach.     *)
LEMMA ReadKeeps == ASSUME IInv, Read PROVE Kept
  <1>1. TypeOK'
    BY StoredInContent, ContentFacts DEF IInv, TypeOK, Read
  <1>2. IInv'
    BY <1>1 DEF IInv, Read, Storing, Removing, StoredLeavesEvidence, Stored, Evidence
  <1>3. answer' \in {Stored, "error"} \/ (answer' = NoValue /\ ~Evidence)
    BY DEF Read, Evidence, IInv, TypeOK, Files
  <1>4. answer' \in {Stored, "error"} \/ (answer' = NoValue /\ ~confirmed)
    BY <1>3 DEF IInv, StoredLeavesEvidence
  <1>5. Register!Read
    BY <1>4 DEF IInv, Read, Stored, Register!Read
  <1> QED BY <1>2, <1>5 DEF Kept, RegisterNext, Register!Next

-----------------------------------------------------------------------------
(* The theorems.                                                           *)

LEMMA StepKeeps ==
  ASSUME IInv, [Next]_vars PROVE Kept
  <1>1. CASE UNCHANGED vars
    <2>1. UNCHANGED <<Stored, Evidence>>
      BY <1>1 DEF vars, Stored, Evidence
    <2>2. IInv'
      BY <1>1, <2>1 DEF vars, IInv, TypeOK, Storing, Removing, StoredLeavesEvidence
    <2>3. UNCHANGED Register!vars
      BY <1>1, <2>1 DEF vars, Register!vars
    <2> QED BY <2>2, <2>3 DEF Kept
  <1>2. CASE Next
    BY <1>2, StoreKeeps, RemoveKeeps, PurgeKeeps, SetKnownKeeps, ProbeKeeps, SetKeeps,
       WriteFileKeeps, RollbackKeeps, ReadKeeps, CrashKeeps DEF Next
  <1> QED BY <1>1, <1>2

(* credentials.rs: the invariant that the other theorems rest on.          *)
THEOREM StoreInvariance == Spec => []IInv
  <1>1. Init => IInv
    BY InitHolds
  <1>2. IInv /\ [Next]_vars => IInv'
    BY StepKeeps DEF Kept
  <1> QED BY <1>1, <1>2, PTL DEF Spec

(* credentials.rs: each variable keeps its type.                           *)
THEOREM StoreTypeCorrect == Spec => []TypeOK
  <1>1. IInv => TypeOK
    BY DEF IInv
  <1> QED BY <1>1, StoreInvariance, PTL

(* store_value_with, remove_stored_value_with: a secret that was stored with *)
(* success leaves evidence in the file, so that env delete removes it.     *)
THEOREM StoredAlwaysLeavesEvidence == Spec => []StoredLeavesEvidence
  <1>1. IInv => StoredLeavesEvidence
    BY DEF IInv
  <1> QED BY <1>1, StoreInvariance, PTL

(* CredentialStore: whichever call fails, before or after it took effect,   *)
(* and wherever the process stops, keyring, file and evidence behave like  *)
(* one register, but for a secret that a failed store brings back.         *)
THEOREM StoreImplementsRegister == Spec => WeakRegisterSpec
  <1>1. Init => Register!Init
    BY InitHolds
  <1>2. IInv /\ [Next]_vars => [RegisterNext]_(Register!vars)
    BY StepKeeps DEF Kept
  <1>3. Spec => Register!Init /\ [][RegisterNext]_(Register!vars)
    BY <1>1, <1>2, StoreInvariance, PTL DEF Spec
  <1> QED BY <1>3, PTL DEF WeakRegisterSpec, Register!WeakSpec, RegisterNext
=============================================================================
