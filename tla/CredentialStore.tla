--------------------------- MODULE CredentialStore --------------------------
(***************************************************************************)
(* credentials.rs: one secret, kept in the keyring of the operating system *)
(* or, where that is not available, in a private file.  The file holds     *)
(* also what is known of the secret: that the keyring has it               *)
(* (keyring_items) or that it was removed (removed_items).  Every call of  *)
(* the keyring and every write of the file may fail, and the process may   *)
(* stop between any two of them.  Files of earlier versions know nothing   *)
(* of the keyring, and may hold a second copy of what it holds.            *)
(***************************************************************************)
CONSTANTS Values, NoValue

ASSUME ConstantsAssumption == NoValue \notin Values

VARIABLES
  file,    \* item: the secret in the file; known, removed: the evidence
  ring,    \* the keyring's entry
  pc,      \* where the operation in progress stands
  op, val, \* the operation and the value it stores
  previous,  \* the keyring's entry before it was overwritten
  plan,      \* the file that is to be written
  before, confirmed, answer  \* as in SecretRegister

vars == <<file, ring, pc, op, val, previous, plan, before, confirmed, answer>>

Content == Values \cup {NoValue}
Files == [item : Content, known : BOOLEAN, removed : BOOLEAN]

TypeOK ==
  /\ file \in Files /\ plan \in Files
  /\ ring \in Content /\ previous \in Content /\ before \in Content
  /\ pc \in {"idle", "purge", "set_known", "probe", "set", "write", "write_known", "rollback"}
  /\ op \in {"none", "store", "remove"} /\ val \in Content
  /\ confirmed \in BOOLEAN /\ answer \in Content \cup {"error"}

(* stored_value_with, with the keyring at hand. *)
Stored == IF file.item # NoValue THEN file.item
          ELSE IF file.removed THEN NoValue ELSE ring

(* has_database_url_evidence: without it `env delete` leaves the key alone. *)
Evidence == file.item # NoValue \/ file.known \/ file.removed

Init ==
  /\ file \in {f \in Files : ~f.known /\ ~f.removed}
  /\ ring \in Content
  /\ pc = "idle" /\ op = "none" /\ val = NoValue /\ previous = NoValue
  /\ plan = file /\ before = Stored /\ confirmed = FALSE /\ answer = NoValue

-----------------------------------------------------------------------------
Goto(label) == pc' = label /\ UNCHANGED <<op, val, before, confirmed, answer>>

Ends(success) ==
  /\ pc' = "idle" /\ op' = "none" /\ val' = NoValue /\ previous' = NoValue /\ plan' = file'
  /\ confirmed' = success /\ before' = Stored'
  /\ UNCHANGED answer

(* What a store in the file, a store in the keyring and a removal leave in  *)
(* the file.                                                               *)
InFile(v) == [item |-> v, known |-> FALSE, removed |-> FALSE]

(* Mistake: the evidence of the keyring's entry is left out. *)
InKeyringUnknown == [item |-> NoValue, known |-> FALSE, removed |-> FALSE]

InKeyring == [item |-> NoValue, known |-> TRUE, removed |-> FALSE]
Tombstone == [item |-> NoValue, known |-> FALSE, removed |-> TRUE]

-----------------------------------------------------------------------------
(* store_value_with.                                                       *)

Store(v) ==
  /\ pc = "idle"
  /\ op' = "store" /\ val' = v /\ before' = Stored /\ confirmed' = FALSE
  /\ pc' = IF file.item # NoValue THEN "purge"
           ELSE IF file.known THEN "set_known" ELSE "probe"
  /\ plan' = InFile(v)
  /\ UNCHANGED <<file, ring, previous, answer>>

Remove ==
  /\ pc = "idle"
  /\ op' = "remove" /\ val' = NoValue /\ before' = Stored /\ confirmed' = FALSE
  /\ pc' = "purge" /\ plan' = Tombstone
  /\ UNCHANGED <<file, ring, previous, answer>>

(* reconcile_keyring_for_fallback, remove_keyring_for_delete: with evidence *)
(* of an entry it must be deleted; without, a keyring that is not available *)
(* is passed over if the secret is in the file or was removed before.       *)
MayPassOver == ~file.known /\ (op = "store" \/ file.item # NoValue \/ file.removed)

Purged ==
  IF op = "remove" /\ plan = file THEN Ends(TRUE)       \* nothing changed
                                  ELSE Goto("write") /\ UNCHANGED <<previous, plan>>

Purge ==
  /\ pc = "purge" /\ UNCHANGED file
  /\ \/ ring' = NoValue /\ Purged
     \/ MayPassOver /\ UNCHANGED ring /\ Purged
     \/ UNCHANGED ring /\ Ends(FALSE)

(* With evidence of an entry it is overwritten in place. *)
SetKnown ==
  /\ pc = "set_known" /\ UNCHANGED file
  /\ \/ /\ ring' = val
        /\ IF file.removed
           THEN plan' = [file EXCEPT !.removed = FALSE] /\ Goto("write") /\ UNCHANGED previous
           ELSE Ends(TRUE)
     \/ UNCHANGED ring /\ Ends(FALSE)

(* Without, the entry is read first, to be put back if need be; a keyring   *)
(* that cannot be read is done without.                                     *)
Probe ==
  /\ pc = "probe"
  /\ \/ previous' = ring /\ Goto("set")
     \/ Goto("write") /\ UNCHANGED previous
  /\ UNCHANGED <<file, ring, plan>>

Set ==
  /\ pc = "set" /\ UNCHANGED file
  /\ \/ ring' = val /\ plan' = InKeyring /\ Goto("write_known") /\ UNCHANGED previous
     \/ previous # NoValue /\ UNCHANGED ring /\ Ends(FALSE)
     \/ previous = NoValue /\ Goto("write") /\ UNCHANGED <<ring, previous, plan>>

(* write_file: a temporary file, renamed, and its permissions set: it fails  *)
(* with the old file in place, or with the new one.                        *)
WriteFile ==
  /\ pc \in {"write", "write_known"} /\ UNCHANGED ring
  /\ \/ file' = plan /\ Ends(TRUE)
     \/ /\ file' \in {file, plan}
        /\ IF pc = "write_known" THEN Goto("rollback") /\ UNCHANGED <<previous, plan>>
                                 ELSE Ends(FALSE)

(* Mistake: the new entry is deleted, whatever was there before. *)
RestoredNothing == NoValue

(* restore_keyring_value: deleted, if there was none. *)
Restored == previous

Rollback ==
  /\ pc = "rollback" /\ UNCHANGED file
  /\ ring' \in {Restored, ring}
  /\ Ends(FALSE)

-----------------------------------------------------------------------------
(* stored_value_with. *)
Read ==
  /\ pc = "idle"
  /\ \/ answer' = Stored
     \/ /\ file.item = NoValue /\ ~file.removed     \* the keyring cannot be read
        /\ answer' = IF file.known THEN "error" ELSE NoValue
  /\ UNCHANGED <<file, ring, pc, op, val, previous, plan, before, confirmed>>

(* The process stops, or the file could not be read at the start. *)
Crash == pc # "idle" /\ UNCHANGED <<file, ring>> /\ Ends(FALSE)

Next ==
  \/ \E v \in Values : Store(v)
  \/ Remove \/ Purge \/ SetKnown \/ Probe \/ Set \/ WriteFile \/ Rollback \/ Read \/ Crash

Spec == Init /\ [][Next]_vars

-----------------------------------------------------------------------------
(* Properties.                                                             *)

Register == INSTANCE SecretRegister WITH secret <- Stored

(* credentials.rs:94: the two places and the evidence behave like one       *)
(* register, in which what was replaced or removed does not resurface.  But *)
(* a write that fails after its rename has taken the evidence of a removal  *)
(* away, and the rollback puts the keyring's old entry back.               *)
RegisterSpec == Register!Spec

(* But for that, they do: success means done, a failed operation leaves the *)
(* old secret or the new one, a secret that was stored with success is      *)
(* never taken for missing, and none comes back that was replaced or       *)
(* removed, unless a later store has failed.                               *)
WeakRegisterSpec == Register!WeakSpec

(* A secret stored with success leaves evidence, without which env delete   *)
(* would not remove it.                                                     *)
StoredLeavesEvidence == confirmed /\ Stored # NoValue => Evidence
=============================================================================
