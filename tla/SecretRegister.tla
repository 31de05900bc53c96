---------------------------- MODULE SecretRegister --------------------------
(***************************************************************************)
(* What the credential store promises for one key: a register that holds   *)
(* one secret or none.  A store or a removal takes effect at one moment,   *)
(* may be taken back before it ends, and when it reports success it has    *)
(* taken effect; a read never returns a secret that was replaced or        *)
(* removed, and finds a secret whose storing was confirmed, or fails.  The *)
(* weaker promise excepts one case: a store that fails where there was no  *)
(* secret may bring an old one back.                                       *)
(***************************************************************************)
CONSTANTS Values, NoValue

VARIABLES
  secret,     \* what the register holds
  op, val,    \* the operation in progress, and the value it stores
  before,     \* what the register held when it began
  confirmed,  \* the last operation has reported success
  answer      \* of the latest read

vars == <<secret, op, val, before, confirmed, answer>>

Content == Values \cup {NoValue}

Init ==
  /\ secret \in Content /\ before = secret
  /\ op = "none" /\ val = NoValue /\ confirmed = FALSE /\ answer = NoValue

Begin(o, v) ==
  /\ op = "none" /\ op' = o /\ val' = v /\ before' = secret /\ confirmed' = FALSE
  /\ UNCHANGED <<secret, answer>>

TakeEffect ==
  /\ op # "none" /\ secret' = val
  /\ UNCHANGED <<op, val, before, confirmed, answer>>

TakeBack ==
  /\ op # "none" /\ secret' = before
  /\ UNCHANGED <<op, val, before, confirmed, answer>>

(* The operation ends, with success only if the register holds its value;   *)
(* its last effect may come with its end.                                  *)
End ==
  /\ op # "none" /\ op' = "none" /\ val' = NoValue
  /\ secret' \in {secret, val, before}
  /\ before' = secret'
  /\ confirmed' \in BOOLEAN /\ (confirmed' => secret' = val)
  /\ UNCHANGED answer

Read ==
  /\ op = "none"
  /\ \/ answer' = secret
     \/ answer' = "error"
     \/ ~confirmed /\ answer' = NoValue
  /\ UNCHANGED <<secret, op, val, before, confirmed>>

Next ==
  \/ \E v \in Values : Begin("store", v)
  \/ Begin("remove", NoValue)
  \/ TakeEffect \/ TakeBack \/ End \/ Read

Spec == Init /\ [][Next]_vars

(* The secret that comes back is one of before the removal. *)
Resurface ==
  /\ op = "store" /\ before = NoValue /\ op' = "none" /\ val' = NoValue
  /\ secret' \in Content /\ before' = secret' /\ confirmed' = FALSE
  /\ UNCHANGED answer

WeakSpec == Init /\ [][Next \/ Resurface]_vars
=============================================================================
