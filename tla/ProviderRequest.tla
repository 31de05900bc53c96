--------------------------- MODULE ProviderRequest --------------------------
(***************************************************************************)
(* One call of the PlanetScale client (request and delete of client.rs)    *)
(* over a network that loses requests and answers, against a service that  *)
(* may be overloaded.  A read and a deletion are tried again, a creation   *)
(* is not; a deletion whose answer was lost finds nothing on the retry.    *)
(***************************************************************************)
EXTENDS Naturals

CONSTANT MaxRetries   \* MAX_RETRIES

VARIABLES
  method,  \* "get", "post" or "delete"
  tries,   \* attempts made so far
  resource,\* how many of the named resource exist
  created, \* history: resources this call created
  deleted, \* history: this call has deleted the resource
  phase,   \* "send", "served", "answered" or "ended"
  answer,  \* of the attempt
  result

vars == <<method, tries, resource, created, deleted, phase, answer, result>>

Overloaded == "overloaded"   \* 429, 502, 503 or 504
Lost == "lost"               \* no connection, or a timeout
Reset == "reset"             \* any other error of the transport

TypeOK ==
  /\ method \in {"get", "post", "delete"} /\ tries \in 0..(MaxRetries + 1)
  /\ resource \in 0..1 /\ created \in 0..1 /\ deleted \in BOOLEAN
  /\ phase \in {"send", "served", "answered", "ended"}
  /\ answer \in {"none", "success", "not_found", "refused", "broken", Overloaded, Lost, Reset}
  /\ result \in {"none", "ok", "api_error", "network_error", "response_invalid"}

Init ==
  /\ method \in {"get", "post", "delete"} /\ tries = 0
  /\ resource \in 0..1
  /\ created = 0 /\ deleted = FALSE
  /\ phase = "send" /\ answer = "none" /\ result = "none"

-----------------------------------------------------------------------------
(* The service and the network: external.                                  *)

Turned(away) ==
  /\ phase = "send"
  /\ phase' = "answered" /\ answer' = away /\ tries' = tries + 1
  /\ UNCHANGED <<method, resource, created, deleted, result>>

Served ==
  /\ phase = "send"
  /\ phase' = "served" /\ tries' = tries + 1
  /\ CASE method = "post" ->
            /\ resource' = 1 /\ created' = created + (1 - resource) /\ UNCHANGED deleted
            /\ answer' = IF resource = 0 THEN "success" ELSE "refused"   \* the name is taken
       [] method = "delete" ->
            /\ resource' = 0 /\ deleted' = (deleted \/ resource = 1) /\ UNCHANGED created
            /\ answer' = IF resource = 1 THEN "success" ELSE "not_found"
       [] OTHER ->
            /\ UNCHANGED <<resource, created, deleted>>
            /\ answer' = IF resource = 1 THEN "success" ELSE "not_found"
  /\ UNCHANGED <<method, result>>

(* The answer arrives; or it does not, or is a gateway's, or is broken off.  *)
Arrives ==
  /\ phase = "served"
  /\ phase' = "answered"
  /\ answer' \in {answer, Overloaded, Lost, Reset}
                 \cup (IF answer = "success" THEN {"broken"} ELSE {})
  /\ UNCHANGED <<method, tries, resource, created, deleted, result>>

-----------------------------------------------------------------------------
(* The client.                                                             *)

(* Mistake: creations are tried again as well. *)
RetryableAlways(m) == TRUE

Retryable(m) == m \in {"get", "delete"}

Retries == Retryable(method) /\ tries <= MaxRetries /\ answer \in {Overloaded, Lost}

(* After the backoff: 1 s << min(attempt, 4), or what Retry-After asks, at   *)
(* most 10 s.                                                              *)
Retry ==
  /\ phase = "answered" /\ Retries
  /\ phase' = "send" /\ answer' = "none"
  /\ UNCHANGED <<method, tries, resource, created, deleted, result>>

(* Mistake: a deletion that finds nothing has always failed. *)
VerdictNotFound(m, a, n) ==
  CASE a = "success" -> "ok"
    [] a \in {Lost, Reset} -> "network_error"
    [] a = "broken" -> IF m = "delete" THEN "ok" ELSE "response_invalid"
    [] OTHER -> "api_error"

(* The body of the answer to a deletion is not read. *)
Verdict(m, a, n) ==
  CASE a = "success" -> "ok"
    [] a = "not_found" /\ m = "delete" /\ n > 1 -> "ok"
    [] a \in {Lost, Reset} -> "network_error"
    [] a = "broken" -> IF m = "delete" THEN "ok" ELSE "response_invalid"
    [] OTHER -> "api_error"

Return ==
  /\ phase = "answered" /\ ~Retries
  /\ phase' = "ended" /\ result' = Verdict(method, answer, tries)
  /\ UNCHANGED <<method, tries, resource, created, deleted, answer>>

Next == (\E away \in {"refused", Overloaded, Lost, Reset} : Turned(away)) \/ Served \/ Arrives \/ Retry \/ Return

Spec == Init /\ [][Next]_vars

-----------------------------------------------------------------------------
(* Properties.                                                             *)

(* What this call itself has deleted is never reported as missing, though   *)
(* the answer was lost and the retry has found nothing; and a deletion that *)
(* reports success leaves nothing behind.                                  *)
DeletionIsIdempotent ==
  method = "delete" /\ phase = "ended" =>
    /\ deleted /\ answer = "not_found" => result = "ok"
    /\ result = "ok" => resource = 0

(* A creation that is refused has created nothing, though an answer may be  *)
(* lost: the callers, who look a resource up by its name when a creation   *)
(* fails, need not take what they find for their own; and one that reports *)
(* success has created it.                                                 *)
RefusedMeansNotCreated ==
  method = "post" /\ phase = "ended" =>
    /\ answer = "refused" => created = 0
    /\ result = "ok" => created = 1
=============================================================================
