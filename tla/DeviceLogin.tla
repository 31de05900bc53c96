----------------------------- MODULE DeviceLogin ----------------------------
(***************************************************************************)
(* `repobox auth login` and `auth logout` (app.rs) over the device flow of *)
(* auth.rs: the wait for the user's approval, between an interval that the *)
(* service may raise and a deadline, and what becomes of an access token,  *)
(* which lives at the service until it is revoked, when the validation,    *)
(* the store, the revocation or the process fails.  A unit of time is the  *)
(* 5 s of DEFAULT_POLL_INTERVAL and SLOW_DOWN_INCREMENT.                   *)
(***************************************************************************)
EXTENDS Naturals

CONSTANTS
  MaxLogins,  \* bound: browser logins; each may be given one token
  Expiry,     \* expires_in of the device code
  Intervals   \* intervals the service may ask for at first

VARIABLES
  cmd,       \* the command: "none", "browser", "service_token" or "logout"
  dry,       \* --dry-run
  pc,
  left,      \* time to the deadline
  sleep,     \* time the poll loop still sleeps
  interval,  \* between polls
  asked,     \* the interval the service has asked for so far
  since,     \* time since the last poll was answered, or the code was given
  logins,    \* browser logins so far; the number of the latest is its token
  live,      \* tokens that are valid at the service
  stored,    \* what the credential store holds: a token, ServiceToken or None
  result     \* of the latest command

wait == <<left, sleep, interval, asked, since>>
vars == <<cmd, dry, pc, wait, logins, live, stored, result>>

Tokens == 1..MaxLogins
None == 0
ServiceToken == MaxLogins + 1
Cap == Expiry + 1

TypeOK ==
  /\ cmd \in {"none", "browser", "service_token", "logout"} /\ dry \in BOOLEAN
  /\ pc \in {"idle", "loop", "sleep", "poll", "validate", "store", "revoke", "remove"}
  /\ (cmd = "none") = (pc = "idle")
  /\ left \in 0..Expiry /\ sleep \in 0..Cap /\ since \in 0..Cap
  /\ interval \in 0..Cap /\ asked \in 0..Cap
  /\ logins \in 0..MaxLogins /\ live \subseteq 1..logins
  /\ stored \in Tokens \cup {ServiceToken, None}
  /\ result \in {"none", "ok", "failed", "expired", "authentication_interrupted", "storage_failed",
                 "credential_store_and_token_revoke_failed", "token_revoke_failed"}

Init ==
  /\ cmd = "none" /\ dry = FALSE /\ pc = "idle"
  /\ left = 0 /\ sleep = 0 /\ interval = 0 /\ asked = 0 /\ since = 0
  /\ logins = 0 /\ live = {} /\ stored = None /\ result = "none"

-----------------------------------------------------------------------------
Goto(label) == pc' = label /\ UNCHANGED <<cmd, dry, result>>

Ends(code) ==
  /\ cmd' = "none" /\ dry' = FALSE /\ pc' = "idle" /\ result' = code
  /\ left' = 0 /\ sleep' = 0 /\ interval' = 0 /\ asked' = 0 /\ since' = 0

Begin(c, d, label) ==
  /\ cmd = "none" /\ cmd' = c /\ dry' = d /\ pc' = label /\ result' = "none"

(* PlanetScaleDeviceAuth::start; an error there changes nothing. *)
BrowserLogin ==
  /\ logins < MaxLogins
  /\ \E d \in BOOLEAN, i \in Intervals :
       /\ Begin("browser", d, "loop")
       /\ interval' = i /\ asked' = i /\ since' = 0 /\ left' = Expiry /\ sleep' = 0
  /\ logins' = logins + 1
  /\ UNCHANGED <<live, stored>>

ServiceTokenLogin ==
  /\ \E d \in BOOLEAN : Begin("service_token", d, "validate")
  /\ UNCHANGED <<wait, logins, live, stored>>

(* wait_for_access_token. *)
Sleep ==
  /\ pc = "loop"
  /\ sleep' = (IF interval < left THEN interval ELSE left)
  /\ Goto("sleep")
  /\ UNCHANGED <<left, interval, asked, since, logins, live, stored>>

Tick ==
  /\ pc \in {"sleep", "poll"}
  /\ pc = "sleep" => sleep > 0
  /\ left' = (IF left > 0 THEN left - 1 ELSE 0)
  /\ sleep' = (IF sleep > 0 THEN sleep - 1 ELSE 0)
  /\ since' = (IF since < Cap THEN since + 1 ELSE Cap)
  /\ UNCHANGED <<cmd, dry, pc, interval, asked, logins, live, stored, result>>

(* Mistake: the deadline is not looked at after the sleep, which it cut short. *)
ExpiredNever == FALSE

Expired == left = 0

Wake ==
  /\ pc = "sleep" /\ sleep = 0
  /\ IF Expired THEN Ends("expired") /\ UNCHANGED <<logins, live, stored>>
     ELSE /\ since' = 0 /\ Goto("poll")
          /\ UNCHANGED <<left, sleep, interval, asked, logins, live, stored>>

(* Mistake: a slow_down is taken for authorization_pending. *)
SlowerUnchanged(i) == i

(* Past the deadline one interval is as good as another. *)
Slower(i) == IF i < Cap THEN i + 1 ELSE i

(* classify_token_response: whatever is neither a token nor one of the two   *)
(* answers that ask for patience ends the login, a lost answer as well,    *)
(* with which a token may be lost.                                         *)
Polled ==
  /\ pc = "poll"
  /\ \/ live' = live \cup {logins} /\ Goto("validate") /\ UNCHANGED wait
     \/ /\ Goto("loop") /\ since' = 0 /\ UNCHANGED live
        /\ \/ UNCHANGED <<left, sleep, interval, asked>>
           \/ /\ asked' = (IF asked < Cap THEN asked + 1 ELSE asked) /\ interval' = Slower(interval)
              /\ UNCHANGED <<left, sleep>>
     \/ live' \in {live, live \cup {logins}} /\ Ends("failed")
  /\ UNCHANGED <<logins, stored>>

-----------------------------------------------------------------------------
(* finish_auth_login. *)

Validate ==
  /\ pc = "validate"
  /\ \/ dry /\ cmd = "browser" /\ Goto("revoke") /\ UNCHANGED wait
     \/ dry /\ cmd = "service_token" /\ Ends("ok")
     \/ ~dry /\ Goto("store") /\ UNCHANGED wait
     \/ Ends("failed")
  /\ UNCHANGED <<logins, live, stored>>

(* Mistake: a token that could not be stored is not revoked. *)
StoreFailsQuietly == Ends("storage_failed")

StoreFails ==
  IF cmd = "browser" THEN Goto("revoke") /\ UNCHANGED wait ELSE Ends("storage_failed")

(* CredentialStore: a store that fails may have been done. *)
Store ==
  /\ pc = "store"
  /\ LET new == IF cmd = "browser" THEN logins ELSE ServiceToken
     IN \/ stored' = new /\ Ends("ok")
        \/ stored' \in {stored, new} /\ StoreFails
  /\ UNCHANGED <<logins, live>>

(* A revocation that fails may have been done. *)
Revoke(token) ==
  /\ pc = "revoke"
  /\ live' \in {live, live \ {token}}
  /\ UNCHANGED <<logins, stored>>

RevokeNew ==
  /\ cmd = "browser" /\ Revoke(logins)
  /\ \/ logins \notin live' /\ Ends(IF dry THEN "ok" ELSE "storage_failed")
     \/ Ends(IF dry THEN "token_revoke_failed"
                    ELSE "credential_store_and_token_revoke_failed")

-----------------------------------------------------------------------------
(* Mistake: the local copy goes first. *)
FirstOfLogoutRemoves(s) == "remove"

(* The secret that is read at the start decides. *)
FirstOfLogout(s) == IF s \in Tokens THEN "revoke" ELSE "remove"

Logout ==
  /\ Begin("logout", FALSE, FirstOfLogout(stored))
  /\ UNCHANGED <<wait, logins, live, stored>>

RevokeStored ==
  /\ cmd = "logout" /\ \E token \in Tokens \cap {stored} : Revoke(token)
  /\ \/ live' \cap {stored} = {} /\ Goto("remove") /\ UNCHANGED wait
     \/ Ends("token_revoke_failed")

(* CredentialStore: a removal that fails may have been done. *)
RemoveStored ==
  /\ pc = "remove"
  /\ \/ stored' = None /\ Ends("ok")
     \/ stored' \in {stored, None} /\ Ends("failed")
  /\ UNCHANGED <<logins, live>>

(* A signal, which drops the login where it stands, or the process is killed. *)
Interrupted ==
  /\ pc # "idle"
  /\ \/ pc = "poll" /\ live' \in {live, live \cup {logins}} /\ UNCHANGED stored
     \/ pc # "poll" /\ UNCHANGED <<live, stored>>
  /\ Ends("authentication_interrupted") /\ UNCHANGED logins

Step == Sleep \/ Wake \/ Polled \/ Validate \/ Store \/ RevokeNew \/ RevokeStored \/ RemoveStored

Next == BrowserLogin \/ ServiceTokenLogin \/ Logout \/ Tick \/ Step \/ Interrupted

(* Each request has a timeout of 30 s. *)
Spec == Init /\ [][Next]_vars /\ WF_vars(Tick) /\ WF_vars(Step)

-----------------------------------------------------------------------------
(* Properties.                                                             *)

(* The service is never asked sooner than the interval it has asked for by  *)
(* then, though the last sleep is cut short, and never after the deadline. *)
PollsWhenAsked ==
  [][pc # "poll" /\ pc' = "poll" => since >= asked /\ left > 0]_vars

(* The wait for an approval ends, however often the service answers pending *)
(* or slow_down.                                                           *)
WaitEnds == pc = "loop" ~> pc \notin {"loop", "sleep", "poll"}

(* What a browser login reports is true of its token: success means stored *)
(* and valid, or revoked after a dry run; a failure of the store alone     *)
(* means that the token was revoked.                                       *)
ResultTellsTheToken ==
  [][cmd = "browser" =>
       /\ result' = "ok" => IF dry THEN logins \notin live' ELSE stored' = logins /\ logins \in live'
       /\ result' = "storage_failed" => logins \notin live']_vars

(* A logout never drops the only local copy of a token that is still valid: *)
(* it could not be revoked any more.                                       *)
LogoutKeepsWhatLives ==
  [][cmd = "logout" /\ stored' # stored => stored \notin live]_vars
=============================================================================
