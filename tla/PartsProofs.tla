----------------------------- MODULE PartsProofs -----------------------------
(***************************************************************************)
(* What the seven parts of MCParts promise, proved of every execution of  *)
(* one of them, for every value of the constants.  Each section has the    *)
(* inductive invariant of a part, a lemma that a step of PartsSpec is one *)
(* of the part or leaves its variables alone, and the theorems.            *)
(***************************************************************************)
EXTENDS MCParts, CredentialStoreProofs, Sequences, TLAPS

-----------------------------------------------------------------------------
(* NativeChild: a child process and the signals (app.rs). *)

(* Before the grace period nothing was sent but by the terminal itself, and *)
(* that Ctrl-C has yet to be seen.                                         *)
NativeInv ==
  /\ Native!TypeOK
  /\ n_asked <= n_sent
  /\ n_cancelled => n_arrived
  /\ n_arrived => n_sent >= 1
  /\ n_pc \in {"wait", "propagation", "reap"} /\ ~n_ctrlC => n_asked = 0
  /\ n_child = "killed" => n_pc = "ended"
  /\ Native!OkIsGraceful

(* A step of the whole is one of the child and its signals, or leaves them. *)
LEMMA NativeMoves ==
  ASSUME [PartsNext]_all
  PROVE  Native!Next \/ UNCHANGED native
  BY DEF PartsNext, all

(* NativeInv holds before the child is started. *)
LEMMA NativeBegins ==
  ASSUME PartsInit
  PROVE  NativeInv
  <1>1. Native!Init
    BY DEF PartsInit
  <1>2. n_asked \in 0..(2 * MaxSignals) /\ n_sent \in 0..MaxSignals
    BY <1>1, BoundsAssumption DEF Native!Init
  <1>3. (n_pc = "ended") = (n_result # "none")
    BY <1>1 DEF Native!Init
  <1>4. Native!TypeOK
    BY <1>1, <1>2, <1>3 DEF Native!Init, Native!TypeOK, Native!Results
  <1> QED
    BY <1>1, <1>4 DEF Native!Init, NativeInv, Native!OkIsGraceful

(* Every step of the child, its signals and its waiter keeps NativeInv. *)
LEMMA NativeKeeps ==
  ASSUME NativeInv, Native!Next \/ UNCHANGED native
  PROVE  NativeInv'
  <1> USE BoundsAssumption
      DEF NativeInv, Native!TypeOK, Native!OkIsGraceful, Native!Results, Native!signals,
          Native!Ends, Native!Foreground
  <1>1. CASE Native!CtrlC
    <2>1. n_asked' \in 0..(2 * MaxSignals) /\ n_sent' \in 0..MaxSignals /\ n_asked' <= n_sent'
      BY <1>1 DEF Native!CtrlC
    <2>2. ~n_ctrlC' => n_asked' = n_asked /\ ~n_ctrlC
      BY <1>1 DEF Native!CtrlC
    <2> QED
      BY <1>1, <2>1, <2>2 DEF Native!CtrlC
  <1>2. CASE Native!Sigterm
    BY <1>2 DEF Native!Sigterm
  <1>3. CASE Native!ChildEnds
    BY <1>3 DEF Native!ChildEnds
  <1>4. CASE Native!Cancel
    BY <1>4 DEF Native!Cancel
  <1>5. CASE Native!SeeCtrlC
    BY <1>5 DEF Native!SeeCtrlC
  <1>6. CASE Native!SeeCancelled
    BY <1>6 DEF Native!SeeCancelled
  <1>7. CASE Native!Forward
    BY <1>7 DEF Native!Forward
  <1>8. CASE Native!SeeEnd
    BY <1>8 DEF Native!SeeEnd, Native!ByStatus
  <1>9. CASE Native!OutputCloses
    BY <1>9 DEF Native!OutputCloses
  <1>10. CASE Native!Reap
    BY <1>10 DEF Native!Reap, Native!ByStatus
  <1>11. CASE Native!EndsInGrace
    BY <1>11 DEF Native!EndsInGrace
  <1>12. CASE Native!GraceExpires
    BY <1>12 DEF Native!GraceExpires
  <1>13. CASE Native!TimesOut
    BY <1>13 DEF Native!TimesOut
  <1>14. CASE UNCHANGED native
    BY <1>14 DEF native
  <1> QED
    BY <1>1, <1>2, <1>3, <1>4, <1>5, <1>6, <1>7, <1>8, <1>9, <1>10, <1>11, <1>12, <1>13, <1>14
       DEF Native!Next, Native!Step

(* NativeInv is an invariant. *)
LEMMA NativeInvariance == PartsSpec => []NativeInv
  <1>1. PartsInit => NativeInv
    BY NativeBegins
  <1>2. NativeInv /\ [PartsNext]_all => NativeInv'
    BY NativeMoves, NativeKeeps
  <1> QED
    BY <1>1, <1>2, PTL DEF PartsSpec

(* app.rs: the child is asked to stop at most once for each signal, by the *)
(* terminal and by repobox together.                                       *)
THEOREM ChildAskedOncePerSignal == PartsSpec => []AskedOncePerSignal
  <1>1. NativeInv => AskedOncePerSignal
    BY DEF NativeInv, AskedOncePerSignal, Native!AskedOncePerSignal
  <1> QED
    BY <1>1, NativeInvariance, PTL

(* app.rs, wait_native_runtime_child: a run that says ok leaves no child and *)
(* has killed none, whatever the order of signals and ends.                  *)
THEOREM OkAlwaysGraceful == PartsSpec => []OkIsGraceful
  <1>1. NativeInv => OkIsGraceful
    BY DEF NativeInv, OkIsGraceful, Native!OkIsGraceful
  <1> QED
    BY <1>1, NativeInvariance, PTL

-----------------------------------------------------------------------------
(* ProviderRequest: one request and its retries (client.rs). *)

(* What the service did is what its answer says: a refused request changed     *)
(* nothing, an accepted one was carried out, and a deletion that finds nothing *)
(* after one that got lost is the retry.                                       *)
RequestInv ==
  /\ Request!TypeOK
  /\ IF q_phase = "send" THEN q_tries <= MaxRetries ELSE q_tries >= 1
  /\ q_method = "delete" =>
       /\ q_deleted => q_resource = 0
       /\ q_deleted /\ q_phase = "send" => q_tries >= 1
       /\ q_deleted /\ q_answer = "not_found" => q_tries > 1
       /\ q_answer \in {"success", "not_found", "broken"} => q_resource = 0
  /\ q_method = "post" =>
       /\ q_phase = "send" => q_created = 0 /\ q_tries = 0
       /\ q_answer = "refused" => q_created = 0
       /\ q_answer = "success" => q_created = 1
  /\ q_phase = "ended" => q_result = Request!Verdict(q_method, q_answer, q_tries)

(* A step of the whole is one of the request, or leaves it alone. *)
LEMMA RequestMoves ==
  ASSUME [PartsNext]_all
  PROVE  Request!Next \/ UNCHANGED request
  BY DEF PartsNext, all

(* RequestInv holds before the request is sent. *)
LEMMA RequestBegins ==
  ASSUME PartsInit
  PROVE  RequestInv
  <1>1. Request!Init
    BY DEF PartsInit
  <1>2. q_tries \in 0..(MaxRetries + 1) /\ q_tries <= MaxRetries
    BY <1>1, BoundsAssumption DEF Request!Init
  <1>3. q_resource \in 0..1 /\ q_created \in 0..1
    BY <1>1 DEF Request!Init
  <1>4. Request!TypeOK
    BY <1>1, <1>2, <1>3 DEF Request!Init, Request!TypeOK
  <1> QED
    BY <1>1, <1>2, <1>4 DEF Request!Init, RequestInv

(* Every attempt, answer and retry keeps RequestInv. *)
LEMMA RequestKeeps ==
  ASSUME RequestInv, Request!Next \/ UNCHANGED request
  PROVE  RequestInv'
  <1> USE BoundsAssumption
      DEF RequestInv, Request!TypeOK, Request!Overloaded, Request!Lost, Request!Reset
  <1>1. ASSUME NEW away \in {"refused", Request!Overloaded, Request!Lost, Request!Reset},
               Request!Turned(away)
        PROVE  RequestInv'
    <2>1. /\ q_phase' = "answered" /\ q_answer' = away /\ q_tries' = q_tries + 1
          /\ UNCHANGED <<q_method, q_resource, q_created, q_deleted, q_result>>
      BY <1>1 DEF Request!Turned
    <2>2. q_phase = "send" /\ q_tries' \in 1..(MaxRetries + 1)
      BY <1>1, <2>1 DEF Request!Turned
    <2> QED
      BY <1>1, <2>1, <2>2
  <1>2. CASE Request!Served
    <2>1. CASE q_method = "post"
      BY <1>2, <2>1 DEF Request!Served
    <2>2. CASE q_method = "delete"
      BY <1>2, <2>2 DEF Request!Served
    <2>3. CASE q_method = "get"
      BY <1>2, <2>3 DEF Request!Served
    <2> QED
      BY <2>1, <2>2, <2>3
  <1>3. CASE Request!Arrives
    BY <1>3 DEF Request!Arrives
  <1>4. CASE Request!Retry
    BY <1>4 DEF Request!Retry, Request!Retries, Request!Retryable
  <1>5. CASE Request!Return
    BY <1>5 DEF Request!Return, Request!Verdict
  <1>6. CASE UNCHANGED request
    BY <1>6 DEF request, Request!Verdict
  <1> QED
    BY <1>1, <1>2, <1>3, <1>4, <1>5, <1>6 DEF Request!Next

(* RequestInv is an invariant. *)
LEMMA RequestInvariance == PartsSpec => []RequestInv
  <1>1. PartsInit => RequestInv
    BY RequestBegins
  <1>2. RequestInv /\ [PartsNext]_all => RequestInv'
    BY RequestMoves, RequestKeeps
  <1> QED
    BY <1>1, <1>2, PTL DEF PartsSpec

(* client.rs, delete: what the call itself has deleted is never reported as    *)
(* missing by the retry that finds nothing, and success leaves nothing behind. *)
THEOREM DeletionAlwaysIdempotent == PartsSpec => []DeletionIsIdempotent
  <1>1. RequestInv => DeletionIsIdempotent
    BY DEF RequestInv, Request!TypeOK, Request!Verdict, DeletionIsIdempotent,
           Request!DeletionIsIdempotent, Request!Lost, Request!Reset, Request!Overloaded
  <1> QED
    BY <1>1, RequestInvariance, PTL

(* client.rs, request: a creation that is refused has created nothing, and one *)
(* that reports success has created one resource: a POST is never repeated.    *)
THEOREM RefusedNeverCreated == PartsSpec => []RefusedMeansNotCreated
  <1>1. RequestInv => RefusedMeansNotCreated
    BY DEF RequestInv, Request!TypeOK, Request!Verdict, RefusedMeansNotCreated,
           Request!RefusedMeansNotCreated, Request!Lost, Request!Reset, Request!Overloaded
  <1> QED
    BY <1>1, RequestInvariance, PTL

-----------------------------------------------------------------------------
(* DeviceLogin: login and logout (auth.rs). *)

(* The sleep before a poll ends at the interval or at the deadline; a token *)
(* that is about to be stored or revoked lives, one whose local copy is    *)
(* about to be removed does not.                                           *)
LoginInv ==
  /\ Login!TypeOK
  /\ l_interval = l_asked
  /\ l_pc = "loop" => l_since = 0
  /\ l_pc = "sleep" => l_sleep <= l_left /\ (l_sleep = l_left \/ l_since + l_sleep >= l_interval)
  /\ l_pc = "poll" => l_sleep = 0
  /\ l_cmd # "none" => l_result = "none"
  /\ l_cmd = "browser" =>
       /\ l_logins >= 1 /\ l_pc # "remove"
       /\ l_pc \in {"validate", "store", "revoke"} => l_logins \in l_live
  /\ l_cmd = "service_token" => l_pc \in {"validate", "store"}
  /\ l_cmd = "logout" => l_pc \in {"revoke", "remove"}
  /\ l_pc = "store" => ~l_dry
  /\ l_pc = "remove" => l_stored \notin l_live

(* A step of the whole is one of the login, or leaves it alone. *)
LEMMA LoginMoves ==
  ASSUME [PartsNext]_all
  PROVE  Login!Next \/ UNCHANGED login
  BY DEF PartsNext, all

(* LoginInv holds before the first command. *)
LEMMA LoginBegins ==
  ASSUME PartsInit
  PROVE  LoginInv
  <1>1. Login!Init
    BY DEF PartsInit
  <1>2. /\ l_left \in 0..Expiry /\ l_sleep \in 0..Login!Cap /\ l_since \in 0..Login!Cap
        /\ l_interval \in 0..Login!Cap /\ l_asked \in 0..Login!Cap
        /\ l_logins \in 0..MaxLogins
    BY <1>1, BoundsAssumption DEF Login!Init, Login!Cap
  <1>3. Login!TypeOK
    BY <1>1, <1>2 DEF Login!Init, Login!TypeOK
  <1> QED
    BY <1>1, <1>3 DEF Login!Init, LoginInv

(* The results a command may end with. *)
LoginResults ==
  {"none", "ok", "failed", "expired", "authentication_interrupted", "storage_failed",
   "credential_store_and_token_revoke_failed", "token_revoke_failed"}

(* A command that ends leaves the clocks at zero. *)
LEMMA LoginEnds ==
  ASSUME LoginInv, NEW code \in LoginResults, Login!Ends(code),
         l_logins' = l_logins, l_live' \subseteq 1..l_logins,
         l_stored' \in Login!Tokens \cup {Login!ServiceToken, Login!None}
  PROVE  LoginInv'
  <1>1. /\ l_left' \in 0..Expiry /\ l_sleep' \in 0..Login!Cap /\ l_since' \in 0..Login!Cap
        /\ l_interval' \in 0..Login!Cap /\ l_asked' \in 0..Login!Cap
        /\ l_interval' = l_asked'
    BY BoundsAssumption DEF Login!Ends, Login!Cap
  <1>2. /\ l_cmd' = "none" /\ l_dry' = FALSE /\ l_pc' = "idle" /\ l_result' = code
        /\ l_logins' \in 0..MaxLogins
    BY DEF Login!Ends, LoginInv, Login!TypeOK
  <1> QED
    BY <1>1, <1>2 DEF LoginInv, Login!TypeOK, LoginResults

(* One that goes on to its next request leaves the clocks where they stand. *)
LEMMA LoginGoesOn ==
  ASSUME LoginInv, NEW label, Login!Goto(label), UNCHANGED Login!wait,
         label \in {"validate", "store", "revoke", "remove"}, l_pc # "idle",
         l_logins' = l_logins, l_live' \subseteq 1..l_logins,
         l_stored' \in Login!Tokens \cup {Login!ServiceToken, Login!None},
         l_cmd = "browser" => label # "remove" /\ l_logins \in l_live',
         l_cmd = "service_token" => label \in {"validate", "store"},
         l_cmd = "logout" => label \in {"revoke", "remove"},
         label = "store" => ~l_dry,
         label = "remove" => l_stored' \notin l_live'
  PROVE  LoginInv'
  <1>1. /\ l_pc' = label /\ l_cmd' = l_cmd /\ l_dry' = l_dry /\ l_result' = l_result
        /\ l_left' = l_left /\ l_sleep' = l_sleep /\ l_since' = l_since
        /\ l_interval' = l_interval /\ l_asked' = l_asked
    BY DEF Login!Goto, Login!wait
  <1>2. Login!TypeOK'
    BY <1>1 DEF LoginInv, Login!TypeOK
  <1> QED
    BY <1>1, <1>2 DEF LoginInv, Login!TypeOK

(* Every step of a login or a logout keeps LoginInv. *)
LEMMA LoginKeeps ==
  ASSUME LoginInv, Login!Next \/ UNCHANGED login
  PROVE  LoginInv'
  <1> USE BoundsAssumption
  <1>1. CASE Login!BrowserLogin
    <2>1. PICK i \in Intervals : l_interval' = i /\ l_asked' = i
      BY <1>1 DEF Login!BrowserLogin
    <2>2. /\ l_cmd' = "browser" /\ l_dry' \in BOOLEAN /\ l_pc' = "loop" /\ l_result' = "none"
          /\ l_since' = 0 /\ l_left' = Expiry /\ l_sleep' = 0
          /\ l_logins < MaxLogins /\ l_logins' = l_logins + 1
          /\ l_live' = l_live /\ l_stored' = l_stored
      BY <1>1 DEF Login!BrowserLogin, Login!Begin
    <2>3. /\ l_left' \in 0..Expiry /\ l_sleep' \in 0..Login!Cap /\ l_since' \in 0..Login!Cap
          /\ l_interval' \in 0..Login!Cap /\ l_asked' \in 0..Login!Cap
          /\ l_logins' \in 0..MaxLogins /\ l_logins' >= 1 /\ l_live' \subseteq 1..l_logins'
      BY <2>1, <2>2 DEF Login!Cap, LoginInv, Login!TypeOK
    <2> QED
      BY <2>1, <2>2, <2>3 DEF LoginInv, Login!TypeOK
  <1>2. CASE Login!ServiceTokenLogin
    BY <1>2 DEF LoginInv, Login!TypeOK, Login!ServiceTokenLogin, Login!Begin, Login!wait
  <1>3. CASE Login!Logout
    <2>1. /\ l_cmd' = "logout" /\ l_dry' = FALSE /\ l_result' = "none"
          /\ UNCHANGED <<l_left, l_sleep, l_interval, l_asked, l_since, l_logins, l_live,
                         l_stored>>
      BY <1>3 DEF Login!Logout, Login!Begin, Login!wait
    <2>2. \/ l_pc' = "revoke"
          \/ l_pc' = "remove" /\ l_stored \notin Login!Tokens
      BY <1>3 DEF Login!Logout, Login!Begin, Login!FirstOfLogout
    <2>3. l_live \subseteq Login!Tokens
      BY DEF LoginInv, Login!TypeOK, Login!Tokens
    <2> QED
      BY <2>1, <2>2, <2>3 DEF LoginInv, Login!TypeOK
  <1>4. CASE Login!Tick
    <2>1. /\ l_pc \in {"sleep", "poll"} /\ (l_pc = "sleep" => l_sleep > 0)
          /\ l_left' = (IF l_left > 0 THEN l_left - 1 ELSE 0)
          /\ l_sleep' = (IF l_sleep > 0 THEN l_sleep - 1 ELSE 0)
          /\ l_since' = (IF l_since < Login!Cap THEN l_since + 1 ELSE Login!Cap)
          /\ UNCHANGED <<l_cmd, l_dry, l_pc, l_interval, l_asked, l_logins, l_live, l_stored,
                         l_result>>
      BY <1>4 DEF Login!Tick
    <2>2. l_left' \in 0..Expiry /\ l_sleep' \in 0..Login!Cap /\ l_since' \in 0..Login!Cap
      BY <2>1 DEF LoginInv, Login!TypeOK, Login!Cap
    <2>3. l_pc = "sleep" =>
            l_sleep' <= l_left' /\ (l_sleep' = l_left' \/ l_since' + l_sleep' >= l_interval')
      BY <2>1 DEF LoginInv, Login!TypeOK, Login!Cap
    <2>4. l_pc = "poll" => l_sleep' = 0
      BY <2>1 DEF LoginInv
    <2> QED
      BY <2>1, <2>2, <2>3, <2>4 DEF LoginInv, Login!TypeOK
  <1>5. CASE Login!Sleep
    <2>1. /\ l_pc = "loop" /\ l_pc' = "sleep"
          /\ l_sleep' = (IF l_interval < l_left THEN l_interval ELSE l_left)
          /\ UNCHANGED <<l_cmd, l_dry, l_result, l_left, l_interval, l_asked, l_since,
                         l_logins, l_live, l_stored>>
      BY <1>5 DEF Login!Sleep, Login!Goto
    <2>2. /\ l_sleep' \in 0..Login!Cap /\ l_sleep' <= l_left'
          /\ l_sleep' = l_left' \/ l_since' + l_sleep' >= l_interval'
      BY <2>1 DEF LoginInv, Login!TypeOK, Login!Cap
    <2> QED
      BY <2>1, <2>2 DEF LoginInv, Login!TypeOK
  <1>6. CASE Login!Wake
    <2>1. CASE Login!Ends("expired") /\ UNCHANGED <<l_logins, l_live, l_stored>>
      BY <2>1, LoginEnds DEF LoginResults, LoginInv, Login!TypeOK
    <2>2. CASE l_since' = 0 /\ Login!Goto("poll")
               /\ UNCHANGED <<l_left, l_sleep, l_interval, l_asked, l_logins, l_live, l_stored>>
      <3>1. l_pc = "sleep" /\ l_sleep = 0 /\ l_since' \in 0..Login!Cap
        BY <1>6, <2>2 DEF Login!Wake, Login!Cap
      <3> QED
        BY <2>2, <3>1 DEF Login!Goto, LoginInv, Login!TypeOK
    <2> QED
      BY <1>6, <2>1, <2>2 DEF Login!Wake
  <1>7. CASE Login!Polled
    <2>1. /\ l_pc = "poll" /\ l_cmd = "browser" /\ l_logins' = l_logins /\ l_stored' = l_stored
          /\ l_live \cup {l_logins} \subseteq 1..l_logins
      BY <1>7 DEF Login!Polled, LoginInv, Login!TypeOK
    <2>2. CASE l_live' = l_live \cup {l_logins} /\ Login!Goto("validate") /\ UNCHANGED Login!wait
      BY <2>1, <2>2, LoginGoesOn DEF LoginInv, Login!TypeOK
    <2>3. CASE l_live' \in {l_live, l_live \cup {l_logins}} /\ Login!Ends("failed")
      BY <2>1, <2>3, LoginEnds DEF LoginResults, LoginInv, Login!TypeOK
    <2>4. CASE /\ Login!Goto("loop") /\ l_since' = 0 /\ UNCHANGED l_live
               /\ l_left' = l_left /\ l_sleep' = l_sleep
               /\ \/ UNCHANGED <<l_interval, l_asked>>
                  \/ /\ l_asked' = (IF l_asked < Login!Cap THEN l_asked + 1 ELSE l_asked)
                     /\ l_interval' = Login!Slower(l_interval)
      <3>1. /\ l_interval' = l_asked' /\ l_asked' \in 0..Login!Cap /\ l_since' \in 0..Login!Cap
        BY <2>4 DEF LoginInv, Login!TypeOK, Login!Cap, Login!Slower
      <3> QED
        BY <2>1, <2>4, <3>1 DEF Login!Goto, LoginInv, Login!TypeOK
    <2> QED
      BY <1>7, <2>2, <2>3, <2>4 DEF Login!Polled
  <1>8. CASE Login!Validate
    <2>1. l_pc = "validate" /\ UNCHANGED <<l_logins, l_live, l_stored>>
      BY <1>8 DEF Login!Validate
    <2>3. \A code \in {"ok", "failed"} : Login!Ends(code) => LoginInv'
      BY <2>1, LoginEnds DEF LoginResults, LoginInv, Login!TypeOK
    <2>4. CASE l_dry /\ l_cmd = "browser" /\ Login!Goto("revoke") /\ UNCHANGED Login!wait
      BY <2>1, <2>4, LoginGoesOn DEF LoginInv, Login!TypeOK
    <2>5. CASE ~l_dry /\ Login!Goto("store") /\ UNCHANGED Login!wait
      BY <2>1, <2>5, LoginGoesOn DEF LoginInv, Login!TypeOK
    <2> QED
      BY <1>8, <2>3, <2>4, <2>5 DEF Login!Validate
  <1>9. CASE Login!Store
    <2>1. /\ l_pc = "store" /\ UNCHANGED <<l_logins, l_live>>
          /\ l_stored' \in Login!Tokens \cup {Login!ServiceToken, Login!None}
      BY <1>9 DEF Login!Store, LoginInv, Login!TypeOK, Login!Tokens
    <2>2. \A code \in {"ok", "storage_failed"} : Login!Ends(code) => LoginInv'
      BY <2>1, LoginEnds DEF LoginResults, LoginInv, Login!TypeOK
    <2>3. CASE l_cmd = "browser" /\ Login!Goto("revoke") /\ UNCHANGED Login!wait
      BY <2>1, <2>3, LoginGoesOn DEF LoginInv, Login!TypeOK
    <2> QED
      BY <1>9, <2>2, <2>3 DEF Login!Store, Login!StoreFails
  <1>10. CASE Login!RevokeNew
    <2>1. /\ l_live' \subseteq 1..l_logins /\ UNCHANGED <<l_logins, l_stored>>
      BY <1>10 DEF Login!RevokeNew, Login!Revoke, LoginInv, Login!TypeOK
    <2>2. \A code \in LoginResults : Login!Ends(code) => LoginInv'
      BY <2>1, LoginEnds DEF LoginInv, Login!TypeOK
    <2> QED
      BY <1>10, <2>2 DEF Login!RevokeNew, LoginResults
  <1>11. CASE Login!RevokeStored
    <2>1. /\ l_live' \subseteq 1..l_logins /\ UNCHANGED <<l_logins, l_stored>>
          /\ l_pc = "revoke" /\ l_cmd = "logout"
      BY <1>11 DEF Login!RevokeStored, Login!Revoke, LoginInv, Login!TypeOK
    <2>2. CASE Login!Ends("token_revoke_failed")
      BY <2>1, <2>2, LoginEnds DEF LoginResults, LoginInv, Login!TypeOK
    <2>3. CASE l_live' \cap {l_stored} = {} /\ Login!Goto("remove") /\ UNCHANGED Login!wait
      BY <2>1, <2>3, LoginGoesOn DEF LoginInv, Login!TypeOK
    <2> QED
      BY <1>11, <2>2, <2>3 DEF Login!RevokeStored
  <1>12. CASE Login!RemoveStored
    <2>1. /\ UNCHANGED <<l_logins, l_live>>
          /\ l_stored' \in Login!Tokens \cup {Login!ServiceToken, Login!None}
      BY <1>12 DEF Login!RemoveStored, LoginInv, Login!TypeOK
    <2>2. \A code \in {"ok", "failed"} : Login!Ends(code) => LoginInv'
      BY <2>1, LoginEnds DEF LoginResults, LoginInv, Login!TypeOK
    <2> QED
      BY <1>12, <2>2 DEF Login!RemoveStored
  <1>13. CASE Login!Interrupted
    <2>1. l_pc = "poll" => l_logins \in 1..l_logins
      BY DEF LoginInv, Login!TypeOK
    <2>2. l_live' \subseteq 1..l_logins /\ UNCHANGED <<l_logins, l_stored>>
      BY <1>13, <2>1 DEF Login!Interrupted, LoginInv, Login!TypeOK
    <2> QED
      BY <1>13, <2>2, LoginEnds DEF Login!Interrupted, LoginResults, LoginInv, Login!TypeOK
  <1>14. CASE UNCHANGED login
    BY <1>14 DEF login, LoginInv, Login!TypeOK
  <1> QED
    BY <1>1, <1>2, <1>3, <1>4, <1>5, <1>6, <1>7, <1>8, <1>9, <1>10, <1>11, <1>12, <1>13, <1>14
       DEF Login!Next, Login!Step

(* LoginInv is an invariant. *)
LEMMA LoginInvariance == PartsSpec => []LoginInv
  <1>1. PartsInit => LoginInv
    BY LoginBegins
  <1>2. LoginInv /\ [PartsNext]_all => LoginInv'
    BY LoginMoves, LoginKeeps
  <1> QED
    BY <1>1, <1>2, PTL DEF PartsSpec

(* auth.rs: no poll comes before the interval the service has asked for, *)
(* or after the deadline.                                                *)
THEOREM PollsAlwaysWhenAsked == PartsSpec => PollsWhenAsked
  <1>1. LoginInv /\ [PartsNext]_all
          => [l_pc # "poll" /\ l_pc' = "poll" => l_since >= l_asked /\ l_left > 0]_(Login!vars)
    <2> SUFFICES ASSUME LoginInv, [PartsNext]_all, l_pc # "poll", l_pc' = "poll"
                 PROVE  l_since >= l_asked /\ l_left > 0
      OBVIOUS
    <2>1. Login!Wake
      BY LoginMoves
         DEF Login!Next, Login!Step, login, Login!BrowserLogin, Login!ServiceTokenLogin,
             Login!Logout, Login!Begin, Login!FirstOfLogout, Login!Tick, Login!Sleep,
             Login!Polled, Login!Validate, Login!Store, Login!StoreFails, Login!RevokeNew,
             Login!RevokeStored, Login!RemoveStored, Login!Interrupted, Login!Goto, Login!Ends
    <2> QED
      BY <2>1, BoundsAssumption
         DEF Login!Wake, Login!Ends, Login!Expired, LoginInv, Login!TypeOK, Login!Cap
  <1> QED
    BY <1>1, LoginInvariance, PTL DEF PartsSpec, PollsWhenAsked, Login!PollsWhenAsked

(* app.rs, finish_auth_login: success means that the token is stored and lives  *)
(* (revoked, after a dry run), a failure of the store alone that it is revoked. *)
THEOREM ResultAlwaysTellsTheToken == PartsSpec => ResultTellsTheToken
  <1>1. LoginInv /\ [PartsNext]_all
          => [l_cmd = "browser" =>
                /\ l_result' = "ok" => IF l_dry THEN l_logins \notin l_live'
                                       ELSE l_stored' = l_logins /\ l_logins \in l_live'
                /\ l_result' = "storage_failed" => l_logins \notin l_live']_(Login!vars)
    <2> SUFFICES ASSUME LoginInv, [PartsNext]_all, l_cmd = "browser",
                        l_result' \in {"ok", "storage_failed"}
                 PROVE  /\ l_result' = "ok" => IF l_dry THEN l_logins \notin l_live'
                                               ELSE l_stored' = l_logins /\ l_logins \in l_live'
                        /\ l_result' = "storage_failed" => l_logins \notin l_live'
      OBVIOUS
    <2>1. l_result = "none" /\ l_pc # "remove"
      BY DEF LoginInv
    <2>2. Login!Validate \/ Login!Store \/ Login!RevokeNew
      BY <2>1, LoginMoves
         DEF Login!Next, Login!Step, login, Login!BrowserLogin, Login!ServiceTokenLogin,
             Login!Logout, Login!Begin, Login!Tick, Login!Sleep, Login!Wake, Login!Polled,
             Login!RevokeStored, Login!RemoveStored, Login!Interrupted, Login!Goto, Login!Ends
    <2>3. CASE Login!Validate
      BY <2>1, <2>3 DEF Login!Validate, Login!Goto, Login!Ends
    <2>4. CASE Login!Store
      BY <2>1, <2>4 DEF Login!Store, Login!StoreFails, Login!Goto, Login!Ends, LoginInv
    <2>5. CASE Login!RevokeNew
      BY <2>1, <2>5 DEF Login!RevokeNew, Login!Ends
    <2> QED
      BY <2>2, <2>3, <2>4, <2>5
  <1> QED
    BY <1>1, LoginInvariance, PTL DEF PartsSpec, ResultTellsTheToken, Login!ResultTellsTheToken

(* app.rs: a logout removes the local copy of a token only once that token *)
(* is revoked.                                                             *)
THEOREM LogoutAlwaysKeepsWhatLives == PartsSpec => LogoutKeepsWhatLives
  <1>1. LoginInv /\ [PartsNext]_all
          => [l_cmd = "logout" /\ l_stored' # l_stored => l_stored \notin l_live]_(Login!vars)
    <2> SUFFICES ASSUME LoginInv, [PartsNext]_all, l_cmd = "logout", l_stored' # l_stored
                 PROVE  l_stored \notin l_live
      OBVIOUS
    <2>1. Login!RemoveStored
      BY LoginMoves
         DEF Login!Next, Login!Step, login, Login!BrowserLogin, Login!ServiceTokenLogin,
             Login!Logout, Login!Begin, Login!Tick, Login!Sleep, Login!Wake, Login!Polled,
             Login!Validate, Login!Store, Login!RevokeNew, Login!Revoke, Login!RevokeStored,
             Login!Interrupted, LoginInv
    <2> QED
      BY <2>1 DEF Login!RemoveStored, LoginInv
  <1> QED
    BY <1>1, LoginInvariance, PTL
       DEF PartsSpec, LogoutKeepsWhatLives, Login!LogoutKeepsWhatLives

-----------------------------------------------------------------------------
(* FrameKernel: the frames of the terminal (kernel.rs). *)

(* A drawing needs a change since the last one, which bounds the flushes; a *)
(* frame is acknowledged after it was flushed.                             *)
FramesInv ==
  /\ f_changes \in 0..MaxChanges /\ f_shown \in 0..MaxChanges /\ f_drawing \in 0..MaxChanges
  /\ f_dirty \in BOOLEAN /\ f_inFlight \in BOOLEAN /\ f_immediate \in BOOLEAN
  /\ f_due \in BOOLEAN
  /\ f_ui \in {"loop", "flush", "leave", "ended"} /\ f_toFlush \in 0..FlushesPerDraw
  /\ f_ui = "loop" => f_toFlush = 0
  /\ f_sequence \in Nat /\ f_lastSeq \in 0..f_sequence
  /\ f_sequence + f_toFlush + (IF f_dirty /\ f_ui = "loop" THEN FlushesPerDraw ELSE 0)
       <= 1 + FlushesPerDraw * (f_changes + 1)
  /\ f_channel \in Seq(Frames!Messages) /\ Len(f_channel) <= 1
  /\ \A i \in 1..Len(f_channel) :
       f_channel[i] = Frames!Shutdown \/ f_channel[i].seq \in 1..f_sequence
  /\ f_writer \in {"ready", "writing", "gone"} /\ f_message \in Frames!Messages
  /\ f_writer = "writing" => f_message.seq \in 1..f_sequence
  /\ f_acks \in Seq(Nat) /\ \A i \in 1..Len(f_acks) : f_acks[i] \in 1..f_sequence

(* A step of the whole is one of the kernel or its writer, or leaves them alone. *)
LEMMA FramesMoves ==
  ASSUME [PartsNext]_all
  PROVE  Frames!Next \/ UNCHANGED frames
  BY DEF PartsNext, all

(* The numbers of all drawings are among those of the messages. *)
LEMMA FlushesBounded ==
  ASSUME FramesInv
  PROVE  f_sequence + f_toFlush <= FlushesPerDraw * (MaxChanges + 1) + 1
  <1>1. FlushesPerDraw * (f_changes + 1) <= FlushesPerDraw * (MaxChanges + 1)
    BY BoundsAssumption DEF FramesInv
  <1>2. FlushesPerDraw * (f_changes + 1) \in Nat /\ FlushesPerDraw * (MaxChanges + 1) \in Nat
    BY BoundsAssumption DEF FramesInv
  <1> QED
    BY <1>1, <1>2, BoundsAssumption DEF FramesInv

(* FramesInv holds once the first frame is under way. *)
LEMMA FramesBegins ==
  ASSUME PartsInit
  PROVE  FramesInv
  <1>1. Frames!Init
    BY DEF PartsInit
  <1>2. FlushesPerDraw * (MaxChanges + 1) + 1 \in Nat /\ 1 <= FlushesPerDraw * (MaxChanges + 1) + 1
        /\ FlushesPerDraw * (0 + 1) = FlushesPerDraw
    BY BoundsAssumption
  <1>3. [seq |-> 1, shows |-> 0] \in Frames!Messages /\ Frames!Shutdown \in Frames!Messages
    BY <1>2, BoundsAssumption DEF Frames!Messages, Frames!Shutdown
  <1>4. /\ f_channel \in Seq(Frames!Messages) /\ Len(f_channel) = 1 /\ f_channel[1].seq = 1
    BY <1>1, <1>3 DEF Frames!Init
  <1>5. f_acks \in Seq(Nat) /\ Len(f_acks) = 0
    BY <1>1 DEF Frames!Init
  <1>6. /\ f_changes \in 0..MaxChanges /\ f_shown \in 0..MaxChanges /\ f_drawing \in 0..MaxChanges
        /\ f_toFlush \in 0..FlushesPerDraw /\ f_sequence \in Nat /\ f_lastSeq \in 0..f_sequence
    BY <1>1, BoundsAssumption DEF Frames!Init
  <1>7. f_sequence + f_toFlush + (IF f_dirty /\ f_ui = "loop" THEN FlushesPerDraw ELSE 0)
          <= 1 + FlushesPerDraw * (f_changes + 1)
    BY <1>1, <1>2, BoundsAssumption DEF Frames!Init
  <1>8. \A i \in 1..Len(f_channel) : f_channel[i].seq \in 1..f_sequence
    BY <1>1, <1>4 DEF Frames!Init
  <1> QED
    BY <1>1, <1>3, <1>4, <1>5, <1>6, <1>7, <1>8 DEF Frames!Init, FramesInv

(* Every step of the task and of the writer thread keeps FramesInv. *)
LEMMA FramesKeeps ==
  ASSUME FramesInv, Frames!Next \/ UNCHANGED frames
  PROVE  FramesInv'
  <1> USE BoundsAssumption DEF FramesInv, Frames!presenter, Frames!drawn, Frames!thread
  <1>1. ASSUME NEW atOnce \in BOOLEAN, Frames!Change(atOnce)
        PROVE  FramesInv'
    <2>1. FlushesPerDraw * (f_changes' + 1) = FlushesPerDraw * (f_changes + 1) + FlushesPerDraw
          /\ FlushesPerDraw * (f_changes + 1) \in Nat
      BY <1>1 DEF Frames!Change
    <2> QED
      BY <1>1, <2>1 DEF Frames!Change, Frames!Dirty
  <1>2. CASE Frames!Elapse
    BY <1>2 DEF Frames!Elapse
  <1>3. CASE Frames!Paint
    BY <1>3 DEF Frames!Paint, Frames!CanPaint
  <1>4. CASE Frames!Flush
    <2>1. [seq |-> f_sequence + 1, shows |-> f_drawing] \in Frames!Messages
      BY <1>4, FlushesBounded DEF Frames!Flush, Frames!Messages
    <2> QED
      BY <1>4, <2>1 DEF Frames!Flush
  <1>5. CASE Frames!FlushFails
    BY <1>5 DEF Frames!FlushFails
  <1>6. CASE Frames!Painted
    BY <1>6 DEF Frames!Painted
  <1>7. CASE Frames!Acknowledge
    BY <1>7 DEF Frames!Acknowledge, Frames!Counts
  <1>8. CASE Frames!Closed
    BY <1>8 DEF Frames!Closed
  <1>9. CASE Frames!Quit
    BY <1>9 DEF Frames!Quit
  <1>10. CASE Frames!Drop
    <2>1. Frames!Shutdown \in Frames!Messages
      BY DEF Frames!Shutdown, Frames!Messages
    <2>2. /\ f_channel' \in Seq(Frames!Messages) /\ Len(f_channel') <= 1
          /\ \A i \in 1..Len(f_channel') : f_channel'[i] = Frames!Shutdown
      BY <1>10, <2>1 DEF Frames!Drop
    <2> QED
      BY <1>10, <2>2 DEF Frames!Drop
  <1>11. CASE Frames!Receive
    BY <1>11 DEF Frames!Receive
  <1>12. CASE Frames!Write
    <2>1. f_message.shows \in 0..MaxChanges /\ f_message.seq \in 1..f_sequence
      BY <1>12 DEF Frames!Write, Frames!Messages
    <2>2. CASE f_acks' = Append(f_acks, f_message.seq)
      <3>1. f_acks' \in Seq(Nat) /\ Len(f_acks') = Len(f_acks) + 1
        BY <2>1, <2>2
      <3>2. \A i \in 1..Len(f_acks') : f_acks'[i] \in 1..f_sequence
        <4> SUFFICES ASSUME NEW i \in 1..Len(f_acks')
                     PROVE  f_acks'[i] \in 1..f_sequence
          OBVIOUS
        <4>1. CASE i \in 1..Len(f_acks)
          BY <2>2, <4>1
        <4>2. CASE i = Len(f_acks) + 1
          BY <2>1, <2>2, <4>2
        <4> QED
          BY <3>1, <4>1, <4>2
      <3> QED
        BY <1>12, <2>1, <3>1, <3>2 DEF Frames!Write
    <2>3. CASE UNCHANGED f_acks
      BY <1>12, <2>1, <2>3 DEF Frames!Write
    <2> QED
      BY <1>12, <2>2, <2>3 DEF Frames!Write
  <1>13. CASE Frames!WriteFails
    BY <1>13 DEF Frames!WriteFails
  <1>14. CASE UNCHANGED frames
    BY <1>14 DEF frames
  <1> QED
    BY <1>1, <1>2, <1>3, <1>4, <1>5, <1>6, <1>7, <1>8, <1>9, <1>10, <1>11, <1>12, <1>13, <1>14
       DEF Frames!Next, Frames!Task, Frames!Thread

(* FramesInv is an invariant. *)
LEMMA FramesInvariance == PartsSpec => []FramesInv
  <1>1. PartsInit => FramesInv
    BY FramesBegins
  <1>2. FramesInv /\ [PartsNext]_all => FramesInv'
    BY FramesMoves, FramesKeeps
  <1> QED
    BY <1>1, <1>2, PTL DEF PartsSpec

(* FramesInv has the types in it. *)
LEMMA FramesTyped ==
  ASSUME FramesInv
  PROVE  Frames!TypeOK
  <1>1. \A i \in 1..Len(f_channel) : f_channel[i] \in Frames!Messages
    BY DEF FramesInv
  <1>2. f_lastSeq <= f_sequence /\ \A i \in 1..Len(f_acks) : f_acks[i] \in 1..f_sequence
    BY DEF FramesInv
  <1> QED
    BY <1>1, <1>2 DEF FramesInv, Frames!TypeOK

-----------------------------------------------------------------------------
(* LocalRuntime: services and refreshes (app.rs). *)

(* What a command may be doing. *)
Placed(p) ==
  /\ (r_cmd[p] = "none") <=> (r_at[p] = "idle")
  /\ r_at[p] \in {"guard", "ensure", "read", "logs", "stream", "down"} => r_cmd[p] = "run"
  /\ r_at[p] \in {"status", "open", "work", "restart_read"} => r_cmd[p] \in Runtime!Refreshing
  /\ r_at[p] = "stop" => r_cmd[p] # "run"

(* What it has seen is still so if it is alone: the URLs it read before it  *)
(* starts the services, and that they do not run while it refreshes.       *)
Alone(p) ==
  /\ r_at[p] = "up" => r_urls[p] = r_data /\ r_ready
  /\ r_at[p] \in {"open", "work"} => ~r_running
  /\ r_at[p] = "report" /\ r_cmd[p] = "run" /\ r_mode[p] \in Runtime!Foreground
       /\ r_outcome[p] = "ok" => ~r_running

(* The mark of a ready record is there exactly when nothing is unresolved; *)
(* while conditions are quiet one command runs at a time, on services that *)
(* have the URLs of the data.                                              *)
RuntimeInv ==
  /\ Runtime!TypeOK
  /\ r_ready <=> ~r_unresolved
  /\ \A p \in Procs : Placed(p)
  /\ r_quiet =>
       /\ \A p, q \in Procs : r_cmd[p] # "none" /\ r_cmd[q] # "none" => p = q
       /\ r_running => r_containers = r_data /\ r_ready
       /\ \A p \in Procs : Alone(p)

(* A step of the whole is one of a command, or leaves the runtime alone. *)
LEMMA RuntimeMoves ==
  ASSUME [PartsNext]_all
  PROVE  Runtime!Next \/ UNCHANGED runtime
  BY DEF PartsNext, all

(* RuntimeInv holds before the first command. *)
LEMMA RuntimeBegins ==
  ASSUME PartsInit
  PROVE  RuntimeInv
  <1>1. Runtime!Init
    BY DEF PartsInit
  <1>2. /\ r_data \in Runtime!Generations /\ r_commands \in 0..MaxCommands
        /\ r_urls \in [Procs -> Runtime!Generations]
    BY <1>1, BoundsAssumption DEF Runtime!Init, Runtime!Generations
  <1>3. Runtime!TypeOK
    BY <1>1, <1>2 DEF Runtime!Init, Runtime!TypeOK
  <1> QED
    BY <1>1, <1>3 DEF Runtime!Init, RuntimeInv, Placed, Alone

(* The places a command may be at. *)
RuntimeLabels ==
  {"idle", "guard", "ensure", "read", "up", "logs", "stream", "down", "status", "stop", "open",
   "work", "restart_read", "report"}

(* While conditions are quiet, a process that acts is the only one. *)
LEMMA RuntimeActs ==
  ASSUME RuntimeInv, NEW p \in Procs, r_cmd[p] # "none", r_cmd' = r_cmd, r_mode' = r_mode,
         \A q \in Procs \ {p} : r_at[q]' = r_at[q],
         Runtime!TypeOK', r_ready' <=> ~r_unresolved', Placed(p)', r_quiet' => r_quiet,
         r_quiet' => (r_running' => r_containers' = r_data' /\ r_ready') /\ Alone(p)'
  PROVE  RuntimeInv'
  <1>1. \A q \in Procs : Placed(q)'
    BY DEF RuntimeInv, Placed
  <1>2. ASSUME r_quiet', NEW q \in Procs \ {p}
        PROVE  Alone(q)'
    <2>1. r_at[q]' = "idle"
      BY <1>2 DEF RuntimeInv, Placed
    <2> QED
      BY <2>1 DEF Alone
  <1> QED
    BY <1>1, <1>2 DEF RuntimeInv

(* Every step of every command keeps RuntimeInv. *)
LEMMA RuntimeKeeps ==
  ASSUME RuntimeInv, Runtime!Next \/ UNCHANGED runtime
  PROVE  RuntimeInv'
  <1> USE BoundsAssumption
      DEF RuntimeInv, Runtime!TypeOK, Placed, Alone, Runtime!Generations, Runtime!Refreshing,
          Runtime!Foreground, Runtime!compose, Runtime!environment, Runtime!process,
          Runtime!history, Runtime!Goto, Runtime!Stays, Runtime!Ends, Runtime!Leave,
          Runtime!Stopped, Runtime!StopFails, Runtime!Up
  <1>1. ASSUME NEW p \in Procs,
               NEW c \in {"run", "stop", "service_restart"} \cup Runtime!Refreshing,
               NEW m \in Runtime!Foreground \cup {"detach"}, Runtime!Start(p, c, m)
        PROVE  RuntimeInv'
    BY <1>1 DEF Runtime!Start, Runtime!First
  <1>2. ASSUME NEW p \in Procs, Runtime!Report(p) PROVE RuntimeInv'
    BY <1>2 DEF Runtime!Report
  <1>3. ASSUME NEW p \in Procs, Runtime!Crash(p) PROVE RuntimeInv'
    BY <1>3 DEF Runtime!Crash
  <1>4. ASSUME NEW p \in Procs, Runtime!Guard(p) PROVE RuntimeInv'
    BY <1>4 DEF Runtime!Guard
  <1>5. ASSUME NEW p \in Procs, Runtime!Ensure(p) PROVE RuntimeInv'
    BY <1>5 DEF Runtime!Ensure
  <1>6. ASSUME NEW p \in Procs, Runtime!Read(p) PROVE RuntimeInv'
    BY <1>6 DEF Runtime!Read
  <1>7. ASSUME NEW p \in Procs, Runtime!RunUp(p) PROVE RuntimeInv'
    <2>1. /\ r_cmd[p] # "none" /\ r_cmd' = r_cmd /\ r_mode' = r_mode
          /\ \A q \in Procs \ {p} : r_at[q]' = r_at[q]
      BY <1>7 DEF Runtime!RunUp
    <2>2. Runtime!TypeOK'
      <3>1. r_running' \in BOOLEAN /\ r_owed' \in BOOLEAN /\ r_quiet' \in BOOLEAN
        BY <1>7 DEF Runtime!RunUp
      <3>2. r_containers' \in Runtime!Generations \cup {0}
        BY <1>7 DEF Runtime!RunUp
      <3>3. r_running' => r_containers' # 0
        <4>1. r_urls[p] # 0
          OBVIOUS
        <4>2. r_containers' = r_urls[p] \/ UNCHANGED <<r_containers, r_running>>
          BY <1>7 DEF Runtime!RunUp
        <4> QED
          BY <4>1, <4>2
      <3>4. \E label \in RuntimeLabels : r_at' = [r_at EXCEPT ![p] = label]
        BY <1>7 DEF Runtime!RunUp, RuntimeLabels
      <3>5. r_at' \in [Procs -> RuntimeLabels]
        BY <3>4 DEF RuntimeLabels
      <3>6. \/ r_outcome' = r_outcome
            \/ \E code \in {"ok", "error", "cleanup_incomplete"} :
                 r_outcome' = [r_outcome EXCEPT ![p] = code]
        BY <1>7 DEF Runtime!RunUp
      <3>7. r_outcome' \in [Procs -> {"ok", "error", "cleanup_incomplete"}]
        BY <3>6
      <3>8. /\ r_data' \in Runtime!Generations /\ r_commands' \in 0..MaxCommands
            /\ r_unresolved' \in BOOLEAN /\ r_ready' \in BOOLEAN
        BY <1>7 DEF Runtime!RunUp
      <3>9. /\ r_restart' \in [Procs -> BOOLEAN]
            /\ r_urls' \in [Procs -> Runtime!Generations]
        BY <1>7 DEF Runtime!RunUp
      <3> QED
        BY <2>1, <3>1, <3>2, <3>3, <3>5, <3>7, <3>8, <3>9 DEF RuntimeLabels
    <2>3. (r_ready' <=> ~r_unresolved') /\ Placed(p)' /\ (r_quiet' => r_quiet)
      BY <1>7 DEF Runtime!RunUp
    <2>4. r_quiet' => (r_running' => r_containers' = r_data' /\ r_ready') /\ Alone(p)'
      BY <1>7, <2>3 DEF Runtime!RunUp
    <2> QED
      BY <2>1, <2>2, <2>3, <2>4, RuntimeActs
  <1>8. ASSUME NEW p \in Procs, Runtime!FollowLogs(p) PROVE RuntimeInv'
    BY <1>8 DEF Runtime!FollowLogs
  <1>9. ASSUME NEW p \in Procs, Runtime!StreamEnds(p) PROVE RuntimeInv'
    BY <1>9 DEF Runtime!StreamEnds
  <1>10. ASSUME NEW p \in Procs, Runtime!Down(p) PROVE RuntimeInv'
    <2>1. /\ r_cmd[p] # "none" /\ r_cmd' = r_cmd /\ r_mode' = r_mode
          /\ \A q \in Procs \ {p} : r_at[q]' = r_at[q]
      BY <1>10 DEF Runtime!Down
    <2>2. Runtime!TypeOK'
      <3>1. r_running' \in BOOLEAN /\ r_owed' \in BOOLEAN /\ r_quiet' \in BOOLEAN
        BY <1>10 DEF Runtime!Down
      <3>2. r_containers' \in Runtime!Generations \cup {0}
        BY <1>10 DEF Runtime!Down
      <3>3. r_running' => r_containers' # 0
        BY <1>10 DEF Runtime!Down
      <3>4. \E label \in RuntimeLabels : r_at' = [r_at EXCEPT ![p] = label]
        BY <1>10 DEF Runtime!Down, RuntimeLabels
      <3>5. r_at' \in [Procs -> RuntimeLabels]
        BY <3>4 DEF RuntimeLabels
      <3>6. \/ r_outcome' = r_outcome
            \/ \E code \in {"ok", "error", "cleanup_incomplete"} :
                 r_outcome' = [r_outcome EXCEPT ![p] = code]
        BY <1>10 DEF Runtime!Down
      <3>7. r_outcome' \in [Procs -> {"ok", "error", "cleanup_incomplete"}]
        BY <3>6
      <3>8. /\ r_data' \in Runtime!Generations /\ r_commands' \in 0..MaxCommands
            /\ r_unresolved' \in BOOLEAN /\ r_ready' \in BOOLEAN
        BY <1>10 DEF Runtime!Down
      <3>9. /\ r_restart' \in [Procs -> BOOLEAN]
            /\ r_urls' \in [Procs -> Runtime!Generations]
        BY <1>10 DEF Runtime!Down
      <3> QED
        BY <2>1, <3>1, <3>2, <3>3, <3>5, <3>7, <3>8, <3>9 DEF RuntimeLabels
    <2>3. (r_ready' <=> ~r_unresolved') /\ Placed(p)' /\ (r_quiet' => r_quiet)
      BY <1>10 DEF Runtime!Down
    <2>4. r_quiet' => (r_running' => r_containers' = r_data' /\ r_ready') /\ Alone(p)'
      BY <1>10, <2>3 DEF Runtime!Down
    <2> QED
      BY <2>1, <2>2, <2>3, <2>4, RuntimeActs
  <1>11. ASSUME NEW p \in Procs, Runtime!Stop(p) PROVE RuntimeInv'
    <2>1. /\ r_cmd[p] # "none" /\ r_cmd' = r_cmd /\ r_mode' = r_mode
          /\ \A q \in Procs \ {p} : r_at[q]' = r_at[q]
      BY <1>11 DEF Runtime!Stop
    <2>2. Runtime!TypeOK'
      <3>1. r_running' \in BOOLEAN /\ r_owed' \in BOOLEAN /\ r_quiet' \in BOOLEAN
        BY <1>11 DEF Runtime!Stop
      <3>2. r_containers' \in Runtime!Generations \cup {0}
        BY <1>11 DEF Runtime!Stop
      <3>3. r_running' => r_containers' # 0
        BY <1>11 DEF Runtime!Stop
      <3>4. \E label \in RuntimeLabels : r_at' = [r_at EXCEPT ![p] = label]
        BY <1>11 DEF Runtime!Stop, RuntimeLabels
      <3>5. r_at' \in [Procs -> RuntimeLabels]
        BY <3>4 DEF RuntimeLabels
      <3>6. \/ r_outcome' = r_outcome
            \/ \E code \in {"ok", "error", "cleanup_incomplete"} :
                 r_outcome' = [r_outcome EXCEPT ![p] = code]
        BY <1>11 DEF Runtime!Stop
      <3>7. r_outcome' \in [Procs -> {"ok", "error", "cleanup_incomplete"}]
        BY <3>6
      <3>8. /\ r_data' \in Runtime!Generations /\ r_commands' \in 0..MaxCommands
            /\ r_unresolved' \in BOOLEAN /\ r_ready' \in BOOLEAN
        BY <1>11 DEF Runtime!Stop
      <3>9. /\ r_restart' \in [Procs -> BOOLEAN]
            /\ r_urls' \in [Procs -> Runtime!Generations]
        BY <1>11 DEF Runtime!Stop
      <3> QED
        BY <2>1, <3>1, <3>2, <3>3, <3>5, <3>7, <3>8, <3>9 DEF RuntimeLabels
    <2>3. (r_ready' <=> ~r_unresolved') /\ Placed(p)' /\ (r_quiet' => r_quiet)
      BY <1>11 DEF Runtime!Stop
    <2>4. r_quiet' => (r_running' => r_containers' = r_data' /\ r_ready') /\ Alone(p)'
      BY <1>11, <2>3 DEF Runtime!Stop
    <2> QED
      BY <2>1, <2>2, <2>3, <2>4, RuntimeActs
  <1>12. ASSUME NEW p \in Procs, Runtime!RestartService(p) PROVE RuntimeInv'
    <2>1. /\ r_cmd[p] # "none" /\ r_cmd' = r_cmd /\ r_mode' = r_mode
          /\ \A q \in Procs \ {p} : r_at[q]' = r_at[q]
      BY <1>12 DEF Runtime!RestartService
    <2>2. Runtime!TypeOK'
      <3>1. r_running' \in BOOLEAN /\ r_owed' \in BOOLEAN /\ r_quiet' \in BOOLEAN
        BY <1>12 DEF Runtime!RestartService
      <3>2. r_containers' \in Runtime!Generations \cup {0}
        BY <1>12 DEF Runtime!RestartService
      <3>3. r_running' => r_containers' # 0
        BY <1>12 DEF Runtime!RestartService
      <3>4. \E label \in RuntimeLabels : r_at' = [r_at EXCEPT ![p] = label]
        BY <1>12 DEF Runtime!RestartService, RuntimeLabels
      <3>5. r_at' \in [Procs -> RuntimeLabels]
        BY <3>4 DEF RuntimeLabels
      <3>6. \/ r_outcome' = r_outcome
            \/ \E code \in {"ok", "error", "cleanup_incomplete"} :
                 r_outcome' = [r_outcome EXCEPT ![p] = code]
        BY <1>12 DEF Runtime!RestartService
      <3>7. r_outcome' \in [Procs -> {"ok", "error", "cleanup_incomplete"}]
        BY <3>6
      <3>8. /\ r_data' \in Runtime!Generations /\ r_commands' \in 0..MaxCommands
            /\ r_unresolved' \in BOOLEAN /\ r_ready' \in BOOLEAN
        BY <1>12 DEF Runtime!RestartService
      <3>9. /\ r_restart' \in [Procs -> BOOLEAN]
            /\ r_urls' \in [Procs -> Runtime!Generations]
        BY <1>12 DEF Runtime!RestartService
      <3> QED
        BY <2>1, <3>1, <3>2, <3>3, <3>5, <3>7, <3>8, <3>9 DEF RuntimeLabels
    <2>3. (r_ready' <=> ~r_unresolved') /\ Placed(p)' /\ (r_quiet' => r_quiet)
      BY <1>12 DEF Runtime!RestartService
    <2>4. r_quiet' => (r_running' => r_containers' = r_data' /\ r_ready') /\ Alone(p)'
      BY <1>12, <2>3 DEF Runtime!RestartService
    <2> QED
      BY <2>1, <2>2, <2>3, <2>4, RuntimeActs
  <1>13. ASSUME NEW p \in Procs, Runtime!Status(p) PROVE RuntimeInv'
    BY <1>13 DEF Runtime!Status
  <1>14. ASSUME NEW p \in Procs, Runtime!StopFirst(p) PROVE RuntimeInv'
    <2>1. /\ r_cmd[p] # "none" /\ r_cmd' = r_cmd /\ r_mode' = r_mode
          /\ \A q \in Procs \ {p} : r_at[q]' = r_at[q]
      BY <1>14 DEF Runtime!StopFirst
    <2>2. Runtime!TypeOK'
      <3>1. r_running' \in BOOLEAN /\ r_owed' \in BOOLEAN /\ r_quiet' \in BOOLEAN
        BY <1>14 DEF Runtime!StopFirst
      <3>2. r_containers' \in Runtime!Generations \cup {0}
        BY <1>14 DEF Runtime!StopFirst
      <3>3. r_running' => r_containers' # 0
        BY <1>14 DEF Runtime!StopFirst
      <3>4. \E label \in RuntimeLabels : r_at' = [r_at EXCEPT ![p] = label]
        BY <1>14 DEF Runtime!StopFirst, RuntimeLabels
      <3>5. r_at' \in [Procs -> RuntimeLabels]
        BY <3>4 DEF RuntimeLabels
      <3>6. \/ r_outcome' = r_outcome
            \/ \E code \in {"ok", "error", "cleanup_incomplete"} :
                 r_outcome' = [r_outcome EXCEPT ![p] = code]
        BY <1>14 DEF Runtime!StopFirst
      <3>7. r_outcome' \in [Procs -> {"ok", "error", "cleanup_incomplete"}]
        BY <3>6
      <3>8. /\ r_data' \in Runtime!Generations /\ r_commands' \in 0..MaxCommands
            /\ r_unresolved' \in BOOLEAN /\ r_ready' \in BOOLEAN
        BY <1>14 DEF Runtime!StopFirst
      <3>9. /\ r_restart' \in [Procs -> BOOLEAN]
            /\ r_urls' \in [Procs -> Runtime!Generations]
        BY <1>14 DEF Runtime!StopFirst
      <3> QED
        BY <2>1, <3>1, <3>2, <3>3, <3>5, <3>7, <3>8, <3>9 DEF RuntimeLabels
    <2>3. (r_ready' <=> ~r_unresolved') /\ Placed(p)' /\ (r_quiet' => r_quiet)
      BY <1>14 DEF Runtime!StopFirst
    <2>4. r_quiet' => (r_running' => r_containers' = r_data' /\ r_ready') /\ Alone(p)'
      BY <1>14, <2>3 DEF Runtime!StopFirst
    <2> QED
      BY <2>1, <2>2, <2>3, <2>4, RuntimeActs
  <1>15. ASSUME NEW p \in Procs, Runtime!Open(p) PROVE RuntimeInv'
    <2>1. /\ r_cmd[p] # "none" /\ r_cmd' = r_cmd /\ r_mode' = r_mode
          /\ \A q \in Procs \ {p} : r_at[q]' = r_at[q]
      BY <1>15 DEF Runtime!Open
    <2>2. Runtime!TypeOK'
      <3>1. r_running' \in BOOLEAN /\ r_owed' \in BOOLEAN /\ r_quiet' \in BOOLEAN
        BY <1>15 DEF Runtime!Open
      <3>2. r_containers' \in Runtime!Generations \cup {0}
        BY <1>15 DEF Runtime!Open
      <3>3. r_running' => r_containers' # 0
        BY <1>15 DEF Runtime!Open
      <3>4. \E label \in RuntimeLabels : r_at' = [r_at EXCEPT ![p] = label]
        BY <1>15 DEF Runtime!Open, RuntimeLabels
      <3>5. r_at' \in [Procs -> RuntimeLabels]
        BY <3>4 DEF RuntimeLabels
      <3>6. \/ r_outcome' = r_outcome
            \/ \E code \in {"ok", "error", "cleanup_incomplete"} :
                 r_outcome' = [r_outcome EXCEPT ![p] = code]
        BY <1>15 DEF Runtime!Open
      <3>7. r_outcome' \in [Procs -> {"ok", "error", "cleanup_incomplete"}]
        BY <3>6
      <3>8. /\ r_data' \in Runtime!Generations /\ r_commands' \in 0..MaxCommands
            /\ r_unresolved' \in BOOLEAN /\ r_ready' \in BOOLEAN
        BY <1>15 DEF Runtime!Open
      <3>9. /\ r_restart' \in [Procs -> BOOLEAN]
            /\ r_urls' \in [Procs -> Runtime!Generations]
        BY <1>15 DEF Runtime!Open
      <3> QED
        BY <2>1, <3>1, <3>2, <3>3, <3>5, <3>7, <3>8, <3>9 DEF RuntimeLabels
    <2>3. (r_ready' <=> ~r_unresolved') /\ Placed(p)' /\ (r_quiet' => r_quiet)
      BY <1>15 DEF Runtime!Open
    <2>4. r_quiet' => (r_running' => r_containers' = r_data' /\ r_ready') /\ Alone(p)'
      BY <1>15, <2>3 DEF Runtime!Open
    <2> QED
      BY <2>1, <2>2, <2>3, <2>4, RuntimeActs
  <1>16. ASSUME NEW p \in Procs, Runtime!Swap(p) PROVE RuntimeInv'
    BY <1>16 DEF Runtime!Swap
  <1>17. ASSUME NEW p \in Procs, Runtime!Work(p) PROVE RuntimeInv'
    <2>1. /\ r_cmd[p] # "none" /\ r_cmd' = r_cmd /\ r_mode' = r_mode
          /\ \A q \in Procs \ {p} : r_at[q]' = r_at[q]
      BY <1>17 DEF Runtime!Work
    <2>2. Runtime!TypeOK'
      <3>1. r_running' \in BOOLEAN /\ r_owed' \in BOOLEAN /\ r_quiet' \in BOOLEAN
        BY <1>17 DEF Runtime!Work
      <3>2. r_containers' \in Runtime!Generations \cup {0}
        BY <1>17 DEF Runtime!Work
      <3>3. r_running' => r_containers' # 0
        BY <1>17 DEF Runtime!Work
      <3>4. \E label \in RuntimeLabels : r_at' = [r_at EXCEPT ![p] = label]
        BY <1>17 DEF Runtime!Work, RuntimeLabels
      <3>5. r_at' \in [Procs -> RuntimeLabels]
        BY <3>4 DEF RuntimeLabels
      <3>6. \/ r_outcome' = r_outcome
            \/ \E code \in {"ok", "error", "cleanup_incomplete"} :
                 r_outcome' = [r_outcome EXCEPT ![p] = code]
        BY <1>17 DEF Runtime!Work
      <3>7. r_outcome' \in [Procs -> {"ok", "error", "cleanup_incomplete"}]
        BY <3>6
      <3>8. /\ r_data' \in Runtime!Generations /\ r_commands' \in 0..MaxCommands
            /\ r_unresolved' \in BOOLEAN /\ r_ready' \in BOOLEAN
        BY <1>17 DEF Runtime!Work
      <3>9. /\ r_restart' \in [Procs -> BOOLEAN]
            /\ r_urls' \in [Procs -> Runtime!Generations]
        BY <1>17 DEF Runtime!Work
      <3> QED
        BY <2>1, <3>1, <3>2, <3>3, <3>5, <3>7, <3>8, <3>9 DEF RuntimeLabels
    <2>3. (r_ready' <=> ~r_unresolved') /\ Placed(p)' /\ (r_quiet' => r_quiet)
      BY <1>17 DEF Runtime!Work
    <2>4. r_quiet' => (r_running' => r_containers' = r_data' /\ r_ready') /\ Alone(p)'
      BY <1>17, <2>3 DEF Runtime!Work
    <2> QED
      BY <2>1, <2>2, <2>3, <2>4, RuntimeActs
  <1>18. CASE UNCHANGED runtime
    BY <1>18 DEF runtime
  <1> QED
    BY <1>1, <1>2, <1>3, <1>4, <1>5, <1>6, <1>7, <1>8, <1>9, <1>10, <1>11, <1>12, <1>13,
       <1>14, <1>15, <1>16, <1>17, <1>18
       DEF Runtime!Next

(* RuntimeInv is an invariant. *)
LEMMA RuntimeInvariance == PartsSpec => []RuntimeInv
  <1>1. PartsInit => RuntimeInv
    BY RuntimeBegins
  <1>2. RuntimeInv /\ [PartsNext]_all => RuntimeInv'
    BY RuntimeMoves, RuntimeKeeps
  <1> QED
    BY <1>1, <1>2, PTL DEF PartsSpec

(* app.rs: the services never run on the URLs of data that was replaced, nor *)
(* while a refresh is unresolved, as long as no two commands ran at once, ps *)
(* answered and no service restart came in between.                          *)
THEOREM ServicesAlwaysMatchTheData == PartsSpec => []ServicesMatchTheData
  <1>1. RuntimeInv => ServicesMatchTheData
    BY DEF RuntimeInv, ServicesMatchTheData, Runtime!ServicesMatchTheData
  <1> QED
    BY <1>1, RuntimeInvariance, PTL

(* app.rs: under the same conditions a foreground run that reports success *)
(* has stopped its services.                                               *)
THEOREM SuccessAlwaysMeansStopped == PartsSpec => []SuccessMeansStopped
  <1>1. RuntimeInv => SuccessMeansStopped
    BY DEF RuntimeInv, Alone, SuccessMeansStopped, Runtime!SuccessMeansStopped
  <1> QED
    BY <1>1, RuntimeInvariance, PTL

-----------------------------------------------------------------------------
(* CredentialStore: keyring, file and evidence of one secret (credentials.rs). *)

(* A step of the whole is one of the store, or leaves it alone. *)
LEMMA CredentialsMoves ==
  ASSUME [PartsNext]_all
  PROVE  Next \/ UNCHANGED vars
  BY DEF PartsNext, all

(* A call of the store keeps the types, whatever a failed write leaves. *)
LEMMA CredentialsTyped ==
  ASSUME TypeOK, Next \/ UNCHANGED vars
  PROVE  TypeOK'
  <1> USE ConstantsAssumption DEF TypeOK, Content, Files
  <1>1. Stored \in Content
    BY DEF Stored
  <1>2. ASSUME NEW success \in BOOLEAN, Ends(success), file' \in Files, ring' \in Content
        PROVE  TypeOK'
    <2>1. Stored' \in Content
      BY <1>2 DEF Stored
    <2> QED
      BY <1>2, <2>1 DEF Ends
  <1>3. ASSUME NEW v \in Values, Store(v)
        PROVE  TypeOK'
    BY <1>1, <1>3 DEF Store, InFile
  <1>4. CASE Remove
    BY <1>1, <1>4 DEF Remove, Tombstone
  <1>5. CASE Purge
    BY <1>2, <1>5 DEF Purge, Purged, Goto
  <1>6. CASE SetKnown
    BY <1>2, <1>6 DEF SetKnown, Goto
  <1>7. CASE Probe
    BY <1>7 DEF Probe, Goto
  <1>8. CASE Set
    <2>1. CASE ring' = val /\ plan' = InKeyring /\ Goto("write_known") /\ UNCHANGED previous
      BY <1>8, <2>1 DEF Set, Goto, InKeyring
    <2>2. CASE UNCHANGED ring /\ Ends(FALSE)
      BY <1>2, <1>8, <2>2 DEF Set
    <2>3. CASE Goto("write") /\ UNCHANGED <<ring, previous, plan>>
      BY <1>8, <2>3 DEF Set, Goto
    <2> QED
      BY <1>8, <2>1, <2>2, <2>3 DEF Set
  <1>9. CASE WriteFile
    BY <1>2, <1>9 DEF WriteFile, Goto
  <1>10. CASE Rollback
    BY <1>2, <1>10 DEF Rollback, Restored
  <1>11. CASE Read
    BY <1>1, <1>11 DEF Read
  <1>12. CASE Crash
    BY <1>2, <1>12 DEF Crash
  <1>13. CASE UNCHANGED vars
    BY <1>13 DEF vars
  <1> QED
    BY <1>3, <1>4, <1>5, <1>6, <1>7, <1>8, <1>9, <1>10, <1>11, <1>12, <1>13 DEF Next

(* The types of the store hold in every state. *)
LEMMA CredentialsInvariance == PartsSpec => []TypeOK
  <1>1. PartsInit => TypeOK
    BY DEF PartsInit, Init, TypeOK, Content, Files, Stored
  <1>2. TypeOK /\ [PartsNext]_all => TypeOK'
    BY CredentialsMoves, CredentialsTyped
  <1> QED
    BY <1>1, <1>2, PTL DEF PartsSpec

(* Of the store alone these executions are those that CredentialStoreProofs is about. *)
LEMMA StoreIsPart == PartsSpec => Spec
  <1>1. PartsInit => Init
    BY DEF PartsInit
  <1>2. [PartsNext]_all => [Next]_vars
    BY CredentialsMoves
  <1> QED
    BY <1>1, <1>2, PTL DEF PartsSpec, Spec

(* credentials.rs: keyring, file and evidence together are a register of one *)
(* secret, whichever call fails, but for a secret that a failed store of    *)
(* another brings back.                                                    *)
THEOREM PartsImplementRegister == PartsSpec => WeakRegisterSpec
  BY StoreIsPart, StoreImplementsRegister, PTL

(* credentials.rs: a secret whose storing was confirmed leaves evidence in the *)
(* file, whichever call fails, before or after it took effect.               *)
THEOREM PartsAlwaysLeaveEvidence == PartsSpec => []StoredLeavesEvidence
  BY StoreIsPart, StoredAlwaysLeavesEvidence, PTL

-----------------------------------------------------------------------------
(* ConfiguredEnvironment: an edited .repobox.toml (config.rs, environment.rs). *)

(* The instance of the proofs about one configured environment. *)
Proved == INSTANCE ConfiguredEnvironmentProofs WITH
  Documents <- PartsDocuments, Dependencies <- PartsDependencies,
  OwnVariables <- PartsOwnVariables, config <- c_config, record <- c_record,
  bindings <- c_bindings, kind <- c_kind, status <- c_status, steps <- c_steps,
  branches <- c_branches, roles <- c_roles, keys <- c_keys, pc <- c_pc,
  loaded <- c_loaded, todo <- c_todo, cur <- c_cur, failed <- c_failed,
  starting <- c_starting, targets <- c_targets, keep <- c_keep

(* The documents of MCParts are such as those theorems ask for. *)
LEMMA DocumentsWellFormed == Proved!WellFormed
  <1> DEFINE first == CHOOSE s \in Names : TRUE
             second == CHOOSE s \in Names : s # first
             x == CHOOSE d \in Databases : TRUE
             y == CHOOSE d \in Databases : d # x
  <1>1. first \in Names /\ second \in Names
    BY DocumentsAssumption
  <1>2. x \in Databases /\ y \in Databases
    BY DocumentsAssumption
  <1>3. ASSUME NEW d \in PartsDocuments
        PROVE  DOMAIN d \subseteq Names /\ \A s \in DOMAIN d : d[s].database \in Databases
    <2> HIDE DEF first, second, x, y
    <2>1. \/ \E s \in {first, second} : d = [n \in {s} |-> Service(x, "v1", "v2", "pg")]
          \/ \E e, f \in {Service(x, "v1", "v2", "pg"), Service(y, "v3", "v4", "audit"),
                           Service(y, "v3", "v4", "pg"), Service(x, "v1", "v2", "audit"),
                           Service(x, "v3", "v4", "audit"), Service(y, "v2", "v3", "audit")} :
               d = [n \in Names |-> IF n = first THEN e ELSE f]
      BY <1>3 DEF PartsDocuments, first, second, x, y
    <2> QED
      BY <1>1, <1>2, <2>1 DEF Service
  <1>4. \A c \in DOMAIN PartsDependencies : PartsDependencies[c] \subseteq DOMAIN PartsDependencies
    BY DEF PartsDependencies
  <1> QED
    BY <1>3, <1>4, DocumentsAssumption DEF Proved!WellFormed

(* A step of the whole is one of the configured environment, or leaves it alone. *)
LEMMA ConfiguredMoves ==
  ASSUME [PartsNext]_all
  PROVE  Configured!Next \/ UNCHANGED configured
  BY DEF PartsNext, all

(* The two instances have the same definitions. *)
LEMMA SameInit == Configured!Init => Proved!Init
  BY DEF Configured!Init, Proved!Init, Configured!Valid, Proved!Valid, Configured!NoSteps,
         Proved!NoSteps, Configured!Unloaded, Proved!Unloaded

(* And the same steps. *)
LEMMA SameNext == Configured!Next => Proved!Next
  BY DEF
     Configured!job, Proved!job, Configured!provider, Proved!provider, Configured!command,
     Proved!command, Configured!vars, Proved!vars, Configured!Unloaded, Proved!Unloaded,
     Configured!Phases, Proved!Phases, Configured!NoSteps, Proved!NoSteps, Configured!Valid,
     Proved!Valid, Configured!Agrees, Proved!Agrees, Configured!Scope, Proved!Scope,
     Configured!Selected, Proved!Selected, Configured!Resumable, Proved!Resumable,
     Configured!MayResume, Proved!MayResume, Configured!MayResumePull, Proved!MayResumePull,
     Configured!Targets, Proved!Targets, Configured!Goto, Proved!Goto,
     Configured!ProcessEnds, Proved!ProcessEnds, Configured!Update, Proved!Update,
     Configured!NewJob, Proved!NewJob, Configured!OldJob, Proved!OldJob, Configured!Begins,
     Proved!Begins, Configured!Take, Proved!Take, Configured!TakePull, Proved!TakePull,
     Configured!Create, Proved!Create, Configured!Pull, Proved!Pull, Configured!JobResume,
     Proved!JobResume, Configured!JobCancel, Proved!JobCancel, Configured!Run, Proved!Run,
     Configured!OpenRecord, Proved!OpenRecord, Configured!Provision, Proved!Provision,
     Configured!Refresh, Proved!Refresh, Configured!StoreKey, Proved!StoreKey,
     Configured!Bind, Proved!Bind, Configured!MarkComplete, Proved!MarkComplete,
     Configured!StepFails, Proved!StepFails, Configured!SaveVerdict, Proved!SaveVerdict,
     Configured!Settle, Proved!Settle, Configured!Start, Proved!Start, Configured!Delete,
     Proved!Delete, Configured!DeleteBranch, Proved!DeleteBranch, Configured!DropKey,
     Proved!DropKey, Configured!Reconcile, Proved!Reconcile, Configured!Forget,
     Proved!Forget, Configured!Crash, Proved!Crash, Configured!Next, Proved!Next

(* So have the two properties. *)
LEMMA SameProperties ==
  /\ Proved!TypeOK => Configured!TypeOK
  /\ Proved!EditsAreSafe => Configured!EditsAreSafe
  <1>1. Proved!TypeOK => Configured!TypeOK
    BY DEF Configured!TypeOK, Proved!TypeOK, Configured!Unloaded, Proved!Unloaded,
           Configured!Phases, Proved!Phases
  <1>2. Proved!EditsAreSafe => Configured!EditsAreSafe
    BY DEF
       Configured!EditsAreSafe, Proved!EditsAreSafe, Configured!UrlsReachTheirDatabase,
       Proved!UrlsReachTheirDatabase, Configured!NothingIsForgotten,
       Proved!NothingIsForgotten, Configured!MayStart, Proved!MayStart, Configured!Agrees,
       Proved!Agrees, Configured!Transformed, Proved!Transformed, Configured!Mapped,
       Proved!Mapped, Configured!EnvironmentVariables, Proved!EnvironmentVariables,
       Configured!Remaining, Proved!Remaining, Configured!Inserted, Proved!Inserted,
       Configured!Targets, Proved!Targets
  <1> QED
    BY <1>1, <1>2

(* The inductive invariant of ConfiguredEnvironmentProofs holds here too. *)
LEMMA ConfiguredInvariance == PartsSpec => []Proved!IInv
  <1>1. PartsInit => Proved!IInv
    BY SameInit, DocumentsWellFormed, Proved!InitEstablishes DEF PartsInit
  <1>2. Proved!IInv /\ [PartsNext]_all => Proved!IInv'
    <2> SUFFICES ASSUME Proved!IInv, [PartsNext]_all
                 PROVE  Proved!IInv'
      OBVIOUS
    <2>1. CASE Configured!Next
      BY <2>1, SameNext, DocumentsWellFormed, Proved!StepKeeps
    <2>2. CASE UNCHANGED configured
      <3>1. UNCHANGED Proved!vars
        BY <2>2 DEF configured, Proved!vars, Proved!job, Proved!provider, Proved!command
      <3> QED
        BY <3>1, Proved!StutterKeeps
    <2> QED
      BY <2>1, <2>2, ConfiguredMoves
  <1> QED
    BY <1>1, <1>2, PTL DEF PartsSpec

(* environment.rs: whatever edits of the configuration come between the   *)
(* commands, a URL reaches the database it is named for, and nothing that *)
(* was created is forgotten.                                              *)
THEOREM PartsEditsAlwaysSafe == PartsSpec => []EditsAreSafe
  <1>1. Proved!IInv => EditsAreSafe
    BY SameProperties, DocumentsWellFormed, Proved!UrlsReach, Proved!NothingForgotten
       DEF EditsAreSafe, Proved!EditsAreSafe
  <1> QED
    BY <1>1, ConfiguredInvariance, PTL

-----------------------------------------------------------------------------
(* The types of all parts hold in every state of PartsSpec. *)
THEOREM PartsTypeCorrect == PartsSpec => []PartsTypeOK
  <1>1. TypeOK /\ RuntimeInv /\ NativeInv /\ RequestInv /\ LoginInv /\ FramesInv /\ Proved!IInv
          => PartsTypeOK
    BY FramesTyped, SameProperties
       DEF PartsTypeOK, RuntimeInv, NativeInv, RequestInv, LoginInv, Proved!IInv
  <1> QED
    BY <1>1, CredentialsInvariance, RuntimeInvariance, NativeInvariance, RequestInvariance,
       LoginInvariance, FramesInvariance, ConfiguredInvariance, PTL
=============================================================================
