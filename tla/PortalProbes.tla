----------------------------- MODULE PortalProbes -----------------------------
(***************************************************************************)
(* The two services that look at the portal while nothing else happens:     *)
(* a command through the running proxy every minute                         *)
(* (electron/health-probe-service.js) and a validation of the token every    *)
(* five (electron/token-validation-service.js, portal-services.js), with     *)
(* what main.js tells them of the application, of exclusive operations and   *)
(* of the machine that sleeps.                                             *)
(*                                                                         *)
(* A state that the application publishes reaches the token service at once  *)
(* and the health service in a microtask, that is before anything else       *)
(* happens: no action but Microtask runs while one is queued.                *)
(*                                                                         *)
(* Abstracted: a scope with its configuration is an epoch; a cookie stands    *)
(* for the credential it belongs to, 0 for none; serving is a proxy that     *)
(* runs and is wanted; both preferences are one.  Of what is shown of the     *)
(* remote only what the services look at is told apart: that it is being     *)
(* checked, that a login is wanted, and the error REMOTE_READY_TIMEOUT;       *)
(* unknown, reachable, offline and the other errors are "settled", and a      *)
(* publication that changes nothing else is left out.  The recovery          *)
(* (RecoveryController) is what it may publish.                            *)
(***************************************************************************)
EXTENDS Naturals

CONSTANTS
  MaxEpoch,   \* bound: scopes
  MaxCookie   \* bound: logins

VARIABLE
  s           \* what the application shows and what the services keep

vars == s

NoRound == [on |-> FALSE]
Remotes == {"settled", "checking", "auth_required"}

-----------------------------------------------------------------------------
(* The contexts of the services.                                           *)

Authority(a) == <<a.epoch, a.cookie>>
Eligible(a) ==
  /\ a.enabled /\ a.serving /\ ~a.busy
  /\ ~a.notReady /\ a.remote # "auth_required" /\ a.cookie # 0
Key(a) == <<Authority(a), a.enabled, a.serving, a.busy, a.remote = "auth_required",
            a.notReady>>

TokenEligible(a) == a.enabled /\ a.cookie # 0 /\ ~a.busy
TokenKey(a) == <<a.epoch, a.cookie, TokenEligible(a)>>

-----------------------------------------------------------------------------
(* What the parts do to the state, as functions of it.                     *)

\* queueRecoveryUpdate
Queue(a) == IF a.asleep \/ a.held THEN a ELSE [a EXCEPT !.queued = TRUE]

\* onRemoteState: the owner is the service that has it say "checking".  The error of
\* a remote that was not ready is replaced by whatever is published next.
SetRemote(a, remote, notReady, owner) ==
  LET b == [a EXCEPT !.remote = remote, !.notReady = notReady, !.owner = owner]
  IN  IF a.remote = remote /\ a.notReady = notReady THEN b ELSE Queue(b)

\* What the recovery may find.  An error that something else has shown hides its own.
Found(a) ==
  {SetRemote(a, r, FALSE, "none") : r \in {"settled", "auth_required"}}
    \cup {SetRemote(a, "settled", TRUE, "none")}

\* What a recovery that is cancelled makes of it: if it has a round, it takes back
\* the "checking" that is shown.
Withdrawn(a) == {a} \cup (IF a.remote = "checking" THEN Found(a) ELSE {})

\* A plausible error: the status is restored only if nothing has changed.
RestorableUnchanged(a) ==
  a.round.on /\ ~a.notReady /\ a.round.key = Key(a) /\ a.remote = "checking"

\* Whether a cancelled round has to take back its "checking".
Restorable(a) ==
  /\ a.round.on /\ ~a.notReady
  /\ a.round.authority = Authority(a) /\ a.remote = "checking"

\* cancel of the health service.
Cancel(a) ==
  LET b == [a EXCEPT !.timer = FALSE, !.round = NoRound]
  IN  IF Restorable(a) THEN SetRemote(b, a.round.previous, FALSE, a.round.owner) ELSE b

\* Cancelled from outside, it pauses as well: at a gate, that is an exclusive
\* operation or a token that was refused, or for an event, that is a remote that was
\* not ready or a stop that was asked for.
Pause(a, reason) == Cancel([a EXCEPT !.paused = reason])

Schedule(a) ==
  IF a.round.on \/ a.suspended \/ a.paused # "no" \/ ~Eligible(a) THEN a
  ELSE [a EXCEPT !.timer = TRUE]

\* update of the health service: a changed context ends a pause.
Update(a) ==
  LET changed == a.observed # Key(a)
      b == [a EXCEPT !.observed = Key(a),
                     !.paused = IF changed THEN "no" ELSE @]
      c == IF changed THEN Cancel(b) ELSE b
  IN  IF ~Eligible(c) \/ c.suspended \/ c.paused # "no" THEN Cancel(c) ELSE Schedule(c)

Resume(a) == Update([a EXCEPT !.suspended = FALSE, !.paused = "no"])

\* update of the token service, which the portal services pass on; a credential
\* that was refused is not asked about again.
TokenUpdate(a) ==
  LET keep == a.tokenObserved = TokenKey(a) /\ TokenEligible(a) /\ ~a.asleep
      b == IF keep THEN a ELSE [a EXCEPT !.tokenTimer = FALSE, !.tokenRound = NoRound]
      c == [b EXCEPT !.tokenObserved = TokenKey(a),
                     !.refused = IF @ = a.cookie THEN @ ELSE 0]
  IN  IF a.asleep THEN b
      ELSE IF c.tokenRound.on \/ ~TokenEligible(c) \/ c.refused = c.cookie THEN c
      ELSE [c EXCEPT !.tokenTimer = TRUE]

\* publish of main.js: exclusive operations hold the health service, and it is
\* resumed when they are over.
Publish(a) ==
  LET t == TokenUpdate(a)
  IN  IF a.busy /\ a.exclusive
      THEN Pause([t EXCEPT !.held = TRUE], "gate")
      ELSE Queue([t EXCEPT !.held = FALSE, !.needsResume = @ \/ t.held])

-----------------------------------------------------------------------------
(* The application.                                                        *)

\* launch: an operation begins, and what it changes comes later; most of them show
\* no name, and to the services nothing is going on.  An exclusive one cancels the
\* recovery.
Begin ==
  /\ ~s.queued /\ ~s.busy
  /\ \E named, exclusive \in BOOLEAN :
       LET a == [s EXCEPT !.busy = named, !.exclusive = exclusive, !.held = exclusive,
                          !.notReady = FALSE]
       IN  /\ exclusive => named
           /\ \E b \in IF exclusive THEN Withdrawn(a) ELSE {a} : s' = Publish(b)

\* It changes the scope or the configuration, which cancels the recovery and leaves
\* a "checking" to nobody.
Rescope ==
  /\ ~s.queued /\ s.epoch < MaxEpoch
  /\ \E a \in Withdrawn([s EXCEPT !.epoch = @ + 1, !.owner = "none"]) : s' = Publish(a)

\* It changes the proxy, the preferences or the error shown, or the proxy stops by
\* itself; a start begins its preflight, which it may be cancelled in.
Work ==
  /\ ~s.queued
  /\ \/ s' = Publish([s EXCEPT !.serving = ~@])
     \/ s' = Publish([s EXCEPT !.enabled = ~@])
     \/ s' = Publish([s EXCEPT !.notReady = FALSE])
     \/ s' = Publish([s EXCEPT !.remote = "checking", !.owner = "none"])
     \/ \E r \in {"settled", "auth_required"} :
          s' = Publish([s EXCEPT !.remote = r, !.owner = "none"])

End ==
  /\ ~s.queued /\ s.busy
  /\ s' = Publish([s EXCEPT !.busy = FALSE, !.exclusive = FALSE])

\* onLoginState: a login has brought a cookie.
Login ==
  /\ ~s.queued /\ s.latest < MaxCookie
  /\ s' = Publish([s EXCEPT !.latest = @ + 1, !.cookie = s.latest + 1, !.remote = "settled",
                            !.owner = "none"])

\* A stop is asked for, which cancels the recovery and the probes first: only then
\* is it refused, put to the user, or begun.
StopAsked ==
  /\ ~s.queued
  /\ \E a \in Withdrawn(s) :
       LET b == Pause(a, "event")
       IN  \/ s' = b
           \/ ~s.exclusive /\ s' = Publish([b EXCEPT !.busy = TRUE, !.notReady = FALSE])

\* onAuthRequired: the cookie is gone, and an operation revokes it.
Revoked ==
  /\ ~s.queued /\ s.cookie # 0
  /\ s' = Publish([s EXCEPT !.cookie = 0, !.remote = "auth_required", !.owner = "none",
                            !.notReady = FALSE, !.busy = TRUE, !.exclusive = FALSE])

-----------------------------------------------------------------------------
(* main.js                                                                 *)

Microtask ==
  LET a == [s EXCEPT !.queued = FALSE]
      b == Update(a)
  IN  /\ s.queued
      /\ s' = IF s.asleep \/ s.held THEN a
              ELSE IF s.needsResume THEN Resume([b EXCEPT !.needsResume = FALSE])
              ELSE b

\* suspendRecovery and resumeRecovery
Sleep ==
  /\ ~s.queued /\ ~s.asleep
  /\ \E a \in Withdrawn([s EXCEPT !.asleep = TRUE]) :
       s' = Cancel([a EXCEPT !.suspended = TRUE,
                             !.tokenTimer = FALSE, !.tokenRound = NoRound])

Wake ==
  /\ ~s.queued /\ s.asleep
  /\ s' = Queue(TokenUpdate([s EXCEPT !.asleep = FALSE, !.needsResume = TRUE]))

\* onRemoteNotReady: a session of the proxy has waited in vain for its shell.  The
\* recovery says so, unless that is what it said last.
RemoteNotReady ==
  /\ ~s.queued /\ s.serving
  /\ \E a \in Withdrawn(s) : \E b \in {a, SetRemote(a, "settled", TRUE, "none")} :
       s' = Pause(b, "event")

\* The recovery begins a round of its own, or shows what it has found.
Recovery ==
  /\ ~s.queued /\ ~s.asleep /\ ~s.held
  /\ s' \in Found(s) \cup {SetRemote(s, "checking", FALSE, "none")}

-----------------------------------------------------------------------------
(* The rounds.                                                             *)

\* The minute is over: begin, unless something has changed.
HealthTimer ==
  LET a == [s EXCEPT !.timer = FALSE]
      round == [on |-> TRUE, key |-> Key(a), authority |-> Authority(a),
                previous |-> a.remote, owner |-> a.owner]
  IN  /\ ~s.queued /\ s.timer
      /\ s' = IF ~Eligible(a) \/ Key(a) # a.observed THEN Update(a)
              ELSE SetRemote([a EXCEPT !.round = round], "checking", FALSE, "health")

\* finish: the command has succeeded or failed, or the time is over.
HealthFinish ==
  LET valid == /\ ~s.suspended /\ s.paused = "no"
               /\ Eligible(s) /\ s.round.key = Key(s)
      a == [s EXCEPT !.round = NoRound]
  IN  /\ ~s.queued /\ s.round.on
      /\ s' = Update(IF valid THEN SetRemote(a, "settled", FALSE, "none") ELSE a)

TokenTimer ==
  LET a == [s EXCEPT !.tokenTimer = FALSE]
  IN  /\ ~s.queued /\ s.tokenTimer
      /\ s' = IF TokenKey(a) # a.tokenObserved THEN TokenUpdate(a)
              ELSE [a EXCEPT !.tokenRound = [on |-> TRUE, key |-> TokenKey(a)]]

\* The answer.  A token that is refused stops the probes and prompts for a login,
\* but does not revoke the cookie.
TokenAnswer(verdict) ==
  LET current == s.tokenRound.key = TokenKey(s)
      Shown ==
        CASE ~current \/ verdict = "valid" -> {s}
          [] current /\ verdict = "invalid" ->
               {SetRemote(Pause([a EXCEPT !.refused = a.cookie], "gate"),
                          "auth_required", FALSE, "none") : a \in Withdrawn(s)}
          [] current /\ verdict = "network_error" -> {SetRemote(s, "settled", FALSE, "none")}
  IN  /\ ~s.queued /\ s.tokenRound.on
      /\ \E a \in Shown : s' = TokenUpdate([a EXCEPT !.tokenRound = NoRound])

Next ==
  \/ Begin \/ Rescope \/ Work \/ End \/ StopAsked \/ Login \/ Revoked
  \/ Microtask \/ Sleep \/ Wake \/ RemoteNotReady \/ Recovery
  \/ HealthTimer \/ HealthFinish \/ TokenTimer
  \/ \E verdict \in {"valid", "invalid", "network_error"} : TokenAnswer(verdict)

\* The start of the program: createPortalServices and queueRecoveryUpdate.
Init ==
  \E serving, enabled \in BOOLEAN, cookie \in {0, 1} :
    s = TokenUpdate([epoch |-> 0, cookie |-> cookie, latest |-> 1, busy |-> FALSE,
          exclusive |-> FALSE, serving |-> serving, enabled |-> enabled,
          remote |-> "settled", notReady |-> FALSE, owner |-> "none",
          queued |-> TRUE, held |-> FALSE, needsResume |-> FALSE, asleep |-> FALSE,
          timer |-> FALSE, round |-> NoRound, observed |-> <<>>,
          suspended |-> FALSE, paused |-> "no",
          tokenTimer |-> FALSE, tokenRound |-> NoRound, tokenObserved |-> <<>>,
          refused |-> 0])

Spec == Init /\ [][Next]_vars

-----------------------------------------------------------------------------
TypeOK ==
  /\ s.remote \in Remotes /\ s.owner \in {"none", "health"}
  /\ s.paused \in {"no", "gate", "event"}
  /\ s.cookie \in 0..s.latest /\ s.refused \in 0..s.latest

\* Whenever the machine is awake and the application idle, a service that may
\* probe has its timer set or a round under way: no sequence of exclusive
\* operations, sleeps, refusals and logins leaves one paused for ever.  Only a stop
\* that was asked for and not begun and a remote that was not ready do, and only as
\* long as the health service sees nothing change.
Armed ==
  ~s.queued /\ ~s.asleep =>
    /\ Eligible(s) =>
         \/ s.timer \/ s.round.on
         \/ s.paused = "event" /\ s.observed = Key(s)
    /\ TokenEligible(s) /\ s.refused # s.cookie => s.tokenTimer \/ s.tokenRound.on

\* After a remote that was not ready there is no probe until the error shown or
\* something else has changed, and a "checking" that a health round has shown is
\* taken back when it is superseded, whatever superseded it but a change of its
\* scope or configuration.
ProbesKeepOn ==
  /\ Armed
  /\ ~s.queued /\ (s.notReady \/ s.paused # "no") => ~s.timer /\ ~s.round.on
  /\ ~s.queued /\ s.remote = "checking" /\ s.owner = "health" => s.round.on
=============================================================================
