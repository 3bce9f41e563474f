---------------------------- MODULE AppController ----------------------------
(***************************************************************************)
(* The exclusive operation of the application (electron/app-controller.js) *)
(* with the login it revokes (electron/login-controller.js and             *)
(* auth-state.js).  An operation is a sequence of stages, each of which    *)
(* ends in an await; between two of them the user, the portal, the login   *)
(* window and the proxy go on.  An operation that is aborted is gone at    *)
(* once, for it waits for each stage in a race against its abort signal;   *)
(* only what it awaits outside that race goes on, and its successor waits  *)
(* for it.                                                                 *)
(*                                                                         *)
(* A stretch of JavaScript and the microtasks after it are steps that run  *)
(* before anything from outside does (Quiet).  The proxy controller is     *)
(* taken as ProxyLifecycle shows it: a stop closes the gate at once, a     *)
(* cancelled start never opens it.                                         *)
(*                                                                         *)
(* Abstracted: epochs, generations and revisions (a token knows whether    *)
(* its own are still the current ones); whether a draft is dirty or        *)
(* clients are connected (a dialog may be shown or not); the account that  *)
(* is used in a login window (it is the profile's); error codes, and what  *)
(* is written by an operation that stays in its profile.                   *)
(***************************************************************************)
EXTENDS Sequences

CONSTANTS Profiles, None

VARIABLES
  app,    \* variables of the controller, and whether the store is locked;
          \* requested is storageStopRequested; rejected: the portal is shown
          \* to have refused the login (remoteStatus is auth_required)
  login,  \* variables of the login controller; jar is what its partition
          \* holds, pending: pendingAuthentication is set and still valid
  proxy,  \* the gate (shut: closed, but its server is still there), whose
          \* cookie it uses, what is called and not yet done, what is shown;
          \* ignored is only observed: a loss of the cookie was ignored
  op,     \* active: the operation in the slot
  ask,    \* pendingStop: a stop that awaits its confirmation, which an edit of
          \* the draft makes outdated
  drain   \* the microtask drainAuthentication is queued

vars == <<app, login, proxy, op, ask, drain>>

-----------------------------------------------------------------------------
(* Operations.                                                             *)

\* The stages of each action (execute); a target is a profile to switch to.
Plan(kind, target) ==
  CASE kind = "start" -> <<"start">>
    [] kind = "stop" -> <<"confirm", "halt">>
    [] kind = "restart" -> <<"confirm", "halt", "start">>
    [] kind = "login" -> <<"confirm", "halt", "revoke", "window">>
    [] kind = "focus-login" -> <<"window">>
    [] kind = "save-settings" -> <<"write">>
    [] kind = "disconnect" -> <<"confirm">>
    [] kind = "generate-config" -> <<"await">>
    [] kind = "save-credentials" -> <<"confirm", "halt", "revoke", "secrets">>
    [] kind = "save-password" -> <<"secrets">>
    [] kind = "activate-profile" ->
         <<"confirm", "halt", "reset", "select", "startIf">>
    [] kind = "delete-profile" /\ target # None ->
         <<"confirm", "halt", "reset", "select", "write", "await", "startIf">>
    [] kind = "delete-profile" /\ target = None -> <<"confirm", "write", "await">>
    [] kind = "clear-history" -> <<"confirm", "halt", "await">>
    [] kind = "change-keys" -> <<"confirm", "choose", "keys">>
    [] kind = "import-keys" -> <<"choose", "confirm", "choose", "keys">>
    [] kind = "export-keys" -> <<"choose">>
    [] kind = "set-autostart" -> <<"await", "write">>
    [] kind \in {"exit", "install-update"} -> <<"confirm", "halt", "await", "leave">>
    [] kind = "prepare-exit" -> <<"halt", "await", "leave">>
    [] kind = "retry-load" -> <<"confirm", "halt", "reset", "reload", "startIf">>
    [] kind = "auth-revoked" -> <<"halt", "revoked">>
    [] kind \in {"authenticated", "authenticated-start"} -> <<"secrets", "startIf">>

\* What the user can ask for (OPERATIONS), where actions with the same stages
\* share a name; save-password is save-credentials with the same account.  The
\* keys are changed by an import, and by a rotation or rebuild (change-keys).
KeyKinds == {"import-keys", "change-keys"}
Switching == {"activate-profile", "delete-profile"}
Actions ==
  {"start", "stop", "restart", "login", "save-settings", "save-credentials",
   "save-password", "clear-history", "set-autostart", "exit", "install-update",
   "retry-load", "disconnect", "generate-config", "export-keys"} \cup KeyKinds
Kinds ==
  Actions \cup Switching \cup
  {"focus-login", "prepare-exit", "auth-revoked", "authenticated", "authenticated-start"}

\* Actions that a locked store does not refuse at once.
Tolerant == {"stop", "disconnect", "exit", "retry-load", "prepare-exit", "auth-revoked"}

\* What an operation may have before it: the stages of a plan, the two halves
\* of a start, and the stop of a store that is locked (lockStorage).
StageNames ==
  {"confirm", "halt", "start", "revoke", "window", "write", "await", "secrets", "reset",
   "select", "startIf", "choose", "keys", "leave", "reload", "revoked", "preflight", "listen", "lock"}
Operations ==
  [kind : Kinds, target : Profiles \cup {None}, todo : Seq(StageNames), at : {"go", "wait"},
   confirmed : BOOLEAN, draftOk : BOOLEAN, authOk : BOOLEAN, behind : BOOLEAN]

ASSUME NoneAssumption ==
  None \notin Profiles /\ None \notin Operations /\ None \notin {"asks", "outdated"}

\* launch, with the token of createOperation; behind: its predecessor still
\* awaits something outside the race against its signal.  A native dialog that
\* is open is awaited inside of it (waitFor, waitCurrent).
Launched(kind, target, behind) ==
  [kind |-> kind, target |-> target, todo |-> Plan(kind, target), at |-> "go",
   confirmed |-> FALSE, draftOk |-> TRUE, authOk |-> TRUE,
   behind |-> behind]

\* assertToken, without and with authentication
Valid(o) == o.confirmed => o.draftOk
Authenticated(o, l) == o.authOk /\ l.cookie # None /\ l.status = "success"

\* What an aborted operation leaves behind.
Lingers ==
  /\ op # None
  /\ \/ op.behind
     \/ op.at = "wait" /\ (op.kind = "set-autostart" \/ Head(op.todo) = "keys")

\* No microtask is left.
Quiet == ~drain /\ (op # None => op.at = "wait" \/ op.behind)

Waits(stages) == op # None /\ op.at = "wait" /\ Head(op.todo) \in stages
Awaits(o) == [o EXCEPT !.at = "wait"]
Continues(o) == [o EXCEPT !.todo = Tail(@), !.at = "go"]
Turns(o, stage) == [o EXCEPT !.todo = <<stage>> \o Tail(@), !.at = "wait"]

-----------------------------------------------------------------------------
(* Login and proxy, as the controller calls them.                          *)

\* auth.deactivate and closeWindow: queries, a login not yet acted upon and a
\* reset at work are void.
Invalidated(l) ==
  [l EXCEPT !.cookie = None, !.status = "idle", !.owner = FALSE, !.pending = FALSE,
            !.window = FALSE, !.reset = IF @ = "none" THEN @ ELSE "stale"]

\* deactivate of the login controller
Deactivated(l) == [Invalidated(l) EXCEPT !.unclean = TRUE]

\* resetForProfile, without and with revoke, which begins anew if the reset
\* it joins was void.  unsaved: the stored cookie could not be removed.
ResetCalled(l) ==
  IF l.reset = "none" THEN [Deactivated(l) EXCEPT !.reset = "current"] ELSE l
RevokeCalled(l, saved) ==
  IF l.reset = "none"
  THEN [Deactivated(l) EXCEPT !.reset = IF saved THEN "current" ELSE "unsaved"]
  ELSE [Deactivated(l) EXCEPT !.again = TRUE]

\* The outcomes of removing the stored cookie: whether it is removed, and
\* whether the store is locked thereafter.
Removals ==
  {r \in [saved : BOOLEAN, locked : BOOLEAN] :
     /\ r.saved => ~r.locked
     /\ app.locked => r.locked}

\* setProfile, with the cookie kept for the profile
ProfileSet(l, cookie) ==
  [Invalidated(l) EXCEPT !.cookie = cookie,
                         !.status = IF cookie = None THEN "idle" ELSE "success"]

\* start, once the partition is clean
Opened(l) == [l EXCEPT !.owner = TRUE, !.window = TRUE, !.status = "pending"]

\* stop of the proxy controller
StopCalled(p) ==
  [p EXCEPT !.stop = TRUE, !.start = None, !.ignored = FALSE,
            !.gate = IF @ = "open" THEN "shut" ELSE @]

\* cancelPendingStart
Cancelled(p) ==
  [p EXCEPT !.start = None,
            !.shown = IF p.start # None /\ p.gate # "open" THEN "other" ELSE @]

\* advanceEpoch: what waits for the old scope is void.
NewEpoch(l) == [l EXCEPT !.pending = FALSE]

-----------------------------------------------------------------------------
(* The end of an operation.                                                *)

Ends ==
  /\ op' = None /\ drain' = TRUE

\* The catch of launch, after the effects that led to a, l and p: a locked
\* store stops the proxy, once (lockStorage).
Fails(a, l, p) ==
  /\ UNCHANGED ask
  /\ \/ /\ a.locked => a.requested
        /\ app' = a /\ login' = l /\ proxy' = p
        /\ Ends
     \/ /\ a.locked /\ ~a.requested
        /\ app' = [a EXCEPT !.requested = TRUE, !.desired = FALSE]
        /\ login' = Deactivated(l)
        /\ IF Valid(op)
           THEN /\ proxy' = StopCalled(p)
                /\ op' = [op EXCEPT !.todo = <<"lock">>, !.at = "wait", !.authOk = FALSE]
                /\ UNCHANGED drain
           ELSE proxy' = p /\ Ends

Stepping == op # None /\ op.at = "go" /\ ~op.behind /\ ~drain

Finish ==
  /\ Stepping /\ Valid(op) /\ op.todo = <<>>
  /\ Ends
  /\ UNCHANGED <<app, login, proxy, ask>>

\* The token no longer holds.
Rejected ==
  /\ Stepping /\ ~Valid(op)
  /\ Fails(app, login, proxy)

\* execute refuses most actions while the store is locked.
Refuses == app.locked /\ op.kind \notin Tolerant /\ op.todo = Plan(op.kind, op.target)
Refused ==
  /\ Stepping /\ Valid(op) /\ Refuses
  /\ Fails(app, login, proxy)

Go(stage) ==
  Stepping /\ Valid(op) /\ ~Refuses /\ op.todo # <<>> /\ Head(op.todo) = stage

\* The stage at work is done.
Goes == op' = Continues(op) /\ UNCHANGED <<app, login, proxy, ask, drain>>

-----------------------------------------------------------------------------
(* The stages: what is confirmed, stopped and forgotten.                   *)

\* confirm: the draft is the token's from here on, and a dialog is shown if
\* something would be interrupted.
Confirm ==
  /\ Go("confirm")
  /\ \/ op' = [Awaits(op) EXCEPT !.draftOk = TRUE]
     \/ /\ op.kind \notin {"delete-profile", "clear-history", "disconnect"} \cup KeyKinds
        /\ op' = [Continues(op) EXCEPT !.draftOk = TRUE, !.confirmed = TRUE]
  /\ UNCHANGED <<app, login, proxy, ask, drain>>

\* The dialog is answered; an edit meanwhile voids the answer.
Confirmed(accepted) ==
  /\ Quiet /\ Waits({"confirm"})
  /\ \/ ~op.draftOk /\ Fails(app, login, proxy)
     \/ /\ op.draftOk /\ accepted
        /\ op' = [Continues(op) EXCEPT !.confirmed = TRUE]
        /\ UNCHANGED <<app, login, proxy, ask, drain>>
     \/ /\ op.draftOk /\ ~accepted
        /\ Ends /\ UNCHANGED <<app, login, proxy, ask>>

\* advanceEpoch and stopStage, with what each action sets before them.
Halt ==
  /\ Go("halt")
  /\ LET detached == op.kind \in Switching \cup {"save-credentials", "retry-load"}
     IN \/ /\ op.kind = "restart" /\ ~Authenticated(op, login)
           /\ Fails(app, login, proxy)
        \/ op.kind = "login" /\ app.locked /\ Fails(app, login, proxy)
        \/ /\ op.kind = "restart" => Authenticated(op, login)
           /\ op.kind = "login" => ~app.locked
           /\ app' = [app EXCEPT !.desired = (op.kind = "auth-revoked" /\ @)
                                               \/ op.kind \in {"restart", "login"}]
           /\ login' = IF detached THEN Deactivated(login) ELSE NewEpoch(login)
           /\ proxy' = StopCalled(proxy)
           /\ op' = [Awaits(op) EXCEPT !.authOk = @ /\ ~detached]
           /\ UNCHANGED <<ask, drain>>

\* A stop of the proxy ends, and the stage that has called it.
ProxyStops(ok) ==
  /\ Quiet /\ proxy.stop
  /\ LET p == [proxy EXCEPT !.stop = FALSE, !.shown = "other",
                            !.gate = IF ok THEN "closed" ELSE "shut"]
     IN \/ Waits({"halt"}) /\ ~ok /\ Fails(app, login, p)
        \/ /\ Waits({"halt"}) => ok
           /\ proxy' = p
           /\ IF Waits({"lock"}) THEN Ends
              ELSE /\ op' = IF Waits({"halt"}) THEN Continues(op) ELSE op
                   /\ UNCHANGED drain
           /\ UNCHANGED <<app, login, ask>>

\* resetForProfile
Reset ==
  /\ Go("reset")
  /\ login' = ResetCalled(login)
  /\ op' = [Awaits(op) EXCEPT !.authOk = FALSE]
  /\ UNCHANGED <<app, proxy, ask, drain>>

\* resetForProfile with revoke
Revoke ==
  /\ Go("revoke")
  /\ op' = [Awaits(op) EXCEPT !.authOk = FALSE]
  /\ \E r \in Removals : /\ login' = RevokeCalled(login, r.saved)
                         /\ app' = [app EXCEPT !.locked = r.locked]
  /\ UNCHANGED <<proxy, ask, drain>>

\* The reset that onAuthRequired has begun is awaited; it may have ended.
AwaitRevoked ==
  /\ Go("revoked")
  /\ \/ /\ login.reset # "none"
        /\ op' = Awaits(op) /\ UNCHANGED <<app, login, proxy, ask, drain>>
     \/ login.reset = "none" /\ Goes
     \/ login.reset = "none" /\ Fails(app, login, proxy)

Resetting == {"reset", "revoke", "revoked"}

\* A reset ends well.
ResetDone ==
  /\ Quiet /\ login.reset = "current"
  /\ login' = [login EXCEPT !.reset = "none", !.again = FALSE,
                            !.unclean = FALSE, !.jar = None]
  /\ op' = IF Waits(Resetting) THEN Continues(op) ELSE op
  /\ UNCHANGED <<app, proxy, ask, drain>>

\* The partition is clean, but the cookie is still stored; or the partition
\* could not be cleaned.
ResetFails ==
  /\ Quiet /\ login.reset \in {"current", "unsaved"}
  /\ \E l \in {[login EXCEPT !.reset = "none", !.again = FALSE, !.jar = jar] :
                 jar \in {login.jar, None}} :
       LET after == [l EXCEPT !.unclean = login.reset = "current" \/ l.jar # None] IN
       IF Waits(Resetting) THEN Fails(app, after, proxy)
       ELSE login' = after /\ UNCHANGED <<app, proxy, op, ask, drain>>

\* A plausible error: a void reset is taken for one that has ended.
ResetVoidDone ==
  /\ Quiet /\ login.reset = "stale" /\ ~login.again
  /\ login' = [login EXCEPT !.reset = "none"]
  /\ op' = IF Waits(Resetting) THEN Continues(op) ELSE op
  /\ UNCHANGED <<app, proxy, ask, drain>>

\* A void reset ends; whoever joined it without a revocation is cancelled.
ResetVoid ==
  /\ Quiet /\ login.reset = "stale" /\ ~login.again
  /\ \E jar \in {login.jar, None} :
       login' = [login EXCEPT !.reset = "none", !.jar = jar]
  /\ IF Waits(Resetting) THEN Ends ELSE UNCHANGED <<op, drain>>
  /\ UNCHANGED <<app, proxy, ask>>

\* A plausible error: the revocation ends with the reset it has joined.
ResetEndsForAll ==
  /\ Quiet /\ login.reset = "stale" /\ login.again
  /\ login' = [login EXCEPT !.reset = "none", !.again = FALSE]
  /\ UNCHANGED <<app, proxy, op, ask, drain>>

\* A revocation that joined a void reset begins anew.
ResetAgain ==
  /\ Quiet /\ login.reset = "stale" /\ login.again
  /\ \E r \in Removals :
       /\ login' = [RevokeCalled([login EXCEPT !.reset = "none"], r.saved)
                      EXCEPT !.again = FALSE]
       /\ app' = [app EXCEPT !.locked = r.locked]
  /\ IF Waits({"reset"}) THEN Ends
     ELSE /\ op' = IF op = None THEN None ELSE [op EXCEPT !.authOk = FALSE]
          /\ UNCHANGED drain
  /\ UNCHANGED <<proxy, ask>>

\* start of the login controller, after the reset or with the window open;
\* focus-login wants the proxy to run.
Window ==
  /\ Go("window")
  /\ app' = [app EXCEPT !.desired = @ \/ op.kind = "focus-login"]
  /\ \/ login.window /\ login' = login
     \/ /\ ~login.window /\ login.reset = "none" /\ ~login.unclean
        /\ login' = Opened(login)
  /\ op' = Continues(op) /\ UNCHANGED <<proxy, ask, drain>>

-----------------------------------------------------------------------------
(* The stages: what is written, awaited and started.                       *)

\* bindProfile, and the scope that follows the root
Bound(a, profile, desired) ==
  [a EXCEPT !.profile = profile, !.rejected = FALSE, !.desired = desired]

\* persist with another active profile, and bindProfile.  A commit that is
\* not durable, or may have happened, locks the store.
Select ==
  /\ Go("select")
  /\ \/ Fails(app, login, proxy)
     \/ /\ ~app.locked
        /\ \E cookie \in {op.target, None}, desired \in BOOLEAN :
             /\ app' = Bound(app, op.target, desired)
             /\ login' = ProfileSet(login, cookie)
        /\ op' = [Continues(op) EXCEPT !.authOk = TRUE]
        /\ UNCHANGED <<proxy, ask, drain>>
     \/ /\ ~app.locked
        /\ \E profile \in {app.profile, op.target} :
             Fails([app EXCEPT !.locked = TRUE, !.profile = profile], login, proxy)

\* persist, with the profile as it is
Write ==
  /\ Go("write")
  /\ \/ Fails(app, login, proxy)
     \/ ~app.locked /\ Goes
     \/ ~app.locked /\ Fails([app EXCEPT !.locked = TRUE], login, proxy)

\* saveCookie, saveSso or clearSso; a login goes on without its cookie saved.
Secrets ==
  /\ Go("secrets")
  /\ \/ ~app.locked /\ Goes
     \/ Fails([app EXCEPT !.locked = TRUE], login, proxy)
     \/ op.kind \in {"save-credentials", "save-password"} /\ Fails(app, login, proxy)

\* A plausible error: what is remembered of the lock outlives it.
UnlockedOnly(a) == [a EXCEPT !.locked = FALSE]

\* The store is in order again.
Unlocked(a) == [a EXCEPT !.locked = FALSE, !.requested = FALSE]

\* retryLoad: the root may be another one, or none can be loaded.
Reload ==
  /\ Go("reload")
  /\ \/ Fails([app EXCEPT !.locked = TRUE], login, proxy)
     \/ \E profile \in Profiles, saved, desired \in BOOLEAN :
          LET a == Unlocked(Bound(app, profile, desired))
              l == ProfileSet(login, IF saved THEN profile ELSE None)
          IN \/ /\ app' = a /\ login' = l
                /\ op' = [Continues(op) EXCEPT !.authOk = TRUE]
                /\ UNCHANGED <<proxy, ask, drain>>
             \/ Fails(a, l, proxy)   \* the keys are not in order

\* clearHistory, flush, the operating system, the installer
Await ==
  /\ Go("await")
  /\ op' = Awaits(op) /\ UNCHANGED <<app, login, proxy, ask, drain>>
Awaited ==
  /\ Quiet /\ Waits({"await"})
  /\ Goes \/ Fails(app, login, proxy)

\* The application ends: nothing is accepted any more.
Leave ==
  /\ Go("leave")
  /\ \/ /\ app' = [app EXCEPT !.down = TRUE]
        /\ login' = Invalidated(login)
        /\ op' = Continues(op) /\ UNCHANGED <<proxy, ask, drain>>
     \/ op.kind = "install-update" /\ Fails(app, login, proxy)

\* A start at the end of another action, if it is wanted and there is a login
StartIf ==
  /\ Go("startIf")
  /\ op' = IF app.desired /\ login.cookie # None
           THEN [op EXCEPT !.todo = <<"start">> \o Tail(@)] ELSE Continues(op)
  /\ UNCHANGED <<app, login, proxy, ask, drain>>

\* startStage: the portal is asked first, unless the proxy runs.  It may also
\* fail, because the keys are not in order.
Start ==
  /\ Go("start")
  /\ LET a == [app EXCEPT !.desired = @ \/ op.kind = "start"] IN
     \/ Fails(a, login, proxy)
     \/ /\ Authenticated(op, login) /\ ~app.locked
        /\ IF proxy.shown = "started"
           THEN /\ proxy' = [proxy EXCEPT !.start = login.cookie]
                /\ op' = Turns(op, "listen")
                /\ app' = a /\ UNCHANGED login
           ELSE /\ op' = Turns(op, "preflight")
                /\ app' = [a EXCEPT !.rejected = FALSE]
                /\ login' = NewEpoch(login) /\ UNCHANGED proxy
        /\ UNCHANGED <<ask, drain>>

PreflightEnds ==
  /\ Quiet /\ Waits({"preflight"})
  /\ \/ /\ Valid(op) /\ Authenticated(op, login)
        /\ proxy' = [proxy EXCEPT !.start = login.cookie,
                                  !.shown = IF proxy.gate = "open" THEN @ ELSE "starting"]
        /\ op' = Turns(op, "listen") /\ UNCHANGED <<app, login, ask, drain>>
     \/ /\ Valid(op) /\ Authenticated(op, login)
        /\ Fails([app EXCEPT !.rejected = TRUE], login, proxy)
     \/ Fails(app, login, proxy)

\* A call of the proxy controller's start ends.
ProxyStarts ==
  /\ Quiet /\ proxy.start # None /\ ~proxy.stop
  /\ \/ LET p == [proxy EXCEPT !.gate = "open", !.of = proxy.start, !.start = None,
                               !.shown = IF proxy.gate = "open" THEN @ ELSE "started"]
        IN IF Waits({"listen"}) /\ ~(Valid(op) /\ Authenticated(op, login))
           THEN Fails(app, login, p)
           ELSE /\ proxy' = p
                /\ op' = IF Waits({"listen"}) THEN Continues(op) ELSE op
                /\ UNCHANGED <<app, login, ask, drain>>
     \/ /\ proxy.gate # "open"
        /\ \E gate \in {"closed", "shut"} :
             LET p == [proxy EXCEPT !.gate = gate, !.start = None, !.shown = "other"]
             IN IF Waits({"listen"}) THEN Fails(app, login, p)
                ELSE proxy' = p /\ UNCHANGED <<app, login, op, ask, drain>>

\* assertCurrent of a key action; its target is the profile if the proxy ran
\* when it was called.
Current(o, l) ==
  Valid(o) /\ o.authOk /\ (o.target # None => Authenticated(o, l))

\* A key action whose login has changed is cancelled, which is no error.
Voided ==
  /\ op.kind \in KeyKinds /\ ~op.authOk
  /\ Ends /\ UNCHANGED <<app, login, ask>>

\* The file of a backup is chosen in a native dialog: to import it, to export
\* it, or to save the keys that are going to be replaced, if they need it.
Choose ==
  /\ Go("choose")
  /\ \/ Fails(app, login, proxy)
     \/ Voided /\ UNCHANGED proxy
     \/ op' = Awaits(op) /\ UNCHANGED <<app, login, proxy, ask, drain>>
     \/ op.todo = <<"choose", "keys">> /\ Goes

\* The dialog is closed, with a file or without one.
Chosen ==
  /\ Quiet /\ Waits({"choose"})
  /\ \/ (op.kind \in KeyKinds => Current(op, login)) /\ Goes
     \/ Valid(op) /\ Ends /\ UNCHANGED <<app, login, proxy, ask>>
     \/ Fails(app, login, proxy)

\* execute of the key service, which stops the proxy before it installs
\* (beforeInstall) and starts it again if it ran.
Keys ==
  /\ Go("keys")
  /\ \/ Fails(app, login, proxy)
     \/ Voided /\ UNCHANGED proxy
     \/ /\ Current(op, login)
        /\ proxy' = StopCalled(proxy)
        /\ op' = Awaits(op)
        /\ login' = NewEpoch(login) /\ UNCHANGED <<app, ask, drain>>

KeysEnd ==
  /\ Quiet /\ Waits({"keys"}) /\ ~proxy.stop
  /\ LET current == Current(op, login)
         runs == [proxy EXCEPT !.gate = "open", !.of = login.cookie, !.shown = "started"]
         halted == {[proxy EXCEPT !.gate = gate, !.shown = "other"] : gate \in {"closed", "shut"}}
     IN \/ /\ current
           /\ proxy' \in IF op.target # None THEN {runs} ELSE halted
           /\ op' = Continues(op) /\ UNCHANGED <<app, login, ask, drain>>
        \/ Voided /\ proxy' \in halted
        \/ \E p \in halted \cup (IF current /\ op.target # None THEN {runs} ELSE {}),
              locked \in {app.locked, TRUE} :
             Fails([app EXCEPT !.locked = locked], login, p)

\* What an aborted operation still awaited has ended.
LingeringEnds ==
  /\ Quiet /\ op # None /\ op.behind /\ ~proxy.stop
  /\ op' = [op EXCEPT !.behind = FALSE]
  /\ \/ proxy.gate = "open" /\ UNCHANGED <<app, proxy>>
     \/ /\ proxy.gate # "open"
        /\ \E gate \in {"closed", "shut"} : proxy' = [proxy EXCEPT !.gate = gate]
        /\ \E locked \in {app.locked, TRUE} : app' = [app EXCEPT !.locked = locked]
  /\ UNCHANGED <<login, ask, drain>>

\* drainAuthentication
Drain ==
  /\ drain /\ drain' = FALSE
  /\ IF op = None /\ ask = None /\ login.pending /\ ~app.locked /\ ~app.down
     THEN /\ op' = Launched(IF app.desired THEN "authenticated-start" ELSE "authenticated",
                            None, FALSE)
          /\ login' = NewEpoch(login)
     ELSE UNCHANGED <<op, login>>
  /\ UNCHANGED <<app, proxy, ask>>

-----------------------------------------------------------------------------
(* The user.                                                               *)

Idle == Quiet /\ ~app.down /\ op = None /\ ask = None

\* run, with nothing in the slot.
Call(kind) ==
  /\ Idle
  /\ op' = Launched(IF kind = "login" /\ login.status = "pending" THEN "focus-login"
                    ELSE kind,
                    IF kind \in KeyKinds /\ proxy.shown = "started"
                    THEN app.profile ELSE None, FALSE)
  /\ UNCHANGED <<app, login, proxy, ask, drain>>

\* activate-profile and delete-profile; another profile is selected if there
\* is a target.
CallSwitch(kind, target) ==
  /\ Idle
  /\ target # app.profile
  /\ kind = "activate-profile" => target # None
  /\ op' = Launched(kind, target, FALSE)
  /\ UNCHANGED <<app, login, proxy, ask, drain>>

\* A stop while something is started asks first (confirmPendingStop).  Until
\* that is answered the scope stays as it is: what is started has advanced it
\* before, and nothing else begins.
Cancellable ==
  /\ op # None
  /\ \/ op.kind \in {"start", "authenticated-start"}
     \/ op.kind = "restart" /\ proxy.shown = "starting"
AskStop ==
  /\ Quiet /\ ~app.down /\ Cancellable /\ ask = None
  /\ ask' = "asks"
  /\ UNCHANGED <<app, login, proxy, op, drain>>

\* If nothing would be interrupted, it asks neither now nor later.
ConfirmedStop ==
  [Launched("stop", None, Lingers) EXCEPT !.todo = Tail(@), !.confirmed = TRUE]
StopAtOnce ==
  /\ Quiet /\ ~app.down /\ Cancellable /\ ask = None
  /\ app' = [app EXCEPT !.desired = FALSE]
  /\ proxy' = Cancelled(proxy)
  /\ op' = ConfirmedStop
  /\ UNCHANGED <<login, ask, drain>>

\* A plausible error: a login that came while the dialog was open is lost.
AskAnsweredOnly(accepted) ==
  /\ Quiet /\ ask # None
  /\ ask' = None
  /\ IF accepted /\ ask = "asks"
     THEN /\ app' = [app EXCEPT !.desired = FALSE]
          /\ proxy' = Cancelled(proxy)
          /\ op' = ConfirmedStop
     ELSE UNCHANGED <<app, proxy, op>>
  /\ UNCHANGED <<login, drain>>

\* The dialog is answered.  What was started may have ended; nothing else can
\* have begun.
AskAnswered(accepted) ==
  /\ Quiet /\ ask # None
  /\ ask' = None /\ drain' = TRUE
  /\ IF accepted /\ ask = "asks"
     THEN /\ app' = [app EXCEPT !.desired = FALSE]
          /\ proxy' = Cancelled(proxy)
          /\ op' = ConfirmedStop
     ELSE UNCHANGED <<app, proxy, op>>
  /\ UNCHANGED login

\* set-dirty: the draft is not what an open confirmation speaks of.
SetDirty ==
  /\ Quiet
  /\ \/ op # None /\ op.draftOk
     \/ ask = "asks"
  /\ op' = IF op = None THEN None ELSE [op EXCEPT !.draftOk = FALSE]
  /\ ask' = IF ask = None THEN None ELSE "outdated"
  /\ UNCHANGED <<app, login, proxy, drain>>

\* prepareExit
PrepareExit ==
  /\ Quiet /\ ~app.down
  /\ app' = [app EXCEPT !.down = TRUE, !.desired = FALSE]
  /\ login' = NewEpoch(login) /\ proxy' = Cancelled(proxy)
  /\ op' = Launched("prepare-exit", None, Lingers) /\ ask' = None
  /\ UNCHANGED drain

-----------------------------------------------------------------------------
(* The login window, the portal and the proxy.                             *)

\* onAuthRequired, after the effects that led to a and l: it is ignored while
\* the loss is known.
AuthRequired(a, l) ==
  IF l.cookie = None /\ a.rejected
  THEN /\ app' = a /\ login' = l
       /\ proxy' = [proxy EXCEPT !.ignored = @ \/ proxy.gate = "open" \/ proxy.start # None]
       /\ op' = IF op = None THEN None ELSE [op EXCEPT !.authOk = @ /\ l = login]
       /\ UNCHANGED <<ask, drain>>
  ELSE /\ \E r \in {s \in Removals : a.locked => s.locked} :
            /\ login' = RevokeCalled(l, r.saved)
            /\ app' = [a EXCEPT !.rejected = TRUE, !.locked = r.locked]
       /\ proxy' = Cancelled(proxy)
       /\ op' = Launched("auth-revoked", None, Lingers) /\ ask' = None
       /\ UNCHANGED drain

\* A query finds cookies: the login is complete, or they have changed.
Captured ==
  /\ Quiet /\ ~app.down /\ login.owner /\ login.jar # None
  /\ login.window \/ login.status = "success"
  /\ login' = [login EXCEPT !.cookie = login.jar, !.status = "success",
                            !.window = FALSE, !.pending = TRUE]
  /\ app' = [app EXCEPT !.rejected = FALSE] /\ drain' = TRUE
  /\ UNCHANGED <<proxy, op, ask>>

\* A query finds no cookie where there was one, or one that is not valid.
CookieLost ==
  /\ Quiet /\ ~app.down /\ login.owner
  /\ login.jar = None => login.cookie # None
  /\ \E r \in Removals, jar \in {login.jar, None} :
       AuthRequired([app EXCEPT !.locked = r.locked], [Invalidated(login) EXCEPT !.jar = jar])

\* In the window the user signs in, is led to the login page, or closes it;
\* or it cannot be loaded.
SignsIn ==
  /\ Quiet /\ login.window /\ login.jar = None
  /\ login' = [login EXCEPT !.jar = app.profile]
  /\ UNCHANGED <<app, proxy, op, ask, drain>>
WindowClosed ==
  /\ Quiet /\ login.window
  /\ login' = [login EXCEPT !.window = FALSE,
                            !.status = IF @ = "success" THEN @ ELSE "idle"]
  /\ UNCHANGED <<app, proxy, op, ask, drain>>

\* The proxy is refused with 401 or 403 (auth-error), or a probe is.
Unauthorized ==
  /\ Quiet /\ ~app.down
  /\ proxy.gate # "closed" \/ login.cookie # None
  /\ AuthRequired(app, login)

\* onRemoteState: a validation of the token, or a probe, says something else.
RemoteState ==
  /\ Quiet /\ ~app.down
  /\ app' = [app EXCEPT !.rejected = ~@]
  /\ UNCHANGED <<login, proxy, op, ask, drain>>

\* The server reports an error.
ProxyError ==
  /\ Quiet /\ proxy.gate = "open" /\ proxy.shown # "other"
  /\ proxy' = [proxy EXCEPT !.shown = "other"]
  /\ UNCHANGED <<app, login, op, ask, drain>>

Init ==
  /\ \E profile \in Profiles, saved, locked, desired \in BOOLEAN :
       /\ app = [profile |-> profile, locked |-> locked, requested |-> FALSE,
                 desired |-> desired /\ ~locked, rejected |-> FALSE, down |-> FALSE]
       /\ login = [cookie |-> IF saved /\ ~locked THEN profile ELSE None,
                   status |-> IF saved /\ ~locked THEN "success" ELSE "idle",
                   owner |-> FALSE, window |-> FALSE, jar |-> None, unclean |-> TRUE,
                   reset |-> "none", again |-> FALSE, pending |-> FALSE]
  /\ proxy = [gate |-> "closed", of |-> None, start |-> None, stop |-> FALSE,
              shown |-> "other", ignored |-> FALSE]
  /\ op = None /\ ask = None /\ drain = FALSE

Stages ==
  \/ Finish \/ Rejected \/ Refused \/ Confirm \/ Halt \/ Reset \/ Revoke \/ AwaitRevoked
  \/ Window \/ Select \/ Write \/ Secrets \/ Reload \/ Await \/ Leave \/ StartIf \/ Start
  \/ Choose \/ Keys \/ Drain
Awaiting ==
  \/ \E ok \in BOOLEAN : ProxyStops(ok)
  \/ ResetDone \/ ResetFails \/ ResetVoid \/ ResetAgain \/ Awaited \/ PreflightEnds
  \/ ProxyStarts \/ KeysEnd \/ LingeringEnds
User ==
  \/ \E kind \in Actions : Call(kind)
  \/ \E kind \in Switching, target \in Profiles \cup {None} : CallSwitch(kind, target)
  \/ AskStop \/ StopAtOnce \/ SetDirty \/ PrepareExit \/ Chosen
  \/ \E accepted \in BOOLEAN : Confirmed(accepted) \/ AskAnswered(accepted)
Outside ==
  \/ Captured \/ CookieLost \/ SignsIn \/ WindowClosed
  \/ Unauthorized \/ RemoteState \/ ProxyError

Next == Stages \/ Awaiting \/ User \/ Outside

\* Microtasks run, and what is awaited ends, by itself or by a time-out,
\* whatever the user does in between.  Nobody needs to answer a dialog.
Fairness == WF_vars(Stages) /\ SF_vars(Awaiting)

Spec == Init /\ [][Next]_vars /\ Fairness

-----------------------------------------------------------------------------
Ids == Profiles \cup {None}

\* The shape of the state, and of what belongs together in it.
TypeOK ==
  /\ app \in [profile : Profiles, locked : BOOLEAN, requested : BOOLEAN,
              desired : BOOLEAN, rejected : BOOLEAN, down : BOOLEAN]
  /\ login \in [cookie : Ids, status : {"idle", "pending", "success"},
                owner : BOOLEAN, window : BOOLEAN, jar : Ids, unclean : BOOLEAN,
                reset : {"none", "current", "unsaved", "stale"}, again : BOOLEAN,
                pending : BOOLEAN]
  /\ proxy \in [gate : {"open", "shut", "closed"}, of : Ids, start : Ids,
                stop : BOOLEAN, shown : {"started", "starting", "other"},
                ignored : BOOLEAN]
  /\ drain \in BOOLEAN
  /\ ask \in {None, "asks", "outdated"}
  /\ op # None => op \in Operations
  /\ login.window => login.owner /\ login.cookie = None
  /\ login.status = "success" <=> login.cookie # None
  /\ login.pending => login.cookie # None
  /\ login.again => login.reset = "stale"

\* Between operations the proxy serves only if it is wanted, with a login that
\* holds and a store that can be written; whatever was aborted, confirmed late
\* or revoked meanwhile (assertToken, onAuthRequired, confirmPendingStop and
\* lockStorage).  Set apart is a loss of the cookie that is ignored because the
\* portal had refused the login before: it stops nothing.
ServesOnlyIfWanted ==
  proxy.gate = "open" /\ op = None =>
    proxy.ignored \/ (app.desired /\ ~app.locked /\ login.cookie # None)

\* The login and the proxy are those of the profile that is shown: no late
\* answer of a login window and no cookie left in its partition reaches another
\* profile (README.md:133, currentQuery, needsPartitionReset).
IdentitiesStayApart ==
  /\ login.cookie \in {None, app.profile}
  /\ proxy.gate = "open" => proxy.of = app.profile

\* Another profile is selected only when nothing of the last one is left: its
\* proxy is stopped, its login forgotten and its partition clean, even if the
\* reset was joined, void or failed (activateStage, retry-load, README.md:133).
SwitchIsClean ==
  [][app'.profile # app.profile =>
       /\ proxy.gate # "open" /\ proxy.start = None
       /\ login.cookie = None /\ ~login.unclean /\ login.jar = None]_vars

\* Profiles stay apart, while one is shown and when another is selected.
ProfilesStayApart == [](TypeOK /\ IdentitiesStayApart) /\ SwitchIsClean

\* A login that came while something else was at work is acted upon as soon as
\* that has ended (onAuthenticated, drainAuthentication).
LoginNotForgotten ==
  login.pending => op # None \/ ask # None \/ drain \/ app.locked \/ app.down

\* The slot is given back, unless a dialog is open or the portal refuses one
\* login after another for ever: no operation waits for a stop, a start or a
\* reset that was cancelled (launch, waitFor, reset).
SlotFreed ==
  \/ []<>(op = None \/ Waits({"confirm", "choose"}))
  \/ []<><<Unauthorized>>_vars

=============================================================================
