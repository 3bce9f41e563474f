------------------------- MODULE RecoveryController -------------------------
(***************************************************************************)
(* Recovery of the connection to the portal                                *)
(* (electron/recovery-controller.js) and the part of electron/main.js that *)
(* drives it.  A round probes the portal, with pauses between its          *)
(* attempts, and asks the application to start the proxy when the portal   *)
(* answers.  It belongs to a context (scope, connection, intent of the     *)
(* user); anything may change while it awaits a timer or an answer.        *)
(*                                                                         *)
(* One stretch of JavaScript is one step, computed by operators that take  *)
(* and return the state s of the two files.  The update that a publication *)
(* queues is a microtask: it runs before anything else does.               *)
(*                                                                         *)
(* The state that is shown belongs to the application: a start of the      *)
(* proxy, the health probes and the validation of the token show theirs    *)
(* beside the rounds.                                                      *)
(*                                                                         *)
(* Abstracted: delays and error codes (the state shown is "checking" or    *)
(* "settled"); the notification that the portal is back; the polling of    *)
(* hints, which calls automatic as Online does.  A connection that cannot  *)
(* be used, for lack of a cookie or any other reason, is Unusable.         *)
(***************************************************************************)
EXTENDS Naturals, FiniteSets

CONSTANTS
  Connections, Unusable,   \* configurations with their cookie
  None,
  MaxAttempts,             \* the number of delays (RETRY_DELAYS_MS)
  MaxEpoch, MaxStale       \* bounds (not in the code)

ASSUME RecoveryAssumption ==
  /\ Unusable \notin Connections
  /\ MaxAttempts \in Nat \ {0} /\ MaxEpoch \in Nat /\ MaxStale \in Nat

Scopes == 0..MaxEpoch
Contexts ==
  [scope : Scopes, connection : Connections \cup {Unusable}, desired : BOOLEAN]
Awaiting == {"preflight", "probe", "start", "run"}
Rounds == [context : Contexts, attempt : 1..MaxAttempts, manual : BOOLEAN,
           at : {"timer"} \cup Awaiting]

\* transportKey, which does not depend on the intent
Transport(c) == [scope |-> c.scope, connection |-> c.connection]

\* null is no context, no transport and no round.
ASSUME NoneAssumption ==
  /\ None \notin Contexts /\ None \notin Rounds
  /\ \A c \in Contexts : None # Transport(c)

VARIABLES
  context,   \* what context() returns
  app,       \* of the application: whether an operation is shown, whether
             \* the proxy is stopped, whether recovery is preferred
  s          \* the fields of the controller and of main.js, whether
             \* "checking" is shown, by a round (checking) or by anything
             \* else (others), and the superseded rounds (stale) that
             \* still await something

vars == <<context, app, s>>

-----------------------------------------------------------------------------
(* Publication and cancellation.                                           *)

\* queueRecoveryUpdate
Queued(t) == [t EXCEPT !.updating = @ \/ (~t.asleep /\ ~t.held)]

\* onRemoteState changes nothing if "checking" is shown already.
Repeats(t, status) == status = "checking" /\ t.others

\* publish, with its effect in the application and main.js, which pauses
\* recovery once more if another operation holds it.
Told(t, c, scope, status) ==
  LET news == [scope |-> scope, status |-> status]
      u == [t EXCEPT !.last = news]
      v == [u EXCEPT !.checking = (status = "checking"), !.others = FALSE]
  IN IF t.disposed \/ t.last = news THEN t
     ELSE IF scope # c.scope THEN u
     ELSE IF Repeats(t, status) THEN v
     ELSE Queued([v EXCEPT !.paused = @ \/ t.held, !.rearm = @ /\ ~t.held])

\* The round at work ends; what it awaits will still answer, though nothing
\* depends any more on its attempts, on who began it or on whether its start
\* runs, or on a round of a scope that is gone for good.
Ended(t, c) ==
  [t EXCEPT !.active = None,
     !.stale =
       {x \in @ \cup {[y EXCEPT !.attempt = 1, !.manual = FALSE,
                               !.at = IF @ = "start" THEN "run" ELSE @] :
                       y \in {t.active} \ {None}} :
          x.at \in Awaiting /\ x.context.scope = c.scope}]

\* cancel
Cancelled(t, c) ==
  LET u == [Ended(t, c) EXCEPT !.paused = TRUE]
  IN IF t.active # None /\ (t.checking \/ t.others)
     THEN Told(u, c, c.scope, "settled") ELSE u

\* cancel, called from outside
CancelCall(t, c, byUser) == Cancelled([t EXCEPT !.rearm = byUser], c)

\* publish by a round: main.js cancels it if recovery is held.
Published(t, c, x, status) ==
  LET u == Told(t, c, x.context.scope, status)
  IN IF t.held /\ u # t /\ ~Repeats(t, status) THEN Cancelled(u, c) ELSE u

-----------------------------------------------------------------------------
(* The beginning of a round.                                               *)

\* Only the user overrides the verdict of an earlier round.
Refused(t, c, manual) ==
  ~manual /\ (t.inhibited = Transport(c) \/ t.blocked = c)

\* begin
Begun(t, c, manual) ==
  LET seen == [t EXCEPT !.observed = c]
      u == [Cancelled(seen, c) EXCEPT !.paused = FALSE,
              !.inhibited = IF manual THEN None ELSE @]
      x == [context |-> c, attempt |-> 1, manual |-> manual, at |-> "timer"]
  IN IF t.active # None /\ t.active.context = c THEN seen
     ELSE IF Refused(u, c, manual) THEN u
     ELSE IF c.connection = Unusable
     THEN Published([u EXCEPT !.blocked = c], c, x, "settled")
     ELSE [u EXCEPT !.active = x, !.blocked = IF manual THEN None ELSE @]

Automatic(t, c) ==
  IF t.disposed \/ t.suspended \/ ~t.enabled \/ t.paused \/ ~c.desired THEN t
  ELSE Begun(t, c, FALSE)

\* After a stop that the user did not confirm, when nothing is at work.
Rearms(t) == t.rearm /\ ~app.busy

\* update
Updated(t, c) ==
  LET changed == t.observed # c
      seen == [t EXCEPT !.observed = c, !.enabled = app.prefers]
      u == IF changed \/ (t.enabled /\ ~app.prefers)
           THEN Cancelled(seen, c) ELSE seen
      v == [u EXCEPT !.blocked = IF changed THEN None ELSE @,
              !.last = IF t.observed # None /\ t.observed.scope # c.scope
                       THEN None ELSE @,
              !.inhibited = IF @ = Transport(c) THEN @ ELSE None]
  IN IF t.disposed THEN t
     ELSE IF ~app.prefers \/ t.suspended \/ ~c.desired THEN v
     ELSE IF changed \/ ~t.enabled \/ Rearms(v)
     THEN Automatic([v EXCEPT !.rearm = @ /\ ~Rearms(v), !.paused = FALSE], c)
     ELSE v

\* resume
Resumed(t, c) ==
  IF t.disposed THEN t
  ELSE Automatic([t EXCEPT !.suspended = FALSE, !.paused = FALSE], c)

-----------------------------------------------------------------------------
(* A round at work.                                                        *)

\* The microtask of queueRecoveryUpdate.
Update ==
  /\ s.updating
  /\ LET t == [s EXCEPT !.updating = FALSE]
         u == Updated(t, context)
     IN s' = IF t.asleep \/ t.held THEN t
             ELSE IF t.resume THEN Resumed([u EXCEPT !.resume = FALSE], context)
             ELSE u
  /\ UNCHANGED <<context, app>>

\* A plausible error: it is not checked that the round was not cancelled.
CurrentLoosely(x, mine) == ~s.disposed /\ x.context = context

\* current: of the round at work (mine) and not of a superseded one.
Current(x, mine) ==
  mine /\ ~s.disposed /\ ~s.suspended /\ x.context = context

\* The state in which a round goes on, and where it goes then.
Working(x, mine) ==
  IF mine THEN [s EXCEPT !.active.at = "timer"]
  ELSE [s EXCEPT !.stale = @ \ {x}]

Settled(t, mine) == IF mine THEN [t EXCEPT !.active = None] ELSE t

Going(t, x, mine) ==
  IF ~mine THEN [t EXCEPT !.stale = @ \cup {x}]
  ELSE IF t.active = None THEN t ELSE [t EXCEPT !.active = x]

\* The verdict of a round holds unless the round was cancelled meanwhile.
Blocked(t, x, mine) ==
  IF mine /\ t.active = None THEN t
  ELSE Settled([t EXCEPT !.blocked = x.context], mine)

\* attempt, up to its first await
Fire ==
  /\ ~s.updating
  /\ s.active # None /\ s.active.at = "timer"
  /\ s' = IF Current(s.active, TRUE)
          THEN Going(Published(s, context, s.active, "checking"),
                     [s.active EXCEPT !.at = "preflight"], TRUE)
          ELSE Settled(s, TRUE)
  /\ UNCHANGED <<context, app>>

Reachable(t, x, mine) ==
  LET u == Published([t EXCEPT !.blocked = None], context, x, "settled")
  IN IF app.stopped /\ context.desired
     THEN Going(u, [x EXCEPT !.at = "start"], mine) ELSE Settled(u, mine)

\* A plausible error: the attempts are not counted.
UnreachableUncounted(t, x, mine) ==
  Going(Published(t, context, x, "settled"), [x EXCEPT !.at = "timer"], mine)

Unreachable(t, x, mine) ==
  LET u == Published(t, context, x, "settled")
  IN IF x.attempt = MaxAttempts THEN Blocked(u, x, mine)
     ELSE Going(u, [x EXCEPT !.attempt = @ + 1, !.at = "timer"], mine)

\* The round fails for good: the connection is refused (fatal), no data
\* came (not_ready), or the cookie is not accepted (auth).
Failed(t, x, mine, result) ==
  LET u == IF result = "not_ready"
           THEN [t EXCEPT !.inhibited = Transport(x.context)] ELSE t
  IN IF result = "auth"
     THEN Settled(Published([u EXCEPT !.blocked = x.context], context, x, "settled"),
                  mine)
     ELSE Blocked(Published(u, context, x, "settled"), x, mine)

\* attempt, after each of its awaits
Attempt(x, mine, result) ==
  LET t == Working(x, mine)
  IN IF ~Current(x, mine) THEN Settled(t, mine)
     ELSE IF result = "ok" /\ x.at = "preflight"
     THEN Going(t, [x EXCEPT !.at = "probe"], mine)
     ELSE IF result = "ok" THEN Reachable(t, x, mine)
     ELSE IF result = "network" THEN Unreachable(t, x, mine)
     ELSE Failed(t, x, mine, result)

Answer(x, mine) ==
  /\ ~s.updating
  /\ \/ /\ x.at = "preflight"
        /\ \E result \in {"ok", "network", "auth"} : s' = Attempt(x, mine, result)
     \/ /\ x.at = "probe"
        /\ \E result \in {"ok", "network", "auth", "fatal", "not_ready"} :
             s' = Attempt(x, mine, result)
  /\ UNCHANGED <<context, app>>

\* main.js has announced a change of the application's state.
Announced(t, c) == IF t.held THEN CancelCall(t, c, FALSE) ELSE Queued(t)

\* The portal refuses the cookie: the application forgets it at once, unless
\* the publication has cancelled the round.
Revoked(x, mine) ==
  /\ ~s.updating /\ ~s.held
  /\ x.at = "probe" /\ Current(x, mine)
  /\ context' = [context EXCEPT !.connection = Unusable]
  /\ LET t == [Published(Working(x, mine), context, x, "settled")
                 EXCEPT !.blocked = x.context]
     IN s' = Announced(Settled(t, mine), context')
  /\ UNCHANGED app

-----------------------------------------------------------------------------
(* requestRecoveryStart                                                    *)

\* The request waits for the operation that is active, however long.  Then
\* the application refuses or cancels the start, or lets it run, which may fail.
StartAnswered(x, mine, failed) ==
  /\ ~s.updating /\ x.at \in {"start", "run"}
  /\ LET t == Working(x, mine)
     IN s' = IF failed /\ Current(x, mine)
             THEN Settled(Published([t EXCEPT !.blocked = x.context],
                                    context, x, "settled"), mine)
             ELSE Settled(t, mine)
  /\ UNCHANGED <<context, app>>

StartRuns(x, mine) ==
  /\ ~s.updating /\ x.at = "start"
  /\ mine /\ context.scope = x.context.scope /\ context.desired
  /\ context.connection # Unusable /\ app.stopped /\ ~app.busy
  /\ app' = [app EXCEPT !.busy = TRUE]
  /\ s' = Announced([s EXCEPT !.active.at = "run"], context)
  /\ UNCHANGED context

\* startStage: a start, whoever asked for it, begins with a new epoch, which
\* cancels the round, and shows "checking" itself.
StartChecks ==
  /\ ~s.updating /\ app.busy /\ ~s.held
  /\ context.connection # Unusable /\ app.stopped
  /\ context.scope < MaxEpoch
  /\ context' = [context EXCEPT !.scope = @ + 1, !.desired = TRUE]
  /\ s' = Announced([CancelCall(s, context', FALSE) EXCEPT !.others = TRUE],
                    context')
  /\ UNCHANGED app

-----------------------------------------------------------------------------
(* The application and the user.                                           *)

\* Scope, connection or intent change; a new profile or cookie also resets
\* the state that is shown.
Change(c, reset) ==
  /\ ~s.updating
  /\ c # context /\ c.scope \in {context.scope, context.scope + 1}
  /\ context' = c
  /\ LET t == [s EXCEPT !.checking = @ /\ ~reset, !.others = @ /\ ~reset]
     IN s' = Announced(IF c.scope # context.scope
                       THEN CancelCall(t, c, FALSE) ELSE t, c)
  /\ UNCHANGED app

\* The end of a start's preflight, the health probes and the validation of the
\* token change what is shown; a start that is cancelled leaves its "checking".
Displayed(t, checking) ==
  [t EXCEPT !.checking = @ /\ checking, !.others = checking /\ ~t.checking]

ShowOthers(checking) ==
  /\ ~s.updating
  /\ s' = Announced(Displayed(s, checking), context)
  /\ UNCHANGED <<context, app>>

\* onResult of the portal services: a token that is refused cancels the round.
TokenRefused ==
  /\ ~s.updating
  /\ s' = Announced(Displayed(CancelCall(s, context, FALSE), FALSE), context)
  /\ UNCHANGED <<context, app>>

\* An operation that holds recovery cancels it again when it has been confirmed
\* (cancelRecovery, onUpdatePreparing).
CancelAgain ==
  /\ ~s.updating /\ s.held
  /\ s' = CancelCall(s, context, FALSE)
  /\ UNCHANGED <<context, app>>

Report(field) ==
  /\ ~s.updating
  /\ field = "busy" => ~s.held
  /\ app' = [app EXCEPT ![field] = ~@]
  /\ s' = Announced(s, context)
  /\ UNCHANGED context

\* run("stop"): recovery is cancelled first; then the user is asked for a
\* confirmation, or the stop is refused because something else is at work.
UserStop(refused) ==
  /\ ~s.updating /\ ~s.disposed
  /\ LET t == CancelCall(s, context, TRUE)
     IN s' = IF refused THEN t ELSE Announced(t, context)
  /\ app' = [app EXCEPT !.busy = @ \/ ~refused]
  /\ UNCHANGED context

\* Keys are changed or an update is prepared.
Hold ==
  /\ ~s.updating /\ ~app.busy
  /\ app' = [app EXCEPT !.busy = TRUE]
  /\ s' = CancelCall([s EXCEPT !.held = TRUE], context, FALSE)
  /\ UNCHANGED context

Release ==
  /\ ~s.updating /\ s.held
  /\ app' = [app EXCEPT !.busy = FALSE]
  /\ s' = Queued([s EXCEPT !.held = FALSE, !.resume = TRUE])
  /\ UNCHANGED context

\* A plausible error: the round at work goes on.
SleepQuietly ==
  /\ ~s.updating
  /\ s' = [s EXCEPT !.asleep = TRUE, !.suspended = TRUE]
  /\ UNCHANGED <<context, app>>

\* suspendRecovery and resumeRecovery
Sleep ==
  /\ ~s.updating
  /\ s' = Cancelled([s EXCEPT !.asleep = TRUE, !.suspended = TRUE], context)
  /\ UNCHANGED <<context, app>>

Wake ==
  /\ ~s.updating /\ s.asleep
  /\ s' = Queued([s EXCEPT !.asleep = FALSE, !.resume = TRUE])
  /\ UNCHANGED <<context, app>>

Retry ==
  /\ ~s.updating /\ ~s.disposed /\ ~s.suspended
  /\ s' = Begun(s, context, TRUE)
  /\ UNCHANGED <<context, app>>

RemoteNotReady ==
  /\ ~s.updating /\ ~s.disposed
  /\ s' = Told(Cancelled([s EXCEPT !.inhibited = Transport(context),
                                   !.blocked = context], context),
               context, context.scope, "settled")
  /\ UNCHANGED <<context, app>>

NetworkError ==
  /\ ~s.updating
  /\ ~s.disposed /\ ~s.suspended /\ s.enabled /\ ~s.paused
  /\ s.inhibited # Transport(context) /\ s.blocked # context
  /\ LET t == Told(s, context, context.scope, "settled")
     IN s' = Automatic(IF t.held /\ t # s THEN Cancelled(t, context) ELSE t, context)
  /\ UNCHANGED <<context, app>>

\* online, and the hints
Online ==
  /\ ~s.updating
  /\ s' = Automatic(s, context)
  /\ UNCHANGED <<context, app>>

Dispose ==
  /\ ~s.updating /\ ~s.disposed
  /\ s' = Cancelled([s EXCEPT !.disposed = TRUE], context)
  /\ UNCHANGED <<context, app>>

-----------------------------------------------------------------------------
Init ==
  /\ context \in {c \in Contexts : c.scope = 0}
  /\ app \in [busy : {FALSE}, stopped : {TRUE}, prefers : BOOLEAN]
  /\ s = [active |-> None, stale |-> {}, suspended |-> FALSE, disposed |-> FALSE,
          enabled |-> app.prefers, paused |-> FALSE, rearm |-> FALSE,
          observed |-> None, blocked |-> None, inhibited |-> None, last |-> None,
          checking |-> FALSE, others |-> FALSE, updating |-> FALSE,
          asleep |-> FALSE, held |-> FALSE, resume |-> FALSE]

\* A round goes on: the one at work (mine), or a superseded one.
RoundStep(mine) ==
  \E x \in IF mine THEN {s.active} \ {None} ELSE s.stale :
    \/ Answer(x, mine)
    \/ Revoked(x, mine)
    \/ \E failed \in BOOLEAN : StartAnswered(x, mine, failed)
    \/ StartRuns(x, mine)

\* The controller is disposed of when the program ends: what changes then no
\* longer concerns it.
Outside ==
  /\ ~s.disposed
  /\ \/ \E c \in Contexts, reset \in BOOLEAN : Change(c, reset)
     \/ \E field \in {"busy", "stopped", "prefers"} : Report(field)
     \/ StartChecks
     \/ \E checking \in BOOLEAN : ShowOthers(checking)
     \/ TokenRefused
     \/ CancelAgain
     \/ \E refused \in BOOLEAN : UserStop(refused)
     \/ Hold \/ Release \/ Sleep \/ Wake \/ Retry \/ RemoteNotReady
     \/ NetworkError \/ Online \/ Dispose

Next ==
  /\ Update \/ Fire \/ Outside \/ \E mine \in BOOLEAN : RoundStep(mine)
  /\ Cardinality(s'.stale) <= MaxStale

\* What the round at work awaits has come: every request has a time-out, and
\* the application answers when no operation is active.
Proceeds ==
  \E x \in {s.active} \ {None} :
    /\ x.at = "start" => ~app.busy
    /\ \/ Answer(x, TRUE)
       \/ Revoked(x, TRUE)
       \/ \E failed \in BOOLEAN : StartAnswered(x, TRUE, failed)
       \/ StartRuns(x, TRUE)

\* Timers fire and a round proceeds, however often the application reports
\* something in between.
Spec ==
  /\ Init /\ [][Next]_vars
  /\ WF_vars(Update) /\ SF_vars(Fire) /\ SF_vars(Proceeds)

-----------------------------------------------------------------------------
TypeOK ==
  /\ context \in Contexts
  /\ app \in [busy : BOOLEAN, stopped : BOOLEAN, prefers : BOOLEAN]
  /\ s.active \in Rounds \cup {None}
  /\ s.stale \subseteq Rounds /\ \A x \in s.stale : x.at \in Awaiting
  /\ {s.observed, s.blocked} \subseteq Contexts \cup {None}
  /\ s.inhibited \in {Transport(c) : c \in Contexts} \cup {None}
  /\ s.last \in [scope : Scopes, status : {"checking", "settled"}] \cup {None}
  /\ {s.suspended, s.disposed, s.enabled, s.paused, s.rearm, s.checking,
      s.others, s.updating, s.asleep, s.held, s.resume} \subseteq BOOLEAN

\* A round never outlives its context, a pause, a suspension or the end:
\* once the update has run, the round at work belongs to what is current.
\* A "checking" that a round has shown, or has taken over, is shown only while
\* it checks: whoever ends the round replaces it (cancel), whatever a start or
\* the other services show in between.
RoundIsCurrent ==
  /\ s.active # None /\ ~s.updating =>
       /\ s.active.context = context
       /\ ~s.paused /\ ~s.suspended /\ ~s.disposed
  /\ s.checking /\ ~s.disposed =>
       s.active # None /\ s.active.at \in {"preflight", "probe"}

\* A connection that never got ready, or a context whose attempts are used up
\* or were refused, is not probed again unless the user asks for it.
VerdictStands ==
  s.active # None /\ ~s.active.manual =>
    s.inhibited # Transport(s.active.context) /\ s.blocked # s.active.context

\* The state has its shape, and no round goes on that must not.
RoundsAreAllowed == TypeOK /\ RoundIsCurrent /\ VerdictStands

\* A start of the proxy is asked for only by the round at work, in its own
\* context, while the user wants the proxy and it is stopped.
StartWanted ==
  [][\A x \in ({s'.active} \ {None}) \cup s'.stale :
       /\ x.at = "start"
       /\ x \notin s.stale
       /\ s.active # None => s.active.at # "start"
       => /\ s.active # None /\ s.active.context = x.context
          /\ x.context = context /\ context.desired /\ app.stopped
          /\ ~s.suspended]_vars

\* Every round, with all who wait for its result, ends, unless the start it
\* asked for waits behind an operation that never ends (a native dialog that
\* nobody answers), or one round after another is superseded for ever because
\* its context changes.
RoundsEnd ==
  \/ []<>(s.active = None)
  \/ <>[](s.active # None /\ s.active.at = "start" /\ app.busy)
  \/ []<><<s.active # None /\ s'.active # None
            /\ s'.active.context # s.active.context>>_vars
=============================================================================
