----------------------------- MODULE Diagnostics ------------------------------
(***************************************************************************)
(* A diagnosis (electron/diagnostics-service.js), the record that main.js    *)
(* keeps of it, and what it is used for: to show, to revoke a credential     *)
(* that the server refuses, and as the proof without which the onboarding of  *)
(* a profile is not completed (app-controller.js).                          *)
(*                                                                         *)
(* Checks run one after another and each may take long; meanwhile the        *)
(* configuration, the scope, the credential and the proxy may change, the    *)
(* run may be cancelled, superseded or come to its deadline.  Nothing else    *)
(* happens while a run goes on by itself: an action of the surroundings       *)
(* needs a run that waits for the answer of a check, or none.                *)
(*                                                                         *)
(* Abstracted: settings, keys, ssh-config, dns and tls are the first check,   *)
(* token and setup the third; their codes, probes and durations.            *)
(***************************************************************************)
EXTENDS Naturals

CONSTANTS
  Settings,   \* configurations, by fingerprint
  Cookies,    \* cookies the portal has given, 0 for none excepted
  MaxScope,   \* bound: epochs
  MaxAuth,    \* bound: authentication generations
  MaxRuns     \* bound: runs

VARIABLES
  world,      \* configuration, scope, credential and the proxy's configuration
  run,        \* the active run of the service
  latest,     \* the run it published last
  record,     \* activeDiagnostic of main.js
  valid,      \* validDiagnosticRunId
  next,       \* the next run id
  completed   \* the onboarding is completed

vars == <<world, run, latest, record, valid, next, completed>>

NoRun == [id |-> 0]
Stopped == [id |-> 0]
Checks == <<"inspections", "local-listener", "portal", "wss", "remote-command">>

\* What has to have passed before a check.  The listener needs the settings, and the
\* keys of a proxy that runs, which are only some of the inspections; the portal has
\* not passed without the settings.
Needs(i) ==
  CASE i \in {1, 3} -> {{}}
    [] i = 2 -> {{}, {1}}
    [] i = 4 -> {{3}}
    [] i = 5 -> {{2, 4}}

\* What a run belongs to.
Identity(r) == <<r.scope, r.config, r.cookie, r.auth>>
Present == <<world.scope, world.config, world.cookie, world.auth>>

\* The run waits for the answer of a check, or there is none.
Waiting ==
  run # NoRun => \E i \in DOMAIN Checks : run.status[i] = "running"

-----------------------------------------------------------------------------
\* onState of main.js takes the id of a run that its record accepts.
Heard(r) ==
  record # NoRun /\ ~record.invalidated /\ <<r.scope, r.config>> = <<record.scope, record.config>>
    /\ record.id \in {0, r.id}

\* publish of the service.
Publish(r) ==
  /\ latest' = r
  /\ record' = IF Heard(r) THEN [record EXCEPT !.id = r.id] ELSE record
  /\ valid' = IF Heard(r) THEN r.id ELSE valid

\* A result counts only if nothing the run belongs to has changed.
IsFresh == Identity(run) = Present

\* The next check that is not decided.
At == CHOOSE i \in DOMAIN Checks :
  run.status[i] \in {"pending", "running"}
    /\ \A j \in 1..i - 1 : run.status[j] \notin {"pending", "running"}

\* check: skipped if the run is aborted or what it needs has not passed.
Check ==
  /\ ~Waiting /\ \E i \in DOMAIN Checks : run.status[i] = "pending"
  /\ \E needs \in Needs(At) :
       LET skipped == \/ run.aborted
                      \/ At = 5 /\ ~run.running
                      \/ \E j \in needs : run.status[j] # "passed"
           r == [run EXCEPT !.status[At] = IF skipped THEN "skipped" ELSE "running"]
       IN  run' = r /\ Publish(r)
  /\ UNCHANGED <<world, next, completed>>

\* The answer of a check; a failure is kept without looking at what has changed,
\* unless it is a refusal.
Outcome(answer) ==
  CASE answer = "failed" -> "failed"
    [] ~IsFresh          -> "skipped"
    [] answer = "ok"     -> "passed"
    [] OTHER             -> "failed"

\* The check is answered: ok, failed, timed out, or refused with 401 or 403.
Answer(answer) ==
  LET refused == answer = "refused" /\ IsFresh
      r == [run EXCEPT !.status[At] = Outcome(answer), !.refused = @ \/ refused]
  IN  /\ run # NoRun /\ Waiting
      /\ answer = "refused" => At = 4
      /\ run' = r /\ Publish(r)
      /\ UNCHANGED <<world, next, completed>>

\* A run whose abort signal comes: the check that waits ends.
Aborted(r) ==
  IF r = NoRun THEN NoRun
  ELSE [r EXCEPT !.aborted = TRUE,
                 !.status = [i \in DOMAIN Checks |->
                               IF r.status[i] = "running" THEN "skipped" ELSE r.status[i]]]

\* The deadline of the run.
Deadline ==
  /\ run # NoRun /\ Waiting
  /\ run' = Aborted(run) /\ Publish(Aborted(run))
  /\ UNCHANGED <<world, next, completed>>

\* All checks are decided.  A refusal revokes the credential, if it still is the
\* one that was refused; main.js forgets its record.
Finish ==
  LET r == [run EXCEPT !.finished = TRUE]
      revokes == run.refused /\ ~run.aborted /\ IsFresh
  IN  /\ run # NoRun
      /\ \A i \in DOMAIN Checks : run.status[i] \in {"passed", "failed", "skipped"}
      /\ run' = NoRun /\ record' = NoRun
      /\ latest' = r /\ valid' = IF Heard(r) THEN r.id ELSE valid
      /\ world' = IF revokes THEN [world EXCEPT !.cookie = 0, !.auth = @ + 1] ELSE world
      /\ UNCHANGED <<next, completed>>

-----------------------------------------------------------------------------
(* main.js                                                                 *)

\* startDiagnostic and run: a run for the same scope and configuration, if main.js
\* has one, is joined; another is superseded and never heard of again.
Start ==
  LET joined == record # NoRun /\ <<record.scope, record.config>> = <<world.scope, world.config>>
      r == [id |-> next, scope |-> world.scope, config |-> world.config,
            cookie |-> world.cookie, auth |-> world.auth,
            running |-> world.proxy # Stopped, proxy |-> world.proxy,
            status |-> [i \in DOMAIN Checks |-> "pending"],
            aborted |-> FALSE, refused |-> FALSE, finished |-> FALSE, current |-> TRUE]
  IN  /\ Waiting /\ next <= MaxRuns /\ ~joined
      /\ run' = r /\ next' = next + 1
      /\ record' = [id |-> 0, scope |-> world.scope, config |-> world.config,
                    invalidated |-> FALSE]
      /\ UNCHANGED <<world, latest, valid, completed>>

\* diagnostics:cancel
Cancel ==
  /\ run # NoRun /\ Waiting /\ record # NoRun
  /\ run' = Aborted(run) /\ Publish(Aborted(run))
  /\ UNCHANGED <<world, next, completed>>

\* A plausible error: equal fingerprints are taken for an unchanged configuration.
ShownByIdentity == IF latest # NoRun /\ Identity(latest) = Present THEN latest ELSE NoRun

\* get and currentDiagnostic: the last run, if it is valid and of the present.
Shown ==
  IF latest # NoRun /\ latest.id = valid /\ Identity(latest) = Present THEN latest ELSE NoRun

-----------------------------------------------------------------------------
(* The application.                                                        *)

\* The runs have seen a change that a result must not survive.
Outdated(r) == IF r = NoRun THEN NoRun ELSE [r EXCEPT !.current = FALSE]

\* invalidateDiagnostics, which a changed configuration or scope comes to at
\* once: nothing is valid, and what runs is aborted unheard.
Changes(new) ==
  /\ Waiting /\ world' = new
  /\ valid' = 0
  /\ record' = IF record = NoRun THEN NoRun ELSE [record EXCEPT !.invalidated = TRUE]
  /\ run' = Outdated(Aborted(run))
  /\ latest' = Outdated(IF run = NoRun THEN latest ELSE Aborted(run))
  /\ UNCHANGED <<next, completed>>

SaveSettings(config) ==
  config # world.config /\ Changes([world EXCEPT !.config = config])

\* The epoch advances with a start, a stop and other exclusive operations.
StartProxy ==
  /\ world.scope < MaxScope /\ world.cookie # 0
  /\ Changes([world EXCEPT !.scope = @ + 1,
                           !.proxy = [id |-> world.scope + 1, config |-> world.config]])
AdvanceEpoch ==
  /\ world.scope < MaxScope
  /\ Changes([world EXCEPT !.scope = @ + 1, !.proxy = Stopped])

\* What main.js is not told of: the proxy fails, ...
ProxyFails ==
  /\ Waiting /\ world.proxy # Stopped /\ world' = [world EXCEPT !.proxy = Stopped]
  /\ UNCHANGED <<run, latest, record, valid, next, completed>>

\* ... the cookie changes or is revoked by somebody else.
CookieSeen(cookie) ==
  /\ Waiting /\ world.cookie # 0 /\ world' = [world EXCEPT !.cookie = cookie]
  /\ UNCHANGED <<run, latest, record, valid, next, completed>>
Revoked ==
  /\ Waiting /\ world.cookie # 0 /\ world.auth < MaxAuth
  /\ world' = [world EXCEPT !.cookie = 0, !.auth = @ + 1]
  /\ run' = Outdated(run) /\ latest' = Outdated(latest)
  /\ UNCHANGED <<record, valid, next, completed>>
Login(cookie) ==
  /\ world.scope < MaxScope /\ world.auth < MaxAuth
  /\ Changes([world EXCEPT !.scope = @ + 1, !.auth = @ + 1, !.cookie = cookie])

\* save-onboarding with "completed": assertProof.
SaveOnboarding ==
  /\ Waiting /\ ~completed
  /\ Shown # NoRun /\ Shown.finished
  /\ \A i \in DOMAIN Checks : Shown.status[i] = "passed"
  /\ world.proxy # Stopped /\ world.proxy.config = world.config
  /\ world.cookie # 0
  /\ completed' = TRUE
  /\ UNCHANGED <<world, run, latest, record, valid, next>>

Init ==
  /\ \E config \in Settings, cookie \in Cookies :
       world = [config |-> config, scope |-> 0, cookie |-> cookie, auth |-> 0,
                proxy |-> [id |-> 0, config |-> config]]
  /\ run = NoRun /\ latest = NoRun /\ record = NoRun /\ valid = 0
  /\ next = 1 /\ completed = FALSE

Next ==
  \/ Check \/ Deadline \/ Finish \/ Start \/ Cancel
  \/ \E answer \in {"ok", "failed", "refused"} : Answer(answer)
  \/ \E config \in Settings : SaveSettings(config)
  \/ \E cookie \in Cookies : CookieSeen(cookie) \/ Login(cookie)
  \/ StartProxy \/ AdvanceEpoch \/ ProxyFails \/ Revoked
  \/ SaveOnboarding

Spec == Init /\ [][Next]_vars

-----------------------------------------------------------------------------
\* Onboarding is completed only with a proof of the present: every check has
\* passed with the present cookie, in a run since whose start neither the
\* configuration nor the scope nor the login has changed (not even back), of the
\* proxy that runs.  And a diagnosis revokes only the very cookie that the server
\* refused in that run (assertProof, currentDiagnostic, isFresh).
DiagnosisHolds ==
  /\ [][completed # completed' =>
          /\ latest.current /\ latest.finished /\ latest.cookie = world.cookie
          /\ latest.running /\ latest.proxy = world.proxy]_vars
  /\ [][run # NoRun /\ run' = NoRun /\ world' # world =>
          run.refused /\ run.current /\ run.cookie = world.cookie]_vars
=============================================================================
