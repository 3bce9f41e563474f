---------------------------- MODULE UpdateService ----------------------------
(***************************************************************************)
(* Checking for, downloading and installing an update                       *)
(* (electron/update-service.js), and the ways out of the program that meet   *)
(* there (main.js: beforeQuit, fatal, the shutdown coordinator).             *)
(*                                                                         *)
(* An installation asks the user, prepares the exit, verifies the cached    *)
(* file again and calls the native updater, which some time later announces  *)
(* a quit (before-quit-for-update) and then quits (before-quit).  The first  *)
(* leaves a marker that the second consumes.  The user may quit between the  *)
(* two, the updater may fail or be too late, the login may be revoked, the   *)
(* program may have a fatal error.                                         *)
(*                                                                         *)
(* Abstracted: the slot of the application controller (module AppController) *)
(* is job; a version is a number, as is a file with that version's checksum; *)
(* progress, texts, notices and the kind of an error are left out.  A        *)
(* promise that is rejected ends its operation in the same step.             *)
(***************************************************************************)
EXTENDS ShutdownCoordinator

CONSTANTS
  Platforms,     \* of "win32", "linux", "darwin"
  MaxVersion     \* versions there are to find

VARIABLES
  platform,
  phase, candidate, ready, restartRequired, disposed,
  op,            \* operation: its kind and where it is
  intent,        \* the hand-over to the installer
  marker,        \* quitMarker: "none", "valid" or "invalid"
  cache,         \* the version of the bytes in the cache; 0: no such bytes
  tampered,      \* another program changed them after the second verification
                 \*   (observed by the properties only)
  handed,        \* the bytes that were handed over, or NotHanded
  native,        \* what the native updater will still do: "notice", "quit"
  job,           \* the operation of the application controller
  edited,        \* a draft was edited since the user confirmed the operation
  prepared,      \* the proxy is stopped and the history written
  shuttingDown, exitPrepared, fatal, allowQuit,
  left           \* how the program was left: "no", "update", "quit", "exit"

service == <<phase, candidate, ready, restartRequired, disposed, op, intent, marker>>
main == <<job, edited, prepared, shuttingDown, exitPrepared, fatal, allowQuit>>
world == <<cache, tampered, handed, native>>
vars == <<platform, service, main, world, left, coordinator>>

NotHanded == MaxVersion + 1
NoOp == [kind |-> "none", at |-> "none", event |-> "none"]
Op(kind, at) == [kind |-> kind, at |-> at, event |-> "none"]
NoIntent == [on |-> FALSE, armed |-> FALSE, failed |-> FALSE, issued |-> FALSE]
LockedPhases == {"downloading", "downloaded", "staging", "installing"}

\* publish is silent after dispose.
Publish(p) == phase' = IF disposed THEN phase ELSE p

\* The operation ends with an error.
OpFails == op' = NoOp /\ Publish("error")

-----------------------------------------------------------------------------
(* check and download.                                                     *)

Check ==
  /\ ~disposed /\ op = NoOp /\ ~restartRequired /\ ~ready /\ phase \notin LockedPhases
  /\ op' = Op("check", "ask") /\ phase' = "checking"
  /\ UNCHANGED <<platform, candidate, ready, restartRequired, disposed, intent, marker>>
  /\ UNCHANGED <<main, world, left, coordinator>>

\* The answer: no newer version, one, or an error, after which an older
\* candidate stands.
Checked ==
  /\ op.kind = "check"
  /\ \/ OpFails /\ UNCHANGED candidate
     \/ op' = NoOp /\ candidate' = 0 /\ Publish("current")
     \/ op' = NoOp /\ candidate' \in 1..MaxVersion /\ Publish("available")
  /\ UNCHANGED <<platform, ready, restartRequired, disposed, intent, marker>>
  /\ UNCHANGED <<main, world, left, coordinator>>

Download ==
  /\ ~disposed /\ op = NoOp /\ ~restartRequired /\ ~ready /\ candidate # 0
  /\ op' = Op("download", "fetch") /\ phase' = "downloading"
  /\ UNCHANGED <<platform, candidate, ready, restartRequired, disposed, intent, marker>>
  /\ UNCHANGED <<main, world, left, coordinator>>

\* The event update-downloaded: a second one is an error, as is another version.
DownloadEvent ==
  /\ op.kind = "download" /\ ~disposed
  /\ op' = [op EXCEPT !.event = IF @ = "none" THEN "seen" ELSE "error"]
  /\ cache' \in 0..MaxVersion
  /\ UNCHANGED <<platform, phase, candidate, ready, restartRequired, disposed, intent, marker>>
  /\ UNCHANGED <<main, tampered, handed, native, left, coordinator>>

Fetched ==
  /\ op.kind = "download" /\ op.at = "fetch"
  /\ \/ op.event = "seen" /\ op' = [op EXCEPT !.at = "verify"] /\ UNCHANGED phase
     \/ OpFails
  /\ UNCHANGED <<platform, candidate, ready, restartRequired, disposed, intent, marker>>
  /\ UNCHANGED <<main, world, left, coordinator>>

Downloaded ==
  /\ op.kind = "download" /\ op.at = "verify"
  /\ IF cache = candidate /\ op.event = "seen"
     THEN op' = NoOp /\ ready' = TRUE /\ Publish("downloaded")
     ELSE OpFails /\ UNCHANGED ready
  /\ UNCHANGED <<platform, candidate, restartRequired, disposed, intent, marker>>
  /\ UNCHANGED <<main, world, left, coordinator>>

-----------------------------------------------------------------------------
(* install                                                                 *)

\* The controller's operation install-update, with the operation of the service.
Install ==
  /\ job = "none" /\ ~shuttingDown
  /\ ~disposed /\ op = NoOp /\ ~restartRequired /\ ready
  /\ job' = "install" /\ edited' = FALSE
  /\ op' = Op("install", "prepare")
  /\ UNCHANGED <<platform, phase, candidate, ready, restartRequired, disposed, intent, marker>>
  /\ UNCHANGED <<prepared, shuttingDown, exitPrepared, fatal, allowQuit>>
  /\ UNCHANGED <<world, left, coordinator>>

JobEnds == job' = "none" /\ UNCHANGED edited

\* prepare: the user declines, or the proxy is stopped and the history written,
\* or that fails.
Prepare ==
  /\ op.kind = "install" /\ op.at = "prepare"
  /\ \/ ~edited /\ op' = NoOp /\ Publish("downloaded") /\ JobEnds /\ UNCHANGED prepared
     \/ /\ ~edited /\ prepared' = TRUE /\ op' = [op EXCEPT !.at = "verify"]
        /\ UNCHANGED <<phase, job, edited>>
     \/ OpFails /\ JobEnds /\ UNCHANGED prepared
  /\ UNCHANGED <<platform, candidate, ready, restartRequired, disposed, intent, marker>>
  /\ UNCHANGED <<shuttingDown, exitPrepared, fatal, allowQuit, world, left, coordinator>>

\* active.fail: the hand-over is over, but its intent stays, so that a quit of
\* the updater that comes late is recognised.
IntentFails ==
  /\ intent' = [intent EXCEPT !.failed = TRUE]
  /\ OpFails /\ JobEnds

\* What quitAndInstall of the updater does at once.
HandOver ==
  /\ handed' = cache
  /\ native' = native \cup {"notice", "quit"}

\* A plausible error: what the download has verified is not verified again.
VerifiedBefore == ready

\* The file may be trusted that is handed over next.
Verified == cache = candidate

\* The second verification hashes the file.
VerifyAgain ==
  /\ op.kind = "install" /\ op.at = "verify"
  /\ IF Verified
     THEN /\ op' = [op EXCEPT !.at = "verified"] /\ tampered' = FALSE
          /\ UNCHANGED <<phase, ready, job, edited>>
     ELSE ready' = FALSE /\ OpFails /\ JobEnds /\ UNCHANGED tampered
  /\ UNCHANGED <<platform, candidate, restartRequired, disposed, intent, marker>>
  /\ UNCHANGED <<prepared, shuttingDown, exitPrepared, fatal, allowQuit>>
  /\ UNCHANGED <<cache, handed, native, left, coordinator>>

\* On win32 the system is asked for its signature then, and may refuse it.
SignatureInvalid ==
  /\ op.at = "verified" /\ platform = "win32"
  /\ ready' = FALSE /\ OpFails /\ JobEnds
  /\ UNCHANGED <<platform, candidate, restartRequired, disposed, intent, marker>>
  /\ UNCHANGED <<prepared, shuttingDown, exitPrepared, fatal, allowQuit>>
  /\ UNCHANGED <<world, left, coordinator>>

\* What follows the verification without a pause: the intent, and the native
\* updater, which stages the file first on darwin.  Elsewhere it may throw (on
\* Linux from the handler of the new file name), or do nothing at all.  The
\* file is what it is by now.
HandOff ==
  /\ op.at = "verified"
  /\ \/ /\ edited \/ platform = "linux"
        /\ OpFails /\ JobEnds
        /\ UNCHANGED <<restartRequired, intent, handed, native>>
     \/ /\ ~edited /\ restartRequired' = TRUE
        /\ \/ /\ platform = "darwin"
              /\ intent' = [NoIntent EXCEPT !.on = TRUE]
              /\ op' = [op EXCEPT !.at = "staging"] /\ Publish("staging")
              /\ UNCHANGED <<handed, native, job, edited>>
           \/ /\ platform # "darwin"
              /\ intent' = [NoIntent EXCEPT !.on = TRUE, !.armed = TRUE]
              /\ HandOver \/ UNCHANGED <<handed, native>>
              /\ op' = [op EXCEPT !.at = "handoff"]
              /\ UNCHANGED <<phase, job, edited>>
           \/ /\ platform # "darwin"
              /\ intent' = [NoIntent EXCEPT !.on = TRUE, !.armed = TRUE, !.failed = TRUE]
              /\ handed' = cache /\ OpFails /\ JobEnds /\ UNCHANGED native
  /\ UNCHANGED <<platform, candidate, ready, disposed, marker, cache, tampered>>
  /\ UNCHANGED <<prepared, shuttingDown, exitPrepared, fatal, allowQuit, left, coordinator>>

\* darwin: the native updater has staged the file, which it checks itself.
Staged ==
  /\ op.at = "staging"
  /\ IF edited THEN IntentFails /\ UNCHANGED <<handed, native>>
     ELSE /\ intent' = [intent EXCEPT !.armed = TRUE]
          /\ op' = [op EXCEPT !.at = "handoff"]
          /\ handed' = candidate /\ native' = native \cup {"notice", "quit"}
          /\ UNCHANGED <<phase, job, edited>>
  /\ UNCHANGED <<platform, candidate, ready, restartRequired, disposed, marker, cache, tampered>>
  /\ UNCHANGED <<prepared, shuttingDown, exitPrepared, fatal, allowQuit, left, coordinator>>

\* An error of an updater, or sixty seconds without a quit.
HandOffFails ==
  /\ op.at \in {"staging", "handoff"}
  /\ IntentFails
  /\ UNCHANGED <<platform, candidate, ready, restartRequired, disposed, marker>>
  /\ UNCHANGED <<prepared, shuttingDown, exitPrepared, fatal, allowQuit>>
  /\ UNCHANGED <<world, left, coordinator>>

\* The controller's operation is aborted by a revoked login.
Revoked ==
  /\ job = "install"
  /\ IF intent.on THEN IntentFails ELSE OpFails /\ JobEnds /\ UNCHANGED intent
  /\ UNCHANGED <<platform, candidate, ready, restartRequired, disposed, marker>>
  /\ UNCHANGED <<prepared, shuttingDown, exitPrepared, fatal, allowQuit>>
  /\ UNCHANGED <<world, left, coordinator>>

-----------------------------------------------------------------------------
(* The quit that the updater announces.                                    *)

\* What before-quit-for-update leaves for before-quit.
MarkerOf == IF ~intent.issued /\ ~intent.failed THEN "valid" ELSE "invalid"

\* before-quit-for-update; nobody listens after dispose.
Notice ==
  /\ "notice" \in native /\ native' = native \ {"notice"}
  /\ IF ~disposed /\ intent.on /\ intent.armed
     THEN marker' = MarkerOf /\ intent' = [intent EXCEPT !.issued = TRUE]
     ELSE UNCHANGED <<marker, intent>>
  /\ UNCHANGED <<platform, phase, candidate, ready, restartRequired, disposed, op>>
  /\ UNCHANGED <<main, cache, tampered, handed, left, coordinator>>

\* consumeQuitMarker and the rest of beforeQuit: a valid marker lets the program
\* go, as long as the operation is current; an invalid one keeps it.
Consume ==
  /\ marker # "none" /\ marker' = "none"
  /\ IF marker = "valid" /\ ~intent.failed /\ op.at = "handoff" /\ ~edited
     THEN /\ op' = NoOp /\ phase' = "installing" /\ job' = "none"
          /\ shuttingDown' = TRUE /\ allowQuit' = TRUE /\ left' = "update"
          /\ UNCHANGED <<intent, edited>>
     ELSE /\ IF intent.failed THEN UNCHANGED <<intent, op, phase, job, edited>> ELSE IntentFails
          /\ UNCHANGED <<shuttingDown, allowQuit, left>>
  /\ UNCHANGED <<candidate, ready, restartRequired, disposed>>
  /\ UNCHANGED <<prepared, exitPrepared, fatal, coordinator>>

\* An ordinary quit goes if it is allowed, or asks the controller to exit.
OrdinaryQuit ==
  /\ marker = "none"
  /\ \/ allowQuit /\ left' = "quit" /\ UNCHANGED <<job, edited>>
     \/ /\ ~allowQuit /\ job = "none" /\ ~shuttingDown
        /\ job' = "exit" /\ edited' = FALSE /\ UNCHANGED left
     \/ ~allowQuit /\ (job # "none" \/ shuttingDown) /\ UNCHANGED <<job, edited, left>>
  /\ UNCHANGED <<service, coordinator>>
  /\ UNCHANGED <<prepared, shuttingDown, exitPrepared, fatal, allowQuit>>

\* before-quit, of the user or of the updater, whose notice comes first.  After a
\* fatal error only the coordinator ends the program.
BeforeQuit(mine) ==
  /\ mine => native = {"quit"}
  /\ native' = IF mine THEN {} ELSE native
  /\ IF fatal THEN UNCHANGED <<service, main, left, coordinator>>
     ELSE Consume \/ OrdinaryQuit
  /\ UNCHANGED <<platform, cache, tampered, handed>>

-----------------------------------------------------------------------------
(* Exits.                                                                  *)

\* dispose: the operation is aborted, the intent and the marker are forgotten.
Dispose ==
  /\ disposed' = TRUE /\ op' = NoOp /\ intent' = NoIntent /\ marker' = "none"
  /\ UNCHANGED <<candidate, ready, restartRequired>>
  /\ phase' = IF ~disposed /\ intent.on /\ ~intent.failed THEN "error" ELSE phase

\* The controller's operation exit: declined or failed, or prepared, whereupon
\* the coordinator is asked to exit with code 0.
Exit ==
  /\ job = "exit" /\ job' = "none" /\ UNCHANGED <<edited, fatal>>
  /\ \/ /\ UNCHANGED <<service, prepared, shuttingDown, exitPrepared, allowQuit, coordinator>>
     \/ /\ ~edited /\ prepared' = TRUE /\ shuttingDown' = TRUE /\ exitPrepared' = TRUE
        /\ allowQuit' = TRUE
        /\ Dispose /\ Requested(0) /\ preparation' = "done" /\ UNCHANGED exited
  /\ UNCHANGED <<platform, world, left>>

\* fatal: at any time, also during an exit or another fatal error.
Fatal ==
  /\ fatal' = TRUE /\ shuttingDown' = TRUE
  /\ allowQuit' = TRUE
  /\ job' = "none" /\ UNCHANGED edited
  /\ Dispose /\ Requested(1) /\ UNCHANGED exited
  /\ preparation' = IF preparation = "none" THEN "running" ELSE preparation
  /\ UNCHANGED <<platform, prepared, exitPrepared, world, left>>

\* The steps of the coordinator.
Cleanup ==
  /\ \E end \in {"done", "failed"} :
       /\ CleanupEnds(end)
       /\ prepared' = (prepared \/ end = "done")
  /\ UNCHANGED <<platform, service, world, left>>
  /\ UNCHANGED <<job, edited, shuttingDown, exitPrepared, fatal, allowQuit>>

Settles == Settle /\ left' = "exit" /\ UNCHANGED <<platform, service, main, world>>
Forced == Force /\ left' = "exit" /\ UNCHANGED <<platform, service, main, world>>

-----------------------------------------------------------------------------
(* What goes on beside.                                                    *)

\* The proxy is started, by another operation of the controller.
StartProxy ==
  /\ job = "none" /\ ~shuttingDown /\ prepared
  /\ prepared' = FALSE
  /\ UNCHANGED <<platform, service, world, left, coordinator>>
  /\ UNCHANGED <<job, edited, shuttingDown, exitPrepared, fatal, allowQuit>>

\* A draft is edited while an operation is under way.
Edit ==
  /\ job # "none" /\ ~edited /\ edited' = TRUE
  /\ UNCHANGED <<platform, service, world, left, coordinator>>
  /\ UNCHANGED <<job, prepared, shuttingDown, exitPrepared, fatal, allowQuit>>

\* Another program changes the cached file.
Tamper ==
  /\ cache' = 0 /\ tampered' = TRUE
  /\ UNCHANGED <<platform, service, main, handed, native, left, coordinator>>

Next ==
  /\ left = "no"
  /\ \/ Check \/ Checked \/ Download \/ DownloadEvent \/ Fetched \/ Downloaded
     \/ Install \/ Prepare \/ VerifyAgain \/ SignatureInvalid \/ HandOff
     \/ Staged \/ HandOffFails \/ Revoked
     \/ Notice \/ BeforeQuit(TRUE) \/ BeforeQuit(FALSE)
     \/ Exit \/ Fatal \/ Cleanup \/ Settles \/ Forced
     \/ StartProxy \/ Edit \/ Tamper

Init ==
  /\ platform \in Platforms
  /\ phase = "idle" /\ candidate = 0 /\ ready = FALSE /\ restartRequired = FALSE
  /\ disposed = FALSE /\ op = NoOp /\ intent = NoIntent /\ marker = "none"
  /\ cache = 0 /\ tampered = FALSE /\ handed = NotHanded /\ native = {}
  /\ job = "none" /\ edited = FALSE /\ prepared = FALSE
  /\ shuttingDown = FALSE /\ exitPrepared = FALSE /\ fatal = FALSE /\ allowQuit = FALSE
  /\ left = "no" /\ CoordinatorInit

\* Timers fire: the one that forces the exit, and the one of the hand-over.
Fairness ==
  /\ WF_vars(left = "no" /\ Forced)
  /\ WF_vars(left = "no" /\ HandOffFails)

Spec == Init /\ [][Next]_vars /\ Fairness

-----------------------------------------------------------------------------
TypeOK ==
  /\ phase \in {"idle", "checking", "current", "available", "error"} \cup LockedPhases
  /\ candidate \in 0..MaxVersion /\ cache \in 0..MaxVersion
  /\ op.kind = "none" <=> op.at = "none"
  /\ job \in {"none", "install", "exit"} /\ (op.kind = "install" => job = "install")
  /\ waiting \in {"no", "yes", "settled"} /\ exited \in 0..2

\* The updater is given only bytes that matched the checksum of the candidate
\* when they were verified after the exit had been prepared: they differ only
\* if another program has changed the file since then (verify, before the
\* signature is checked and quitAndInstall called).  And no quit, the updater's
\* or an ordinary one, however late, takes the program away while the proxy may
\* be running or the history unwritten, or after a fatal error.
UpdateLeavesClean ==
  /\ handed \in {candidate, NotHanded} \/ tampered
  /\ left \in {"update", "quit"} => prepared /\ ~fatal
  /\ left = "update" => handed # NotHanded /\ ~intent.failed

\* The program exits with a code other than 0 if and only if there was a fatal
\* error, a failed cleanup or a forced exit, in whatever order they came.
ExitCodeIsTold ==
  left = "exit" =>
    /\ exited = 1 <=> fatal \/ preparation = "failed" \/ waiting = "yes"
    /\ waiting = "settled" => prepared \/ preparation = "failed"

\* A shutdown that was requested ends the program even if its cleanup never
\* does, and a hand-over that the updater never completes gives the operation back.
NothingHangs ==
  /\ started ~> left # "no"
  /\ op.at \in {"staging", "handoff"} ~> op.kind = "none"
=============================================================================
