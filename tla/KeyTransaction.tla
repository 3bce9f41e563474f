--------------------------- MODULE KeyTransaction ---------------------------
(***************************************************************************)
(* The replacement of the application's SSH identities                     *)
(* (electron/ssh-key-service.js: prepare, execute, rollback, cleanup,      *)
(* recover, initialize) over the root journal kept by the settings store.  *)
(*                                                                         *)
(* The identities are three files.  A replacement writes a journal into    *)
(* the root settings document (prepared), renames the new files into       *)
(* place, commits "installed", binds a candidate listener that refuses     *)
(* connections, commits "committed" with the new fingerprints, opens the   *)
(* gate, deletes the rollback files and drops the journal.                 *)
(*                                                                         *)
(* JavaScript runs a stretch of code between two awaits atomically with    *)
(* respect to the rest of the program, but a crash may end the process     *)
(* between any two file operations; so every durable effect is one action  *)
(* and a crash is possible between any two of them.  Cancellation and      *)
(* edits of the key files by others happen while the service is suspended  *)
(* at an await, idle or down.                                              *)
(*                                                                         *)
(* Abstracted: bytes of a file are the identity they encode (hashes and    *)
(* fingerprints are that identity; PKCS8 or OpenSSH encoding is not told   *)
(* apart); the stage file of a rename is written and verified in the same  *)
(* stretch as the rename, so only the rename is a step; one journal exists *)
(* at a time, so its id is left out.                                       *)
(***************************************************************************)
EXTENDS FiniteSets, Naturals

CONSTANTS
  Identities,   \* identities that key files may encode
  Absent,       \* content of a file that does not exist
  Foreign,      \* bytes that are none of the application's identities
  Unknown,      \* a fingerprint the root does not record (null)
  Missing,      \* roles whose files may be missing when the model starts
  DoubleFault   \* may a power loss undo a root rename that a restarted
                \* process has already read?

Roles == {"client-private", "client-public", "host-private"}
Kinds == {"client", "host"}
Content == Identities \cup {Absent, Foreign}

ASSUME ContentAssumption ==
  /\ Absent \notin Identities
  /\ Foreign \notin Identities
  /\ Unknown \notin Identities
  /\ Absent # Foreign
ASSUME MissingAssumption == Missing \subseteq Roles
ASSUME DoubleFaultAssumption == DoubleFault \in BOOLEAN

\* The key that a file belongs to, and the file that proves a key.
KeyOf(r) == IF r = "host-private" THEN "host" ELSE "client"
PrivateFile(k) == IF k = "host" THEN "host-private" ELSE "client-private"
\* The files of the targets "client", "host" and "both".
Targets == {{"client-private", "client-public"}, {"host-private"}, Roles}

Keys == [Kinds -> Identities \cup {Unknown}]
Files == [Roles -> Content]
Phases == {"none", "prepared", "installed", "committed"}

\* What a transaction replaces: the bytes it found and the bytes it installs.
Plans == [roles : SUBSET Roles, old : Files, new : Files,
          before : Keys, after : Keys]
NoFiles == [r \in Roles |-> Absent]
NoKeys == [k \in Kinds |-> Unknown]
NoPlan == [roles |-> {}, old |-> NoFiles, new |-> NoFiles,
           before |-> NoKeys, after |-> NoKeys]

\* The part of the root settings document that concerns the keys.
Roots == [initialized : BOOLEAN, keys : Keys, phase : Phases, plan : Plans]
Settled(k) ==
  [initialized |-> TRUE, keys |-> k, phase |-> "none", plan |-> NoPlan]
Journal(p, ph) ==
  [initialized |-> TRUE,
   keys |-> IF ph = "committed" THEN p.after ELSE p.before,
   phase |-> ph, plan |-> p]
NewInstallation ==
  [initialized |-> FALSE, keys |-> NoKeys, phase |-> "none", plan |-> NoPlan]

Listeners == [gate : {"off", "gated", "open"}, keys : Keys]
NoListener == [gate |-> "off", keys |-> NoKeys]

\* The local variables of a running execute or recover.
Runs == [mode : {"execute", "recover"}, plan : Plans, todo : SUBSET Roles,
         committed : BOOLEAN, uncertain : BOOLEAN, aborted : BOOLEAN,
         wasRunning : BOOLEAN]
NoRun == [mode |-> "recover", plan |-> NoPlan, todo |-> {},
          committed |-> FALSE, uncertain |-> FALSE, aborted |-> FALSE,
          wasRunning |-> FALSE]

VARIABLES
  pc,          \* the point the service has reached
  run,         \* the locals of the running transaction or recovery:
               \*   mode        who runs the shared rollback code
               \*   plan        what is replaced
               \*   todo        roles the current loop has still to handle
               \*   committed   the committed root was confirmed
               \*   uncertain   the error in hand is an uncertain root commit
               \*   aborted     the caller's signal or scope was cancelled
               \*   wasRunning  a listener was serving at the beginning
  failure,     \* the service's sticky failure code is set
  files,       \* contents of the three key files
  rollback,    \* contents of the rollback files of the journal
  mem,         \* root document in memory
  disk,        \* root document a reader of the file sees
  stable,      \* root document that a power loss leaves
  locked,      \* the settings store refuses writes
  listener     \* the proxy listener's gate and the identities it presents

roots == <<mem, disk, stable, locked>>
store == <<files, rollback>>
vars == <<pc, run, failure, store, roots, listener>>

-----------------------------------------------------------------------------
(* State predicates the code tests.                                        *)

\* inspectOne: the private file of k parses and matches the recorded key.
Ready(k) ==
  /\ files[PrivateFile(k)] \in Identities
  /\ mem.keys[k] \in {Unknown, files[PrivateFile(k)]}

\* assertReady: unlocked, no failure, no journal and both keys ready.
AssertReady ==
  /\ ~locked
  /\ ~failure
  /\ mem.phase = "none"
  /\ mem.initialized
  /\ \A k \in Kinds : Ready(k)

\* assertOriginal: every file still holds the bytes the plan found.
Original(p, rs) == \A r \in rs : files[r] = p.old[r]

\* assertInstalled: new bytes where replaced, original bytes elsewhere.
Installed(p) ==
  /\ \A r \in p.roles : files[r] = p.new[r]
  /\ Original(p, Roles \ p.roles)

\* A plausible error: only the rollback files are validated.
RollbackUnchecked(p) ==
  \A r \in p.roles : p.old[r] # Absent => rollback[r] = p.old[r]

\* rollback's first pass: every file is as it was, or holds the new bytes
\* and can be restored or removed.
RollbackPossible(p) ==
  \A r \in p.roles :
    \/ files[r] = p.old[r]
    \/ /\ files[r] = p.new[r]
       /\ p.old[r] # Absent => rollback[r] = p.old[r]

\* validateCommitted: the recorded keys and every replaced file are the new.
ValidCommitted(p) ==
  /\ mem.keys = p.after
  /\ \A r \in p.roles : files[r] = p.new[r]
  /\ \A k \in Kinds : Ready(k)

\* Points at which the service waits for something asynchronous.
Awaiting == {"idle", "backup", "stopping", "bind", "unbind", "activate",
             "restore"}

-----------------------------------------------------------------------------
(* Control.                                                                *)

Goto(label) == pc' = label

\* The function returns or throws to its caller, and its locals are gone.
Return == Goto("idle") /\ run' = NoRun

Fail == failure' = TRUE /\ Return

\* The root document that the commit at the current point writes.
CommitPoints == {"journal", "mark", "commit", "finish", "settle", "record"}
JournalPhase ==
  [journal |-> "prepared", mark |-> "installed", commit |-> "committed"]
\* A plausible error: the journal is always settled forwards.
SettledForwards ==
  IF pc = "record" THEN [k \in Kinds |-> files[PrivateFile(k)]]
  ELSE run.plan.after
SettledKeys ==
  IF pc = "record" THEN [k \in Kinds |-> files[PrivateFile(k)]]
  ELSE IF pc = "finish" THEN mem.keys
  ELSE IF mem.phase = "committed" THEN run.plan.after ELSE run.plan.before
PendingRoot ==
  IF pc \in DOMAIN JournalPhase THEN Journal(run.plan, JournalPhase[pc])
  ELSE Settled(SettledKeys)

\* rootCommit, confirmed: written, renamed and the directory synchronised.
CommitRoot ==
  /\ ~locked
  /\ mem' = PendingRoot /\ disk' = PendingRoot /\ stable' = PendingRoot
  /\ UNCHANGED locked

\* rootCommit throws.  Either nothing was written (a locked store, a failed
\* write; no change at all), or the outcome is uncertain and the store locks:
\* the new root is readable but not durable, or may or may not be there.
CommitUncertain ==
  /\ ~locked
  /\ locked' = TRUE
  /\ \/ mem' = PendingRoot /\ disk' = PendingRoot
     \/ mem' = mem /\ disk' \in {disk, PendingRoot}
  /\ UNCHANGED stable

\* execute enters its catch block, which closes the candidate first if there
\* may be one.
Throw(isUncertain) ==
  /\ Goto(IF pc \in {"bind", "commit", "activate", "clean", "finish"}
          THEN "catch" ELSE "resolve")
  /\ run' = [run EXCEPT !.uncertain = isUncertain]

-----------------------------------------------------------------------------
(* execute                                                                 *)

\* prepare's choice of new identities: a rebuild keeps a ready key, keys
\* outside the target keep theirs, the rest may become anything (a generated
\* key, or the pair of an imported backup).
NewKeys(target, rebuild, imported) ==
  {new \in [Kinds -> Identities] :
     \A k \in Kinds :
       (\/ PrivateFile(k) \notin target
        \/ rebuild /\ ~imported /\ Ready(k))
         => new[k] = files[PrivateFile(k)]}

PlanFor(target, new) ==
  [roles |-> target, old |-> files,
   new |-> [r \in Roles |-> IF r \in target THEN new[KeyOf(r)] ELSE files[r]],
   before |-> mem.keys, after |-> new]

\* prepareRotate, prepareRebuild or prepareImport, the confirmation, and the
\* start of execute.  Keys outside the target must be ready; a rotation needs
\* every key ready.
Execute(target, rebuild, imported) ==
  /\ pc = "idle"
  /\ ~locked /\ ~failure /\ mem.phase = "none"
  /\ imported => rebuild /\ target = Roles
  /\ \A k \in Kinds : PrivateFile(k) \notin target => Ready(k)
  /\ rebuild \/ AssertReady
  /\ \E new \in NewKeys(target, rebuild, imported) :
       run' = [NoRun EXCEPT !.mode = "execute",
                            !.plan = PlanFor(target, new),
                            !.wasRunning = (listener.gate = "open")]
  /\ Goto("backup")
  /\ UNCHANGED <<failure, store, roots, listener>>

\* exportBackup (if one is needed) is over: cancelled or failed, or the
\* fingerprints, the journal and the files are checked and the listener is
\* asked to stop.
BackupDone ==
  /\ pc = "backup"
  /\ ~run.aborted
  /\ mem.keys = run.plan.before /\ mem.phase = "none"
  /\ Original(run.plan, Roles)
  /\ Goto("stopping")
  /\ UNCHANGED <<run, failure, store, roots, listener>>

BackupFails ==
  /\ pc = "backup"
  /\ Return
  /\ UNCHANGED <<failure, store, roots, listener>>

\* beforeInstall has stopped the listener.  The files are checked again and,
\* in the same stretch, the stage and rollback files written and verified.
StoppedStage ==
  /\ pc = "stopping"
  /\ ~run.aborted /\ Original(run.plan, Roles)
  /\ rollback' = [r \in Roles |->
                    IF r \in run.plan.roles THEN run.plan.old[r] ELSE Absent]
  /\ listener' = NoListener
  /\ Goto("journal")
  /\ UNCHANGED <<run, failure, files, roots>>

\* The files changed: the listener is started again before execute throws.
StoppedChanged ==
  /\ pc = "stopping"
  /\ ~run.aborted /\ ~Original(run.plan, Roles)
  /\ listener' = NoListener
  /\ Goto("restore")
  /\ UNCHANGED <<run, failure, store, roots>>

\* beforeInstall failed, or the operation was cancelled meanwhile.
StoppedFails ==
  /\ pc = "stopping"
  /\ listener' \in {listener, NoListener}
  /\ Return
  /\ UNCHANGED <<failure, store, roots>>

CommitJournal ==
  /\ pc = "journal"
  /\ CommitRoot
  /\ run' = [run EXCEPT !.todo = run.plan.roles]
  /\ Goto("install")
  /\ UNCHANGED <<failure, store, listener>>

\* One rename of a stage file over the key file.
Install(r) ==
  /\ pc = "install"
  /\ r \in run.todo
  /\ Original(run.plan, {r})
  /\ files' = [files EXCEPT ![r] = run.plan.new[r]]
  /\ run' = [run EXCEPT !.todo = @ \ {r}]
  /\ UNCHANGED <<pc, failure, rollback, roots, listener>>

InstallDone ==
  /\ pc = "install"
  /\ run.todo = {}
  /\ Installed(run.plan)
  /\ Goto("mark")
  /\ UNCHANGED <<run, failure, store, roots, listener>>

CommitInstalled ==
  /\ pc = "mark"
  /\ CommitRoot
  /\ Goto("bind")
  /\ UNCHANGED <<run, failure, store, listener>>

\* A plausible error: the candidate admits connections at once.
CandidateOpen == [gate |-> "open", keys |-> run.plan.after]

\* startCandidate resolves: the listener is bound, its gate is closed, and
\* the files are still those installed.
Candidate == [gate |-> "gated", keys |-> run.plan.after]

BindDone ==
  /\ pc = "bind"
  /\ ~run.aborted /\ Installed(run.plan)
  /\ listener' = Candidate
  /\ Goto("commit")
  /\ UNCHANGED <<run, failure, store, roots>>

CommitIdentity ==
  /\ pc = "commit"
  /\ CommitRoot
  /\ run' = [run EXCEPT !.committed = TRUE]
  /\ Goto("activate")
  /\ UNCHANGED <<failure, store, listener>>

\* activateCandidate: the controller opens the gate only while the store is
\* unlocked and its root says committed.  If no listener was serving before,
\* the candidate is stopped instead.
Activated ==
  IF run.wasRunning
  THEN /\ ~locked /\ mem.phase = "committed"
       /\ listener' = [listener EXCEPT !.gate = "open"]
  ELSE listener' = NoListener

ActivateDone ==
  /\ pc = "activate"
  /\ ~run.aborted
  /\ Activated
  /\ Goto("clean")
  /\ UNCHANGED <<run, failure, store, roots>>

\* A plausible error: the rollback files are removed before the commit.
UnlinkEarly(r) ==
  /\ pc \in {"commit", "clean", "rbclean"}
  /\ rollback[r] # Absent
  /\ rollback' = [rollback EXCEPT ![r] = Absent]
  /\ UNCHANGED <<pc, run, failure, files, roots, listener>>

\* cleanup unlinks the rollback files; only the last directory
\* synchronisation makes that durable, so any of them may go first.
Unlink(r) ==
  /\ pc \in {"clean", "rbclean"}
  /\ rollback[r] # Absent
  /\ rollback' = [rollback EXCEPT ![r] = Absent]
  /\ UNCHANGED <<pc, run, failure, files, roots, listener>>

CleanDone ==
  /\ pc = "clean"
  /\ rollback = NoFiles
  /\ Goto("finish")
  /\ UNCHANGED <<run, failure, store, roots, listener>>

Finish ==
  /\ pc = "finish"
  /\ CommitRoot
  /\ failure' = FALSE
  /\ Return
  /\ UNCHANGED <<store, listener>>

\* A step of execute's try block fails, or an await ends after the operation
\* was cancelled or the files changed.  A rename may have happened although
\* its directory synchronisation failed; the candidate may be bound, or open.
ExecuteThrows ==
  /\ pc \in {"journal", "install", "mark", "bind", "commit", "activate",
             "clean", "finish"}
  /\ Throw(FALSE)
  /\ \/ UNCHANGED <<files, listener>>
     \/ /\ pc = "install"
        /\ \E r \in run.todo : files' = [files EXCEPT ![r] = run.plan.new[r]]
        /\ UNCHANGED listener
     \/ pc = "bind" /\ listener' = Candidate /\ UNCHANGED files
     \/ pc = "activate" /\ run.aborted /\ Activated /\ UNCHANGED files
  /\ UNCHANGED <<failure, rollback, roots>>

ExecuteUncertain ==
  /\ pc \in {"journal", "mark", "commit", "finish"}
  /\ CommitUncertain
  /\ Throw(TRUE)
  /\ UNCHANGED <<failure, store, listener>>

-----------------------------------------------------------------------------
(* execute's catch block                                                   *)

\* stopCandidate closes the gate before it waits for the listener to stop.
CloseGate ==
  /\ pc = "catch"
  /\ listener' = IF listener.gate = "open"
                 THEN [listener EXCEPT !.gate = "gated"] ELSE listener
  /\ Goto("unbind")
  /\ UNCHANGED <<run, failure, store, roots>>

Unbound ==
  /\ pc = "unbind"
  /\ listener' = NoListener
  /\ Goto("resolve")
  /\ UNCHANGED <<run, failure, store, roots>>

UnbindFails ==
  /\ pc = "unbind"
  /\ Fail
  /\ UNCHANGED <<store, roots, listener>>

\* reloadRoot (the store's retryLoad) when the commit's outcome is uncertain:
\* the file is read, the directory synchronised and the store unlocked.  A
\* root that holds no journal must record the original keys.
Reload ==
  /\ pc = "resolve" /\ run.uncertain
  /\ mem' = disk /\ stable' = disk /\ locked' = FALSE
  /\ IF disk.phase = "none" /\ disk.keys # run.plan.before
     THEN Fail
     ELSE /\ run' = [run EXCEPT !.uncertain = FALSE,
                       !.committed = IF disk.phase = "none" THEN @
                                     ELSE disk.phase = "committed"]
          /\ failure' = FALSE
          /\ UNCHANGED pc
  /\ UNCHANGED <<disk, store, listener>>

\* The file cannot be read or the directory not synchronised: still locked.
ReloadFails ==
  /\ pc = "resolve" /\ run.uncertain
  /\ \/ UNCHANGED <<mem, stable>>
     \/ mem' = disk /\ stable' = disk
  /\ Fail
  /\ UNCHANGED <<disk, locked, store, listener>>

\* A committed identity stays.  Otherwise roll back if there is a journal, and
\* only clean up if there is none.
KeepCommitted ==
  /\ pc = "resolve" /\ ~run.uncertain
  /\ run.committed \/ mem.phase = "committed"
  /\ Fail
  /\ UNCHANGED <<store, roots, listener>>

Decide ==
  /\ pc = "resolve" /\ ~run.uncertain
  /\ ~run.committed /\ mem.phase # "committed"
  /\ Goto(IF mem.phase = "none" THEN "rbclean" ELSE "rollback")
  /\ UNCHANGED <<run, failure, store, roots, listener>>

\* getKeyMaterial gives a listener the identities of the files, and only when
\* assertReady holds.
OpenListener ==
  /\ AssertReady
  /\ listener' = [gate |-> "open",
                  keys |-> [k \in Kinds |-> files[PrivateFile(k)]]]

\* restoreOriginal starts the listener again with the original identity, if
\* there was one and the keys are ready; it may fail.
Restore ==
  /\ pc = "restore"
  /\ Return
  /\ UNCHANGED listener \/ (run.wasRunning /\ OpenListener)
  /\ UNCHANGED <<failure, store, roots>>

-----------------------------------------------------------------------------
(* rollback and the settling of the journal, for execute and recover       *)

Rollback ==
  /\ pc = "rollback"
  /\ RollbackPossible(run.plan)
  /\ run' = [run EXCEPT !.todo = {r \in run.plan.roles :
                                    files[r] # run.plan.old[r]}]
  /\ Goto("restoring")
  /\ UNCHANGED <<failure, store, roots, listener>>

RollbackImpossible ==
  /\ pc = "rollback"
  /\ ~RollbackPossible(run.plan)
  /\ Fail
  /\ UNCHANGED <<store, roots, listener>>

\* A new file is removed, or replaced through the stage by a copy of the
\* rollback file.
RestoreFile(r) ==
  /\ pc = "restoring"
  /\ r \in run.todo
  /\ files' = [files EXCEPT ![r] =
                 IF run.plan.old[r] = Absent THEN Absent ELSE rollback[r]]
  /\ run' = [run EXCEPT !.todo = @ \ {r}]
  /\ UNCHANGED <<pc, failure, rollback, roots, listener>>

\* A file operation of rollback or of the cleanup after it fails.
RollbackFails ==
  /\ pc \in {"restoring", "rbclean"}
  /\ Fail
  /\ UNCHANGED <<store, roots, listener>>

\* checkCurrent after each half: a cancelled execute leaves its journal to a
\* later recovery.
Continue(label) ==
  IF run.mode = "execute" /\ run.aborted
  THEN Return
  ELSE Goto(label) /\ UNCHANGED run

RollbackDone ==
  /\ pc = "restoring"
  /\ run.todo = {}
  /\ Continue("rbclean")
  /\ UNCHANGED <<failure, store, roots, listener>>

RollbackCleaned ==
  /\ pc = "rbclean"
  /\ rollback = NoFiles
  /\ Continue("settle")
  /\ UNCHANGED <<failure, store, roots, listener>>

\* The removal of the journal is the last root write of the transaction.
Settle ==
  /\ pc = "settle"
  /\ IF mem.phase = "none" THEN UNCHANGED roots ELSE CommitRoot
  /\ failure' = FALSE
  /\ Goto(IF run.mode = "execute" THEN "restore" ELSE "initialize")
  /\ UNCHANGED <<run, store, listener>>

SettleFails ==
  /\ pc = "settle"
  /\ mem.phase # "none"
  /\ UNCHANGED roots \/ CommitUncertain
  /\ Fail
  /\ UNCHANGED <<store, listener>>

-----------------------------------------------------------------------------
(* recover and initialize                                                  *)

RecoverNothing ==
  /\ pc = "recover"
  /\ mem.phase = "none"
  /\ failure' = FALSE
  /\ Goto("initialize")
  /\ UNCHANGED <<run, store, roots, listener>>

\* A committed journal is only validated, an earlier one rolled back.
Recover ==
  /\ pc = "recover"
  /\ mem.phase # "none"
  /\ IF mem.phase = "committed" /\ ~ValidCommitted(mem.plan)
     THEN Fail
     ELSE /\ run' = [NoRun EXCEPT !.plan = mem.plan]
          /\ Goto(IF mem.phase = "committed" THEN "rbclean" ELSE "rollback")
          /\ UNCHANGED failure
  /\ UNCHANGED <<store, roots, listener>>

\* A root without recorded keys: generate them only if no identity file is
\* there at all, otherwise record those that are there if they are ready.
Recorded == mem.initialized /\ \A k \in Kinds : mem.keys[k] # Unknown
Fresh == ~mem.initialized /\ files = NoFiles

Initialize ==
  /\ pc = "initialize"
  /\ IF Recorded \/ ~(Fresh \/ \A k \in Kinds : Ready(k))
     THEN Return
     ELSE Goto(IF Fresh THEN "generate" ELSE "record") /\ UNCHANGED run
  /\ UNCHANGED <<failure, store, roots, listener>>

\* The next file of a new installation: client key, its public half, host key.
Generate(id) ==
  /\ pc = "generate"
  /\ LET next == IF files["client-private"] = Absent THEN "client-private"
                 ELSE IF files["client-public"] = Absent THEN "client-public"
                 ELSE "host-private"
     IN /\ files' = [files EXCEPT ![next] =
                       IF next = "client-public" THEN files["client-private"]
                       ELSE id]
        /\ Goto(IF next = "host-private" THEN "record" ELSE pc)
  /\ UNCHANGED <<run, failure, rollback, roots, listener>>

Record ==
  /\ pc = "record"
  /\ CommitRoot
  /\ Return
  /\ UNCHANGED <<failure, store, listener>>

InitializeFails ==
  /\ \/ pc \in {"generate", "record"} /\ UNCHANGED roots
     \/ pc = "record" /\ CommitUncertain
  /\ Return
  /\ UNCHANGED <<failure, store, listener>>

-----------------------------------------------------------------------------
(* The rest of the application, other programs and crashes                 *)

\* Every start of the proxy first runs initialize again, which does nothing
\* to a store that is locked.
Reinitialize ==
  /\ pc = "idle" /\ ~locked
  /\ Goto("recover")
  /\ UNCHANGED <<run, failure, store, roots, listener>>

\* After it the proxy starts.
StartProxy ==
  /\ pc = "idle" /\ Recorded
  /\ OpenListener
  /\ UNCHANGED <<pc, run, failure, store, roots>>

StopProxy ==
  /\ pc = "idle"
  /\ listener' = NoListener
  /\ UNCHANGED <<pc, run, failure, store, roots>>

\* "Reload settings": the listener is stopped, the store reloads the file
\* with a directory synchronisation, and the keys are initialised again.
RetryLoad ==
  /\ pc = "idle"
  /\ listener' = NoListener
  /\ \/ mem' = disk /\ stable' = disk /\ locked' = FALSE /\ Goto("recover")
     \/ /\ locked' = TRUE
        /\ \/ UNCHANGED <<mem, stable>>
           \/ mem' = disk /\ stable' = disk
        /\ UNCHANGED pc
  /\ UNCHANGED <<run, failure, disk, store>>

\* A save by another component ends uncertain.  (A confirmed one rewrites the
\* same key fields.)
StorageLock ==
  /\ pc \in Awaiting
  /\ locked' = TRUE
  /\ UNCHANGED <<pc, run, failure, store, mem, disk, stable, listener>>

\* The user stops the operation, or its scope or authentication changes.
Abort ==
  /\ pc \in Awaiting \ {"idle"}
  /\ run' = [run EXCEPT !.aborted = TRUE]
  /\ UNCHANGED <<pc, failure, store, roots, listener>>

\* Another program damages a key file.
Edit(r) ==
  /\ pc \in Awaiting \cup {"down"}
  /\ files' = [files EXCEPT ![r] = Foreign]
  /\ UNCHANGED <<pc, run, failure, rollback, roots, listener>>

ForgetMemory ==
  /\ run' = NoRun /\ failure' = FALSE
  /\ mem' = NewInstallation /\ locked' = FALSE
  /\ listener' = NoListener

\* The process ends between two operations, perhaps after the rename of a
\* root commit and before its directory synchronisation.
Crash ==
  /\ pc # "down"
  /\ Goto("down")
  /\ \/ UNCHANGED disk
     \/ pc \in CommitPoints /\ ~locked /\ disk' = PendingRoot
  /\ ForgetMemory
  /\ UNCHANGED <<store, stable>>

\* The machine goes down: a rename that was not synchronised is undone.
PowerLoss ==
  /\ Goto("down")
  /\ disk' = stable
  /\ ForgetMemory
  /\ UNCHANGED <<store, stable>>

\* The store's first load does not synchronise the directory.  Unless
\* DoubleFault, the file system has done so by the time the program is back.
Restart ==
  /\ pc = "down"
  /\ stable' \in IF DoubleFault THEN {disk, stable} ELSE {disk}
  /\ \/ mem' = disk /\ Goto("recover") /\ UNCHANGED locked
     \/ locked' = TRUE /\ Goto("idle") /\ UNCHANGED mem
  /\ UNCHANGED <<run, failure, disk, store, listener>>

-----------------------------------------------------------------------------
Init ==
  /\ pc = "down" /\ run = NoRun /\ failure = FALSE
  /\ rollback = NoFiles
  /\ mem = NewInstallation /\ locked = FALSE /\ listener = NoListener
  /\ \/ disk = NewInstallation /\ files = NoFiles
     \/ \E k \in [Kinds -> Identities], gone \in SUBSET Missing :
          /\ disk = Settled(k)
          /\ files = [r \in Roles |-> IF r \in gone THEN Absent ELSE k[KeyOf(r)]]
  /\ stable = disk

ExecuteStep ==
  \/ BackupDone \/ BackupFails
  \/ StoppedStage \/ StoppedChanged \/ StoppedFails
  \/ CommitJournal \/ (\E r \in Roles : Install(r)) \/ InstallDone
  \/ CommitInstalled \/ BindDone \/ CommitIdentity \/ ActivateDone
  \/ CleanDone \/ Finish \/ ExecuteThrows \/ ExecuteUncertain

CatchStep ==
  \/ CloseGate \/ Unbound \/ UnbindFails
  \/ Reload \/ ReloadFails \/ KeepCommitted \/ Decide \/ Restore

RecoverStep ==
  \/ Rollback \/ RollbackImpossible \/ RollbackFails
  \/ \E r \in Roles : RestoreFile(r) \/ Unlink(r)
  \/ RollbackDone \/ RollbackCleaned \/ Settle \/ SettleFails
  \/ RecoverNothing \/ Recover
  \/ Initialize \/ Record \/ InitializeFails
  \/ \E id \in Identities : Generate(id)

Service == ExecuteStep \/ CatchStep \/ RecoverStep

Application ==
  \/ \E target \in Targets, rebuild, imported \in BOOLEAN :
       Execute(target, rebuild, imported)
  \/ Reinitialize \/ RetryLoad \/ StartProxy \/ StopProxy \/ Abort

Faults ==
  \/ StorageLock \/ Crash \/ PowerLoss \/ Restart
  \/ \E r \in Roles : Edit(r)

Next == Service \/ Application \/ Faults

Spec == Init /\ [][Next]_vars

-----------------------------------------------------------------------------
TypeOK ==
  /\ pc \in {"idle", "backup", "stopping", "journal", "install", "mark",
             "bind", "commit", "activate", "clean", "finish", "catch",
             "unbind", "resolve", "rollback", "restoring", "rbclean",
             "settle", "restore", "recover", "initialize", "generate",
             "record", "down"}
  /\ run \in Runs
  /\ failure \in BOOLEAN
  /\ files \in Files /\ rollback \in Files
  /\ mem \in Roots /\ disk \in Roots /\ stable \in Roots
  /\ locked \in BOOLEAN
  /\ listener \in Listeners

-----------------------------------------------------------------------------
(* Properties                                                              *)

\* A root from which recovery can finish the transaction: before the commit
\* every replaced file still has its old bytes, in place or in the rollback
\* file; after it every replaced file has its new bytes.  (What another
\* program has damaged is its own matter.)
Recoverable(root) ==
  \A r \in root.plan.roles :
    /\ root.phase \in {"prepared", "installed"} =>
         \/ files[r] \in {root.plan.old[r], Foreign}
         \/ /\ files[r] = root.plan.new[r]
            /\ root.plan.old[r] # Absent => rollback[r] = root.plan.old[r]
    /\ root.phase = "committed" => files[r] \in {root.plan.new[r], Foreign}

\* Whichever root a crash or a power loss leaves behind, recovery can finish
\* the transaction: rollback and cleanup never consume the last copy of the
\* bytes that this root still needs (execute, rollback, cleanup, recover).
JournalRecoverable == Recoverable(disk) /\ Recoverable(stable)

\* "Copy through the stage so a second crash never consumes the only rollback
\* material" (ssh-key-service.js): the same, under its own name for the run
\* in which a power loss may undo a rename that a restarted process has read.
SecondCrashKeepsRollback == Recoverable(stable)

\* Without a journal the private files are the recorded identities, never a
\* mixture of an old and a new identity (execute, initialize).
RecordMatchesFiles ==
  \A root \in {disk, stable}, k \in Kinds :
    root.phase = "none" /\ root.keys[k] # Unknown =>
      \/ files[PrivateFile(k)] \in {root.keys[k], Foreign}
      \/ PrivateFile(k) \in Missing /\ files[PrivateFile(k)] = Absent

\* Connections are admitted only with an identity that the durable root
\* records, so that no client ever pins a fingerprint that a power loss takes
\* back (startCandidate, activateCandidate, stopCandidate, restoreOriginal).
AdmittedIdentityDurable ==
  listener.gate = "open" =>
    \A k \in Kinds : stable.keys[k] \in {Unknown, listener.keys[k]}

\* What is in the files is what the durable root says, and so is what clients see.
IdentityIsDurable == TypeOK /\ RecordMatchesFiles /\ AdmittedIdentityDurable

\* Bytes that another program put into a key file are never overwritten
\* unless the plan found them there, in which case a copy is kept or the user
\* was told that they are lost (assertOriginal, the validation of rollback).
ForeignBytesKept ==
  [][\A r \in Roles : files[r] = Foreign /\ files'[r] # Foreign =>
                        r \in run.plan.roles /\ run.plan.old[r] = Foreign]_vars

-----------------------------------------------------------------------------
(* The abstract promise that the transactions implement.                   *)

IdentityOf == INSTANCE KeyIdentity WITH
  identity <- stable.keys,
  admitted <- IF listener.gate = "open" THEN listener.keys ELSE NoKeys,
  Nobody   <- NoKeys

\* Every behaviour of the key service keeps the promise of KeyIdentity: the
\* durable identity changes only while no connection is admitted, and only
\* the durable identity is presented (activateCandidate, stopCandidate).
ImplementsKeyIdentity == IdentityOf!Spec

NoDocument == [unreadable |-> TRUE]

Store == INSTANCE RootStore WITH
  Fresh <- NewInstallation, Unreadable <- NoDocument, open <- pc # "down"

\* The transactions use the root document as the settings store promises it:
\* everything they assume of a commit, a reload and a crash is what RootStore
\* allows (rootCommit, reloadRoot; SettingsStore implements RootStore).
UsesRootStore == Store!Spec

\* Both promises: the one the key service makes and the one it relies on.
KeepsPromises == ImplementsKeyIdentity /\ UsesRootStore
=============================================================================
