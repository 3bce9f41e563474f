------------------------ MODULE KeyTransaction_proofs ------------------------
(***************************************************************************)
(* Theorems about KeyTransaction, for every set of identities.             *)
(***************************************************************************)
EXTENDS KeyTransaction, TLAPS

\* A fresh installation records only identities it has just generated.
GeneratedFiles ==
  /\ pc = "generate" => files["client-private"] \in Identities \cup {Absent}
  /\ pc = "record" => \A k \in Kinds : files[PrivateFile(k)] \in Identities

TypeInv == TypeOK /\ GeneratedFiles

LEMMA RootTypes ==
  /\ NewInstallation \in Roots
  /\ \A k \in Keys : Settled(k) \in Roots
  /\ \A p \in Plans, ph \in Phases : Journal(p, ph) \in Roots
<1>1. NoPlan \in Plans /\ NoKeys \in Keys
  BY DEF NoPlan, Plans, NoFiles, NoKeys, Files, Keys, Content
<1>2. QED
  BY <1>1 DEF NewInstallation, Settled, Journal, Roots, Plans, Phases

LEMMA RunTypes == NoRun \in Runs
  BY DEF NoRun, Runs, NoPlan, Plans, NoFiles, NoKeys, Files, Keys, Content

LEMMA PendingRootType ==
  ASSUME TypeInv, pc \in CommitPoints
  PROVE  PendingRoot \in Roots
<1>1. run.plan \in Plans /\ mem.keys \in Keys
  BY DEF TypeInv, TypeOK, Runs, Roots
<1>2. run.plan.before \in Keys /\ run.plan.after \in Keys
  BY <1>1 DEF Plans
<1>3. ASSUME pc = "record"
      PROVE  [k \in Kinds |-> files[PrivateFile(k)]] \in Keys
  BY <1>3 DEF TypeInv, GeneratedFiles, Keys
<1>4. \A ph \in Phases : Journal(run.plan, ph) \in Roots
  BY <1>1, RootTypes
<1>5. \A k \in Keys : Settled(k) \in Roots
  BY RootTypes
<1>6. CASE pc \in {"journal", "mark", "commit"}
  <2>1. pc \in DOMAIN JournalPhase /\ JournalPhase[pc] \in Phases
    BY <1>6 DEF JournalPhase, Phases
  <2>2. QED
    BY <2>1, <1>4 DEF PendingRoot
<1>7. CASE pc \in {"finish", "settle", "record"}
  <2>1. pc \notin DOMAIN JournalPhase
    BY <1>7 DEF JournalPhase
  <2>2. SettledKeys \in Keys
    BY <1>1, <1>2, <1>3, <1>7 DEF SettledKeys
  <2>3. QED
    BY <2>1, <2>2, <1>5 DEF PendingRoot
<1>8. QED
  BY <1>6, <1>7 DEF CommitPoints

LEMMA CommitTypes ==
  ASSUME TypeInv, pc \in CommitPoints, CommitRoot \/ CommitUncertain
  PROVE  mem' \in Roots /\ disk' \in Roots /\ stable' \in Roots
         /\ locked' \in BOOLEAN
BY PendingRootType DEF TypeInv, TypeOK, CommitRoot, CommitUncertain

LEMMA ExecuteTypes ==
  ASSUME TypeInv, ExecuteStep
  PROVE  TypeInv'
<1> USE DEF TypeInv, TypeOK, GeneratedFiles, Goto, Return, Fail, store, roots
<1>1. CASE BackupDone
  BY <1>1 DEF BackupDone
<1>2. CASE BackupFails
  BY <1>2, RunTypes DEF BackupFails
<1>3. CASE StoppedStage
  BY <1>3 DEF StoppedStage, Runs, Plans, Files, Content, Listeners, NoListener, NoKeys, Keys
<1>4. CASE StoppedChanged
  BY <1>4 DEF StoppedChanged, Listeners, NoListener, NoKeys, Keys
<1>5. CASE StoppedFails
  BY <1>5, RunTypes DEF StoppedFails, Listeners, NoListener, NoKeys, Keys
<1>6. CASE CommitJournal
  BY <1>6, CommitTypes DEF CommitJournal, CommitPoints, Runs, Plans
<1>7. ASSUME NEW r \in Roles, Install(r) PROVE TypeInv'
  BY <1>7 DEF Install, Runs, Plans, Files
<1>8. CASE InstallDone
  BY <1>8 DEF InstallDone
<1>9. CASE CommitInstalled
  BY <1>9, CommitTypes DEF CommitInstalled, CommitPoints
<1>10. CASE BindDone
  BY <1>10 DEF BindDone, Candidate, Listeners, Runs, Plans
<1>11. CASE CommitIdentity
  BY <1>11, CommitTypes DEF CommitIdentity, CommitPoints, Runs
<1>12. CASE ActivateDone
  BY <1>12 DEF ActivateDone, Activated, Listeners, NoListener, NoKeys, Keys
<1>13. CASE CleanDone
  BY <1>13 DEF CleanDone
<1>14. CASE Finish
  BY <1>14, CommitTypes, RunTypes DEF Finish, CommitPoints
<1>15. CASE ExecuteThrows
  <2>1. run' \in Runs
    BY <1>15 DEF ExecuteThrows, Throw, Runs
  <2>2. files' \in Files
    BY <1>15 DEF ExecuteThrows, Runs, Plans, Files
  <2>3. listener' \in Listeners
    <3>1. Candidate \in Listeners
      BY DEF Candidate, Listeners, Runs, Plans
    <3>2. NoListener \in Listeners
      BY DEF NoListener, Listeners, NoKeys, Keys
    <3>3. [listener EXCEPT !.gate = "open"] \in Listeners
      BY DEF Listeners
    <3>4. QED
      BY <1>15, <3>1, <3>2, <3>3 DEF ExecuteThrows, Activated
  <2>4. pc' \in {"catch", "resolve"}
    BY <1>15 DEF ExecuteThrows, Throw
  <2>5. QED
    BY <1>15, <2>1, <2>2, <2>3, <2>4 DEF ExecuteThrows
<1>16. CASE ExecuteUncertain
  BY <1>16, CommitTypes DEF ExecuteUncertain, Throw, CommitPoints, Runs
<1>17. QED
  BY <1>1, <1>2, <1>3, <1>4, <1>5, <1>6, <1>7, <1>8, <1>9, <1>10, <1>11, <1>12,
     <1>13, <1>14, <1>15, <1>16 DEF ExecuteStep

LEMMA CatchTypes ==
  ASSUME TypeInv, CatchStep
  PROVE  TypeInv'
<1> USE DEF TypeInv, TypeOK, GeneratedFiles, Goto, Return, Fail, store, roots
<1>1. CASE CloseGate
  BY <1>1 DEF CloseGate, Listeners
<1>2. CASE Unbound
  BY <1>2 DEF Unbound, Listeners, NoListener, NoKeys, Keys
<1>3. CASE UnbindFails
  BY <1>3, RunTypes DEF UnbindFails
<1>4. CASE Reload
  BY <1>4, RunTypes DEF Reload, Runs
<1>5. CASE ReloadFails
  BY <1>5, RunTypes DEF ReloadFails
<1>6. CASE KeepCommitted
  BY <1>6, RunTypes DEF KeepCommitted
<1>7. CASE Decide
  BY <1>7 DEF Decide
<1>8. CASE Restore
  BY <1>8, RunTypes DEF Restore, OpenListener, AssertReady, Ready, Listeners, Keys
<1>9. QED
  BY <1>1, <1>2, <1>3, <1>4, <1>5, <1>6, <1>7, <1>8 DEF CatchStep

LEMMA RecoverTypes ==
  ASSUME TypeInv, RecoverStep
  PROVE  TypeInv'
<1> USE DEF TypeInv, TypeOK, GeneratedFiles, Goto, Return, Fail, store, roots
<1>1. CASE Rollback
  BY <1>1 DEF Rollback, Runs, Plans
<1>2. CASE RollbackImpossible
  BY <1>2, RunTypes DEF RollbackImpossible
<1>3. CASE RollbackFails
  BY <1>3, RunTypes DEF RollbackFails
<1>4. ASSUME NEW r \in Roles, RestoreFile(r) PROVE TypeInv'
  BY <1>4 DEF RestoreFile, Runs, Files, Content
<1>5. ASSUME NEW r \in Roles, Unlink(r) PROVE TypeInv'
  BY <1>5 DEF Unlink, Files, Content
<1>6. CASE RollbackDone
  BY <1>6, RunTypes DEF RollbackDone, Continue
<1>7. CASE RollbackCleaned
  BY <1>7, RunTypes DEF RollbackCleaned, Continue
<1>8. CASE Settle
  BY <1>8, CommitTypes DEF Settle, CommitPoints
<1>9. CASE SettleFails
  BY <1>9, CommitTypes, RunTypes DEF SettleFails, CommitPoints
<1>10. CASE RecoverNothing
  BY <1>10 DEF RecoverNothing
<1>11. CASE Recover
  BY <1>11, RunTypes DEF Recover, Runs, Roots
<1>12. CASE Initialize
  <2>1. CASE pc' = "generate"
    BY <1>12, <2>1 DEF Initialize, Fresh, NoFiles, Roles
  <2>2. CASE pc' = "record"
    BY <1>12, <2>2 DEF Initialize, Ready
  <2>3. CASE pc' = "idle"
    BY <1>12, <2>3, RunTypes DEF Initialize
  <2>4. QED
    BY <1>12, <2>1, <2>2, <2>3 DEF Initialize
<1>13. CASE Record
  BY <1>13, CommitTypes, RunTypes DEF Record, CommitPoints
<1>14. CASE InitializeFails
  BY <1>14, CommitTypes, RunTypes DEF InitializeFails, CommitPoints
<1>15. ASSUME NEW id \in Identities, Generate(id) PROVE TypeInv'
  BY <1>15, ContentAssumption DEF Generate, Files, Content, Roles, Kinds, PrivateFile
<1>16. QED
  BY <1>1, <1>2, <1>3, <1>4, <1>5, <1>6, <1>7, <1>8, <1>9, <1>10, <1>11, <1>12,
     <1>13, <1>14, <1>15 DEF RecoverStep

LEMMA ApplicationTypes ==
  ASSUME TypeInv, Application
  PROVE  TypeInv'
<1> USE DEF TypeInv, TypeOK, GeneratedFiles, Goto, Return, Fail, store, roots
<1>1. ASSUME NEW target \in Targets, NEW rebuild \in BOOLEAN,
             NEW imported \in BOOLEAN, Execute(target, rebuild, imported)
      PROVE  TypeInv'
  <2>1. PICK new \in NewKeys(target, rebuild, imported) :
          run' = [NoRun EXCEPT !.mode = "execute",
                               !.plan = PlanFor(target, new),
                               !.wasRunning = (listener.gate = "open")]
    BY <1>1 DEF Execute
  <2>2. new \in [Kinds -> Identities]
    BY <2>1 DEF NewKeys
  <2>3. \A r \in Roles : KeyOf(r) \in Kinds
    BY DEF KeyOf, Kinds
  <2>4. target \subseteq Roles /\ mem.keys \in Keys /\ new \in Keys
    BY <2>2 DEF Targets, Roles, Roots, Keys
  <2>5. PlanFor(target, new) \in Plans
    BY <2>2, <2>3, <2>4 DEF PlanFor, Plans, Files, Content
  <2>6. run' \in Runs
    BY <2>1, <2>5, RunTypes DEF Runs
  <2>7. QED
    BY <1>1, <2>6 DEF Execute
<1>2. CASE Reinitialize
  BY <1>2 DEF Reinitialize
<1>3. CASE RetryLoad
  BY <1>3 DEF RetryLoad, Listeners, NoListener, NoKeys, Keys
<1>4. CASE StartProxy
  BY <1>4 DEF StartProxy, OpenListener, AssertReady, Ready, Listeners, Keys
<1>5. CASE StopProxy
  BY <1>5 DEF StopProxy, Listeners, NoListener, NoKeys, Keys
<1>6. CASE Abort
  BY <1>6 DEF Abort, Runs
<1>7. QED
  BY <1>1, <1>2, <1>3, <1>4, <1>5, <1>6 DEF Application

LEMMA FaultTypes ==
  ASSUME TypeInv, Faults
  PROVE  TypeInv'
<1> USE DEF TypeInv, TypeOK, GeneratedFiles, Goto, store, roots
<1>1. CASE StorageLock
  BY <1>1 DEF StorageLock
<1>2. CASE Crash
  BY <1>2, PendingRootType, RootTypes, RunTypes
  DEF Crash, ForgetMemory, Listeners, NoListener, NoKeys, Keys
<1>3. CASE PowerLoss
  BY <1>3, RootTypes, RunTypes
  DEF PowerLoss, ForgetMemory, Listeners, NoListener, NoKeys, Keys
<1>4. CASE Restart
  BY <1>4 DEF Restart
<1>5. ASSUME NEW r \in Roles, Edit(r) PROVE TypeInv'
  BY <1>5 DEF Edit, Files, Content, Awaiting
<1>6. QED
  BY <1>1, <1>2, <1>3, <1>4, <1>5 DEF Faults

LEMMA InitTypes == Init => TypeInv
<1>1. SUFFICES ASSUME Init PROVE TypeInv
  OBVIOUS
<1>2. NoKeys \in Keys /\ NoFiles \in Files
  BY DEF NoKeys, Keys, NoFiles, Files, Content
<1>3. files \in Files /\ disk \in Roots
  <2>1. CASE disk = NewInstallation /\ files = NoFiles
    BY <2>1, <1>2, RootTypes
  <2>2. ASSUME NEW k \in [Kinds -> Identities], NEW gone \in SUBSET Missing,
               disk = Settled(k),
               files = [r \in Roles |-> IF r \in gone THEN Absent ELSE k[KeyOf(r)]]
        PROVE  files \in Files /\ disk \in Roots
    <3>1. k \in Keys /\ \A r \in Roles : KeyOf(r) \in Kinds
      BY DEF Keys, KeyOf, Kinds
    <3>2. QED
      BY <2>2, <3>1, RootTypes DEF Files, Content
  <2>3. QED
    BY <1>1, <2>1, <2>2 DEF Init
<1>4. QED
  BY <1>1, <1>2, <1>3, RootTypes, RunTypes
  DEF Init, TypeInv, TypeOK, GeneratedFiles, Listeners, NoListener

LEMMA TypeStep == TypeInv /\ [Next]_vars => TypeInv'
<1>1. SUFFICES ASSUME TypeInv, [Next]_vars PROVE TypeInv'
  OBVIOUS
<1>2. CASE UNCHANGED vars
  BY <1>1, <1>2 DEF vars, store, roots, TypeInv, TypeOK, GeneratedFiles
<1>3. CASE Next
  BY <1>1, <1>3, ExecuteTypes, CatchTypes, RecoverTypes, ApplicationTypes,
     FaultTypes DEF Next, Service
<1>4. QED
  BY <1>1, <1>2, <1>3

\* The service's locals, the root documents, the files and the listener
\* always have the shapes that the code's parsers accept (parseJournal,
\* validateRoot), for every set of identities.
THEOREM TypeCorrect == Spec => []TypeOK
<1>1. Init => TypeInv
  BY InitTypes
<1>2. TypeInv /\ [Next]_vars => TypeInv'
  BY TypeStep
<1>3. TypeInv => TypeOK
  BY DEF TypeInv
<1>4. QED
  BY <1>1, <1>2, <1>3, PTL DEF Spec

-----------------------------------------------------------------------------
(* The inductive invariant behind JournalRecoverable.                      *)

\* The error in hand is an uncertain commit only while the store is locked
\* and the catch block has not yet reloaded the root.
UncertainLocked ==
  run.uncertain => locked /\ pc \in {"catch", "unbind", "resolve"}

\* The three views of the root differ only while the program is down, or the
\* store is locked and nobody runs, or a commit's outcome is uncertain.
RootsAgree ==
  \/ pc = "down" \/ (pc = "idle" /\ locked) \/ run.uncertain
  \/ mem = disk /\ disk = stable

\* Which journal the root holds at which point.
JournalAt ==
  /\ pc \in {"backup", "stopping", "journal", "restore", "initialize",
             "generate", "record"} => mem.phase = "none"
  /\ pc \in {"install", "mark"} => mem = Journal(run.plan, "prepared")
  /\ pc \in {"bind", "commit"} => mem = Journal(run.plan, "installed")
  /\ pc \in {"activate", "clean", "finish"} =>
       mem = Journal(run.plan, "committed")
  /\ pc \in {"rollback", "restoring"} => mem.phase \in {"prepared", "installed"}
  /\ pc \in {"catch", "unbind", "resolve", "rollback", "restoring", "rbclean",
             "settle"} =>
       \A root \in {mem, disk, stable} :
         root.phase # "none" => root.plan = run.plan

\* Which bytes are where at the points that the roots alone do not determine.
FilesAt ==
  /\ pc = "journal" =>
       \A r \in run.plan.roles :
         files[r] = run.plan.old[r] /\ rollback[r] = run.plan.old[r]
  /\ pc = "install" =>
       /\ run.todo \subseteq run.plan.roles
       /\ \A r \in run.todo : rollback[r] = run.plan.old[r]
  /\ pc = "commit" => \A r \in run.plan.roles : files[r] = run.plan.new[r]
  /\ pc = "restoring" =>
       \A r \in run.plan.roles :
         IF r \in run.todo
         THEN run.plan.old[r] # Absent => rollback[r] = run.plan.old[r]
         ELSE files[r] = run.plan.old[r]
  /\ pc \in {"rbclean", "settle"} /\ mem.phase \in {"prepared", "installed"} =>
       \A r \in run.plan.roles : files[r] = run.plan.old[r]

IInv ==
  /\ TypeInv
  /\ UncertainLocked
  /\ RootsAgree
  /\ JournalAt
  /\ FilesAt
  /\ JournalRecoverable

\* Whatever root a commit is about to write, recovery could finish from it.
LEMMA PendingRecoverable ==
  ASSUME IInv, pc \in CommitPoints
  PROVE  /\ Recoverable(PendingRoot)
         /\ PendingRoot.phase # "none" => PendingRoot.plan = run.plan
         /\ PendingRoot.phase =
              IF pc \in DOMAIN JournalPhase THEN JournalPhase[pc] ELSE "none"
<1> USE DEF JournalPhase, Journal, Settled
<1>1. CASE pc \in {"finish", "settle", "record"}
  BY <1>1 DEF PendingRoot, Recoverable
<1>2. CASE pc = "journal"
  BY <1>2 DEF PendingRoot, Recoverable, IInv, FilesAt
<1>3. CASE pc = "mark"
  BY <1>3 DEF PendingRoot, Recoverable, IInv, JournalAt, JournalRecoverable, RootsAgree,
     UncertainLocked
<1>4. CASE pc = "commit"
  BY <1>4 DEF PendingRoot, Recoverable, IInv, FilesAt
<1>5. QED
  BY <1>1, <1>2, <1>3, <1>4 DEF CommitPoints

LEMMA ExecuteInv ==
  ASSUME IInv, ExecuteStep
  PROVE  IInv'
<1> USE DEF IInv, UncertainLocked, RootsAgree, JournalAt, FilesAt, JournalRecoverable,
        Recoverable, Goto, Return, Fail, store, roots, NoRun
<1>0. TypeInv'
  BY ExecuteTypes
<1>1. CASE BackupDone
  BY <1>0, <1>1 DEF BackupDone
<1>2. CASE BackupFails
  BY <1>0, <1>2 DEF BackupFails
<1>3. CASE StoppedStage
  BY <1>0, <1>3 DEF StoppedStage, Original, TypeInv, TypeOK, Runs, Plans
<1>4. CASE StoppedChanged
  BY <1>0, <1>4 DEF StoppedChanged
<1>5. CASE StoppedFails
  BY <1>0, <1>5 DEF StoppedFails
<1>6. CASE CommitJournal
  BY <1>0, <1>6, PendingRecoverable DEF CommitJournal, CommitRoot, CommitPoints, PendingRoot, JournalPhase
<1>7. ASSUME NEW r \in Roles, Install(r) PROVE IInv'
  BY <1>0, <1>7 DEF Install, Original, TypeInv, TypeOK, Runs, Plans, Files, Journal
<1>8. CASE InstallDone
  BY <1>0, <1>8 DEF InstallDone
<1>9. CASE CommitInstalled
  BY <1>0, <1>9, PendingRecoverable DEF CommitInstalled, CommitRoot, CommitPoints, PendingRoot, JournalPhase
<1>10. CASE BindDone
  BY <1>0, <1>10 DEF BindDone, Installed
<1>11. CASE CommitIdentity
  BY <1>0, <1>11, PendingRecoverable DEF CommitIdentity, CommitRoot, CommitPoints, PendingRoot, JournalPhase
<1>12. CASE ActivateDone
  BY <1>0, <1>12 DEF ActivateDone
<1>13. CASE CleanDone
  BY <1>0, <1>13 DEF CleanDone
<1>14. CASE Finish
  BY <1>0, <1>14, PendingRecoverable DEF Finish, CommitRoot, CommitPoints, JournalPhase
<1>15. CASE ExecuteThrows
  <2>1. run' = [run EXCEPT !.uncertain = FALSE] /\ run'.plan = run.plan
        /\ run'.uncertain = FALSE
    BY <1>15 DEF ExecuteThrows, Throw, TypeInv, TypeOK, Runs
  <2>2. pc' \in {"catch", "resolve"} /\ UNCHANGED <<rollback, mem, disk, stable, locked>>
    BY <1>15 DEF ExecuteThrows, Throw
  <2>3. mem = disk /\ disk = stable
    BY <1>15 DEF ExecuteThrows
  <2>4. mem.phase # "none" => mem.plan = run.plan
    BY <1>15 DEF ExecuteThrows, Journal
  <2>5. CASE UNCHANGED files
    BY <1>0, <2>1, <2>2, <2>3, <2>4, <2>5
  <2>6. CASE pc = "install" /\ ~UNCHANGED files
    <3>1. PICK r \in run.todo : files' = [files EXCEPT ![r] = run.plan.new[r]]
      BY <1>15, <2>6 DEF ExecuteThrows
    <3>2. r \in Roles /\ run.plan.new \in Files
      BY <3>1 DEF TypeInv, TypeOK, Runs, Plans
    <3>3. rollback[r] = run.plan.old[r]
      BY <2>6, <3>1
    <3>4. \A s \in Roles : files'[s] = IF s = r THEN run.plan.new[r] ELSE files[s]
      BY <3>1, <3>2 DEF TypeInv, TypeOK, Files
    <3>5. mem = Journal(run.plan, "prepared") /\ run.plan.roles \subseteq Roles
      BY <2>6 DEF TypeInv, TypeOK, Runs, Plans
    <3>6. Recoverable(mem)'
      BY <2>2, <2>3, <3>3, <3>4, <3>5 DEF Journal
    <3>7. QED
      BY <1>0, <2>1, <2>2, <2>3, <2>4, <3>6
  <2>7. QED
    BY <1>15, <2>5, <2>6 DEF ExecuteThrows
<1>16. CASE ExecuteUncertain
  <2>1. run'.plan = run.plan /\ run'.uncertain = TRUE
    BY <1>16 DEF ExecuteUncertain, Throw, TypeInv, TypeOK, Runs
  <2>2. pc' \in {"catch", "resolve"} /\ locked' /\ UNCHANGED <<files, rollback>>
    BY <1>16 DEF ExecuteUncertain, Throw, CommitUncertain
  <2>3. {mem', disk', stable'} \subseteq {mem, disk, stable, PendingRoot}
    BY <1>16 DEF ExecuteUncertain, CommitUncertain
  <2>4. mem = disk /\ disk = stable /\ (mem.phase # "none" => mem.plan = run.plan)
    BY <1>16 DEF ExecuteUncertain, Journal
  <2>5. pc \in CommitPoints
    BY <1>16 DEF ExecuteUncertain, CommitPoints
  <2>6. QED
    BY <1>0, <2>1, <2>2, <2>3, <2>4, <2>5, PendingRecoverable
<1>17. QED
  BY <1>1, <1>2, <1>3, <1>4, <1>5, <1>6, <1>7, <1>8, <1>9, <1>10, <1>11, <1>12,
     <1>13, <1>14, <1>15, <1>16 DEF ExecuteStep

LEMMA CatchInv ==
  ASSUME IInv, CatchStep
  PROVE  IInv'
<1> USE DEF IInv, UncertainLocked, RootsAgree, JournalAt, FilesAt, JournalRecoverable,
        Recoverable, Goto, Return, Fail, store, roots, NoRun
<1>0. TypeInv'
  BY CatchTypes
<1>1. CASE CloseGate
  BY <1>0, <1>1 DEF CloseGate
<1>2. CASE Unbound
  BY <1>0, <1>2 DEF Unbound
<1>3. CASE UnbindFails
  BY <1>0, <1>3 DEF UnbindFails
<1>4. CASE Reload
  <2>1. mem' = disk /\ disk' = disk /\ stable' = disk /\ ~locked'
        /\ UNCHANGED <<files, rollback>> /\ pc = "resolve"
    BY <1>4 DEF Reload
  <2>2. CASE run' = NoRun /\ pc' = "idle"
    BY <1>0, <2>1, <2>2
  <2>3. CASE pc' = pc /\ run'.plan = run.plan /\ run'.uncertain = FALSE
    BY <1>0, <2>1, <2>3
  <2>4. QED
    BY <1>4, <2>2, <2>3 DEF Reload, TypeInv, TypeOK, Runs
<1>5. CASE ReloadFails
  BY <1>0, <1>5 DEF ReloadFails
<1>6. CASE KeepCommitted
  BY <1>0, <1>6 DEF KeepCommitted
<1>7. CASE Decide
  BY <1>0, <1>7 DEF Decide, TypeInv, TypeOK, Roots, Phases
<1>8. CASE Restore
  BY <1>0, <1>8 DEF Restore
<1>9. QED
  BY <1>1, <1>2, <1>3, <1>4, <1>5, <1>6, <1>7, <1>8 DEF CatchStep

LEMMA RecoverInv ==
  ASSUME IInv, RecoverStep
  PROVE  IInv'
<1> USE DEF IInv, UncertainLocked, RootsAgree, JournalAt, FilesAt, JournalRecoverable,
        Recoverable, Goto, Return, Fail, store, roots, NoRun
<1>0. TypeInv'
  BY RecoverTypes
<1>1. CASE Rollback
  BY <1>0, <1>1 DEF Rollback, RollbackPossible, TypeInv, TypeOK, Runs, Plans
<1>2. CASE RollbackImpossible
  BY <1>0, <1>2 DEF RollbackImpossible
<1>3. CASE RollbackFails
  BY <1>0, <1>3 DEF RollbackFails
<1>4. ASSUME NEW r \in Roles, RestoreFile(r) PROVE IInv'
  BY <1>0, <1>4 DEF RestoreFile, TypeInv, TypeOK, Runs, Plans, Files
<1>5. ASSUME NEW r \in Roles, Unlink(r) PROVE IInv'
  BY <1>0, <1>5 DEF Unlink, Journal
<1>6. CASE RollbackDone
  BY <1>0, <1>6 DEF RollbackDone, Continue
<1>7. CASE RollbackCleaned
  BY <1>0, <1>7 DEF RollbackCleaned, Continue
<1>8. CASE Settle
  BY <1>0, <1>8, PendingRecoverable DEF Settle, CommitRoot, CommitPoints, JournalPhase
<1>9. CASE SettleFails
  BY <1>0, <1>9, PendingRecoverable DEF SettleFails, CommitUncertain, CommitPoints
<1>10. CASE RecoverNothing
  BY <1>0, <1>10 DEF RecoverNothing
<1>11. CASE Recover
  BY <1>0, <1>11 DEF Recover, TypeInv, TypeOK, Roots, Phases
<1>12. CASE Initialize
  BY <1>0, <1>12 DEF Initialize
<1>13. CASE Record
  BY <1>0, <1>13, PendingRecoverable DEF Record, CommitRoot, CommitPoints, JournalPhase
<1>14. CASE InitializeFails
  BY <1>0, <1>14, PendingRecoverable DEF InitializeFails, CommitUncertain, CommitPoints
<1>15. ASSUME NEW id \in Identities, Generate(id) PROVE IInv'
  BY <1>0, <1>15 DEF Generate
<1>16. QED
  BY <1>1, <1>2, <1>3, <1>4, <1>5, <1>6, <1>7, <1>8, <1>9, <1>10, <1>11, <1>12,
     <1>13, <1>14, <1>15 DEF RecoverStep

LEMMA ApplicationInv ==
  ASSUME IInv, Application
  PROVE  IInv'
<1> USE DEF IInv, UncertainLocked, RootsAgree, JournalAt, FilesAt, JournalRecoverable,
        Recoverable, Goto, Return, Fail, store, roots, NoRun
<1>0. TypeInv'
  BY ApplicationTypes
<1>1. ASSUME NEW target \in Targets, NEW rebuild \in BOOLEAN,
             NEW imported \in BOOLEAN, Execute(target, rebuild, imported)
      PROVE  IInv'
  BY <1>0, <1>1 DEF Execute
<1>2. CASE Reinitialize
  BY <1>0, <1>2 DEF Reinitialize
<1>3. CASE RetryLoad
  BY <1>0, <1>3 DEF RetryLoad
<1>4. CASE StartProxy
  BY <1>0, <1>4 DEF StartProxy
<1>5. CASE StopProxy
  BY <1>0, <1>5 DEF StopProxy
<1>6. CASE Abort
  BY <1>0, <1>6 DEF Abort, Awaiting, TypeInv, TypeOK, Runs
<1>7. QED
  BY <1>1, <1>2, <1>3, <1>4, <1>5, <1>6 DEF Application

LEMMA FaultInv ==
  ASSUME IInv, Faults, ~DoubleFault
  PROVE  IInv'
<1> USE DEF IInv, UncertainLocked, RootsAgree, JournalAt, FilesAt, JournalRecoverable,
        Recoverable, Goto, store, roots, NoRun
<1>0. TypeInv'
  BY FaultTypes
<1>1. CASE StorageLock
  BY <1>0, <1>1 DEF StorageLock, Awaiting
<1>2. CASE Crash
  BY <1>0, <1>2, PendingRecoverable DEF Crash, ForgetMemory
<1>3. CASE PowerLoss
  BY <1>0, <1>3 DEF PowerLoss, ForgetMemory
<1>4. CASE Restart
  BY <1>0, <1>4 DEF Restart
<1>5. ASSUME NEW r \in Roles, Edit(r) PROVE IInv'
  BY <1>0, <1>5 DEF Edit, Awaiting, TypeInv, TypeOK, Files
<1>6. QED
  BY <1>1, <1>2, <1>3, <1>4, <1>5 DEF Faults

LEMMA InitInv == Init => IInv
<1>1. SUFFICES ASSUME Init PROVE IInv
  OBVIOUS
<1>2. TypeInv
  BY <1>1, InitTypes
<1>3. disk.phase = "none" /\ stable = disk
  BY <1>1 DEF Init, NewInstallation, Settled
<1>4. QED
  BY <1>1, <1>2, <1>3
  DEF Init, IInv, UncertainLocked, RootsAgree, JournalAt, FilesAt, JournalRecoverable,
      Recoverable, NoRun

LEMMA StepInv == ~DoubleFault /\ IInv /\ [Next]_vars => IInv'
<1>1. SUFFICES ASSUME ~DoubleFault, IInv, [Next]_vars PROVE IInv'
  OBVIOUS
<1>2. CASE UNCHANGED vars
  BY <1>1, <1>2, TypeStep
  DEF vars, store, roots, IInv, UncertainLocked, RootsAgree, JournalAt, FilesAt,
      JournalRecoverable, Recoverable
<1>3. CASE Next
  BY <1>1, <1>3, ExecuteInv, CatchInv, RecoverInv, ApplicationInv, FaultInv
  DEF Next, Service
<1>4. QED
  BY <1>1, <1>2, <1>3

\* Whichever root a crash or a power loss leaves, rollback, cleanup and recover
\* have not consumed the last copy of the bytes that this root needs, for
\* every set of identities: as long as a directory that a restarted process
\* has read is durable by then (~DoubleFault; see SecondCrashKeepsRollback).
THEOREM JournalAlwaysRecoverable ==
  ASSUME ~DoubleFault
  PROVE  Spec => []JournalRecoverable
<1>1. Init => IInv
  BY InitInv
<1>2. IInv /\ [Next]_vars => IInv'
  BY StepInv
<1>3. IInv => JournalRecoverable
  BY DEF IInv
<1>4. QED
  BY <1>1, <1>2, <1>3, PTL DEF Spec

-----------------------------------------------------------------------------
(* What the durable root records is what the files hold and what clients   *)
(* are served, and the bytes of other programs are kept.                   *)

\* The file of k holds the key, unless another program damaged it or it was
\* one of those missing from the start.
Holds(k, key, f) ==
  \/ f[PrivateFile(k)] \in {key, Foreign}
  \/ PrivateFile(k) \in Missing /\ f[PrivateFile(k)] = Absent

\* A plan installs identities, changes only its roles, records what it
\* installs and was made when the files held the recorded keys.
PlanSound(p) ==
  /\ \A r \in p.roles : p.new[r] \in Identities
  /\ \A r \in Roles \ p.roles : p.new[r] = p.old[r]
  /\ \A k \in Kinds :
       /\ p.after[k] \in Identities
       /\ p.after[k] = p.new[PrivateFile(k)]
       /\ p.before[k] # Unknown => Holds(k, p.before[k], p.old)

\* Without a journal the files f hold the recorded keys; with one, its plan is
\* sound and f still has the old bytes outside the plan's roles.
RootSound(root, f) ==
  /\ ~root.initialized => root.keys = NoKeys /\ root.phase = "none"
  /\ root.phase = "none" =>
       \A k \in Kinds : root.keys[k] # Unknown => Holds(k, root.keys[k], f)
  /\ root.phase # "none" =>
       /\ PlanSound(root.plan)
       /\ root.keys = IF root.phase = "committed" THEN root.plan.after
                      ELSE root.plan.before
       /\ \A r \in Roles \ root.plan.roles : f[r] \in {root.plan.old[r], Foreign}

RootsSound == \A root \in {mem, disk, stable} : RootSound(root, files)

\* What the locals and the files are at the points the roots do not tell.
PointsSound ==
  /\ pc \in {"backup", "stopping", "journal"} => PlanSound(run.plan)
  /\ /\ pc \in {"backup", "stopping", "journal", "catch", "unbind", "resolve",
                "rbclean", "settle"}
     /\ ~run.uncertain /\ mem.phase = "none"
     => mem.keys = run.plan.before
  /\ pc = "journal" => \A r \in Roles : files[r] = run.plan.old[r]
  /\ pc = "install" => \A r \in run.todo : files[r] = run.plan.old[r]
  /\ pc = "restoring" =>
       /\ run.todo \subseteq run.plan.roles
       /\ \A r \in run.todo : files[r] = run.plan.new[r]
  /\ pc = "generate" =>
       /\ ~mem.initialized
       /\ \A r \in Roles : files[r] \in Identities \cup {Absent}
  /\ run.wasRunning => \A k \in Kinds : run.plan.before[k] # Unknown
  /\ pc = "restore" /\ run.wasRunning => \A k \in Kinds : mem.keys[k] # Unknown
  /\ pc = "down" => mem = NewInstallation /\ ~locked

\* Where the gate may be open, and that the identities behind it are those of
\* the durable root and of the files.
ServedSound ==
  /\ listener.gate = "open" =>
       /\ pc \in {"idle", "backup", "stopping", "recover", "initialize",
                  "clean", "finish", "catch"}
       /\ pc \in {"idle", "recover"} => mem.phase = "none"
       /\ pc = "idle" => disk.keys = stable.keys
       /\ stable.keys = listener.keys
       /\ \A k \in Kinds :
            /\ listener.keys[k] \in Identities
            /\ files[PrivateFile(k)] \in {listener.keys[k], Foreign}
  /\ pc \in {"commit", "activate"} => listener.keys = run.plan.after

RecordInv == RootsSound /\ PointsSound /\ ServedSound

-----------------------------------------------------------------------------
(* What the steps change.                                                  *)

\* The five ways in which a key file changes: the rename of a new file (which
\* may be followed by an error), the restoring of an old one, a generated key
\* and another program.
FileChange ==
  \/ UNCHANGED files
  \/ /\ pc = "install" /\ UNCHANGED roots
     /\ \E r \in run.todo : files' = [files EXCEPT ![r] = run.plan.new[r]]
  \/ /\ pc = "restoring" /\ UNCHANGED roots
     /\ \E r \in run.todo :
          files' = [files EXCEPT ![r] = IF run.plan.old[r] = Absent
                                        THEN Absent ELSE rollback[r]]
  \/ /\ pc = "generate" /\ UNCHANGED roots
     /\ \E r \in Roles, id \in Identities :
          files[r] # Foreign /\ files' = [files EXCEPT ![r] = id]
  \/ /\ pc \in Awaiting \cup {"down"} /\ UNCHANGED roots
     /\ \E r \in Roles : files' = [files EXCEPT ![r] = Foreign]

\* Every view of the root is one of the views there were, or the document of
\* a commit, or that of a new installation.
RootChange ==
  \A root \in {mem', disk', stable'} :
    \/ root \in {mem, disk, stable, NewInstallation}
    \/ pc \in CommitPoints /\ root = PendingRoot

LEMMA ExecuteFiles == ASSUME IInv, RecordInv, ExecuteStep PROVE FileChange
BY DEF ExecuteStep, BackupDone, BackupFails, StoppedStage, StoppedChanged,
       StoppedFails, CommitJournal, Install, InstallDone, CommitInstalled, BindDone,
       CommitIdentity, ActivateDone, CleanDone, Finish, ExecuteThrows,
       ExecuteUncertain, store, FileChange

LEMMA CatchFiles == ASSUME IInv, RecordInv, CatchStep PROVE FileChange
BY DEF CatchStep, CloseGate, Unbound, UnbindFails, Reload, ReloadFails,
       KeepCommitted, Decide, Restore, store, FileChange

LEMMA GenerateFiles ==
  ASSUME IInv, RecordInv, NEW id \in Identities, Generate(id)
  PROVE  FileChange
<1> DEFINE next == IF files["client-private"] = Absent THEN "client-private"
                   ELSE IF files["client-public"] = Absent THEN "client-public"
                   ELSE "host-private"
           content == IF next = "client-public" THEN files["client-private"] ELSE id
<1>1. next \in Roles
  BY DEF Roles
<1>2. content \in Identities
  BY ContentAssumption DEF Generate, IInv, TypeInv, GeneratedFiles
<1>3. files[next] # Foreign
  BY <1>1, ContentAssumption DEF Generate, RecordInv, PointsSound
<1>4. files' = [files EXCEPT ![next] = content] /\ pc = "generate" /\ UNCHANGED roots
  BY DEF Generate
<1>5. QED
  BY <1>1, <1>2, <1>3, <1>4 DEF FileChange

LEMMA RecoverFiles == ASSUME IInv, RecordInv, RecoverStep PROVE FileChange
<1>1. ASSUME NEW id \in Identities, Generate(id) PROVE FileChange
  BY <1>1, GenerateFiles
<1>2. CASE ~ \E id \in Identities : Generate(id)
  BY <1>2
  DEF RecoverStep, Rollback, RollbackImpossible, RollbackFails, RestoreFile, Unlink,
      RollbackDone, RollbackCleaned, Settle, SettleFails, RecoverNothing, Recover,
      Initialize, Record, InitializeFails, store, FileChange
<1>3. QED
  BY <1>1, <1>2

LEMMA ApplicationFiles == ASSUME IInv, RecordInv, Application PROVE FileChange
BY DEF Application, Execute, Reinitialize, RetryLoad, StartProxy, StopProxy, Abort,
       store, FileChange

LEMMA FaultFiles == ASSUME IInv, RecordInv, Faults PROVE FileChange
BY DEF Faults, StorageLock, Crash, PowerLoss, Restart, Edit, store, FileChange

LEMMA FileSteps == ASSUME IInv, RecordInv, Next PROVE FileChange
BY ExecuteFiles, CatchFiles, RecoverFiles, ApplicationFiles, FaultFiles
DEF Next, Service

LEMMA RootSteps == ASSUME IInv, Next PROVE RootChange
<1> USE DEF RootChange, roots, CommitRoot, CommitUncertain, CommitPoints, ForgetMemory
<1>1. CASE ExecuteStep
  BY <1>1
  DEF ExecuteStep, BackupDone, BackupFails, StoppedStage, StoppedChanged,
      StoppedFails, CommitJournal, Install, InstallDone, CommitInstalled, BindDone,
      CommitIdentity, ActivateDone, CleanDone, Finish, ExecuteThrows, ExecuteUncertain
<1>2. CASE CatchStep
  BY <1>2
  DEF CatchStep, CloseGate, Unbound, UnbindFails, Reload, ReloadFails,
      KeepCommitted, Decide, Restore
<1>3. CASE RecoverStep
  BY <1>3
  DEF RecoverStep, Rollback, RollbackImpossible, RollbackFails, RestoreFile, Unlink,
      RollbackDone, RollbackCleaned, Settle, SettleFails, RecoverNothing, Recover,
      Initialize, Record, InitializeFails, Generate
<1>4. CASE Application
  BY <1>4
  DEF Application, Execute, Reinitialize, RetryLoad, StartProxy, StopProxy, Abort
<1>5. CASE Faults
  BY <1>5 DEF Faults, StorageLock, Crash, PowerLoss, Restart, Edit
<1>6. QED
  BY <1>1, <1>2, <1>3, <1>4, <1>5 DEF Next, Service

-----------------------------------------------------------------------------
(* The roots stay sound.                                                   *)

\* Whatever root a commit is about to write, it is sound with these files.
LEMMA PendingSound ==
  ASSUME IInv, RecordInv, pc \in CommitPoints
  PROVE  RootSound(PendingRoot, files)
<1> USE DEF RecordInv, JournalPhase, Journal, Settled, PendingRoot, SettledKeys
<1>0. \A k \in Kinds : PrivateFile(k) \in Roles
  BY DEF Kinds, Roles, PrivateFile
<1>1. RootSound(mem, files) /\ Recoverable(mem)
  BY DEF RootsSound, IInv, RootsAgree, UncertainLocked, JournalRecoverable, CommitPoints
<1>2. CASE pc = "journal"
  BY <1>2 DEF PointsSound, RootSound
<1>3. CASE pc = "mark"
  BY <1>1, <1>3 DEF RootSound, IInv, JournalAt
<1>4. CASE pc = "commit"
  BY <1>1, <1>4 DEF RootSound, IInv, JournalAt
<1>5. CASE pc = "record"
  BY <1>5 DEF RootSound, Holds
<1>6. ASSUME mem.phase = "committed"
      PROVE  \A k \in Kinds : Holds(k, mem.plan.after[k], files)
  BY <1>0, <1>1, <1>6 DEF RootSound, PlanSound, Recoverable, Holds
<1>7. CASE pc = "finish"
  BY <1>1, <1>6, <1>7 DEF RootSound, IInv, JournalAt
<1>8. CASE pc = "settle"
  <2>1. mem.phase # "none" => mem.plan = run.plan
    BY <1>8 DEF IInv, JournalAt
  <2>2. CASE mem.phase = "committed"
    BY <1>6, <1>8, <2>1, <2>2 DEF RootSound
  <2>3. CASE mem.phase = "none"
    <3>1. mem.keys = run.plan.before
      BY <1>8, <2>3 DEF PointsSound, IInv, UncertainLocked
    <3>2. QED
      BY <1>1, <1>8, <2>3, <3>1 DEF RootSound
  <2>4. CASE mem.phase \in {"prepared", "installed"}
    <3>1. \A r \in Roles : files[r] \in {run.plan.old[r], Foreign}
      BY <1>1, <1>8, <2>1, <2>4 DEF RootSound, IInv, FilesAt
    <3>2. PlanSound(run.plan)
      BY <1>1, <2>1, <2>4 DEF RootSound
    <3>3. QED
      BY <1>0, <1>8, <2>4, <3>1, <3>2 DEF RootSound, PlanSound, Holds
  <2>5. QED
    BY <2>2, <2>3, <2>4 DEF IInv, TypeInv, TypeOK, Roots, Phases
<1>9. QED
  BY <1>2, <1>3, <1>4, <1>5, <1>7, <1>8 DEF CommitPoints

LEMMA UntouchedFiles ==
  ASSUME IInv, RecordInv, RootChange, UNCHANGED files
  PROVE  RootsSound'
<1>1. RootSound(NewInstallation, files)
  BY DEF RootSound, NewInstallation, NoKeys
<1>2. \A root \in {mem', disk', stable'} : RootSound(root, files)
  BY <1>1, PendingSound DEF RootChange, RecordInv, RootsSound
<1>3. QED
  BY <1>2 DEF RootsSound

\* A key file may take the bytes that the root expects of it: anything if the
\* file is one of an uncommitted plan, the bytes of another program always.
LEMMA TouchedFile ==
  ASSUME NEW root \in Roots, NEW r \in Roles, NEW f \in Files, NEW c,
         RootSound(root, f),
         \/ c = Foreign
         \/ root.phase # "none" /\ r \in root.plan.roles
         \/ root.phase = "none" /\ root.keys = NoKeys
  PROVE  RootSound(root, [f EXCEPT ![r] = c])
<1> DEFINE g == [f EXCEPT ![r] = c]
<1>1. \A s \in Roles : g[s] = IF s = r THEN c ELSE f[s]
  BY DEF Files
<1>2. \A k \in Kinds : PrivateFile(k) \in Roles
  BY DEF Kinds, Roles, PrivateFile
<1>3. CASE root.phase = "none" /\ root.keys = NoKeys
  BY <1>3 DEF RootSound, NoKeys
<1>4. CASE root.phase = "none" /\ c = Foreign
  <2>1. \A k \in Kinds : \A key : Holds(k, key, f) => Holds(k, key, g)
    BY <1>1, <1>2, <1>4 DEF Holds
  <2>2. QED
    BY <1>4, <2>1 DEF RootSound
<1>5. CASE root.phase # "none"
  BY <1>1, <1>5 DEF RootSound
<1>6. QED
  BY <1>3, <1>4, <1>5

LEMMA RootsStep ==
  ASSUME IInv, RecordInv, Next
  PROVE  RootsSound'
<1>0. files \in Files /\ {mem, disk, stable} \subseteq Roots /\ run \in Runs
  BY DEF IInv, TypeInv, TypeOK
<1>1. CASE UNCHANGED files
  BY <1>1, UntouchedFiles, RootSteps
<1>2. SUFFICES ASSUME UNCHANGED roots, NEW r \in Roles, NEW c,
                      files' = [files EXCEPT ![r] = c],
                      \A root \in {mem, disk, stable} :
                        \/ c = Foreign
                        \/ root.phase # "none" /\ r \in root.plan.roles
                        \/ root.phase = "none" /\ root.keys = NoKeys
               PROVE  RootsSound'
  <2>1. CASE pc = "install" /\ UNCHANGED roots
             /\ \E r \in run.todo : files' = [files EXCEPT ![r] = run.plan.new[r]]
    <3>1. PICK r \in run.todo : files' = [files EXCEPT ![r] = run.plan.new[r]]
      BY <2>1
    <3>2. r \in Roles /\ r \in run.plan.roles
      BY <1>0, <2>1, <3>1 DEF Runs, IInv, FilesAt
    <3>3. \A root \in {mem, disk, stable} : root.phase # "none" /\ root.plan = run.plan
      BY <2>1 DEF IInv, JournalAt, RootsAgree, UncertainLocked, Journal
    <3>4. QED
      BY <1>2, <2>1, <3>1, <3>2, <3>3
  <2>2. CASE pc = "restoring" /\ UNCHANGED roots
             /\ \E r \in run.todo :
                  files' = [files EXCEPT ![r] = IF run.plan.old[r] = Absent
                                                THEN Absent ELSE rollback[r]]
    <3>1. PICK r \in run.todo :
                  files' = [files EXCEPT ![r] = IF run.plan.old[r] = Absent
                                                THEN Absent ELSE rollback[r]]
      BY <2>2
    <3>2. r \in Roles /\ r \in run.plan.roles
      BY <1>0, <2>2, <3>1 DEF Runs, RecordInv, PointsSound
    <3>3. \A root \in {mem, disk, stable} : root.phase # "none" /\ root.plan = run.plan
      BY <2>2 DEF IInv, JournalAt, RootsAgree, UncertainLocked
    <3>4. QED
      BY <1>2, <2>2, <3>1, <3>2, <3>3
  <2>3. CASE pc = "generate" /\ UNCHANGED roots
             /\ \E r \in Roles, id \in Identities :
                  files[r] # Foreign /\ files' = [files EXCEPT ![r] = id]
    <3>1. \A root \in {mem, disk, stable} : root.phase = "none" /\ root.keys = NoKeys
      BY <2>3 DEF IInv, RootsAgree, UncertainLocked, RecordInv, PointsSound, RootsSound,
                  RootSound
    <3>2. QED
      BY <1>2, <2>3, <3>1
  <2>4. CASE pc \in Awaiting \cup {"down"} /\ UNCHANGED roots
             /\ \E r \in Roles : files' = [files EXCEPT ![r] = Foreign]
    BY <1>2, <2>4
  <2>5. QED
    BY <1>1, <2>1, <2>2, <2>3, <2>4, FileSteps DEF FileChange
<1>3. \A root \in {mem, disk, stable} : RootSound(root, files')
  BY <1>0, <1>2, TouchedFile DEF RecordInv, RootsSound
<1>4. QED
  BY <1>2, <1>3 DEF RootsSound, roots

-----------------------------------------------------------------------------
(* The points stay sound.                                                  *)

LEMMA ExecutePoints ==
  ASSUME IInv, RecordInv, ExecuteStep
  PROVE  PointsSound'
<1> USE DEF RecordInv, PointsSound, Goto, Return, store, roots, NoRun
<1>0. run \in Runs /\ files \in Files
  BY DEF IInv, TypeInv, TypeOK
<1>1. CASE BackupDone
  BY <1>1 DEF BackupDone
<1>2. CASE BackupFails
  BY <1>2 DEF BackupFails
<1>3. CASE StoppedStage
  BY <1>3 DEF StoppedStage, Original
<1>4. CASE StoppedChanged
  BY <1>4 DEF StoppedChanged, IInv, JournalAt, UncertainLocked
<1>5. CASE StoppedFails
  BY <1>5 DEF StoppedFails
<1>6. CASE CommitJournal
  BY <1>0, <1>6 DEF CommitJournal, Runs, Plans
<1>7. ASSUME NEW r \in Roles, Install(r) PROVE PointsSound'
  BY <1>0, <1>7 DEF Install, Runs, Files
<1>8. CASE InstallDone
  BY <1>8 DEF InstallDone
<1>9. CASE CommitInstalled
  BY <1>9 DEF CommitInstalled
<1>10. CASE BindDone
  BY <1>10 DEF BindDone
<1>11. CASE CommitIdentity
  BY <1>11 DEF CommitIdentity
<1>12. CASE ActivateDone
  BY <1>12 DEF ActivateDone
<1>13. CASE CleanDone
  BY <1>13 DEF CleanDone
<1>14. CASE Finish
  BY <1>14 DEF Finish
<1>15. CASE ExecuteThrows
  <2>1. run'.plan = run.plan /\ run'.wasRunning = run.wasRunning
        /\ pc' \in {"catch", "resolve"} /\ UNCHANGED roots
    BY <1>0, <1>15 DEF ExecuteThrows, Throw, Runs
  <2>2. pc = "journal" \/ mem.phase # "none"
    BY <1>15 DEF ExecuteThrows, IInv, JournalAt, Journal
  <2>3. ~run.uncertain
    BY <1>15 DEF ExecuteThrows, IInv, UncertainLocked
  <2>4. QED
    BY <2>1, <2>2, <2>3
<1>16. CASE ExecuteUncertain
  BY <1>0, <1>16 DEF ExecuteUncertain, Throw, Runs
<1>17. QED
  BY <1>1, <1>2, <1>3, <1>4, <1>5, <1>6, <1>7, <1>8, <1>9, <1>10, <1>11, <1>12,
     <1>13, <1>14, <1>15, <1>16 DEF ExecuteStep

LEMMA CatchPoints ==
  ASSUME IInv, RecordInv, CatchStep
  PROVE  PointsSound'
<1> USE DEF RecordInv, PointsSound, Goto, Return, Fail, store, roots, NoRun
<1>1. CASE CloseGate
  BY <1>1 DEF CloseGate
<1>2. CASE Unbound
  BY <1>2 DEF Unbound
<1>3. CASE UnbindFails
  BY <1>3 DEF UnbindFails
<1>4. CASE Reload
  <2>1. \/ run' = NoRun /\ pc' = "idle"
        \/ /\ pc' = "resolve" /\ run'.plan = run.plan
           /\ run'.wasRunning = run.wasRunning
           /\ mem'.phase = "none" => mem'.keys = run.plan.before
    BY <1>4 DEF Reload, IInv, TypeInv, TypeOK, Runs
  <2>2. QED
    BY <2>1
<1>5. CASE ReloadFails
  BY <1>5 DEF ReloadFails
<1>6. CASE KeepCommitted
  BY <1>6 DEF KeepCommitted
<1>7. CASE Decide
  BY <1>7 DEF Decide
<1>8. CASE Restore
  BY <1>8 DEF Restore
<1>9. QED
  BY <1>1, <1>2, <1>3, <1>4, <1>5, <1>6, <1>7, <1>8 DEF CatchStep

LEMMA RecoverPoints ==
  ASSUME IInv, RecordInv, RecoverStep
  PROVE  PointsSound'
<1> USE DEF RecordInv, PointsSound, Goto, Return, Fail, store, roots, NoRun
<1>0. run \in Runs /\ files \in Files
  BY DEF IInv, TypeInv, TypeOK
<1>1. CASE Rollback
  BY <1>0, <1>1 DEF Rollback, RollbackPossible, Runs, Plans
<1>2. CASE RollbackImpossible
  BY <1>2 DEF RollbackImpossible
<1>3. CASE RollbackFails
  BY <1>3 DEF RollbackFails
<1>4. ASSUME NEW r \in Roles, RestoreFile(r) PROVE PointsSound'
  BY <1>0, <1>4 DEF RestoreFile, Runs, Plans, Files
<1>5. ASSUME NEW r \in Roles, Unlink(r) PROVE PointsSound'
  BY <1>5 DEF Unlink
<1>6. CASE RollbackDone
  BY <1>6 DEF RollbackDone, Continue, IInv, JournalAt
<1>7. CASE RollbackCleaned
  BY <1>7 DEF RollbackCleaned, Continue
<1>8. CASE Settle
  <2>1. CASE mem.phase = "none"
    BY <1>8, <2>1 DEF Settle, IInv, UncertainLocked
  <2>2. CASE mem.phase # "none"
    <3>1. mem'.keys = IF mem.phase = "committed" THEN run.plan.after ELSE run.plan.before
      BY <1>8, <2>2
      DEF Settle, CommitRoot, PendingRoot, JournalPhase, SettledKeys, Settled
    <3>2. mem.plan = run.plan
      BY <1>8, <2>2 DEF Settle, IInv, JournalAt
    <3>3. \A k \in Kinds : run.plan.after[k] # Unknown
      BY <2>2, <3>2, ContentAssumption DEF RootsSound, RootSound, PlanSound
    <3>4. QED
      BY <1>8, <3>1, <3>3 DEF Settle
  <2>3. QED
    BY <2>1, <2>2
<1>9. CASE SettleFails
  BY <1>9 DEF SettleFails
<1>10. CASE RecoverNothing
  BY <1>10 DEF RecoverNothing
<1>11. CASE Recover
  BY <1>11 DEF Recover
<1>12. CASE Initialize
  BY <1>12 DEF Initialize, Fresh, NoFiles
<1>13. CASE Record
  BY <1>13 DEF Record
<1>14. CASE InitializeFails
  BY <1>14 DEF InitializeFails
<1>15. ASSUME NEW id \in Identities, Generate(id) PROVE PointsSound'
  <2>1. pc' \in {"generate", "record"} /\ UNCHANGED mem
    BY <1>15 DEF Generate
  <2>2. \A r \in Roles : files'[r] \in Identities \cup {Absent}
    BY <1>0, <1>15 DEF Generate, Files, Roles
  <2>3. QED
    BY <1>15, <2>1, <2>2 DEF Generate
<1>16. QED
  BY <1>1, <1>2, <1>3, <1>4, <1>5, <1>6, <1>7, <1>8, <1>9, <1>10, <1>11, <1>12,
     <1>13, <1>14, <1>15 DEF RecoverStep

\* A plan that execute accepts is sound: the keys it does not replace are
\* ready, and the recorded ones are those the files hold.
LEMMA PlanForSound ==
  ASSUME IInv, RecordInv, NEW target \in Targets, NEW rebuild \in BOOLEAN,
         NEW imported \in BOOLEAN, mem.phase = "none",
         \A k \in Kinds : PrivateFile(k) \notin target => Ready(k),
         NEW new \in NewKeys(target, rebuild, imported)
  PROVE  PlanSound(PlanFor(target, new))
<1>1. \A k \in Kinds : PrivateFile(k) \in Roles /\ KeyOf(PrivateFile(k)) = k
  BY DEF Kinds, Roles, PrivateFile, KeyOf
<1>2. \A r \in Roles : KeyOf(r) \in Kinds
  BY DEF Kinds, KeyOf
<1>3. new \in [Kinds -> Identities] /\ target \subseteq Roles
  BY DEF NewKeys, Targets, Roles
<1>4. \A k \in Kinds : PrivateFile(k) \notin target => new[k] = files[PrivateFile(k)]
  BY DEF NewKeys
<1>5. \A k \in Kinds : mem.keys[k] # Unknown => Holds(k, mem.keys[k], files)
  BY DEF RecordInv, RootsSound, RootSound
<1>6. QED
  BY <1>1, <1>2, <1>3, <1>4, <1>5 DEF PlanFor, PlanSound

LEMMA ApplicationPoints ==
  ASSUME IInv, RecordInv, Application
  PROVE  PointsSound'
<1> USE DEF RecordInv, PointsSound, Goto, store, roots
<1>1. ASSUME NEW target \in Targets, NEW rebuild \in BOOLEAN,
             NEW imported \in BOOLEAN, Execute(target, rebuild, imported)
      PROVE  PointsSound'
  <2>1. PICK new \in NewKeys(target, rebuild, imported) :
          run' = [NoRun EXCEPT !.mode = "execute",
                               !.plan = PlanFor(target, new),
                               !.wasRunning = (listener.gate = "open")]
    BY <1>1 DEF Execute
  <2>2. run'.plan = PlanFor(target, new)
    BY <2>1 DEF NoRun
  <2>3. PlanSound(run'.plan)
    BY <1>1, <2>2, PlanForSound DEF Execute
  <2>4. run'.plan.before = mem'.keys /\ pc' = "backup"
    BY <1>1, <2>2 DEF Execute, PlanFor
  <2>5. listener.gate = "open" => \A k \in Kinds : mem.keys[k] # Unknown
    BY <1>1, ContentAssumption
    DEF Execute, IInv, RootsAgree, UncertainLocked, ServedSound
  <2>6. run'.wasRunning = (listener.gate = "open") /\ UNCHANGED mem
    BY <1>1, <2>1 DEF Execute, NoRun
  <2>7. QED
    BY <2>3, <2>4, <2>5, <2>6
<1>2. CASE Reinitialize
  BY <1>2 DEF Reinitialize
<1>3. CASE RetryLoad
  BY <1>3 DEF RetryLoad
<1>4. CASE StartProxy
  BY <1>4 DEF StartProxy
<1>5. CASE StopProxy
  BY <1>5 DEF StopProxy
<1>6. CASE Abort
  BY <1>6 DEF Abort, Awaiting, IInv, TypeInv, TypeOK, Runs
<1>7. QED
  BY <1>1, <1>2, <1>3, <1>4, <1>5, <1>6 DEF Application

LEMMA FaultPoints ==
  ASSUME IInv, RecordInv, Faults
  PROVE  PointsSound'
<1> USE DEF RecordInv, PointsSound, Goto, store, roots
<1>1. CASE StorageLock
  BY <1>1 DEF StorageLock, Awaiting
<1>2. CASE Crash
  BY <1>2 DEF Crash, ForgetMemory, NoRun
<1>3. CASE PowerLoss
  BY <1>3 DEF PowerLoss, ForgetMemory, NoRun
<1>4. CASE Restart
  BY <1>4 DEF Restart
<1>5. ASSUME NEW r \in Roles, Edit(r) PROVE PointsSound'
  BY <1>5 DEF Edit, Awaiting
<1>6. QED
  BY <1>1, <1>2, <1>3, <1>4, <1>5 DEF Faults

-----------------------------------------------------------------------------
(* What is served stays sound.                                             *)

\* A listener that opens with the recorded keys serves what all roots record.
LEMMA OpenedSound ==
  ASSUME IInv, pc \in {"idle", "restore"}, OpenListener,
         \A k \in Kinds : mem.keys[k] # Unknown
  PROVE  /\ mem = disk /\ disk = stable /\ mem.phase = "none"
         /\ stable.keys = listener'.keys
         /\ \A k \in Kinds :
              /\ listener'.keys[k] \in Identities
              /\ files[PrivateFile(k)] = listener'.keys[k]
<1>1. mem = disk /\ disk = stable /\ mem.phase = "none"
  BY DEF OpenListener, AssertReady, IInv, RootsAgree, UncertainLocked
<1>2. mem.keys = [k \in Kinds |-> files[PrivateFile(k)]]
  BY DEF OpenListener, AssertReady, Ready, IInv, TypeInv, TypeOK, Roots, Keys
<1>3. QED
  BY <1>1, <1>2 DEF OpenListener, AssertReady, Ready

\* When the gate of a candidate opens, its identities are recorded and are
\* those of the files.
LEMMA CandidateSound ==
  ASSUME IInv, RecordInv, pc = "activate"
  PROVE  /\ stable.keys = listener.keys
         /\ \A k \in Kinds :
              /\ listener.keys[k] \in Identities
              /\ files[PrivateFile(k)] \in {listener.keys[k], Foreign}
<1>1. mem = Journal(run.plan, "committed") /\ mem = stable
  BY DEF IInv, JournalAt, RootsAgree, UncertainLocked
<1>2. RootSound(mem, files) /\ Recoverable(mem)
  BY <1>1 DEF RecordInv, RootsSound, IInv, JournalRecoverable
<1>3. \A k \in Kinds : PrivateFile(k) \in Roles
  BY DEF Kinds, Roles, PrivateFile
<1>4. listener.keys = run.plan.after
  BY DEF RecordInv, ServedSound
<1>5. QED
  BY <1>1, <1>2, <1>3, <1>4 DEF RootSound, PlanSound, Recoverable, Journal

LEMMA ExecuteServed ==
  ASSUME IInv, RecordInv, ExecuteStep
  PROVE  ServedSound'
<1> USE DEF RecordInv, ServedSound, Goto, Return, store, roots, NoRun, NoListener
<1>0. run \in Runs /\ listener \in Listeners
  BY DEF IInv, TypeInv, TypeOK
<1>1. CASE BackupDone
  BY <1>1 DEF BackupDone
<1>2. CASE BackupFails
  BY <1>2 DEF BackupFails, IInv, JournalAt, RootsAgree, UncertainLocked
<1>3. CASE StoppedStage
  BY <1>3 DEF StoppedStage
<1>4. CASE StoppedChanged
  BY <1>4 DEF StoppedChanged
<1>5. CASE StoppedFails
  BY <1>5 DEF StoppedFails, IInv, JournalAt, RootsAgree, UncertainLocked
<1>6. CASE CommitJournal
  BY <1>6 DEF CommitJournal
<1>7. ASSUME NEW r \in Roles, Install(r) PROVE ServedSound'
  BY <1>7 DEF Install
<1>8. CASE InstallDone
  BY <1>8 DEF InstallDone
<1>9. CASE CommitInstalled
  BY <1>9 DEF CommitInstalled
<1>10. CASE BindDone
  BY <1>10 DEF BindDone, Candidate
<1>11. CASE CommitIdentity
  BY <1>0, <1>11 DEF CommitIdentity, Runs
<1>12. CASE ActivateDone
  BY <1>0, <1>12, CandidateSound DEF ActivateDone, Activated, Listeners
<1>13. CASE CleanDone
  BY <1>13 DEF CleanDone
<1>14. CASE Finish
  <2>1. mem = stable /\ mem'.phase = "none" /\ stable'.keys = mem.keys
        /\ disk' = stable'
    BY <1>14
    DEF Finish, CommitRoot, PendingRoot, JournalPhase, SettledKeys, Settled, IInv,
        RootsAgree, UncertainLocked
  <2>2. QED
    BY <1>14, <2>1 DEF Finish
<1>15. CASE ExecuteThrows
  <2>1. pc' = (IF pc \in {"bind", "commit", "activate", "clean", "finish"}
              THEN "catch" ELSE "resolve") /\ UNCHANGED <<mem, stable>>
    BY <1>15 DEF ExecuteThrows, Throw
  <2>2. CASE UNCHANGED <<files, listener>>
    BY <1>15, <2>1, <2>2 DEF ExecuteThrows
  <2>3. CASE pc = "install" /\ UNCHANGED listener
    BY <2>1, <2>3
  <2>4. CASE pc = "bind" /\ listener' = Candidate
    BY <2>1, <2>4 DEF Candidate
  <2>5. CASE pc = "activate" /\ Activated /\ UNCHANGED files
    BY <1>0, <2>1, <2>5, CandidateSound DEF Activated, Listeners
  <2>6. QED
    BY <1>15, <2>2, <2>3, <2>4, <2>5 DEF ExecuteThrows
<1>16. CASE ExecuteUncertain
  BY <1>0, <1>16 DEF ExecuteUncertain, Throw, Runs, CommitUncertain
<1>17. QED
  BY <1>1, <1>2, <1>3, <1>4, <1>5, <1>6, <1>7, <1>8, <1>9, <1>10, <1>11, <1>12,
     <1>13, <1>14, <1>15, <1>16 DEF ExecuteStep

LEMMA CatchServed ==
  ASSUME IInv, RecordInv, CatchStep
  PROVE  ServedSound'
<1> USE DEF RecordInv, ServedSound, Goto, Return, Fail, store, roots, NoRun, NoListener
<1>1. CASE CloseGate
  BY <1>1 DEF CloseGate, IInv, TypeInv, TypeOK, Listeners
<1>2. CASE Unbound
  BY <1>2 DEF Unbound
<1>3. CASE UnbindFails
  BY <1>3 DEF UnbindFails
<1>4. CASE Reload
  BY <1>4 DEF Reload
<1>5. CASE ReloadFails
  BY <1>5 DEF ReloadFails
<1>6. CASE KeepCommitted
  BY <1>6 DEF KeepCommitted
<1>7. CASE Decide
  BY <1>7 DEF Decide
<1>8. CASE Restore
  <2>1. CASE UNCHANGED listener
    BY <1>8, <2>1 DEF Restore
  <2>2. CASE OpenListener
    <3>1. CASE run.wasRunning
      BY <1>8, <2>2, <3>1, OpenedSound DEF Restore, PointsSound
    <3>2. CASE ~run.wasRunning
      BY <1>8, <2>1, <3>2 DEF Restore
    <3>3. QED
      BY <3>1, <3>2
  <2>3. QED
    BY <1>8, <2>1, <2>2 DEF Restore
<1>9. QED
  BY <1>1, <1>2, <1>3, <1>4, <1>5, <1>6, <1>7, <1>8 DEF CatchStep

LEMMA RecoverServed ==
  ASSUME IInv, RecordInv, RecoverStep
  PROVE  ServedSound'
<1> USE DEF RecordInv, ServedSound, Goto, Return, Fail, store, roots, NoRun
<1>1. CASE Rollback
  BY <1>1 DEF Rollback
<1>2. CASE RollbackImpossible
  BY <1>2 DEF RollbackImpossible
<1>3. CASE RollbackFails
  BY <1>3 DEF RollbackFails
<1>4. ASSUME NEW r \in Roles, RestoreFile(r) PROVE ServedSound'
  BY <1>4 DEF RestoreFile
<1>5. ASSUME NEW r \in Roles, Unlink(r) PROVE ServedSound'
  BY <1>5 DEF Unlink
<1>6. CASE RollbackDone
  BY <1>6 DEF RollbackDone, Continue
<1>7. CASE RollbackCleaned
  BY <1>7 DEF RollbackCleaned, Continue
<1>8. CASE Settle
  BY <1>8 DEF Settle
<1>9. CASE SettleFails
  BY <1>9 DEF SettleFails
<1>10. CASE RecoverNothing
  BY <1>10 DEF RecoverNothing
<1>11. CASE Recover
  BY <1>11 DEF Recover
<1>12. CASE Initialize
  <2>1. mem.phase = "none" /\ UNCHANGED <<files, mem, stable, listener>>
    BY <1>12 DEF Initialize, IInv, JournalAt
  <2>2. mem = disk /\ disk = stable /\ RootSound(mem, files)
    BY <1>12 DEF Initialize, IInv, RootsAgree, UncertainLocked, RootsSound
  <2>3. listener.gate = "open" => Recorded
    BY <2>2, ContentAssumption DEF RootSound, NoKeys, Kinds, Recorded
  <2>4. Recorded => pc' = "idle"
    BY <1>12 DEF Initialize
  <2>5. pc' \notin {"commit", "activate"} /\ UNCHANGED <<disk, stable>>
    BY <1>12 DEF Initialize
  <2>6. QED
    BY <1>12, <2>1, <2>2, <2>3, <2>4, <2>5 DEF Initialize
<1>13. CASE Record
  BY <1>13 DEF Record
<1>14. CASE InitializeFails
  BY <1>14 DEF InitializeFails
<1>15. ASSUME NEW id \in Identities, Generate(id) PROVE ServedSound'
  BY <1>15 DEF Generate
<1>16. QED
  BY <1>1, <1>2, <1>3, <1>4, <1>5, <1>6, <1>7, <1>8, <1>9, <1>10, <1>11, <1>12,
     <1>13, <1>14, <1>15 DEF RecoverStep

LEMMA ApplicationServed ==
  ASSUME IInv, RecordInv, Application
  PROVE  ServedSound'
<1> USE DEF RecordInv, ServedSound, Goto, store, roots, NoListener
<1>1. ASSUME NEW target \in Targets, NEW rebuild \in BOOLEAN,
             NEW imported \in BOOLEAN, Execute(target, rebuild, imported)
      PROVE  ServedSound'
  <2>1. pc = "idle" /\ pc' = "backup" /\ UNCHANGED <<files, mem, stable, listener>>
    BY <1>1 DEF Execute
  <2>2. QED
    BY <2>1
<1>2. CASE Reinitialize
  BY <1>2 DEF Reinitialize
<1>3. CASE RetryLoad
  BY <1>3 DEF RetryLoad
<1>4. CASE StartProxy
  BY <1>4, OpenedSound DEF StartProxy, Recorded
<1>5. CASE StopProxy
  BY <1>5 DEF StopProxy
<1>6. CASE Abort
  BY <1>6 DEF Abort, Awaiting, IInv, TypeInv, TypeOK, Runs
<1>7. QED
  BY <1>1, <1>2, <1>3, <1>4, <1>5, <1>6 DEF Application

LEMMA FaultServed ==
  ASSUME IInv, RecordInv, Faults
  PROVE  ServedSound'
<1> USE DEF RecordInv, ServedSound, Goto, store, roots, NoListener
<1>1. CASE StorageLock
  BY <1>1 DEF StorageLock
<1>2. CASE Crash
  BY <1>2 DEF Crash, ForgetMemory
<1>3. CASE PowerLoss
  BY <1>3 DEF PowerLoss, ForgetMemory
<1>4. CASE Restart
  BY <1>4 DEF Restart
<1>5. ASSUME NEW r \in Roles, Edit(r) PROVE ServedSound'
  BY <1>5 DEF Edit, IInv, TypeInv, TypeOK, Files
<1>6. QED
  BY <1>1, <1>2, <1>3, <1>4, <1>5 DEF Faults

-----------------------------------------------------------------------------
(* The theorems.                                                           *)

LEMMA InitRecord == Init => RecordInv
<1>1. SUFFICES ASSUME Init PROVE RecordInv
  OBVIOUS
<1>2. RootSound(NewInstallation, files)
  BY DEF RootSound, NewInstallation, NoKeys
<1>3. RootSound(disk, files)
  <2>1. ASSUME NEW k \in [Kinds -> Identities], NEW gone \in SUBSET Missing,
               disk = Settled(k),
               files = [r \in Roles |-> IF r \in gone THEN Absent ELSE k[KeyOf(r)]]
        PROVE  RootSound(disk, files)
    <3>1. \A i \in Kinds : PrivateFile(i) \in Roles /\ KeyOf(PrivateFile(i)) = i
      BY DEF Kinds, Roles, PrivateFile, KeyOf
    <3>2. QED
      BY <2>1, <3>1 DEF RootSound, Settled, Holds
  <2>2. QED
    BY <1>1, <1>2, <2>1 DEF Init
<1>4. QED
  BY <1>1, <1>2, <1>3
  DEF Init, RecordInv, RootsSound, PointsSound, ServedSound, NoListener, NoRun

\* The invariants of both modules, as the steps preserve them together.
KeyInv == IInv /\ RecordInv

LEMMA KeyInvStep == ~DoubleFault /\ KeyInv /\ [Next]_vars => KeyInv'
<1>1. SUFFICES ASSUME ~DoubleFault, KeyInv, [Next]_vars PROVE KeyInv'
  OBVIOUS
<1>2. IInv'
  BY <1>1, StepInv DEF KeyInv
<1>3. CASE UNCHANGED vars
  BY <1>1, <1>2, <1>3
  DEF KeyInv, RecordInv, RootsSound, PointsSound, ServedSound, vars, store, roots
<1>4. CASE Next
  <2>1. RootsSound'
    BY <1>1, <1>4, RootsStep DEF KeyInv
  <2>2. PointsSound'
    BY <1>1, <1>4, ExecutePoints, CatchPoints, RecoverPoints, ApplicationPoints,
       FaultPoints DEF KeyInv, Next, Service
  <2>3. ServedSound'
    BY <1>1, <1>4, ExecuteServed, CatchServed, RecoverServed, ApplicationServed,
       FaultServed DEF KeyInv, Next, Service
  <2>4. QED
    BY <1>2, <2>1, <2>2, <2>3 DEF KeyInv, RecordInv
<1>5. QED
  BY <1>1, <1>3, <1>4

\* Whatever happens during a replacement, without a journal the private files
\* are the recorded identities and never a mixture of two, and connections are
\* admitted only with an identity that the durable root records: for every set
\* of identities and of files missing at first (execute, recover, initialize,
\* activateCandidate, restoreOriginal).
THEOREM IdentityAlwaysDurable ==
  ASSUME ~DoubleFault
  PROVE  Spec => []IdentityIsDurable
<1>1. Init => KeyInv
  BY InitInv, InitRecord DEF KeyInv
<1>2. KeyInv /\ [Next]_vars => KeyInv'
  BY KeyInvStep
<1>3. KeyInv => IdentityIsDurable
  BY DEF KeyInv, IInv, TypeInv, RecordInv, RootsSound, RootSound, Holds, ServedSound,
         IdentityIsDurable, RecordMatchesFiles, AdmittedIdentityDurable
<1>4. QED
  BY <1>1, <1>2, <1>3, PTL DEF Spec

\* No step overwrites bytes that another program put into a key file, unless
\* the plan found them there, for every set of identities (assertOriginal, the
\* first pass of rollback, initialize).
THEOREM ForeignAlwaysKept ==
  ASSUME ~DoubleFault
  PROVE  Spec => ForeignBytesKept
<1> DEFINE Kept == \A r \in Roles : files[r] = Foreign /\ files'[r] # Foreign =>
                                      r \in run.plan.roles /\ run.plan.old[r] = Foreign
<1>1. Init => KeyInv
  BY InitInv, InitRecord DEF KeyInv
<1>2. KeyInv /\ [Next]_vars => KeyInv'
  BY KeyInvStep
<1>3. KeyInv /\ [Next]_vars => [Kept]_vars
  <2>1. SUFFICES ASSUME KeyInv, Next PROVE Kept
    OBVIOUS
  <2>2. SUFFICES ASSUME NEW r \in Roles, files[r] = Foreign, files'[r] # Foreign
                 PROVE  r \in run.plan.roles /\ run.plan.old[r] = Foreign
    OBVIOUS
  <2>3. FileChange
    BY <2>1, FileSteps DEF KeyInv
  <2>4. files \in Files /\ run \in Runs
    BY <2>1 DEF KeyInv, IInv, TypeInv, TypeOK
  <2>5. CASE pc = "install" /\ \E s \in run.todo :
                files' = [files EXCEPT ![s] = run.plan.new[s]]
    BY <2>1, <2>2, <2>4, <2>5
    DEF Files, KeyInv, IInv, FilesAt, RecordInv, PointsSound
  <2>6. CASE pc = "restoring" /\ \E s \in run.todo :
                files' = [files EXCEPT ![s] = IF run.plan.old[s] = Absent
                                              THEN Absent ELSE rollback[s]]
    <3>1. PICK s \in run.todo :
                files' = [files EXCEPT ![s] = IF run.plan.old[s] = Absent
                                              THEN Absent ELSE rollback[s]]
      BY <2>6
    <3>2. s = r
      BY <2>2, <2>4, <3>1 DEF Files
    <3>3. PlanSound(run.plan)
      BY <2>1, <2>6
      DEF KeyInv, IInv, JournalAt, RecordInv, RootsSound, RootSound
    <3>4. files[s] = run.plan.new[s] /\ s \in run.plan.roles
      BY <2>1, <2>6, <3>1 DEF KeyInv, RecordInv, PointsSound
    <3>5. files[s] \in Identities
      BY <3>3, <3>4 DEF PlanSound
    <3>6. QED
      BY <2>2, <3>2, <3>5, ContentAssumption
  <2>7. QED
    BY <2>2, <2>3, <2>4, <2>5, <2>6 DEF FileChange, Files
<1>4. QED
  BY <1>1, <1>2, <1>3, PTL DEF Spec, ForeignBytesKept

-----------------------------------------------------------------------------
(* The promises of KeyIdentity and RootStore.                              *)

\* The recorded keys change only while no connection is admitted.
LEMMA IdentityFixed ==
  ASSUME KeyInv, Next, listener.gate = "open" \/ listener'.gate = "open"
  PROVE  stable'.keys = stable.keys
<1> USE DEF KeyInv, RecordInv, ServedSound, roots, NoListener
<1>1. CASE ExecuteStep
  <2>1. CASE Finish
    BY <2>1
    DEF Finish, CommitRoot, PendingRoot, JournalPhase, SettledKeys, Settled, IInv,
        RootsAgree, UncertainLocked
  <2>2. CASE ~Finish
    BY <1>1, <2>2
    DEF ExecuteStep, BackupDone, BackupFails, StoppedStage, StoppedChanged,
        StoppedFails, CommitJournal, Install, InstallDone, CommitInstalled, BindDone,
        CommitIdentity, ActivateDone, CleanDone, ExecuteThrows, ExecuteUncertain,
        CommitUncertain
  <2>3. QED
    BY <2>1, <2>2
<1>2. CASE CatchStep
  BY <1>2
  DEF CatchStep, CloseGate, Unbound, UnbindFails, Reload, ReloadFails,
      KeepCommitted, Decide, Restore
<1>3. CASE RecoverStep
  BY <1>3
  DEF RecoverStep, Rollback, RollbackImpossible, RollbackFails, RestoreFile, Unlink,
      RollbackDone, RollbackCleaned, Settle, SettleFails, RecoverNothing, Recover,
      Initialize, Record, InitializeFails, Generate
<1>4. CASE Application
  <2>1. CASE RetryLoad
    BY <2>1 DEF RetryLoad
  <2>2. CASE UNCHANGED roots
    BY <2>2
  <2>3. QED
    BY <1>4, <2>1, <2>2
    DEF Application, Execute, Reinitialize, StartProxy, StopProxy, Abort
<1>5. CASE Faults
  BY <1>5 DEF Faults, StorageLock, Crash, PowerLoss, Restart, Edit, ForgetMemory
<1>6. QED
  BY <1>1, <1>2, <1>3, <1>4, <1>5 DEF Next, Service

LEMMA IdentityStep ==
  ~DoubleFault /\ KeyInv /\ [Next]_vars
    => [IdentityOf!Next]_<<stable.keys, IF listener.gate = "open" THEN listener.keys
                                        ELSE NoKeys>>
<1>1. SUFFICES ASSUME ~DoubleFault, KeyInv, Next
               PROVE  IdentityOf!Next \/ UNCHANGED <<stable.keys, listener>>
  BY DEF vars, roots
<1>2. KeyInv'
  BY <1>1, KeyInvStep
<1>3. stable'.keys \in Keys /\ listener'.keys \in Keys
  BY <1>2 DEF KeyInv, IInv, TypeInv, TypeOK, Roots, Listeners
<1>4. CASE listener'.gate = "open"
  <2>1. stable'.keys = stable.keys
    BY <1>1, <1>4, IdentityFixed
  <2>2. listener'.keys \in [Kinds -> Identities] /\ stable'.keys = listener'.keys
    BY <1>2, <1>3, <1>4 DEF KeyInv, RecordInv, ServedSound, Keys
  <2>3. IdentityOf!Admit
    BY <1>4, <2>1, <2>2 DEF IdentityOf!Admit, IdentityOf!Presentable
  <2>4. QED
    BY <2>3 DEF IdentityOf!Next
<1>5. CASE listener'.gate # "open" /\ stable'.keys = stable.keys
  BY <1>5 DEF IdentityOf!Next, IdentityOf!Withdraw
<1>6. CASE listener'.gate # "open" /\ stable'.keys # stable.keys
  <2>1. listener.gate # "open"
    BY <1>1, <1>6, IdentityFixed
  <2>2. IdentityOf!Replace
    BY <1>3, <1>6, <2>1 DEF IdentityOf!Replace, IdentityOf!Recordable, Keys
  <2>3. QED
    BY <2>2 DEF IdentityOf!Next
<1>7. QED
  BY <1>4, <1>5, <1>6

LEMMA RootsReadable == NoDocument \notin Roots
<1>1. \A root \in Roots : root.phase \in Phases
  BY DEF Roots
<1>2. DOMAIN NoDocument = {"unreadable"}
  BY DEF NoDocument
<1>3. \A root \in Roots : "phase" \in DOMAIN root
  BY DEF Roots
<1>4. QED
  BY <1>2, <1>3

\* What the steps of the key service do to the roots, as the store allows it.
LEMMA StoreStep ==
  ASSUME KeyInv, Next
  PROVE  Store!Next \/ UNCHANGED <<pc # "down", mem, disk, stable, locked>>
<1> USE DEF Store!Next, roots, Goto
<1>0. disk \in Roots /\ disk # NoDocument /\ mem \in Roots /\ locked \in BOOLEAN
  BY RootsReadable DEF KeyInv, IInv, TypeInv, TypeOK
<1>1. CASE pc # "down" /\ pc' # "down" /\ CommitRoot
  BY <1>0, <1>1 DEF CommitRoot, Store!Commit, Store!Writable
<1>2. CASE pc # "down" /\ pc' # "down" /\ CommitUncertain
  BY <1>0, <1>2 DEF CommitUncertain, Store!CommitUncertain, Store!Writable
<1>3. CASE pc # "down" /\ pc' # "down" /\ mem' = disk /\ stable' = disk
           /\ locked' = FALSE /\ UNCHANGED disk
  BY <1>0, <1>3 DEF Store!Reload
<1>4. CASE pc # "down" /\ pc' # "down" /\ locked' = TRUE /\ UNCHANGED disk
           /\ (UNCHANGED <<mem, stable>> \/ (mem' = disk /\ stable' = disk))
  BY <1>4 DEF Store!ReloadFails
<1>5. CASE pc # "down" /\ pc' # "down" /\ UNCHANGED roots
  BY <1>5
<1>6. CASE Crash
  BY <1>0, <1>6 DEF Crash, ForgetMemory, Store!Crash, Store!Closed, Store!Writable
<1>7. CASE PowerLoss
  BY <1>7 DEF PowerLoss, ForgetMemory, Store!PowerLoss, Store!Closed
<1>8. CASE Restart
  BY <1>0, <1>8 DEF Restart, Store!Open, KeyInv, RecordInv, PointsSound
<1>9. ASSUME NEW r \in Roles, Edit(r)
      PROVE  Store!Next \/ UNCHANGED <<pc # "down", mem, disk, stable, locked>>
  BY <1>9 DEF Edit
<1>10. CASE ExecuteStep
  <2>1. pc # "down" /\ pc' # "down"
    BY <1>10
    DEF ExecuteStep, BackupDone, BackupFails, StoppedStage, StoppedChanged,
        StoppedFails, CommitJournal, Install, InstallDone, CommitInstalled, BindDone,
        CommitIdentity, ActivateDone, CleanDone, Finish, ExecuteThrows,
        ExecuteUncertain, Throw, Return
  <2>2. UNCHANGED roots \/ CommitRoot \/ CommitUncertain
    BY <1>10
    DEF ExecuteStep, BackupDone, BackupFails, StoppedStage, StoppedChanged,
        StoppedFails, CommitJournal, Install, InstallDone, CommitInstalled, BindDone,
        CommitIdentity, ActivateDone, CleanDone, Finish, ExecuteThrows, ExecuteUncertain
  <2>3. QED
    BY <1>1, <1>2, <1>5, <2>1, <2>2
<1>11. CASE CatchStep
  <2>1. pc # "down" /\ pc' # "down"
    BY <1>11
    DEF CatchStep, CloseGate, Unbound, UnbindFails, Reload, ReloadFails,
        KeepCommitted, Decide, Restore, Fail, Return
  <2>2. CASE Reload
    BY <1>3, <2>1, <2>2 DEF Reload
  <2>3. CASE ReloadFails
    BY <1>4, <1>5, <2>1, <2>3 DEF ReloadFails, KeyInv, IInv, UncertainLocked
  <2>4. CASE UNCHANGED roots
    BY <1>5, <2>1, <2>4
  <2>5. QED
    BY <1>11, <2>2, <2>3, <2>4
    DEF CatchStep, CloseGate, Unbound, UnbindFails, KeepCommitted, Decide, Restore
<1>12. CASE RecoverStep
  <2>1. pc # "down" /\ pc' # "down"
    BY <1>12
    DEF RecoverStep, Rollback, RollbackImpossible, RollbackFails, RestoreFile, Unlink,
        RollbackDone, RollbackCleaned, Settle, SettleFails, RecoverNothing, Recover,
        Initialize, Record, InitializeFails, Generate, Continue, Fail, Return
  <2>2. UNCHANGED roots \/ CommitRoot \/ CommitUncertain
    BY <1>12
    DEF RecoverStep, Rollback, RollbackImpossible, RollbackFails, RestoreFile, Unlink,
        RollbackDone, RollbackCleaned, Settle, SettleFails, RecoverNothing, Recover,
        Initialize, Record, InitializeFails, Generate
  <2>3. QED
    BY <1>1, <1>2, <1>5, <2>1, <2>2
<1>13. CASE Application
  <2>1. pc # "down" /\ pc' # "down"
    BY <1>13
    DEF Application, Execute, Reinitialize, RetryLoad, StartProxy, StopProxy, Abort,
        Awaiting
  <2>2. CASE RetryLoad
    BY <1>3, <1>4, <2>1, <2>2 DEF RetryLoad
  <2>3. CASE UNCHANGED roots
    BY <1>5, <2>1, <2>3
  <2>4. QED
    BY <1>13, <2>2, <2>3
    DEF Application, Execute, Reinitialize, StartProxy, StopProxy, Abort
<1>14. CASE StorageLock
  BY <1>4, <1>14 DEF StorageLock, Awaiting
<1>15. QED
  BY <1>6, <1>7, <1>8, <1>9, <1>10, <1>11, <1>12, <1>13, <1>14
  DEF Next, Service, Faults

\* Every behaviour keeps the promise of KeyIdentity (the durable identity
\* changes only while no connection is admitted, and nothing else is ever
\* presented), and uses the root document as RootStore promises it: for every
\* set of identities (activateCandidate, stopCandidate, rootCommit, reloadRoot).
THEOREM PromisesKept ==
  ASSUME ~DoubleFault
  PROVE  Spec => KeepsPromises
<1>1. Init => KeyInv
  BY InitInv, InitRecord DEF KeyInv
<1>2. KeyInv /\ [Next]_vars => KeyInv'
  BY KeyInvStep
<1>3. Init => IdentityOf!Init
  <2>1. Init => stable.keys \in Keys
    BY <1>1 DEF KeyInv, IInv, TypeInv, TypeOK, Roots
  <2>2. QED
    BY <2>1 DEF Init, IdentityOf!Init, IdentityOf!Recordable, Keys, NoListener
<1>4. KeyInv /\ [Next]_vars
        => [IdentityOf!Next]_<<stable.keys, IF listener.gate = "open"
                                            THEN listener.keys ELSE NoKeys>>
  BY IdentityStep
<1>5. Init => Store!Init
  BY DEF Init, Store!Init, Store!Closed
<1>6. KeyInv /\ [Next]_vars => [Store!Next]_(Store!vars)
  BY StoreStep DEF Store!vars, vars, roots
<1>7. QED
  BY <1>1, <1>2, <1>3, <1>4, <1>5, <1>6, PTL
  DEF Spec, KeepsPromises, ImplementsKeyIdentity, UsesRootStore, IdentityOf!Spec, Store!Spec
=============================================================================
