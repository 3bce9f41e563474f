---------------------------- MODULE SettingsStore ----------------------------
(***************************************************************************)
(* The settings store (electron/settings-store.js): the root document in   *)
(* one JSON file, replaced by writing a temporary file, renaming it over   *)
(* the old one and synchronising the directory.                            *)
(*                                                                         *)
(* load, save and retryLoad are synchronous, so the rest of the program    *)
(* sees each as one step; but a crash or a power loss may come between the *)
(* rename, the synchronisation and the reading back, so a save is a        *)
(* sequence of actions.  Other programs write the file between two calls   *)
(* or while the program is down.                                           *)
(*                                                                         *)
(* Abstracted: a content hash is the content; a document is a member of    *)
(* Documents; the error codes are told apart as far as the code's          *)
(* behaviour depends on them.                                              *)
(***************************************************************************)
EXTENDS Naturals

CONSTANTS
  Documents,     \* contents that are valid root documents, Default and
                 \* Migrated among them
  Default,       \* createDefaultRoot, with the keys that exist
  Legacy,        \* a valid settings file of schema 1
  Migrated,      \* the document that _migrate makes of it
  Corrupt,       \* contents that are not JSON
  Invalid,       \* JSON that validateRoot or _migrate rejects
  Nothing,       \* no file, or no hash (null)
  Intruders      \* contents that another program may write

Contents == Documents \cup Corrupt \cup {Legacy, Invalid, Nothing}
Codes == {"none", "recovery", "uncertain", "unknown", "failed"}

\* The save in progress: where it is, who called it, the candidate, and what
\* the file held before.  reload: the caller is retryLoad.
Idle == [at |-> "idle", caller |-> "save", reload |-> FALSE,
         doc |-> Default, before |-> Nothing]

VARIABLES
  up,        \* the program runs
  root,      \* the document in memory
  known,     \* content the store believes the file to hold
  code,      \* storageErrorCode; the store is locked unless "none"
  corrupt,   \* content whose corruption was reported
  disk,      \* content a reader of the file sees
  stable,    \* content that a power loss leaves
  op,        \* the save in progress
  touched    \* another program wrote the file since the store last read or
             \* replaced it (observed by the properties only)

memory == <<root, known, code, corrupt>>
vars == <<up, memory, disk, stable, op, touched>>

Locked == code # "none"

-----------------------------------------------------------------------------
(* save                                                                    *)

Begin(caller, reload, doc) ==
  op' = [at |-> "write", caller |-> caller, reload |-> reload, doc |-> doc,
         before |-> disk]

\* A locked store refuses to save; that changes nothing.
Save(doc) ==
  /\ up /\ op.at = "idle" /\ ~Locked
  /\ Begin("save", FALSE, doc)
  /\ UNCHANGED <<up, memory, disk, stable, touched>>

\* The temporary file cannot be written.
WriteFails ==
  /\ op.at = "write"
  /\ op' = [op EXCEPT !.at = "verify"]
  /\ UNCHANGED <<up, memory, disk, stable, touched>>

Rename ==
  /\ op.at = "write"
  /\ disk' = op.doc
  /\ op' = [op EXCEPT !.at = "sync"]
  /\ UNCHANGED <<up, memory, stable, touched>>

\* The rename reports an error, which does not tell whether it happened.
RenameFails ==
  /\ op.at = "write"
  /\ disk' \in {disk, op.doc}
  /\ op' = [op EXCEPT !.at = "verify"]
  /\ UNCHANGED <<up, memory, stable, touched>>

SyncFails ==
  /\ op.at = "sync"
  /\ op' = [op EXCEPT !.at = "verify"]
  /\ UNCHANGED <<up, memory, disk, stable, touched>>

\* retryLoad's last step: the directory is synchronised once more.
Reloaded(reload) ==
  \/ code' = "none" /\ (IF reload THEN stable' = disk ELSE UNCHANGED stable)
  \/ reload /\ code' = "uncertain" /\ UNCHANGED stable

\* Committed and durable: load and retryLoad go on, save returns.
Synced ==
  /\ op.at = "sync"
  /\ root' = op.doc /\ known' = op.doc /\ stable' = disk
  /\ corrupt' = IF op.caller = "save" THEN corrupt ELSE Nothing
  /\ code' = "none" \/ (op.reload /\ code' = "uncertain")
  /\ op' = Idle /\ touched' = FALSE
  /\ UNCHANGED <<up, disk>>

\* Plausible errors: the candidate is not recognised when it is read back, or
\* an unreadable file counts as a save that has not happened.
VerdictWithoutCandidate(readable) ==
  IF readable /\ disk = known THEN "not_committed"
  ELSE IF readable THEN "unknown" ELSE "not_committed"

\* A failed save reads the file back to find out what happened.  A read that
\* fails leaves the outcome unknown.
Verdict(readable) ==
  IF readable /\ disk = op.doc THEN "uncertain"
  ELSE IF readable /\ disk = known THEN "not_committed"
  ELSE "unknown"

\* The outcome of a save that failed, and what its caller makes of it: load
\* and retryLoad lock the store in every case.
Verify(readable) ==
  /\ op.at = "verify"
  /\ LET verdict == Verdict(readable)
         adopt == verdict = "uncertain"
     IN /\ root' = IF adopt THEN op.doc ELSE root
        /\ known' = IF adopt THEN op.doc ELSE known
        /\ code' = IF verdict # "not_committed" THEN verdict
                   ELSE IF op.caller = "save" THEN code ELSE "failed"
        /\ touched' = (touched /\ ~adopt)
  /\ op' = Idle
  /\ UNCHANGED <<up, corrupt, disk, stable>>

-----------------------------------------------------------------------------
(* load and retryLoad                                                      *)

LoadFails(newCode) ==
  /\ code' = newCode
  /\ UNCHANGED <<root, known, corrupt, stable, op, touched>>

ValidRoot(content) == content \in Documents

\* A valid document.  A locked store first synchronises the directory, and
\* stays locked if that fails.
LoadDocument(reload) ==
  /\ ValidRoot(disk)
  /\ \/ /\ root' = disk /\ known' = disk /\ corrupt' = Nothing
        /\ touched' = FALSE
        /\ \/ /\ code' = "none"
              /\ IF Locked \/ reload THEN stable' = disk ELSE UNCHANGED stable
           \/ /\ reload /\ code' = "uncertain"
              /\ IF Locked THEN stable' = disk ELSE UNCHANGED stable
        /\ UNCHANGED op
     \/ Locked /\ LoadFails(code)

\* No file means a new installation, but never to a locked store.
LoadNothing(reload) ==
  /\ disk = Nothing
  /\ IF Locked THEN LoadFails(code)
     ELSE /\ root' = Default /\ known' = Nothing
          /\ Reloaded(reload)
          /\ touched' = FALSE
          /\ UNCHANGED <<corrupt, op>>

\* A schema 1 file is migrated and saved at once; the migration may fail.
LoadLegacy(reload) ==
  /\ disk = Legacy
  /\ \/ /\ known' = disk /\ code' = "none"
        /\ Begin("migrate", reload, Migrated)
        /\ touched' = FALSE
        /\ UNCHANGED <<root, corrupt, stable>>
     \/ LoadFails(IF Locked THEN code ELSE "failed")

\* Bytes that are not JSON are backed up, once, and their hash is kept.
LoadCorrupt ==
  /\ disk \in Corrupt
  /\ code' = "recovery" /\ corrupt' = disk
  /\ UNCHANGED <<root, known, stable, op, touched>>

LoadInvalid ==
  /\ disk = Invalid
  /\ LoadFails(IF Locked THEN code ELSE "failed")

\* load, in a constructed store.  The file may also be unreadable.
LoadFile(reload) ==
  \/ LoadDocument(reload) \/ LoadNothing(reload) \/ LoadLegacy(reload)
  \/ LoadCorrupt \/ LoadInvalid
  \/ LoadFails("failed")

Start ==
  /\ ~up
  /\ up' = TRUE
  /\ LoadFile(FALSE)
  /\ UNCHANGED disk

\* A plausible error: recovery does not look at the bytes it replaces.
RecoverAnything ==
  /\ known' = corrupt /\ code' = "none"
  /\ Begin("recover", TRUE, Default)
  /\ UNCHANGED <<root, corrupt, stable, touched>>

\* Recovery replaces corrupt bytes with the default root, but only the bytes
\* that were reported.
RecoverCorrupt ==
  /\ disk = corrupt
  /\ known' = corrupt /\ code' = "none"
  /\ Begin("recover", TRUE, Default)
  /\ UNCHANGED <<root, corrupt, stable, touched>>

RetryLoad(allowCorruptRecovery) ==
  /\ up /\ op.at = "idle"
  /\ IF allowCorruptRecovery /\ code = "recovery" /\ corrupt # Nothing
     THEN \/ LoadFails("failed")
          \/ RecoverCorrupt
          \/ disk # corrupt /\ LoadFile(TRUE)
     ELSE LoadFile(TRUE)
  /\ UNCHANGED <<up, disk>>

-----------------------------------------------------------------------------
(* Other programs and crashes                                              *)

Tamper(content) ==
  /\ op.at = "idle"
  /\ disk' = content /\ stable' \in {stable, content}
  /\ touched' = TRUE
  /\ UNCHANGED <<up, memory, op>>

Down ==
  /\ up' = FALSE /\ op' = Idle /\ touched' = FALSE
  /\ root' = Default /\ known' = Nothing /\ code' = "none"
  /\ corrupt' = Nothing

Crash == up /\ Down /\ UNCHANGED <<disk, stable>>

PowerLoss == Down /\ disk' = stable /\ UNCHANGED stable

-----------------------------------------------------------------------------
Init ==
  /\ up = FALSE /\ op = Idle /\ touched = FALSE
  /\ root = Default /\ known = Nothing /\ code = "none" /\ corrupt = Nothing
  /\ disk \in Contents /\ stable = disk

Store ==
  \/ \E doc \in Documents : Save(doc)
  \/ WriteFails \/ Rename \/ RenameFails \/ SyncFails \/ Synced
  \/ \E readable \in BOOLEAN : Verify(readable)
  \/ Start \/ (\E allow \in BOOLEAN : RetryLoad(allow))

Next ==
  \/ Store \/ Crash \/ PowerLoss
  \/ \E content \in Intruders : Tamper(content)

Spec == Init /\ [][Next]_vars

-----------------------------------------------------------------------------
TypeOK ==
  /\ up \in BOOLEAN /\ touched \in BOOLEAN
  /\ root \in Documents
  /\ known \in Contents /\ corrupt \in Corrupt \cup {Nothing}
  /\ code \in Codes
  /\ disk \in Contents /\ stable \in Contents
  /\ op \in [at : {"idle", "write", "sync", "verify"},
             caller : {"save", "migrate", "recover"}, reload : BOOLEAN,
             doc : Documents, before : Contents]

Saved == op.at # "idle" /\ op'.at = "idle" /\ up'

\* A store that is not locked holds in memory what the file holds, unless
\* another program wrote the file behind its back.
UnlockedAgrees ==
  up /\ op.at = "idle" /\ ~Locked /\ ~touched =>
    IF disk = Nothing THEN root = Default ELSE root = disk

\* What save tells its caller is true: when it reports "not committed" the
\* file and the memory are as they were; when it reports a durable commit,
\* memory, file and durable file are the candidate; in every other case the
\* store is locked (save's comparison of the file with both hashes).
SaveIsTruthful ==
  [][Saved =>
       \/ code' # "none"
       \/ op.caller = "save" /\ root' = root /\ disk' = op.before
       \/ root' = op.doc /\ disk' = op.doc /\ stable' = op.doc]_vars

\* "Missing is fresh only on the initial load, not a way around an uncertain
\* commit" and README's reload rule: a locked store that unlocks has a root
\* that is the file's and that a power loss cannot take back.
UnlockIsDurable ==
  [][up /\ up' /\ op'.at = "idle" /\ ~Locked'
       /\ (Locked \/ op.caller \in {"migrate", "recover"})
     => root' \in Documents /\ root' = disk' /\ stable' = disk']_vars

\* Bytes that a load rejected are never replaced, except corrupt JSON that
\* was reported and whose recovery was asked for, and never other bytes that
\* have taken its place.
RejectedBytesKept ==
  [][op.at # "idle" /\ disk' # disk /\ disk \in Corrupt \cup {Legacy, Invalid} =>
       \/ ~up'
       \/ op.caller = "recover" /\ disk = corrupt
       \/ op.caller = "migrate" /\ disk = Legacy
       \/ op.caller = "save" /\ touched]_vars

\* The comment in load: a missing file is taken for a new installation only
\* by the initial load.
MissingIsFreshOnlyAtStart ==
  [][up /\ disk = Nothing /\ UNCHANGED disk => root' = root \/ ~up']_vars

-----------------------------------------------------------------------------
(* The abstract store: it sees a migration or a recovery as one commit at  *)
(* its end, and a file by the document that a load makes of it.            *)

Unreadable == [unreadable |-> TRUE]
Meaning(content) ==
  IF content \in Documents THEN content
  ELSE IF content = Legacy THEN Migrated
  ELSE IF content = Nothing THEN Default
  ELSE Unreadable
Working == op.at # "idle"
Loading == Working /\ op.caller = "migrate" /\ ~op.reload

Abstract == INSTANCE RootStore WITH
  Fresh  <- Default,
  Unreadable <- Unreadable,
  open   <- up /\ ~Loading,
  mem    <- root,
  disk   <- Meaning(IF Working THEN op.before ELSE disk),
  stable <- Meaning(stable),
  locked <- (Locked \/ (Working /\ op.caller # "save")) /\ ~Loading

\* The store keeps the promise that the key service is built on: whatever
\* other programs did to the file, each of its own steps, each crash and each
\* power loss is one that RootStore allows.
ImplementsRootStore ==
  /\ Abstract!Init
  /\ [][Abstract!Next \/ \E content \in Intruders : Tamper(content)]_(Abstract!vars)
==============================================================================
