-------------------------- MODULE MCServices_proofs --------------------------
(***************************************************************************)
(* Theorems about the services around the proxy.                           *)
(*                                                                         *)
(* The parts share no state, so a behaviour of the services is one of each *)
(* part, and what is proved of a part's own specification is lifted: the   *)
(* settings store first, then the credential store, the probes, the block  *)
(* in the SSH configuration, the diagnosis and the history of sessions.    *)
(*                                                                         *)
(* Settings: DocumentInv says what a save and a load in progress know of   *)
(* the file, and that others' contents are told apart from the store's;    *)
(* the refinement maps the store's file to the meaning of its bytes.       *)
(* Credentials: CredentialInv says that no dead cookie is in memory, in    *)
(* the file, durable, or in the document being written.                    *)
(* Probes: every function on the state keeps Good, which says when a       *)
(* change is told, that a service that was told has seen the context       *)
(* there is, and that a timer or a round is of a context to probe.         *)
(* SSH configuration: ConfigInv says that a write under way is of what was *)
(* shown and of what the file holds, with a durable backup.                *)
(* Diagnosis: DiagnosisInv says that a run which has seen a change is of   *)
(* an earlier login, or aborted and not heard of again.                    *)
(* History: HistoryInv says of memory and file what they hold of each      *)
(* other; sequences of records with distinct ids are read as sets.         *)
(***************************************************************************)
EXTENDS MCServices, Integers, FiniteSetTheorems, SequenceTheorems, TLAPS

-----------------------------------------------------------------------------
(* The settings: the inductive invariant (SettingsStore).                   *)

\* A save in progress: the file holds what it held or the candidate, and the
\* callers of save differ in what they replace.
SaveInProgress ==
  /\ op.at = "idle" => op = Root!Idle
  /\ op.at # "idle" =>
       /\ settingsUp /\ code = "none"
       /\ op.caller = "save" => ~op.reload
       /\ op.caller = "migrate" => op.doc = Migrated /\ op.before = Legacy
       /\ op.caller = "recover" =>
            /\ op.doc = Default
            /\ op.reload
            /\ op.before = corrupt
            /\ corrupt \in Corrupt
  /\ op.at = "write" =>
       /\ settingsDisk = op.before
       /\ op.caller = "save" /\ ~touched => settingsDisk \in Documents \cup {Nothing}
  /\ op.at = "sync" => settingsDisk = op.doc
  /\ op.at = "verify" => settingsDisk \in {op.before, op.doc}

DownIsFresh == ~settingsUp => op.at = "idle" /\ settingsRoot = Default /\ code = "none"

\* What a store that is not locked believes of its file is what it holds.
KnownIsRoot ==
  settingsUp /\ ~Root!Locked /\ op.caller = "save" =>
    settingsRoot = IF known = Nothing THEN Default ELSE known

DocumentInv == Root!TypeOK /\ SaveInProgress /\ DownIsFresh /\ KnownIsRoot
                 /\ Root!UnlockedAgrees

LEMMA DocumentSaves ==
  ASSUME DocumentInv,
         \/ \E d \in Documents : Root!Save(d)
         \/ Root!WriteFails \/ Root!Rename \/ Root!RenameFails \/ Root!SyncFails
         \/ Root!Synced
         \/ \E readable \in BOOLEAN : Root!Verify(readable)
  PROVE  DocumentInv'
<1> USE DocumentAssumption DEF DocumentInv, Root!TypeOK, SaveInProgress,
                               DownIsFresh, KnownIsRoot, Root!UnlockedAgrees,
                               Root!Locked, Root!memory, Root!Codes,
                               Root!Contents
<1>1. ASSUME NEW d \in Documents, Root!Save(d) PROVE DocumentInv'
  BY <1>1 DEF Root!Save, Root!Begin, Root!Idle
<1>2. CASE Root!WriteFails
  BY <1>2 DEF Root!WriteFails
<1>3. CASE Root!Rename
  BY <1>3 DEF Root!Rename
<1>4. CASE Root!RenameFails
  BY <1>4 DEF Root!RenameFails
<1>5. CASE Root!SyncFails
  BY <1>5 DEF Root!SyncFails
<1>6. CASE Root!Synced
  BY <1>6 DEF Root!Synced, Root!Idle
<1>7. ASSUME NEW readable \in BOOLEAN, Root!Verify(readable) PROVE DocumentInv'
  BY <1>7 DEF Root!Verify, Root!Verdict, Root!Idle
<1>8. QED
  BY <1>1, <1>2, <1>3, <1>4, <1>5, <1>6, <1>7

LEMMA DocumentLoads ==
  ASSUME DocumentInv,
         Root!Start \/ \E allow \in BOOLEAN : Root!RetryLoad(allow)
  PROVE  DocumentInv'
<1> USE DocumentAssumption DEF DocumentInv, Root!TypeOK, SaveInProgress,
                               DownIsFresh, KnownIsRoot, Root!UnlockedAgrees,
                               Root!Locked, Root!memory, Root!Codes,
                               Root!Contents
<1>1. ASSUME NEW reload \in BOOLEAN, Root!LoadFile(reload),
             UNCHANGED settingsDisk, op.at = "idle",
             settingsUp' = TRUE, settingsUp \/ ~reload
      PROVE  DocumentInv'
  <2>1. CASE Root!LoadDocument(reload)
    <3>1. CASE /\ settingsRoot' = settingsDisk /\ known' = settingsDisk
               /\ corrupt' = Nothing
               /\ code' \in {"none", "uncertain"}
               /\ settingsStable' \in {settingsStable, settingsDisk}
               /\ touched' = FALSE /\ UNCHANGED op
      <4>1. settingsDisk \in Documents /\ settingsDisk # Nothing
        BY <2>1 DEF Root!LoadDocument, Root!ValidRoot
      <4>2. Root!TypeOK'
        BY <1>1, <3>1, <4>1
      <4>3. SaveInProgress' /\ DownIsFresh'
        BY <1>1, <3>1
      <4>4. KnownIsRoot' /\ Root!UnlockedAgrees'
        BY <1>1, <3>1, <4>1
      <4>5. QED
        BY <4>2, <4>3, <4>4
    <3>2. CASE Root!Locked /\ Root!LoadFails(code)
      BY <1>1, <3>2 DEF Root!LoadFails
    <3>3. QED
      BY <1>1, <2>1, <3>1, <3>2 DEF Root!LoadDocument
  <2>2. CASE Root!LoadNothing(reload)
    BY <1>1, <2>2 DEF Root!LoadNothing, Root!LoadFails, Root!Reloaded
  <2>3. CASE Root!LoadLegacy(reload)
    <3>1. CASE known' = settingsDisk /\ code' = "none"
                 /\ Root!Begin("migrate", reload, Migrated)
               /\ UNCHANGED <<settingsRoot, corrupt,
                              settingsStable>> /\ touched' = FALSE
      <4>1. op' = [at |-> "write", caller |-> "migrate", reload |-> reload,
                   doc |-> Migrated, before |-> Legacy]
        BY <2>3, <3>1 DEF Root!LoadLegacy, Root!Begin
      <4>2. QED
        BY <1>1, <2>3, <3>1, <4>1 DEF Root!LoadLegacy
    <3>2. CASE Root!LoadFails(IF Root!Locked THEN code ELSE "failed")
      BY <1>1, <3>2 DEF Root!LoadFails
    <3>3. QED
      BY <2>3, <3>1, <3>2 DEF Root!LoadLegacy
  <2>4. CASE Root!LoadCorrupt
    BY <1>1, <2>4 DEF Root!LoadCorrupt
  <2>5. CASE Root!LoadInvalid
    BY <1>1, <2>5 DEF Root!LoadInvalid, Root!LoadFails
  <2>6. CASE Root!LoadFails("failed")
    BY <1>1, <2>6 DEF Root!LoadFails
  <2>7. QED
    BY <1>1, <2>1, <2>2, <2>3, <2>4, <2>5, <2>6 DEF Root!LoadFile
<1>2. CASE Root!Start
  BY <1>1, <1>2 DEF Root!Start
<1>3. ASSUME NEW allow \in BOOLEAN, Root!RetryLoad(allow) PROVE DocumentInv'
  <2>1. CASE Root!LoadFile(TRUE)
    BY <1>1, <1>3, <2>1 DEF Root!RetryLoad
  <2>2. CASE Root!LoadFails("failed")
    BY <1>3, <2>2 DEF Root!RetryLoad, Root!LoadFails
  <2>3. CASE Root!RecoverCorrupt /\ corrupt # Nothing
    BY <1>3, <2>3 DEF Root!RetryLoad, Root!RecoverCorrupt, Root!Begin
  <2>4. QED
    BY <1>3, <2>1, <2>2, <2>3 DEF Root!RetryLoad
<1>4. QED
  BY <1>2, <1>3

LEMMA DocumentOthers ==
  ASSUME DocumentInv,
         \/ Root!Crash \/ Root!PowerLoss
         \/ \E content \in Intruders : Root!Tamper(content)
  PROVE  DocumentInv'
<1> USE DocumentAssumption DEF DocumentInv, Root!TypeOK, SaveInProgress,
                               DownIsFresh, KnownIsRoot, Root!UnlockedAgrees,
                               Root!Locked, Root!memory, Root!Codes,
                               Root!Contents
<1>1. CASE Root!Crash
  BY <1>1 DEF Root!Crash, Root!Down, Root!Idle
<1>2. CASE Root!PowerLoss
  BY <1>2 DEF Root!PowerLoss, Root!Down, Root!Idle
<1>3. ASSUME NEW content \in Intruders, Root!Tamper(content) PROVE DocumentInv'
  BY <1>3 DEF Root!Tamper
<1>4. QED
  BY <1>1, <1>2, <1>3

LEMMA DocumentInit == Root!Init => DocumentInv
<1>1. SUFFICES ASSUME Root!Init PROVE DocumentInv
  OBVIOUS
<1>2. Root!TypeOK
  BY <1>1, DocumentAssumption DEF Root!Init, Root!TypeOK, Root!Idle,
                                  Root!Codes, Root!Contents
<1>3. QED
  BY <1>1, <1>2, DocumentAssumption DEF Root!Init, DocumentInv, Root!TypeOK,
                                        SaveInProgress, DownIsFresh,
                                        KnownIsRoot, Root!UnlockedAgrees,
                                        Root!Idle, Root!Codes, Root!Contents

LEMMA DocumentStep == DocumentInv /\ [Root!Next]_(Root!vars) => DocumentInv'
<1>1. SUFFICES ASSUME DocumentInv, [Root!Next]_(Root!vars) PROVE DocumentInv'
  OBVIOUS
<1>2. CASE UNCHANGED Root!vars
  BY <1>1, <1>2
  DEF Root!vars, Root!memory, DocumentInv, Root!TypeOK, SaveInProgress,
      DownIsFresh, KnownIsRoot, Root!UnlockedAgrees, Root!Locked
<1>3. CASE Root!Next
  BY <1>1, <1>3, DocumentSaves, DocumentLoads, DocumentOthers
     DEF Root!Next, Root!Store
<1>4. QED
  BY <1>1, <1>2, <1>3

-----------------------------------------------------------------------------
(* The settings: agreement, saves, unlocking and rejected bytes.           *)

\* The parts of the store keep the shapes the code gives them, and a store
\* that is not locked agrees with its file unless another program wrote it,
\* for every set of documents (load, save, retryLoad).
LEMMA StoreAgrees ==
  Root!Spec => [](Root!TypeOK /\ Root!UnlockedAgrees)
<1>1. Root!Init => DocumentInv
  BY DocumentInit
<1>2. DocumentInv /\ [Root!Next]_(Root!vars) => DocumentInv'
  BY DocumentStep
<1>3. DocumentInv => Root!TypeOK /\ Root!UnlockedAgrees
  BY DEF DocumentInv
<1>4. QED
  BY <1>1, <1>2, <1>3, PTL DEF Root!Spec

\* While a save is in progress only its own steps and a crash are possible.
LEMMA SaveSteps ==
  ASSUME DocumentInv, Root!Next, op.at # "idle"
  PROVE  \/ Root!WriteFails \/ Root!Rename \/ Root!RenameFails \/ Root!SyncFails
         \/ Root!Synced
         \/ \E readable \in BOOLEAN : Root!Verify(readable)
         \/ ~settingsUp'
<1> USE DEF Root!Next, Root!Store
<1>1. ASSUME NEW d \in Documents, Root!Save(d) PROVE FALSE
  BY <1>1 DEF Root!Save
<1>2. ASSUME NEW allow \in BOOLEAN, Root!RetryLoad(allow) PROVE FALSE
  BY <1>2 DEF Root!RetryLoad
<1>3. ASSUME NEW content \in Intruders, Root!Tamper(content) PROVE FALSE
  BY <1>3 DEF Root!Tamper
<1>4. Root!Crash \/ Root!PowerLoss => ~settingsUp'
  BY DEF Root!Crash, Root!PowerLoss, Root!Down
<1>5. QED
  BY <1>1, <1>2, <1>3, <1>4 DEF Root!Start, DocumentInv, DownIsFresh

\* What save tells its caller is true, for every set of documents.
LEMMA SaveAlwaysTruthful ==
  Root!Spec => Root!SaveIsTruthful
<1> DEFINE Truthful ==
      Root!Saved =>
        \/ code' # "none"
        \/ /\ op.caller = "save" /\ settingsRoot' = settingsRoot
           /\ settingsDisk' = op.before
        \/ /\ settingsRoot' = op.doc /\ settingsDisk' = op.doc
           /\ settingsStable' = op.doc
<1>1. Root!Init => DocumentInv
  BY DocumentInit
<1>2. DocumentInv /\ [Root!Next]_(Root!vars) => DocumentInv'
  BY DocumentStep
<1>3. DocumentInv /\ [Root!Next]_(Root!vars) => [Truthful]_(Root!vars)
  <2>1. SUFFICES ASSUME DocumentInv, Root!Next, Root!Saved PROVE Truthful
    OBVIOUS
  <2>2. SaveInProgress
    BY <2>1 DEF DocumentInv
  <2>3. CASE Root!Synced
    BY <2>2, <2>3 DEF SaveInProgress, Root!Synced
  <2>4. ASSUME NEW readable \in BOOLEAN, Root!Verify(readable) PROVE Truthful
    <3>1. settingsDisk \in {op.before, op.doc} /\ settingsDisk' = settingsDisk
      BY <2>2, <2>4 DEF SaveInProgress, Root!Verify
    <3>2. code' = "none" =>
            /\ op.caller = "save" /\ settingsRoot' = settingsRoot
            /\ settingsDisk # op.doc
      BY <2>4 DEF Root!Verify, Root!Verdict
    <3>3. QED
      BY <3>1, <3>2
  <2>5. QED
    BY <2>1, <2>3, <2>4, SaveSteps
    DEF Root!Saved, Root!WriteFails, Root!Rename, Root!RenameFails,
        Root!SyncFails, DocumentInv, Root!TypeOK
<1>4. QED
  BY <1>1, <1>2, <1>3, PTL DEF Root!Spec, Root!SaveIsTruthful

\* A locked store that unlocks, and one that has migrated or recovered its
\* file, holds what the file holds and what a power loss leaves, for every
\* set of documents (retryLoad, the finalize step of save).
LEMMA UnlockAlwaysDurable ==
  Root!Spec => Root!UnlockIsDurable
<1> DEFINE Durable ==
      settingsUp /\ settingsUp' /\ op'.at = "idle" /\ ~Root!Locked'
        /\ (Root!Locked \/ op.caller \in {"migrate", "recover"})
      => settingsRoot' \in Documents /\ settingsRoot' = settingsDisk'
           /\ settingsStable' = settingsDisk'
<1>1. Root!Init => DocumentInv
  BY DocumentInit
<1>2. DocumentInv /\ [Root!Next]_(Root!vars) => DocumentInv'
  BY DocumentStep
<1>3. DocumentInv /\ [Root!Next]_(Root!vars) => [Durable]_(Root!vars)
  <2>1. SUFFICES ASSUME DocumentInv, Root!Next, settingsUp, settingsUp', op'.at = "idle",
                        ~Root!Locked',
                        Root!Locked \/ op.caller \in {"migrate", "recover"}
                 PROVE  /\ settingsRoot' \in Documents
                        /\ settingsRoot' = settingsDisk'
                        /\ settingsStable' = settingsDisk'
    OBVIOUS
  <2>2. SaveInProgress /\ Root!TypeOK
    BY <2>1 DEF DocumentInv
  <2>3. CASE op.at # "idle"
    <3>1. op.caller # "save"
      BY <2>1, <2>2, <2>3 DEF SaveInProgress, Root!Locked
    <3>2. CASE Root!Synced
      BY <2>2, <3>2 DEF SaveInProgress, Root!TypeOK, Root!Synced
    <3>3. ASSUME NEW readable \in BOOLEAN, Root!Verify(readable) PROVE FALSE
      BY <2>1, <3>1, <3>3 DEF Root!Verify, Root!Verdict, Root!Locked
    <3>4. QED
      BY <2>1, <2>3, <3>2, <3>3, SaveSteps
      DEF Root!WriteFails, Root!Rename, Root!RenameFails, Root!SyncFails,
          DocumentInv, Root!TypeOK
  <2>4. CASE op.at = "idle"
    <3>1. Root!Locked
      BY <2>1, <2>2, <2>4 DEF SaveInProgress, Root!Idle
    <3>2. ASSUME NEW allow \in BOOLEAN, Root!RetryLoad(allow)
          PROVE  /\ settingsRoot' \in Documents
                 /\ settingsRoot' = settingsDisk'
                 /\ settingsStable' = settingsDisk'
      <4>1. CASE Root!LoadDocument(TRUE)
        BY <2>1, <3>1, <3>2, <4>1 DEF Root!RetryLoad, Root!LoadDocument,
                                      Root!LoadFails, Root!ValidRoot,
                                      Root!Locked
      <4>2. CASE Root!LoadNothing(TRUE) \/ Root!LoadLegacy(TRUE) \/ Root!LoadCorrupt
                   \/ Root!LoadInvalid
                   \/ Root!LoadFails("failed") \/ Root!RecoverCorrupt
        BY <2>1, <3>1, <4>2
        DEF Root!LoadNothing, Root!LoadLegacy, Root!LoadCorrupt,
            Root!LoadInvalid, Root!LoadFails, Root!RecoverCorrupt, Root!Begin,
            Root!Locked
      <4>3. QED
        BY <3>2, <4>1, <4>2 DEF Root!RetryLoad, Root!LoadFile
    <3>3. QED
      BY <2>1, <2>4, <3>1, <3>2
      DEF Root!Next, Root!Store, Root!Save, Root!Begin, Root!WriteFails,
          Root!Rename, Root!RenameFails, Root!SyncFails, Root!Synced,
          Root!Verify, Root!Start, Root!Crash, Root!PowerLoss, Root!Down,
          Root!Tamper, Root!Locked, Root!memory
  <2>5. QED
    BY <2>3, <2>4
<1>4. QED
  BY <1>1, <1>2, <1>3, PTL DEF Root!Spec, Root!UnlockIsDurable

\* Bytes that a load rejected are replaced only by the migration or the
\* recovery that read them, or by a save that could not know them, for every
\* set of contents (the corruption hash, the migration in load).
LEMMA RejectedAlwaysKept ==
  Root!Spec => Root!RejectedBytesKept
<1> DEFINE Kept ==
      op.at # "idle" /\ settingsDisk' # settingsDisk
        /\ settingsDisk \in Corrupt \cup {Legacy, Invalid} =>
        \/ ~settingsUp'
        \/ op.caller = "recover" /\ settingsDisk = corrupt
        \/ op.caller = "migrate" /\ settingsDisk = Legacy
        \/ op.caller = "save" /\ touched
<1>1. Root!Init => DocumentInv
  BY DocumentInit
<1>2. DocumentInv /\ [Root!Next]_(Root!vars) => DocumentInv'
  BY DocumentStep
<1>3. DocumentInv /\ [Root!Next]_(Root!vars) => [Kept]_(Root!vars)
  <2>1. SUFFICES ASSUME DocumentInv, Root!Next, op.at # "idle", settingsDisk' # settingsDisk,
                        settingsUp',
                        settingsDisk \in Corrupt \cup {Legacy, Invalid}
                 PROVE  Kept
    OBVIOUS
  <2>2. op.at = "write"
    BY <2>1, SaveSteps
    DEF Root!WriteFails, Root!Rename, Root!RenameFails, Root!SyncFails,
        Root!Synced, Root!Verify
  <2>3. settingsDisk = op.before
          /\ (op.caller = "save" /\ ~touched => settingsDisk \in Documents \cup {Nothing})
    BY <2>1, <2>2 DEF DocumentInv, SaveInProgress
  <2>4. settingsDisk \notin Documents \cup {Nothing}
    BY <2>1, DocumentAssumption
  <2>5. QED
    BY <2>1, <2>2, <2>3, <2>4 DEF DocumentInv, Root!TypeOK, SaveInProgress
<1>4. QED
  BY <1>1, <1>2, <1>3, PTL DEF Root!Spec, Root!RejectedBytesKept

-----------------------------------------------------------------------------
(* The settings: the promise of RootStore.                                 *)

\* The abstract state.
RootOpen == settingsUp /\ ~Root!Loading
RootFile == Root!Meaning(IF Root!Working THEN op.before ELSE settingsDisk)
RootDurable == Root!Meaning(settingsStable)
RootRefuses == (Root!Locked \/ (Root!Working /\ op.caller # "save")) /\ ~Root!Loading
RootAllows == Root!Abstract!Next
                \/ UNCHANGED <<RootOpen, settingsRoot, RootFile, RootDurable, RootRefuses>>

LEMMA Meanings ==
  /\ \A content \in Documents : Root!Meaning(content) = content /\ content # Root!Unreadable
  /\ \A content \in Corrupt : Root!Meaning(content) = Root!Unreadable
  /\ Root!Meaning(Legacy) = Migrated
  /\ Root!Meaning(Nothing) = Default
BY DocumentAssumption DEF Root!Meaning

\* A save that ends, however it ends, is a commit, an uncertain commit, a
\* reload or the opening of the store.
LEMMA SaveAllowed ==
  ASSUME DocumentInv, DocumentInv', op.at # "idle",
         \/ Root!WriteFails \/ Root!Rename \/ Root!RenameFails \/ Root!SyncFails
         \/ Root!Synced
         \/ \E readable \in BOOLEAN : Root!Verify(readable)
  PROVE  RootAllows
<1> USE DEF RootAllows, RootOpen, RootFile, RootDurable, RootRefuses,
            Root!Loading, Root!Working, Root!memory
<1>0. Root!TypeOK /\ SaveInProgress /\ settingsUp /\ code = "none"
  BY DEF DocumentInv, SaveInProgress
<1>1. CASE Root!WriteFails \/ Root!Rename \/ Root!RenameFails \/ Root!SyncFails
  <2>1. op' = [op EXCEPT !.at = op'.at] /\ op'.at \in {"sync", "verify"}
        /\ UNCHANGED <<settingsUp, settingsRoot, code, settingsStable>>
    BY <1>0, <1>1 DEF Root!WriteFails, Root!Rename, Root!RenameFails,
                      Root!SyncFails, Root!TypeOK
  <2>2. /\ op'.caller = op.caller
        /\ op'.reload = op.reload
        /\ op'.before = op.before
    BY <1>0, <2>1 DEF Root!TypeOK
  <2>3. QED
    BY <2>1, <2>2 DEF Root!Locked
<1>2. CASE Root!Synced
  <2>1. /\ settingsDisk' = op.doc
        /\ settingsRoot' = op.doc
        /\ settingsStable' = op.doc
        /\ op' = Root!Idle
        /\ settingsUp'
        /\ op.doc \in Documents /\ (code' = "none" \/ (op.reload /\ code' = "uncertain"))
    BY <1>0, <1>2 DEF Root!Synced, SaveInProgress, Root!TypeOK
  <2>2. /\ RootOpen'
        /\ RootFile' = op.doc
        /\ RootDurable' = op.doc
        /\ RootRefuses' = (code' # "none")
    BY <2>1, Meanings DEF Root!Idle, Root!Locked
  <2>3. CASE op.caller = "save"
    <3>1. code' = "none" /\ RootOpen /\ ~RootRefuses
      BY <1>0, <2>1, <2>3 DEF SaveInProgress, Root!Locked
    <3>2. Root!Abstract!Commit
      BY <2>1, <2>2, <3>1 DEF Root!Abstract!Commit, Root!Abstract!Writable
    <3>3. QED
      BY <3>2 DEF Root!Abstract!Next
  <2>4. CASE op.caller = "migrate"
    <3>1. RootFile = op.doc /\ op.doc # Root!Unreadable
      BY <1>0, <2>1, <2>4, Meanings DEF SaveInProgress
    <3>2. CASE op.reload
      <4>1. RootOpen /\ RootRefuses
        BY <1>0, <2>4, <3>2
      <4>2. CASE code' = "none"
        BY <2>1, <2>2, <3>1, <4>1, <4>2 DEF Root!Abstract!Next,
                                            Root!Abstract!Reload
      <4>3. CASE code' # "none"
        BY <2>1, <2>2, <3>1, <4>1, <4>3 DEF Root!Abstract!Next,
                                            Root!Abstract!ReloadFails
      <4>4. QED
        BY <4>2, <4>3
    <3>3. CASE ~op.reload
      <4>1. ~RootOpen /\ code' = "none"
        BY <2>1, <2>4, <3>3
      <4>2. QED
        BY <2>1, <2>2, <3>1, <4>1 DEF Root!Abstract!Next, Root!Abstract!Open
    <3>4. QED
      BY <3>2, <3>3
  <2>5. CASE op.caller = "recover"
    <3>1. RootFile = Root!Unreadable /\ RootOpen
      BY <1>0, <2>5, Meanings DEF SaveInProgress
    <3>2. CASE code' = "none"
      BY <2>1, <2>2, <3>1, <3>2 DEF Root!Abstract!Next, Root!Abstract!Commit,
                                    Root!Abstract!Writable
    <3>3. CASE code' # "none"
      BY <2>1, <2>2, <3>1, <3>3
      DEF Root!Abstract!Next, Root!Abstract!CommitUncertain,
          Root!Abstract!Writable
    <3>4. QED
      BY <3>2, <3>3
  <2>6. QED
    BY <1>0, <2>3, <2>4, <2>5 DEF Root!TypeOK
<1>3. ASSUME NEW readable \in BOOLEAN, Root!Verify(readable) PROVE RootAllows
  <2>1. /\ op' = Root!Idle
        /\ settingsUp'
        /\ settingsDisk' = settingsDisk
        /\ settingsStable' = settingsStable
        /\ settingsDisk \in {op.before, op.doc}
        /\ op.doc \in Documents
    BY <1>0, <1>3 DEF Root!Verify, SaveInProgress, Root!TypeOK
  <2>2. \/ /\ code' # "none" /\ settingsRoot' \in {settingsRoot, op.doc}
           /\ settingsRoot' = op.doc \/ settingsRoot' = settingsRoot
           /\ settingsRoot' # settingsRoot => settingsDisk = op.doc
        \/ /\ op.caller = "save" /\ settingsDisk = op.before
           /\ settingsRoot' = settingsRoot /\ code' = code
    BY <1>0, <1>3, <2>1 DEF Root!Verify, Root!Verdict
  <2>3. /\ RootOpen'
        /\ RootFile' = Root!Meaning(settingsDisk)
        /\ RootDurable' = RootDurable
        /\ RootRefuses' = (code' # "none")
    BY <2>1 DEF Root!Idle, Root!Locked
  <2>4. Root!Meaning(op.doc) = op.doc /\ op.doc # Root!Unreadable
    BY <2>1, Meanings
  <2>5. CASE op.caller = "save"
    <3>1. RootOpen /\ ~RootRefuses
      BY <1>0, <2>5 DEF Root!Locked
    <3>2. CASE code' # "none"
      <4>1. settingsRoot' = settingsRoot \/ settingsRoot' = RootFile'
        BY <2>2, <2>3, <2>4, <3>2, <1>0
      <4>2. QED
        BY <2>3, <3>1, <3>2, <4>1 DEF Root!Abstract!Next,
                                      Root!Abstract!CommitUncertain,
                                      Root!Abstract!Writable
    <3>3. CASE code' = "none"
      BY <1>0, <2>1, <2>2, <2>3, <2>5, <3>1, <3>3
    <3>4. QED
      BY <3>2, <3>3
  <2>6. CASE op.caller = "migrate"
    <3>1. RootFile = op.doc /\ RootFile' = op.doc
      BY <1>0, <2>1, <2>3, <2>4, <2>6, Meanings DEF SaveInProgress
    <3>2. /\ code' # "none"
          /\ (settingsRoot' = settingsRoot \/ settingsRoot' = op.doc)
      BY <2>2, <2>6
    <3>3. CASE op.reload
      BY <1>0, <2>3, <3>1, <3>2, <3>3 DEF Root!Abstract!Next,
                                          Root!Abstract!ReloadFails
    <3>4. CASE ~op.reload
      <4>1. ~RootOpen
        BY <2>6, <3>4
      <4>2. QED
        BY <2>3, <3>1, <3>2, <4>1 DEF Root!Abstract!Next, Root!Abstract!Open
    <3>5. QED
      BY <3>3, <3>4
  <2>7. CASE op.caller = "recover"
    <3>1. RootFile = Root!Unreadable /\ RootOpen
      BY <1>0, <2>7, Meanings DEF SaveInProgress
    <3>2. /\ code' # "none"
          /\ (settingsRoot' = settingsRoot \/ settingsRoot' = RootFile')
      BY <2>2, <2>3, <2>4, <2>7
    <3>3. QED
      BY <2>3, <3>1, <3>2 DEF Root!Abstract!Next,
                              Root!Abstract!CommitUncertain,
                              Root!Abstract!Writable
  <2>8. QED
    BY <1>0, <2>5, <2>6, <2>7 DEF Root!TypeOK
<1>4. QED
  BY <1>1, <1>2, <1>3

\* A load opens the store, or reloads it, or begins a migration or a recovery.
LEMMA LoadAllowed ==
  ASSUME DocumentInv, NEW reload \in BOOLEAN, op.at = "idle",
         UNCHANGED settingsDisk,
         settingsUp' = TRUE, settingsUp = reload, Root!LoadFile(reload)
  PROVE  RootAllows
<1> USE DEF RootAllows, RootOpen, RootFile, RootDurable, RootRefuses,
            Root!Loading, Root!Working
<1>0. Root!TypeOK /\ (~settingsUp => settingsRoot = Default /\ code = "none")
  BY DEF DocumentInv, DownIsFresh
<1>1. RootFile = Root!Meaning(settingsDisk) /\ (RootOpen <=> settingsUp)
        /\ (RootRefuses <=> Root!Locked)
  OBVIOUS
<1>2. ASSUME UNCHANGED op
      PROVE  RootFile' = RootFile /\ RootOpen' /\ (RootRefuses' <=> Root!Locked')
  BY <1>2 DEF Root!Locked
<1>3. ASSUME UNCHANGED <<op, settingsRoot, settingsStable>>,
             code' # "none" PROVE RootAllows
  <2>1. CASE reload
    BY <1>1, <1>2, <1>3, <2>1 DEF Root!Abstract!Next,
                                  Root!Abstract!ReloadFails, Root!Locked
  <2>2. CASE ~reload
    BY <1>1, <1>2, <1>3, <2>2 DEF Root!Abstract!Next, Root!Abstract!Open,
                                  Root!Locked
  <2>3. QED
    BY <2>1, <2>2
<1>4. ASSUME UNCHANGED op, settingsRoot' = RootFile,
             RootFile # Root!Unreadable, settingsStable' \in {settingsStable,
             settingsDisk},
             code' = "none" => (settingsStable' = settingsDisk \/ ~settingsUp),
             code' = "none" \/ (reload /\ code' = "uncertain")
      PROVE  RootAllows
  <2>1. CASE ~reload
    BY <1>1, <1>2, <1>4, <2>1 DEF Root!Abstract!Next, Root!Abstract!Open,
                                  Root!Locked
  <2>2. CASE reload /\ code' = "none"
    BY <1>1, <1>2, <1>4, <2>2 DEF Root!Abstract!Next, Root!Abstract!Reload,
                                  Root!Locked
  <2>3. CASE reload /\ code' # "none"
    BY <1>1, <1>2, <1>4, <2>3 DEF Root!Abstract!Next,
                                  Root!Abstract!ReloadFails, Root!Locked
  <2>4. QED
    BY <2>1, <2>2, <2>3
<1>5. CASE Root!LoadDocument(reload)
  <2>1. /\ Root!Meaning(settingsDisk) = settingsDisk
        /\ settingsDisk # Root!Unreadable
    BY <1>5, Meanings DEF Root!LoadDocument, Root!ValidRoot
  <2>2. CASE Root!Locked /\ Root!LoadFails(code)
    BY <1>3, <2>2 DEF Root!LoadFails, Root!Locked
  <2>3. CASE ~(Root!Locked /\ Root!LoadFails(code))
    BY <1>0, <1>1, <1>4, <1>5, <2>1, <2>3 DEF Root!LoadDocument, Root!Locked
  <2>4. QED
    BY <2>2, <2>3
<1>6. CASE Root!LoadNothing(reload)
  <2>1. Root!Meaning(settingsDisk) = Default /\ Default # Root!Unreadable
    BY <1>6, Meanings, DocumentAssumption DEF Root!LoadNothing
  <2>2. CASE Root!Locked
    BY <1>3, <1>6, <2>2 DEF Root!LoadNothing, Root!LoadFails, Root!Locked
  <2>3. CASE ~Root!Locked
    BY <1>1, <1>4, <1>6, <2>1, <2>3 DEF Root!LoadNothing, Root!Reloaded
  <2>4. QED
    BY <2>2, <2>3
<1>7. CASE Root!LoadLegacy(reload)
  <2>1. CASE Root!LoadFails(IF Root!Locked THEN code ELSE "failed")
    BY <1>3, <2>1 DEF Root!LoadFails, Root!Locked
  <2>2. CASE code' = "none" /\ Root!Begin("migrate", reload, Migrated)
               /\ UNCHANGED <<settingsRoot, settingsStable>>
    <3>1. op'.at = "write" /\ op'.caller = "migrate" /\ op'.reload = reload
          /\ op'.before = settingsDisk
      BY <2>2 DEF Root!Begin
    <3>2. /\ RootFile' = RootFile
          /\ RootDurable' = RootDurable
          /\ RootOpen' = reload
          /\ RootRefuses' = reload
      BY <2>2, <3>1 DEF Root!Locked
    <3>3. CASE reload
      BY <1>1, <2>2, <3>2, <3>3 DEF Root!Abstract!Next,
                                    Root!Abstract!ReloadFails
    <3>4. CASE ~reload
      BY <1>0, <1>1, <2>2, <3>2, <3>4 DEF Root!Locked
    <3>5. QED
      BY <3>3, <3>4
  <2>3. QED
    BY <1>7, <2>1, <2>2 DEF Root!LoadLegacy
<1>8. CASE Root!LoadCorrupt
  BY <1>3, <1>8 DEF Root!LoadCorrupt
<1>9. CASE Root!LoadInvalid \/ Root!LoadFails("failed")
  BY <1>3, <1>9 DEF Root!LoadInvalid, Root!LoadFails, Root!Locked
<1>10. QED
  BY <1>5, <1>6, <1>7, <1>8, <1>9 DEF Root!LoadFile

LEMMA StoreAllowed ==
  ASSUME DocumentInv, DocumentInv', Root!Next
  PROVE  RootAllows \/ \E content \in Intruders : Root!Tamper(content)
<1>0. Root!TypeOK /\ SaveInProgress /\ DownIsFresh
  BY DEF DocumentInv
<1>1. ASSUME NEW d \in Documents, Root!Save(d) PROVE RootAllows
  <2>1. op'.at = "write" /\ op'.caller = "save" /\ op'.before = settingsDisk
        /\ op.at = "idle" /\ UNCHANGED <<settingsUp, settingsRoot, code,
                                         settingsDisk, settingsStable>>
    BY <1>1 DEF Root!Save, Root!Begin, Root!memory
  <2>2. QED
    BY <2>1 DEF RootAllows, RootOpen, RootFile, RootDurable, RootRefuses,
                Root!Loading, Root!Working, Root!Locked
<1>2. CASE Root!Start
  BY <1>0, <1>2, LoadAllowed DEF Root!Start, DownIsFresh, Root!TypeOK
<1>3. ASSUME NEW allow \in BOOLEAN, Root!RetryLoad(allow) PROVE RootAllows
  <2>1. op.at = "idle" /\ settingsUp /\ settingsUp' /\ UNCHANGED settingsDisk
    BY <1>0, <1>3 DEF Root!RetryLoad, Root!TypeOK
  <2>2. CASE Root!LoadFile(TRUE)
    BY <1>0, <1>3, <2>1, <2>2, LoadAllowed DEF Root!RetryLoad, Root!TypeOK
  <2>3. CASE Root!LoadFails("failed")
    BY <1>0, <1>3, <2>1, <2>3, LoadAllowed DEF Root!RetryLoad, Root!TypeOK,
                                               Root!LoadFile
  <2>4. CASE Root!Locked /\ Root!RecoverCorrupt
    <3>1. /\ op'.at = "write"
          /\ op'.caller = "recover"
          /\ op'.before = settingsDisk
          /\ UNCHANGED <<settingsRoot, settingsStable>>
      BY <2>4 DEF Root!RecoverCorrupt, Root!Begin
    <3>2. QED
      BY <2>1, <2>4, <3>1
      DEF RootAllows, RootOpen, RootFile, RootDurable, RootRefuses,
          Root!Loading, Root!Working
  <2>5. QED
    BY <1>3, <2>2, <2>3, <2>4 DEF Root!RetryLoad, Root!Locked
<1>4. CASE Root!Crash \/ Root!PowerLoss
  <2>1. /\ ~RootOpen'
        /\ ~RootRefuses'
        /\ settingsRoot' = Default
        /\ RootDurable' = RootDurable
        /\ RootFile' = Root!Meaning(settingsDisk')
    BY <1>4
    DEF Root!Crash, Root!PowerLoss, Root!Down, RootOpen, RootFile,
        RootDurable, RootRefuses, Root!Loading, Root!Working, Root!Locked,
        Root!Idle
  <2>2. CASE settingsDisk' = settingsStable
    BY <2>1, <2>2 DEF RootAllows, Root!Abstract!Next, Root!Abstract!PowerLoss,
                      Root!Abstract!Closed, RootDurable, RootOpen, RootFile,
                      RootRefuses
  <2>3. CASE settingsDisk' = settingsDisk
    <3>1. CASE RootFile' = RootFile
      BY <2>1, <3>1
      DEF RootAllows, Root!Abstract!Next, Root!Abstract!Crash,
          Root!Abstract!Closed, RootOpen, RootFile, RootDurable, RootRefuses
    <3>2. CASE RootFile' # RootFile
      <4>1. op.at # "idle" /\ settingsDisk = op.doc
        BY <1>0, <2>1, <2>3, <3>2 DEF RootFile, Root!Working, SaveInProgress,
                                      Root!TypeOK
      <4>2. op.caller # "migrate"
        BY <1>0, <2>1, <2>3, <3>2, <4>1, Meanings
           DEF RootFile, Root!Working, SaveInProgress, Root!TypeOK
      <4>3. RootOpen /\ (~RootRefuses \/ RootFile = Root!Unreadable)
        BY <1>0, <4>1, <4>2, Meanings
        DEF RootOpen, RootRefuses, RootFile, Root!Working, Root!Loading,
            Root!Locked, SaveInProgress, Root!TypeOK
      <4>4. QED
        BY <2>1, <4>3
        DEF RootAllows, Root!Abstract!Next, Root!Abstract!Crash,
            Root!Abstract!Closed, Root!Abstract!Writable, RootOpen, RootFile,
            RootDurable, RootRefuses
    <3>3. QED
      BY <3>1, <3>2
  <2>4. QED
    BY <1>4, <2>2, <2>3 DEF Root!Crash, Root!PowerLoss
<1>5. CASE
        /\ op.at # "idle"
        /\ \/ Root!WriteFails \/ Root!Rename \/ Root!RenameFails
           \/ Root!SyncFails \/ Root!Synced
           \/ \E readable \in BOOLEAN : Root!Verify(readable)
  BY <1>5, SaveAllowed
<1>6. CASE
        /\ op.at = "idle"
        /\ \/ Root!WriteFails \/ Root!Rename \/ Root!RenameFails
           \/ Root!SyncFails \/ Root!Synced
           \/ \E readable \in BOOLEAN : Root!Verify(readable)
  BY <1>6 DEF Root!WriteFails, Root!Rename, Root!RenameFails, Root!SyncFails,
              Root!Synced, Root!Verify
<1>7. QED
  BY <1>1, <1>2, <1>3, <1>4, <1>5, <1>6 DEF Root!Next, Root!Store

\* Whatever other programs write into the file, each step of the store, each
\* crash and each power loss is one that RootStore allows, for every set of
\* documents and contents (load, save, retryLoad).
LEMMA StoreImplementsRootStore ==
  Root!Spec => Root!ImplementsRootStore
<1>1. Root!Init => DocumentInv
  BY DocumentInit
<1>2. DocumentInv /\ [Root!Next]_(Root!vars) => DocumentInv'
  BY DocumentStep
<1>3. Root!Init => Root!Abstract!Init
  BY DEF Root!Init, Root!Abstract!Init, Root!Abstract!Closed, Root!Locked,
         Root!Loading, Root!Working, Root!Idle
<1>4. DocumentInv /\ DocumentInv' /\ [Root!Next]_(Root!vars)
        => [Root!Abstract!Next
             \/ \E content \in Intruders : Root!Tamper(content)]_(Root!Abstract!vars)
  <2>1. CASE Root!Next
    BY <2>1, StoreAllowed
    DEF RootAllows, RootOpen, RootFile, RootDurable, RootRefuses,
        Root!Abstract!vars
  <2>2. CASE UNCHANGED Root!vars
    BY <2>2 DEF Root!vars, Root!memory, Root!Abstract!vars, Root!Locked,
                Root!Loading, Root!Working
  <2>3. QED
    BY <2>1, <2>2
<1>5. QED
  BY <1>1, <1>2, <1>3, <1>4, PTL DEF Root!Spec, Root!ImplementsRootStore
-----------------------------------------------------------------------------
(* The credentials (CredentialStore).                                      *)

\* A cookie that is not revoked was delivered after the last revocation, and
\* so was everything in the document: only a durable commit, which replaces
\* the document and what is left of it, takes the mark of a revocation away.
NothingDeadInUse ==
  ~cookieRevoked =>
    /\ ephemeralCookie \notin dead
    /\ root.cookie \notin dead /\ disk.cookie \notin dead /\ stable.cookie \notin dead

CredentialInv == TypeOK /\ NothingDeadInUse /\ RevocationReachesDisk

\* What is committed has the shape of secrets, and holds no revoked cookie.
LEMMA CandidateLemma ==
  ASSUME NEW secrets \in Secrets, NEW revoked \in BOOLEAN
  PROVE  /\ Candidate(secrets, revoked) \in Secrets
         /\ revoked => Candidate(secrets, revoked).cookie = None
         /\ ~revoked => Candidate(secrets, revoked).cookie = secrets.cookie
  BY DEF Candidate, Secrets

LEMMA NoSecretsLemma == NoSecrets \in Secrets /\ NoSecrets.cookie = None
  BY DEF NoSecrets, Secrets

\* The initial states.
LEMMA CredentialInit == Init => CredentialInv
PROOF
  <1> SUFFICES ASSUME Init PROVE CredentialInv
    OBVIOUS
  <1>1. TypeOK
    BY NoSecretsLemma DEF Init, TypeOK
  <1>2. NothingDeadInUse /\ RevocationReachesDisk
    BY DEF Init, NothingDeadInUse, RevocationReachesDisk
  <1>3. QED BY <1>1, <1>2 DEF CredentialInv

\* saveCookie: the cookie it is given has just been delivered.
LEMMA SaveCookieLemma ==
  ASSUME CredentialInv, NEW cookie \in Cookies, SaveCookie(cookie)
  PROVE  CredentialInv'
PROOF
  <1> DEFINE sealed == IF keyring THEN cookie ELSE None
             wanted == [root EXCEPT !.cookie = sealed]
             candidate == Candidate(wanted, cookieRevoked)
  <1>1. /\ wanted \in Secrets /\ wanted.cookie \in {cookie, None}
        /\ candidate \in Secrets /\ candidate.cookie \in {cookie, None}
    <2>1. wanted \in Secrets /\ wanted.cookie \in {cookie, None}
      BY DEF CredentialInv, TypeOK, Secrets
    <2>2. QED BY <2>1, CandidateLemma DEF CredentialInv, TypeOK
  <1>2. /\ dead' = dead \ {cookie} /\ dead' \subseteq Cookies
        /\ UNCHANGED keyring /\ None \notin dead'
    BY SecretAssumption DEF SaveCookie, CredentialInv, TypeOK
  <1>3. candidate.cookie \notin dead'
    BY <1>1, <1>2
  <1>4. CASE /\ Commits(candidate)
             /\ ephemeralCookie' = cookie /\ cookieRevoked' = FALSE
             /\ owed' = FALSE /\ reported' = sealed
    <2>1. root' = candidate /\ disk' = candidate /\ stable' = candidate
          /\ locked' = FALSE /\ up' = up
      BY <1>4 DEF Commits, Store!Commit
    <2>2. QED
      BY <1>1, <1>2, <1>3, <1>4, <2>1
         DEF CredentialInv, TypeOK, NothingDeadInUse, RevocationReachesDisk
  <1>5. CASE /\ CommitThrows(candidate) /\ reported' = None
             /\ UNCHANGED <<memory, owed>>
    <2>1. /\ root' \in {root, disk, candidate} /\ disk' \in {disk, candidate}
          /\ stable' \in {stable, disk, candidate}
          /\ locked' \in BOOLEAN /\ up' = up
      BY <1>5 DEF CommitThrows, Store!CommitUncertain, document,
                  CredentialInv, TypeOK
    <2>2. TypeOK'
      BY <1>1, <1>2, <1>5, <2>1 DEF CredentialInv, TypeOK, memory
    <2>3. NothingDeadInUse' /\ RevocationReachesDisk'
      BY <1>2, <1>3, <1>5, <2>1
         DEF CredentialInv, NothingDeadInUse, RevocationReachesDisk, memory
    <2>4. QED BY <2>2, <2>3 DEF CredentialInv
  <1>6. QED
    BY <1>4, <1>5 DEF SaveCookie

\* clearCookie: either everything is replaced, or the mark and the debt stay.
LEMMA ClearCookieLemma ==
  ASSUME CredentialInv, ClearCookie
  PROVE  CredentialInv'
PROOF
  <1> DEFINE candidate == Candidate([root EXCEPT !.cookie = None], TRUE)
  <1>1. candidate \in Secrets /\ candidate.cookie = None
    <2>1. [root EXCEPT !.cookie = None] \in Secrets
      BY DEF CredentialInv, TypeOK, Secrets
    <2>2. QED BY <2>1, CandidateLemma
  <1>2. /\ dead' \subseteq Cookies /\ None \notin dead'
        /\ cookieRevoked' = TRUE /\ ephemeralCookie' = None
        /\ reported' = None /\ UNCHANGED keyring
    BY SecretAssumption DEF ClearCookie, Buried, CredentialInv, TypeOK,
                            Secrets
  <1>3. CASE Commits(candidate) /\ owed' = FALSE
    <2>1. root' = candidate /\ disk' = candidate /\ stable' = candidate
          /\ locked' = FALSE /\ up' = up
      BY <1>3 DEF Commits, Store!Commit
    <2>2. QED
      BY <1>1, <1>2, <1>3, <2>1
         DEF CredentialInv, TypeOK, NothingDeadInUse, RevocationReachesDisk
  <1>4. CASE CommitThrows(candidate) /\ owed' = TRUE
    <2>1. /\ root' \in {root, disk, candidate} /\ disk' \in {disk, candidate}
          /\ stable' \in {stable, disk, candidate}
          /\ locked' \in BOOLEAN /\ up' = up
      BY <1>4 DEF CommitThrows, Store!CommitUncertain, document,
                  CredentialInv, TypeOK
    <2>2. QED
      BY <1>1, <1>2, <1>4, <2>1
         DEF CredentialInv, TypeOK, NothingDeadInUse, RevocationReachesDisk
  <1>5. QED
    BY <1>3, <1>4 DEF ClearCookie

\* saveSso and clearSso: while a revocation is marked they take the cookie out
\* of the document, too.
LEMMA SaveSsoLemma ==
  ASSUME CredentialInv, NEW account \in Accounts \cup {None}, SaveSso(account)
  PROVE  CredentialInv'
PROOF
  <1> DEFINE wanted == [root EXCEPT !.account = account]
             candidate == Candidate(wanted, cookieRevoked)
  <1>1. /\ candidate \in Secrets
        /\ cookieRevoked => candidate.cookie = None
        /\ ~cookieRevoked => candidate.cookie = root.cookie
    <2>1. wanted \in Secrets /\ wanted.cookie = root.cookie
      BY DEF CredentialInv, TypeOK, Secrets
    <2>2. QED BY <2>1, CandidateLemma DEF CredentialInv, TypeOK
  <1>2. candidate.cookie \notin dead
    BY <1>1, SecretAssumption DEF CredentialInv, TypeOK, NothingDeadInUse
  <1>3. UNCHANGED <<keyring, memory, dead, reported>>
    BY DEF SaveSso
  <1>4. CASE Commits(candidate) /\ owed' = FALSE
    <2>1. root' = candidate /\ disk' = candidate /\ stable' = candidate
          /\ locked' = FALSE /\ up' = up
      BY <1>4 DEF Commits, Store!Commit
    <2>2. QED
      BY <1>1, <1>2, <1>3, <1>4, <2>1
         DEF CredentialInv, TypeOK, NothingDeadInUse, RevocationReachesDisk,
             memory
  <1>5. CASE CommitThrows(candidate) /\ UNCHANGED owed
    <2>1. /\ root' \in {root, disk, candidate} /\ disk' \in {disk, candidate}
          /\ stable' \in {stable, disk, candidate}
          /\ locked' \in BOOLEAN /\ up' = up
      BY <1>5 DEF CommitThrows, Store!CommitUncertain, document,
                  CredentialInv, TypeOK
    <2>2. TypeOK'
      BY <1>1, <1>3, <1>5, <2>1 DEF CredentialInv, TypeOK, memory
    <2>3. NothingDeadInUse' /\ RevocationReachesDisk'
      BY <1>2, <1>3, <1>5, <2>1
         DEF CredentialInv, NothingDeadInUse, RevocationReachesDisk, memory
    <2>4. QED BY <2>2, <2>3 DEF CredentialInv
  <1>6. QED
    BY <1>4, <1>5 DEF SaveSso

\* The process ends, begins, reloads its document, or the keyring changes.
LEMMA SurroundingsLemma ==
  ASSUME CredentialInv
  PROVE  /\ Reload => CredentialInv'
         /\ Down => CredentialInv'
         /\ Keyring => CredentialInv'
         /\ \A migrated \in Cookies \cup {None} : Start(migrated) => CredentialInv'
PROOF
  <1> USE DEF CredentialInv, TypeOK, NothingDeadInUse, RevocationReachesDisk
  <1>1. Reload => CredentialInv'
    <2>1. Reload => /\ root' \in {root, disk} /\ stable' \in {stable, disk}
                    /\ disk' = disk /\ up' = up /\ locked' \in BOOLEAN
      BY DEF Reload, Store!Reload, Store!ReloadFails
    <2>2. Reload => UNCHANGED <<keyring, ephemeralCookie, cookieRevoked, dead,
                                owed, reported>>
      BY DEF Reload, memory, observed
    <2>3. QED BY <2>1, <2>2
  <1>2. Down => CredentialInv'
    <2>1. Down => disk' \in {disk, stable} /\ stable' = stable
      BY DEF Down, Store!Crash, Store!PowerLoss
    <2>2. Down => /\ up' = FALSE /\ locked' = FALSE /\ root' = NoSecrets
                  /\ ephemeralCookie' = None /\ cookieRevoked' = FALSE
                  /\ dead' = {} /\ owed' = FALSE
                  /\ UNCHANGED <<keyring, reported>>
      BY DEF Down
    <2>3. QED BY <2>1, <2>2, NoSecretsLemma
  <1>3. Keyring => CredentialInv'
    BY DEF Keyring, document, memory, observed
  <1>4. ASSUME NEW migrated \in Cookies \cup {None}, Start(migrated)
        PROVE  CredentialInv'
    BY <1>4 DEF Start, Store!Open
  <1>5. QED BY <1>1, <1>2, <1>3, <1>4

\* Every step preserves the invariant.
LEMMA CredentialStep == CredentialInv /\ [Next]_vars => CredentialInv'
PROOF
  <1> SUFFICES ASSUME CredentialInv, [Next]_vars PROVE CredentialInv'
    OBVIOUS
  <1>1. CASE UNCHANGED vars
    BY <1>1 DEF vars, document, memory, observed, CredentialInv, TypeOK,
                NothingDeadInUse, RevocationReachesDisk
  <1>2. CASE Next
    BY <1>2, SaveCookieLemma, ClearCookieLemma, SaveSsoLemma, SurroundingsLemma
       DEF Next
  <1>3. QED BY <1>1, <1>2

\* The inductive invariant holds in every reachable state.
LEMMA CredentialInvariance == Spec => []CredentialInv
  BY CredentialInit, CredentialStep, PTL DEF Spec

LEMMA CredentialsHold == Spec => []RevokedForGood
PROOF
  <1>1. CredentialInv => RevokedForGood
    BY SecretAssumption
       DEF CredentialInv, TypeOK, NothingDeadInUse, RevokedForGood,
           RevokedStaysRevoked, Cookie
  <1>2. QED BY <1>1, CredentialInvariance, PTL

-----------------------------------------------------------------------------
(* The probes.                                                             *)

Owners == {"none", "health"}
Pauses == {"no", "gate", "event"}
Keys == (Nat \X Nat) \X BOOLEAN \X BOOLEAN \X BOOLEAN \X BOOLEAN \X BOOLEAN
TokenKeys == Nat \X Nat \X BOOLEAN
Rounds ==
  {Probes!NoRound} \cup [on : {TRUE}, key : Keys, authority : Nat \X Nat,
                  previous : Probes!Remotes, owner : Owners]
TokenRounds == {Probes!NoRound} \cup [on : {TRUE}, key : TokenKeys]

States ==
  [epoch : Nat, cookie : Nat, latest : Nat, busy : BOOLEAN, exclusive : BOOLEAN,
   serving : BOOLEAN, enabled : BOOLEAN, remote : Probes!Remotes, notReady : BOOLEAN,
   owner : Owners, queued : BOOLEAN, held : BOOLEAN, needsResume : BOOLEAN, asleep : BOOLEAN,
   timer : BOOLEAN, round : Rounds, observed : Keys \cup {<<>>},
   suspended : BOOLEAN, paused : Pauses, tokenTimer : BOOLEAN,
   tokenRound : TokenRounds, tokenObserved : TokenKeys \cup {<<>>}, refused : Nat]

\* A context that is probed.
Probed(k) == k[1][2] # 0 /\ k[2] /\ k[3] /\ ~k[4] /\ ~k[5] /\ ~k[6]

\* When the services are told of a change: what is not told at once is told after
\* the operation or the sleep, and ends every pause.
Told(a) ==
  /\ a.held <=> a.busy /\ a.exclusive
  /\ a.queued => ~a.asleep /\ ~a.held
  /\ a.asleep => a.suspended
  /\ a.suspended => a.asleep \/ a.needsResume
  /\ a.needsResume => a.asleep \/ a.held \/ a.queued

\* A service that may act on what it has seen.
Awake(a) == ~a.asleep /\ ~a.held

\* It has seen the context there is, or is about to.
Seen(a) == Awake(a) /\ ~a.queued => a.observed = Probes!Key(a)

\* A pause at a gate that nothing else will end ends with the refusal it is for.
Paused(a) ==
  Awake(a) /\ a.paused = "gate" /\ ~a.needsResume =>
    a.observed # Probes!Key(a) \/ a.remote = "auth_required"

\* A timer or a round is of the context last seen, of one to probe.
Timed(a) ==
  /\ a.timer => ~a.round.on
  /\ a.timer \/ a.round.on =>
       /\ Awake(a)
       /\ ~a.suspended
       /\ a.paused = "no"
       /\ a.observed # <<>>
       /\ Probed(a.observed)
  /\ a.round.on => a.round.key = a.observed /\ a.round.authority = a.observed[1]

\* A "checking" of the health service is that of its round.
Owned(a) ==
  /\ a.round.on => ~(a.round.previous = "checking" /\ a.round.owner = "health")
  /\ a.remote = "checking" /\ a.owner = "health" =>
       a.round.on /\ a.round.authority = Probes!Authority(a) /\ ~a.notReady

HealthArmed(a) ==
  ~a.queued /\ ~a.asleep /\ Probes!Eligible(a) =>
    a.timer \/ a.round.on \/ a.paused = "event"

Tokens(a) ==
  IF a.asleep THEN ~a.tokenTimer /\ ~a.tokenRound.on
  ELSE /\ a.tokenObserved = Probes!TokenKey(a)
       /\ Probes!TokenEligible(a) /\ a.refused # a.cookie => a.tokenTimer \/ a.tokenRound.on

Good(a) ==
  /\ a \in States
  /\ Told(a) /\ Seen(a) /\ Paused(a) /\ Timed(a) /\ Owned(a) /\ HealthArmed(a) /\ Tokens(a)

ProbesInv == Good(s)

\* What only the application changes, and the token service.
Frame(a, b) ==
  /\ b.epoch = a.epoch /\ b.cookie = a.cookie /\ b.latest = a.latest
  /\ b.busy = a.busy /\ b.exclusive = a.exclusive
  /\ b.serving = a.serving /\ b.enabled = a.enabled
  /\ b.held = a.held /\ b.asleep = a.asleep
  /\ b.tokenTimer = a.tokenTimer /\ b.tokenRound = a.tokenRound
  /\ b.tokenObserved = a.tokenObserved /\ b.refused = a.refused

Kept(a, b) ==
  /\ Frame(a, b)
  /\ b.needsResume = a.needsResume /\ b.observed = a.observed
  /\ b.suspended = a.suspended /\ b.paused = a.paused

\* A service that is not told of a change has nothing new to see.
Silent(a, b) ==
  Awake(a) /\ ~b.queued =>
    ~a.queued /\ b.remote = a.remote /\ (b.notReady <=> a.notReady)

LEMMA NoRoundFacts ==
  /\ Probes!NoRound \in Rounds
  /\ Probes!NoRound \in TokenRounds
  /\ ~Probes!NoRound.on
PROOF BY DEF Probes!NoRound, Rounds, TokenRounds

LEMMA KeyFacts ==
  ASSUME NEW a \in States
  PROVE  /\ Probes!Key(a) \in Keys /\ Probes!TokenKey(a) \in TokenKeys
         /\ Probes!Key(a) # <<>>
         /\ Probes!Key(a)[1] = Probes!Authority(a) /\ Probes!Authority(a) \in Nat \X Nat
         /\ Probes!Key(a)[5] <=> a.remote = "auth_required"
         /\ Probes!Key(a)[6] <=> a.notReady
         /\ Probed(Probes!Key(a)) <=> Probes!Eligible(a)
PROOF
  BY DEF States, Probes!Key, Keys, Probes!TokenKey, TokenKeys,
         Probes!TokenEligible, Probes!Authority, Probed, Probes!Eligible

\* A context that differs at most in what is shown is the same, unless it shows
\* that a login is wanted or that the remote was not ready.
LEMMA FrameFacts ==
  ASSUME NEW a \in States, NEW b \in States, Frame(a, b)
  PROVE  /\ Probes!Authority(b) = Probes!Authority(a)
         /\ Probes!TokenKey(b) = Probes!TokenKey(a)
         /\ Probes!TokenEligible(b) <=> Probes!TokenEligible(a)
         /\ Awake(b) <=> Awake(a)
         /\ (b.remote = "auth_required" <=> a.remote = "auth_required")
              /\ (b.notReady <=> a.notReady) =>
              Probes!Key(b) = Probes!Key(a) /\ (Probes!Eligible(b) <=> Probes!Eligible(a))
         /\ Probes!Eligible(b) /\ a.remote # "auth_required" /\ ~a.notReady =>
              Probes!Eligible(a)
         /\ Tokens(a) => Tokens(b)
PROOF
  BY DEF States, Frame, Probes!Key, Probes!TokenKey, Probes!TokenEligible,
         Probes!Authority, Probes!Eligible, Tokens, Awake

LEMMA QueueFacts ==
  ASSUME NEW a \in States
  PROVE  LET b == Probes!Queue(a) IN
         /\ b \in States /\ Kept(a, b)
         /\ b.timer = a.timer /\ b.round = a.round
         /\ b.remote = a.remote /\ b.owner = a.owner /\ b.notReady = a.notReady
         /\ b.queued <=> a.queued \/ Awake(a)
PROOF
  <1> DEFINE c == [a EXCEPT !.queued = TRUE]
  <1>1. c \in States
    BY DEF States
  <1>2. /\ Kept(a, c) /\ c.timer = a.timer /\ c.round = a.round
        /\ c.remote = a.remote /\ c.owner = a.owner /\ c.notReady = a.notReady
        /\ c.queued
    BY DEF States, Kept, Frame
  <1>3. Probes!Queue(a) = IF a.asleep \/ a.held THEN a ELSE c
    BY DEF Probes!Queue
  <1>4. Kept(a, a)
    BY DEF Kept, Frame
  <1>5. a.queued \in BOOLEAN
    BY DEF States
  <1> HIDE DEF c
  <1>6. CASE a.asleep \/ a.held
    BY <1>3, <1>4, <1>6 DEF Awake
  <1>7. CASE ~(a.asleep \/ a.held)
    BY <1>1, <1>2, <1>3, <1>7 DEF Awake
  <1>8. QED BY <1>6, <1>7

LEMMA SetRemoteFacts ==
  ASSUME NEW a \in States, NEW r \in Probes!Remotes, NEW n \in BOOLEAN, NEW o \in Owners
  PROVE  LET b == Probes!SetRemote(a, r, n, o) IN
         /\ b \in States /\ Kept(a, b)
         /\ b.timer = a.timer /\ b.round = a.round
         /\ b.remote = r /\ b.owner = o /\ (b.notReady <=> n)
         /\ b.queued <=> a.queued \/ ((r # a.remote \/ ~(n <=> a.notReady)) /\ Awake(a))
PROOF
  <1> DEFINE c == [a EXCEPT !.remote = r, !.notReady = n, !.owner = o]
  <1>1. c \in States
    BY DEF States
  <1>2. /\ Kept(a, c) /\ c.timer = a.timer /\ c.round = a.round /\ c.remote = r
        /\ c.owner = o /\ c.notReady = n
        /\ c.queued = a.queued /\ (Awake(c) <=> Awake(a))
    BY DEF States, Kept, Frame, Awake
  <1>3. Probes!SetRemote(a, r, n, o) =
          IF a.remote = r /\ a.notReady = n THEN c ELSE Probes!Queue(c)
    BY DEF Probes!SetRemote
  <1>4. (a.notReady = n) <=> (n <=> a.notReady)
    BY DEF States
  <1> HIDE DEF c
  <1>5. CASE a.remote = r /\ a.notReady = n
    BY <1>1, <1>2, <1>3, <1>4, <1>5
  <1>6. CASE ~(a.remote = r /\ a.notReady = n)
    <2> DEFINE b == Probes!Queue(c)
    <2>1. /\ b \in States /\ Kept(c, b) /\ b.timer = c.timer /\ b.round = c.round
          /\ b.remote = c.remote /\ b.owner = c.owner /\ b.notReady = c.notReady
          /\ b.queued <=> c.queued \/ Awake(c)
      BY <1>1, QueueFacts
    <2>2. Probes!SetRemote(a, r, n, o) = b
      BY <1>3, <1>6
    <2> HIDE DEF b
    <2>3. Kept(a, b)
      BY <1>2, <2>1 DEF Kept, Frame
    <2>4. r # a.remote \/ ~(n <=> a.notReady)
      BY <1>4, <1>6
    <2>5. QED BY <1>2, <2>1, <2>2, <2>3, <2>4
  <1>7. QED BY <1>5, <1>6

\* What is shown in place of the error of a remote that was not ready, and that error.
Replaced(a, r, o) == Probes!SetRemote(a, r, FALSE, o)
NotReady(a) == Probes!SetRemote(a, "settled", TRUE, "none")

LEMMA ReplacedFacts ==
  ASSUME NEW a \in States, NEW r \in Probes!Remotes, NEW o \in Owners
  PROVE  LET b == Replaced(a, r, o) IN
         /\ b \in States /\ Kept(a, b)
         /\ b.timer = a.timer /\ b.round = a.round
         /\ b.remote = r /\ b.owner = o /\ ~b.notReady
         /\ b.queued <=> a.queued \/ ((r # a.remote \/ a.notReady) /\ Awake(a))
PROOF
  <1> DEFINE n == FALSE
             b == Probes!SetRemote(a, r, n, o)
  <1>1. n \in BOOLEAN /\ ~n
    OBVIOUS
  <1>2. b = Replaced(a, r, o)
    BY DEF Replaced
  <1> HIDE DEF n
  <1>3. /\ b \in States /\ Kept(a, b)
        /\ b.timer = a.timer /\ b.round = a.round
        /\ b.remote = r /\ b.owner = o /\ (b.notReady <=> n)
        /\ b.queued <=> a.queued \/ ((r # a.remote \/ ~(n <=> a.notReady)) /\ Awake(a))
    BY <1>1, SetRemoteFacts
  <1> HIDE DEF b
  <1>4. QED BY <1>1, <1>2, <1>3

LEMMA NotReadyFacts ==
  ASSUME NEW a \in States
  PROVE  LET b == NotReady(a) IN
         /\ b \in States /\ Kept(a, b) /\ b.round = a.round
         /\ b.remote = "settled" /\ b.owner = "none" /\ b.notReady
         /\ b.queued <=> a.queued \/ ((a.remote # "settled" \/ ~a.notReady) /\ Awake(a))
PROOF
  <1>1. PICK r \in Probes!Remotes, n \in BOOLEAN, o \in Owners :
          r = "settled" /\ n = TRUE /\ o = "none"
    BY DEF Probes!Remotes, Owners
  <1> DEFINE b == Probes!SetRemote(a, r, n, o)
  <1>2. b = NotReady(a)
    BY <1>1 DEF NotReady
  <1>3. /\ b \in States /\ Kept(a, b) /\ b.timer = a.timer /\ b.round = a.round
        /\ b.remote = r /\ b.owner = o /\ (b.notReady <=> n)
        /\ b.queued <=> a.queued \/ ((r # a.remote \/ ~(n <=> a.notReady)) /\ Awake(a))
    BY SetRemoteFacts
  <1> HIDE DEF b
  <1>4. QED BY <1>1, <1>2, <1>3

LEMMA CancelFacts ==
  ASSUME NEW a \in States
  PROVE  LET b == Probes!Cancel(a) IN
         /\ b \in States /\ Kept(a, b)
         /\ ~b.timer /\ ~b.round.on
         /\ b.queued <=> a.queued \/ (b.remote # a.remote /\ Awake(a))
         /\ b.remote # a.remote => a.remote = "checking"
         /\ b.notReady <=> a.notReady
         /\ Owned(a) => Owned(b)
PROOF
  <1> DEFINE b == [a EXCEPT !.timer = FALSE, !.round = Probes!NoRound]
  <1>1. b \in States
    BY NoRoundFacts DEF States
  <1>2. /\ Kept(a, b) /\ ~b.timer /\ b.round = Probes!NoRound /\ ~b.round.on
        /\ b.remote = a.remote /\ b.owner = a.owner /\ b.notReady = a.notReady
        /\ b.queued = a.queued /\ (Awake(b) <=> Awake(a))
    BY NoRoundFacts DEF States, Kept, Frame, Awake
  <1>3. Probes!Cancel(a) = IF Probes!Restorable(a)
                           THEN Probes!SetRemote(b, a.round.previous, FALSE, a.round.owner) ELSE b
    BY DEF Probes!Cancel
  <1> HIDE DEF b
  <1>4. CASE Probes!Restorable(a)
    <2>1. a.round.on /\ a.remote = "checking" /\ ~a.notReady
      BY <1>4 DEF Probes!Restorable
    <2>2. a.round.previous \in Probes!Remotes /\ a.round.owner \in Owners
      BY <2>1, NoRoundFacts DEF States, Rounds
    <2> DEFINE c == Replaced(b, a.round.previous, a.round.owner)
    <2>3. /\ c \in States /\ Kept(b, c) /\ c.timer = b.timer /\ c.round = b.round
          /\ c.remote = a.round.previous /\ c.owner = a.round.owner
          /\ ~c.notReady
          /\ c.queued <=> b.queued \/ ((a.round.previous # b.remote \/ b.notReady) /\ Awake(b))
      BY <1>1, <2>2, ReplacedFacts
    <2>4. Probes!Cancel(a) = c
      BY <1>3, <1>4 DEF Replaced
    <2> HIDE DEF c
    <2>5. Kept(a, c)
      BY <1>2, <2>3 DEF Kept, Frame
    <2>6. Owned(a) => Owned(c)
      BY <1>2, <2>1, <2>3 DEF Owned
    <2>7. QED BY <1>2, <2>1, <2>3, <2>4, <2>5, <2>6
  <1>5. CASE ~Probes!Restorable(a)
    <2>1. Probes!Authority(b) = Probes!Authority(a)
      BY <1>1, <1>2, FrameFacts DEF Kept
    <2>2. Owned(a) => Owned(b)
      BY <1>2, <1>5, <2>1 DEF Owned, Probes!Restorable
    <2>3. QED BY <1>1, <1>2, <1>3, <1>5, <2>2
  <1>6. QED BY <1>4, <1>5

LEMMA WithdrawnFacts ==
  ASSUME NEW a \in States, NEW b \in Probes!Withdrawn(a)
  PROVE  /\ b \in States /\ Kept(a, b)
         /\ b.timer = a.timer /\ b.round = a.round
         /\ b.queued => a.queued \/ Awake(a)
         /\ Silent(a, b)
         /\ Owned(a) => Owned(b)
         /\ a.owner = "none" => b.owner = "none"
PROOF
  <1>1. CASE b = a
    BY <1>1 DEF Kept, Frame, Silent
  <1>2. ASSUME NEW r \in Probes!Remotes, NEW n \in BOOLEAN,
               b = Probes!SetRemote(a, r, n, "none")
        PROVE  /\ b \in States /\ Kept(a, b)
               /\ b.timer = a.timer /\ b.round = a.round
               /\ b.queued => a.queued \/ Awake(a)
               /\ Silent(a, b)
               /\ Owned(a) => Owned(b)
               /\ b.owner = "none"
    <2> DEFINE c == Probes!SetRemote(a, r, n, "none")
    <2>1. "none" \in Owners
      BY DEF Owners
    <2>2. /\ c \in States /\ Kept(a, c)
          /\ c.timer = a.timer /\ c.round = a.round
          /\ c.remote = r /\ c.owner = "none" /\ (c.notReady <=> n)
          /\ c.queued <=> a.queued \/ ((r # a.remote \/ ~(n <=> a.notReady)) /\ Awake(a))
      BY <2>1, SetRemoteFacts
    <2>3. b = c
      BY <1>2
    <2> HIDE DEF c
    <2>4. Silent(a, b)
      BY <2>2, <2>3 DEF Silent
    <2>5. Owned(a) => Owned(b)
      BY <2>2, <2>3 DEF Owned
    <2>6. QED BY <2>2, <2>3, <2>4, <2>5
  <1>3. b = a \/ \E r \in Probes!Remotes, n \in BOOLEAN : b = Probes!SetRemote(a, r, n, "none")
    BY DEF Probes!Withdrawn, Probes!Found, Probes!Remotes
  <1>4. QED BY <1>1, <1>2, <1>3

LEMMA ScheduleFacts ==
  ASSUME NEW a \in States, Probes!Eligible(a), ~a.suspended, a.paused = "no"
  PROVE  LET b == Probes!Schedule(a) IN
         /\ b \in States /\ Kept(a, b)
         /\ b.round = a.round /\ b.remote = a.remote /\ b.owner = a.owner
         /\ b.notReady = a.notReady
         /\ b.queued = a.queued
         /\ b.timer \/ b.round.on
         /\ a.round.on => b.timer = a.timer
PROOF
  <1> DEFINE c == [a EXCEPT !.timer = TRUE]
  <1>1. c \in States
    BY DEF States
  <1>2. /\ Kept(a, c) /\ c.timer /\ c.round = a.round
        /\ c.remote = a.remote /\ c.owner = a.owner /\ c.notReady = a.notReady /\ c.queued = a.queued
    BY DEF States, Kept, Frame
  <1>3. Probes!Schedule(a) = IF a.round.on THEN a ELSE c
    BY DEF Probes!Schedule
  <1>4. Kept(a, a)
    BY DEF Kept, Frame
  <1> HIDE DEF c
  <1>5. CASE a.round.on
    BY <1>3, <1>4, <1>5
  <1>6. CASE ~a.round.on
    BY <1>1, <1>2, <1>3, <1>6
  <1>7. QED BY <1>5, <1>6

\* Once told of the context, the health service has seen it, and probes it if it is
\* one to probe.
LEMMA UpdateFacts ==
  ASSUME NEW a \in States, Awake(a), Timed(a), Owned(a), Paused(a)
  PROVE  LET b == Probes!Update(a) IN
         /\ b \in States /\ Frame(a, b)
         /\ b.needsResume = a.needsResume /\ b.suspended = a.suspended
         /\ Seen(b) /\ Paused(b) /\ Timed(b) /\ Owned(b)
         /\ ~a.suspended /\ ~a.needsResume => HealthArmed(b)
PROOF
  <1> DEFINE changed == a.observed # Probes!Key(a)
             b == [a EXCEPT !.observed = Probes!Key(a), 
                           !.paused = IF changed THEN "no" ELSE @]
             c == IF changed THEN Probes!Cancel(b) ELSE b
             d == IF ~Probes!Eligible(c) \/ c.suspended \/ c.paused # "no"
                  THEN Probes!Cancel(c) ELSE Probes!Schedule(c)
  <1>1. Probes!Update(a) = d
    BY DEF Probes!Update
  <1>2. /\ Probes!Key(a) \in Keys
        /\ Probes!Key(a) # <<>>
        /\ Probes!Key(a)[1] = Probes!Authority(a)
        /\ (Probed(Probes!Key(a)) <=> Probes!Eligible(a))
    BY KeyFacts
  <1>3. b \in States
    <2> DEFINE paused == IF changed THEN "no" ELSE a.paused
               seen == Probes!Key(a)
    <2>1. paused \in Pauses /\ seen \in Keys
      BY <1>2 DEF States, Pauses
    <2>2. b = [a EXCEPT !.observed = seen, !.paused = paused]
      BY DEF States
    <2> HIDE DEF b, paused, seen
    <2>3. QED BY <2>1, <2>2 DEF States
  <1>4. /\ Frame(a, b)
        /\ b.needsResume = a.needsResume /\ b.suspended = a.suspended
        /\ b.timer = a.timer /\ b.round = a.round
        /\ b.remote = a.remote /\ b.owner = a.owner /\ b.notReady = a.notReady
        /\ b.queued = a.queued /\ b.observed = Probes!Key(a)
        /\ b.paused = IF changed THEN "no" ELSE a.paused
    BY DEF States, Frame
  <1> HIDE DEF b
  <1>5. /\ Probes!Key(b) = Probes!Key(a) /\ Probes!Authority(b) = Probes!Authority(a)
        /\ Awake(b)
        /\ Probes!Eligible(b) <=> Probes!Eligible(a)
    BY <1>3, <1>4, FrameFacts
  <1>6. Owned(b)
    BY <1>4, <1>5 DEF Owned
  <1>7. /\ c \in States /\ Frame(a, c)
        /\ c.needsResume = a.needsResume /\ c.suspended = a.suspended
        /\ c.observed = Probes!Key(a) /\ (c.notReady <=> a.notReady)
        /\ c.paused = (IF changed THEN "no" ELSE a.paused)
        /\ c.remote # a.remote => a.remote = "checking" /\ c.queued
        /\ Owned(c)
        /\ c.timer => ~c.round.on
        /\ c.timer \/ c.round.on => Timed(a) /\ ~changed /\ (a.timer \/ a.round.on)
        /\ c.round.on => c.round = a.round
    <2>1. CASE changed
      <3>1. c = Probes!Cancel(b)
        BY <2>1
      <3>2. /\ c \in States /\ Kept(b, c) /\ ~c.timer /\ ~c.round.on /\ Owned(c)
            /\ c.queued <=> b.queued \/ (c.remote # b.remote /\ Awake(b))
            /\ c.remote # b.remote => b.remote = "checking"
            /\ c.notReady <=> b.notReady
        BY <1>3, <1>6, <3>1, CancelFacts
      <3> HIDE DEF c
      <3>3. QED BY <1>4, <1>5, <2>1, <3>2 DEF Kept, Frame
    <2>2. CASE ~changed
      BY <1>3, <1>4, <1>6, <2>2 DEF Timed
    <2>3. QED BY <2>1, <2>2
  <1> HIDE DEF c
  <1>8. /\ Awake(c) /\ Probes!Authority(c) = Probes!Authority(a)
        /\ Probes!Key(c) = Probes!Key(a) \/ c.queued
        /\ Probes!Eligible(c) => Probes!Eligible(a)
        /\ c.paused = "gate" => a.remote = "auth_required" \/ a.needsResume
    <2>1. a.remote = c.remote \/ (a.remote = "checking" /\ c.queued)
      BY <1>7
    <2>2. c.paused = "gate" => a.remote = "auth_required" \/ a.needsResume
      BY <1>7 DEF Paused
    <2>3. Awake(c) /\ Probes!Authority(c) = Probes!Authority(a)
      BY <1>7, FrameFacts
    <2>4. Probes!Key(c) = Probes!Key(a) \/ c.queued
      BY <1>7, <2>1, FrameFacts
    <2>5. ASSUME Probes!Eligible(c) PROVE Probes!Eligible(a)
      <3>1. c.remote # "auth_required" /\ ~c.notReady
        BY <2>5 DEF Probes!Eligible
      <3>2. a.remote # "auth_required" /\ ~a.notReady
        BY <1>7, <2>1, <3>1
      <3>3. QED BY <1>7, <2>5, <3>2, FrameFacts
    <2>6. QED BY <2>2, <2>3, <2>4, <2>5
  <1>9. CASE ~Probes!Eligible(c) \/ c.suspended \/ c.paused # "no"
    <2>1. d = Probes!Cancel(c)
      BY <1>9
    <2>2. /\ d \in States /\ Kept(c, d) /\ ~d.timer /\ ~d.round.on /\ Owned(d)
          /\ d.queued <=> c.queued \/ (d.remote # c.remote /\ Awake(c))
          /\ d.remote # c.remote => c.remote = "checking"
          /\ d.notReady <=> c.notReady
      BY <1>7, <2>1, CancelFacts
    <2> HIDE DEF d
    <2>3. Frame(c, d)
      BY <2>2 DEF Kept
    <2>4. /\ Frame(a, d)
          /\ d.needsResume = a.needsResume
          /\ d.suspended = a.suspended
          /\ d.observed = Probes!Key(a) /\ d.paused = c.paused
      BY <1>7, <2>2 DEF Kept, Frame
    <2>5. Probes!Key(d) = Probes!Key(a) \/ d.queued
      BY <1>7, <1>8, <2>2, <2>3, FrameFacts
    <2>6. Seen(d)
      BY <2>4, <2>5 DEF Seen
    <2>7. Paused(d)
      <3>1. c.remote = a.remote \/ a.remote = "checking"
        BY <1>7
      <3>2. QED BY <1>8, <2>2, <2>4, <3>1 DEF Paused
    <2>8. Timed(d)
      BY <2>2 DEF Timed
    <2>9. ~a.suspended /\ ~a.needsResume => HealthArmed(d)
      <3> SUFFICES ASSUME ~a.suspended, ~a.needsResume, ~d.queued, Probes!Eligible(d)
                   PROVE  d.paused = "event"
        BY DEF HealthArmed
      <3>1. d.remote = c.remote
        BY <1>8, <2>2
      <3>2. Probes!Eligible(c)
        BY <1>7, <2>2, <2>3, <3>1, FrameFacts
      <3>3. Probes!Eligible(a) /\ c.paused # "no"
        BY <1>7, <1>8, <1>9, <3>2
      <3>4. c.paused # "gate"
        BY <1>8, <3>3 DEF Probes!Eligible
      <3>5. QED BY <1>7, <2>4, <3>3, <3>4 DEF States, Pauses
    <2>10. QED BY <1>1, <2>2, <2>4, <2>6, <2>7, <2>8, <2>9
  <1>10. CASE Probes!Eligible(c) /\ ~c.suspended /\ c.paused = "no"
    <2>1. d = Probes!Schedule(c)
      BY <1>10
    <2>2. /\ d \in States /\ Kept(c, d)
          /\ d.round = c.round /\ d.remote = c.remote /\ d.owner = c.owner
          /\ d.notReady = c.notReady
          /\ d.queued = c.queued /\ (d.timer \/ d.round.on)
          /\ c.round.on => d.timer = c.timer
      BY <1>7, <1>10, <2>1, ScheduleFacts
    <2> HIDE DEF d
    <2>3. Frame(c, d)
      BY <2>2 DEF Kept
    <2>4. /\ Frame(a, d) /\ d.needsResume = a.needsResume /\ d.suspended = a.suspended
          /\ d.observed = Probes!Key(a) /\ d.paused = "no" /\ ~d.suspended
      BY <1>7, <1>10, <2>2 DEF Kept, Frame
    <2>5. /\ Probes!Key(d) = Probes!Key(c)
          /\ Probes!Authority(d) = Probes!Authority(c)
          /\ Awake(d)
      BY <1>7, <1>8, <2>2, <2>3, FrameFacts
    <2>6. Seen(d)
      BY <1>8, <2>2, <2>4, <2>5 DEF Seen
    <2>7. Paused(d)
      BY <2>4 DEF Paused
    <2>8. Timed(d)
      <3>1. Probed(d.observed) /\ d.observed # <<>>
        BY <1>2, <1>8, <1>10, <2>4
      <3>2. d.timer => ~d.round.on
        BY <1>7, <2>2
      <3>3. d.round.on => d.round.key = d.observed /\ d.round.authority = d.observed[1]
        BY <1>7, <2>2, <2>4 DEF Timed
      <3>4. QED BY <2>4, <2>5, <3>1, <3>2, <3>3 DEF Timed
    <2>9. Owned(d)
      BY <1>7, <2>2, <2>5 DEF Owned
    <2>10. HealthArmed(d)
      BY <2>2 DEF HealthArmed
    <2>11. QED BY <1>1, <2>2, <2>4, <2>6, <2>7, <2>8, <2>9, <2>10
  <1>11. QED BY <1>9, <1>10

LEMMA TokenUpdateFacts ==
  ASSUME NEW a \in States
  PROVE  LET b == Probes!TokenUpdate(a) IN
         /\ b \in States /\ Tokens(b)
         /\ b.epoch = a.epoch /\ b.cookie = a.cookie /\ b.latest = a.latest
         /\ b.busy = a.busy /\ b.exclusive = a.exclusive
         /\ b.serving = a.serving /\ b.enabled = a.enabled
         /\ b.held = a.held /\ b.asleep = a.asleep
         /\ b.needsResume = a.needsResume /\ b.observed = a.observed
         /\ b.suspended = a.suspended /\ b.paused = a.paused
         /\ b.timer = a.timer /\ b.round = a.round
         /\ b.remote = a.remote /\ b.owner = a.owner /\ b.notReady = a.notReady
         /\ b.queued = a.queued
PROOF
  <1> DEFINE Rest(b) ==
               /\ b.epoch = a.epoch /\ b.cookie = a.cookie /\ b.latest = a.latest
               /\ b.busy = a.busy /\ b.exclusive = a.exclusive
               /\ b.serving = a.serving /\ b.enabled = a.enabled
               /\ b.held = a.held /\ b.asleep = a.asleep
               /\ b.needsResume = a.needsResume /\ b.observed = a.observed
               /\ b.suspended = a.suspended /\ b.paused = a.paused
               /\ b.timer = a.timer /\ b.round = a.round
               /\ b.remote = a.remote /\ b.owner = a.owner /\ b.notReady = a.notReady
         /\ b.queued = a.queued
             keep == a.tokenObserved = Probes!TokenKey(a) /\ Probes!TokenEligible(a)
                       /\ ~a.asleep
             off == [a EXCEPT !.tokenTimer = FALSE, !.tokenRound = Probes!NoRound]
             b == IF keep THEN a ELSE off
             c == [b EXCEPT !.tokenObserved = Probes!TokenKey(a),
                            !.refused = IF @ = a.cookie THEN @ ELSE 0]
             d == [c EXCEPT !.tokenTimer = TRUE]
  <1>1. Probes!TokenUpdate(a) =
          IF a.asleep THEN b
          ELSE IF c.tokenRound.on \/ ~Probes!TokenEligible(c) \/ c.refused = c.cookie
               THEN c ELSE d
    BY DEF Probes!TokenUpdate
  <1>2. off \in States /\ Rest(off) /\ ~off.tokenTimer /\ ~off.tokenRound.on
    BY NoRoundFacts DEF States
  <1>3. b \in States /\ Rest(b)
    BY <1>2
  <1>4. a.asleep => ~b.tokenTimer /\ ~b.tokenRound.on
    BY <1>2
  <1> HIDE DEF b
  <1>5. Probes!TokenKey(a) \in TokenKeys
    BY KeyFacts
  <1>6. c \in States /\ Rest(c) /\ c.tokenObserved = Probes!TokenKey(a)
    BY <1>3, <1>5 DEF States
  <1> HIDE DEF c
  <1>7. /\ d \in States
        /\ Rest(d)
        /\ d.tokenObserved = Probes!TokenKey(a)
        /\ d.tokenTimer
    BY <1>6 DEF States
  <1> HIDE DEF d
  <1>8. CASE a.asleep
    BY <1>1, <1>3, <1>4, <1>8 DEF Tokens
  <1>9. CASE /\ ~a.asleep
             /\ (c.tokenRound.on \/ ~Probes!TokenEligible(c) \/ c.refused = c.cookie)
    <2>1. Probes!TokenUpdate(a) = c
      BY <1>1, <1>9
    <2>2. c.tokenObserved = Probes!TokenKey(c)
      BY <1>6 DEF Probes!TokenKey, Probes!TokenEligible
    <2>3. Tokens(c)
      BY <1>6, <1>9, <2>2 DEF Tokens
    <2>4. QED BY <1>6, <2>1, <2>3
  <1>10. CASE /\ ~a.asleep
              /\ ~(c.tokenRound.on \/ ~Probes!TokenEligible(c) \/ c.refused = c.cookie)
    <2>1. Probes!TokenUpdate(a) = d
      BY <1>1, <1>10
    <2>2. d.tokenObserved = Probes!TokenKey(d)
      BY <1>7 DEF Probes!TokenKey, Probes!TokenEligible
    <2>3. Tokens(d)
      BY <1>7, <1>10, <2>2 DEF Tokens
    <2>4. QED BY <1>7, <2>1, <2>3
  <1>11. QED BY <1>8, <1>9, <1>10

\* What the application may make of a state before it publishes it.
Publishable(a) ==
  /\ a \in States
  /\ a.queued => ~a.asleep /\ ~(a.busy /\ a.exclusive)
  /\ a.asleep => a.suspended
  /\ a.suspended => a.asleep \/ a.needsResume
  /\ (a.busy /\ a.exclusive) \/ (Paused(a) /\ Timed(a))
  /\ Owned(a)

LEMMA PublishFacts ==
  ASSUME NEW a, Publishable(a)
  PROVE  Good(Probes!Publish(a))
PROOF
  <1> DEFINE t == Probes!TokenUpdate(a)
             held == [t EXCEPT !.held = TRUE, !.paused = "gate"]
             free == [t EXCEPT !.held = FALSE, !.needsResume = @ \/ t.held]
  <1> USE DEF Publishable
  <1>1. /\ t \in States /\ Tokens(t)
        /\ t.epoch = a.epoch /\ t.cookie = a.cookie /\ t.latest = a.latest
        /\ t.busy = a.busy /\ t.exclusive = a.exclusive
        /\ t.serving = a.serving /\ t.enabled = a.enabled
        /\ t.held = a.held /\ t.asleep = a.asleep
        /\ t.needsResume = a.needsResume /\ t.observed = a.observed
        /\ t.suspended = a.suspended /\ t.paused = a.paused
        /\ t.timer = a.timer /\ t.round = a.round
        /\ t.remote = a.remote /\ t.owner = a.owner /\ t.notReady = a.notReady
        /\ t.queued = a.queued
    BY TokenUpdateFacts
  <1>2. Probes!Publish(a) =
          IF a.busy /\ a.exclusive THEN Probes!Cancel(held) ELSE Probes!Queue(free)
    BY DEF Probes!Publish, Probes!Pause
  <1> HIDE DEF t
  <1>3. Owned(t)
    BY <1>1 DEF Owned, Probes!Authority
  <1>4. CASE a.busy /\ a.exclusive
    <2> DEFINE b == Probes!Cancel(held)
    <2>1. /\ held \in States /\ held.held /\ held.busy = t.busy
          /\ held.exclusive = t.exclusive
          /\ held.queued = t.queued /\ held.asleep = t.asleep
          /\ held.suspended = t.suspended /\ held.needsResume = t.needsResume
      BY <1>1 DEF States, Pauses
    <2>2. Owned(held) /\ Tokens(held) /\ ~Awake(held)
      BY <1>1, <1>3 DEF States, Owned, Tokens, Probes!TokenKey,
                        Probes!TokenEligible, Probes!Authority, Awake
    <2> HIDE DEF held
    <2>3. /\ b \in States /\ Kept(held, b) /\ ~b.timer /\ ~b.round.on /\ Owned(b)
          /\ b.queued <=> held.queued \/ (b.remote # held.remote /\ Awake(held))
      BY <2>1, <2>2, CancelFacts
    <2> HIDE DEF b
    <2>4. Frame(held, b)
      BY <2>3 DEF Kept
    <2>5. Tokens(b) /\ ~Awake(b)
      BY <2>1, <2>2, <2>3, <2>4, FrameFacts
    <2>6. Told(b)
      BY <1>1, <1>4, <2>1, <2>2, <2>3 DEF Told, Kept, Frame
    <2>7. ~b.timer /\ ~b.round.on /\ b.busy
      BY <1>1, <1>4, <2>1, <2>3 DEF Kept, Frame
    <2>8. Seen(b) /\ Paused(b) /\ Timed(b) /\ HealthArmed(b)
      BY <2>5, <2>7 DEF Seen, Paused, Timed, HealthArmed, Probes!Eligible
    <2>9. QED BY <1>2, <1>4, <2>3, <2>5, <2>6, <2>8 DEF Good, b
  <1>5. CASE ~(a.busy /\ a.exclusive)
    <2> DEFINE b == Probes!Queue(free)
               needs == t.needsResume \/ t.held
    <2>1. needs \in BOOLEAN
      BY <1>1 DEF States
    <2>2. free = [t EXCEPT !.held = FALSE, !.needsResume = needs]
      BY <1>1 DEF States
    <2> HIDE DEF free
    <2>3. /\ free \in States /\ ~free.held /\ free.busy = t.busy
          /\ free.exclusive = t.exclusive
          /\ free.epoch = t.epoch /\ free.cookie = t.cookie /\ free.latest = t.latest
          /\ free.serving = t.serving /\ free.enabled = t.enabled
          /\ free.queued = t.queued /\ free.asleep = t.asleep
          /\ free.suspended = t.suspended /\ (free.needsResume <=> t.needsResume \/ t.held)
          /\ free.paused = t.paused /\ free.observed = t.observed
          /\ free.timer = t.timer /\ free.round = t.round
          /\ free.remote = t.remote /\ free.owner = t.owner /\ free.notReady = t.notReady
          /\ free.tokenTimer = t.tokenTimer /\ free.tokenRound = t.tokenRound
          /\ free.tokenObserved = t.tokenObserved /\ free.refused = t.refused
      <3> HIDE DEF needs
      <3>1. t \in States
        BY <1>1
      <3>2. /\ free \in States /\ free.needsResume = needs
            /\ ~free.held /\ free.busy = t.busy
            /\ free.exclusive = t.exclusive
            /\ free.epoch = t.epoch /\ free.cookie = t.cookie /\ free.latest = t.latest
            /\ free.serving = t.serving /\ free.enabled = t.enabled
            /\ free.queued = t.queued /\ free.asleep = t.asleep
            /\ free.suspended = t.suspended
            /\ free.paused = t.paused /\ free.observed = t.observed
            /\ free.timer = t.timer /\ free.round = t.round
            /\ free.remote = t.remote /\ free.owner = t.owner /\ free.notReady = t.notReady
            /\ free.tokenTimer = t.tokenTimer /\ free.tokenRound = t.tokenRound
            /\ free.tokenObserved = t.tokenObserved /\ free.refused = t.refused
        BY <3>1, <2>1, <2>2 DEF States
      <3>3. QED BY <3>2 DEF needs
    <2>4. Owned(free)
      BY <1>3, <2>3 DEF Owned, Probes!Authority
    <2>5. Tokens(free)
      BY <1>1, <2>3 DEF Tokens, Probes!TokenKey, Probes!TokenEligible
    <2>6. /\ b \in States /\ Kept(free, b) /\ b.timer = free.timer /\ b.round = free.round
          /\ b.remote = free.remote /\ b.owner = free.owner /\ b.notReady = free.notReady
          /\ b.queued <=> free.queued \/ Awake(free)
      BY <2>3, QueueFacts
    <2> HIDE DEF b
    <2>7. /\ Frame(free, b)
          /\ Probes!Authority(b) = Probes!Authority(free)
          /\ Tokens(b)
      BY <2>3, <2>5, <2>6, FrameFacts DEF Kept
    <2>8. /\ b.busy = a.busy /\ b.exclusive = a.exclusive /\ ~b.held /\ b.asleep = a.asleep
          /\ b.suspended = a.suspended /\ (b.needsResume <=> a.needsResume \/ a.held)
          /\ b.paused = a.paused /\ b.observed = a.observed
          /\ b.timer = a.timer /\ b.round = a.round /\ (b.queued <=> ~a.asleep)
      BY <1>1, <2>3, <2>6 DEF Kept, Frame, Awake
    <2>9. Told(b)
      BY <1>5, <2>8 DEF Told
    <2>10. Seen(b) /\ HealthArmed(b)
      BY <2>8 DEF Seen, HealthArmed, Awake
    <2>11. Probes!Key(b) = Probes!Key(a) /\ b.remote = a.remote
      BY <1>1, <2>3, <2>6 DEF Probes!Key, Probes!Authority, Kept, Frame
    <2>12. Paused(b)
      BY <1>5, <2>8, <2>11 DEF Paused, Awake
    <2>13. Timed(b)
      BY <1>5, <2>8 DEF Timed, Awake
    <2>14. Owned(b)
      BY <2>4, <2>6, <2>7 DEF Owned
    <2>15. QED BY <1>2, <1>5, <2>6, <2>7, <2>9, <2>10, <2>12, <2>13, <2>14
       DEF Good, b
  <1>6. QED BY <1>4, <1>5

\* While nothing waits to be told, a timer or a round is of what there is.
LEMMA RoundFacts ==
  ASSUME NEW a, Good(a), ~a.queued, a.timer \/ a.round.on
  PROVE  /\ Probes!Eligible(a)
         /\ a.observed = Probes!Key(a)
         /\ Awake(a)
         /\ ~a.suspended
         /\ a.paused = "no"
PROOF
  <1>1. Awake(a) /\ ~a.suspended /\ a.paused = "no" /\ Probed(a.observed)
    BY DEF Good, Timed
  <1>2. a.observed = Probes!Key(a)
    BY <1>1 DEF Good, Seen
  <1>3. QED BY <1>1, <1>2, KeyFacts DEF Good

LEMMA PublishableFacts ==
  ASSUME NEW a, NEW b \in States, Good(a), ~a.queued,
         b.held = a.held, b.asleep = a.asleep, b.needsResume = a.needsResume,
         b.observed = a.observed, b.suspended = a.suspended,
         b.paused = a.paused,
         b.timer = a.timer, b.round = a.round,
         b.queued => ~b.asleep /\ ~(b.busy /\ b.exclusive), Owned(b)
  PROVE  Publishable(b)
PROOF
  <1>1. Paused(b)
    <2> SUFFICES ASSUME Awake(b), b.paused = "gate", ~b.needsResume, b.observed = Probes!Key(b)
                 PROVE  b.remote = "auth_required"
      BY DEF Paused
    <2>1. a.observed = Probes!Key(a) /\ a.remote = "auth_required"
      BY DEF Good, Seen, Paused, Awake
    <2>2. Probes!Key(a)[5]
      BY <2>1, KeyFacts DEF Good
    <2>3. QED BY <2>1, <2>2, KeyFacts
  <1>2. Timed(b)
    BY DEF Good, Timed, Awake
  <1>3. QED BY <1>1, <1>2 DEF Publishable, Good, Told

LEMMA ProbesInit == Probes!Init => ProbesInv
PROOF
  <1> SUFFICES ASSUME Probes!Init PROVE ProbesInv
    OBVIOUS
  <1>1. PICK serving \in BOOLEAN, enabled \in BOOLEAN, cookie \in {0, 1} :
          s = Probes!TokenUpdate([epoch |-> 0, cookie |-> cookie, latest |-> 1,
                                  busy |-> FALSE,
                exclusive |-> FALSE, serving |-> serving, enabled |-> enabled,
                remote |-> "settled", notReady |-> FALSE, owner |-> "none",
                queued |-> TRUE, held |-> FALSE, needsResume |-> FALSE, asleep |-> FALSE,
                timer |-> FALSE, round |-> Probes!NoRound, observed |-> <<>>,
                suspended |-> FALSE, paused |-> "no",
                tokenTimer |-> FALSE, tokenRound |-> Probes!NoRound, tokenObserved |-> <<>>,
                refused |-> 0])
    BY DEF Probes!Init
  <1> DEFINE a == [epoch |-> 0, cookie |-> cookie, latest |-> 1, busy |-> FALSE,
                exclusive |-> FALSE, serving |-> serving, enabled |-> enabled,
                remote |-> "settled", notReady |-> FALSE, owner |-> "none",
                queued |-> TRUE, held |-> FALSE, needsResume |-> FALSE, asleep |-> FALSE,
                timer |-> FALSE, round |-> Probes!NoRound, observed |-> <<>>,
                suspended |-> FALSE, paused |-> "no",
                tokenTimer |-> FALSE, tokenRound |-> Probes!NoRound, tokenObserved |-> <<>>,
                refused |-> 0]
  <1>2. a \in States
    BY NoRoundFacts DEF States, Probes!Remotes, Owners, Pauses
  <1>3. /\ ~a.busy /\ a.remote = "settled" /\ a.queued /\ ~a.held /\ ~a.needsResume
        /\ ~a.asleep /\ ~a.timer /\ ~a.round.on /\ ~a.suspended /\ a.paused = "no"
    BY NoRoundFacts
  <1>4. s = Probes!TokenUpdate(a)
    BY <1>1
  <1> HIDE DEF a
  <1>5. /\ s \in States /\ Tokens(s)
        /\ s.busy = a.busy /\ s.exclusive = a.exclusive
        /\ s.held = a.held /\ s.asleep = a.asleep
        /\ s.needsResume = a.needsResume
        /\ s.suspended = a.suspended /\ s.paused = a.paused
        /\ s.timer = a.timer /\ s.round = a.round
        /\ s.remote = a.remote /\ s.queued = a.queued
    BY <1>2, <1>4, TokenUpdateFacts
  <1>6. QED
    BY <1>3, <1>5 DEF ProbesInv, Good, Told, Seen, Paused, Timed, Owned,
                      HealthArmed

LEMMA BeginKeeps == ASSUME ProbesInv, Probes!Begin PROVE ProbesInv'
PROOF
  <1>1. PICK named \in BOOLEAN, exclusive \in BOOLEAN :
          LET a == [s EXCEPT !.busy = named, !.exclusive = exclusive, !.held = exclusive,
                             !.notReady = FALSE]
          IN  /\ exclusive => named
              /\ \E b \in IF exclusive THEN Probes!Withdrawn(a) ELSE {a} :
                   s' = Probes!Publish(b)
    BY DEF Probes!Begin
  <1> DEFINE a == [s EXCEPT !.busy = named, !.exclusive = exclusive, !.held = exclusive,
                            !.notReady = FALSE]
  <1>2. /\ exclusive => named
        /\ \E b \in IF exclusive THEN Probes!Withdrawn(a) ELSE {a} : s' = Probes!Publish(b)
    BY <1>1
  <1>3. Good(s) /\ s \in States /\ ~s.queued /\ ~s.busy /\ ~s.held
    BY DEF ProbesInv, Good, Told, Probes!Begin
  <1>4. a \in States
    BY <1>3 DEF States
  <1>5. /\ a.asleep = s.asleep /\ a.needsResume = s.needsResume
        /\ a.observed = s.observed /\ a.suspended = s.suspended /\ a.paused = s.paused
        /\ a.timer = s.timer /\ a.round = s.round /\ a.queued = s.queued
        /\ a.remote = s.remote /\ a.owner = s.owner /\ ~a.notReady
        /\ a.epoch = s.epoch /\ a.cookie = s.cookie
        /\ a.busy = named /\ a.exclusive = exclusive /\ a.held = exclusive
    BY <1>3 DEF States
  <1> HIDE DEF a
  <1>6. Owned(a)
    BY <1>3, <1>5 DEF Good, Owned, Probes!Authority
  <1>7. CASE exclusive
    <2>1. PICK b \in Probes!Withdrawn(a) : s' = Probes!Publish(b)
      BY <1>2, <1>7
    <2>2. b \in States /\ Kept(a, b) /\ (b.queued => a.queued \/ Awake(a)) /\ Owned(b)
      BY <1>4, <1>6, WithdrawnFacts
    <2>3. /\ b.asleep = s.asleep /\ b.suspended = s.suspended /\ b.needsResume = s.needsResume
          /\ b.busy /\ b.exclusive /\ ~b.queued
      BY <1>2, <1>3, <1>5, <1>7, <2>2 DEF Kept, Frame, Awake
    <2>4. Publishable(b)
      BY <1>3, <2>2, <2>3 DEF Publishable, Good, Told
    <2>5. QED BY <2>1, <2>4, PublishFacts DEF ProbesInv
  <1>8. CASE ~exclusive
    <2>1. s' = Probes!Publish(a)
      BY <1>2, <1>8
    <2>2. a.held = s.held
      BY <1>3, <1>5, <1>8 DEF States
    <2>3. Publishable(a)
      BY <1>3, <1>4, <1>5, <1>6, <2>2, PublishableFacts
    <2>4. QED BY <2>1, <2>3, PublishFacts DEF ProbesInv
  <1>9. QED BY <1>7, <1>8

LEMMA RescopeKeeps == ASSUME ProbesInv, Probes!Rescope PROVE ProbesInv'
PROOF
  <1> DEFINE c == [s EXCEPT !.epoch = @ + 1, !.owner = "none"]
  <1>1. PICK a \in Probes!Withdrawn(c) : s' = Probes!Publish(a)
    BY DEF Probes!Rescope
  <1>2. Good(s) /\ s \in States /\ ~s.queued
    BY DEF ProbesInv, Good, Probes!Rescope
  <1>3. c \in States
    <2> DEFINE e == s.epoch + 1
    <2>1. e \in Nat /\ "none" \in Owners
      BY <1>2 DEF States, Owners
    <2>2. c = [s EXCEPT !.epoch = e, !.owner = "none"]
      OBVIOUS
    <2> HIDE DEF c, e
    <2>3. QED BY <1>2, <2>1, <2>2 DEF States
  <1>4. /\ c.held = s.held /\ c.asleep = s.asleep /\ c.needsResume = s.needsResume
        /\ c.observed = s.observed /\ c.suspended = s.suspended /\ c.paused = s.paused
        /\ c.timer = s.timer /\ c.round = s.round /\ c.queued = s.queued
        /\ c.busy = s.busy /\ c.exclusive = s.exclusive /\ c.owner = "none"
    BY <1>2 DEF States
  <1> HIDE DEF c
  <1>5. Owned(c)
    BY <1>2, <1>4 DEF Good, Owned
  <1>6. /\ a \in States /\ Kept(c, a) /\ a.timer = c.timer /\ a.round = c.round
        /\ (a.queued => c.queued \/ Awake(c)) /\ Owned(a)
    BY <1>3, <1>5, WithdrawnFacts
  <1>7. /\ a.held = s.held /\ a.asleep = s.asleep /\ a.needsResume = s.needsResume
        /\ a.observed = s.observed /\ a.suspended = s.suspended /\ a.paused = s.paused
        /\ a.timer = s.timer /\ a.round = s.round
    BY <1>4, <1>6 DEF Kept, Frame
  <1>8. a.queued => ~a.asleep /\ ~(a.busy /\ a.exclusive)
    BY <1>2, <1>4, <1>6 DEF Kept, Frame, Awake, Good, Told
  <1>9. Publishable(a)
    BY <1>2, <1>6, <1>7, <1>8, PublishableFacts
  <1>10. QED BY <1>1, <1>9, PublishFacts DEF ProbesInv

LEMMA WorkKeeps == ASSUME ProbesInv, Probes!Work PROVE ProbesInv'
PROOF
  <1>1. Good(s) /\ ~s.queued /\ s \in States /\ Owned(s)
    BY DEF ProbesInv, Good, Probes!Work
  <1>2. ASSUME NEW b \in States,
               b.held = s.held, b.asleep = s.asleep, b.needsResume = s.needsResume,
               b.observed = s.observed, b.suspended = s.suspended, b.paused = s.paused,
               b.timer = s.timer, b.round = s.round, b.queued = s.queued,
               Owned(b),
               s' = Probes!Publish(b)
        PROVE  ProbesInv'
    <2>1. Publishable(b)
      BY <1>1, <1>2, PublishableFacts
    <2>2. QED BY <1>2, <2>1, PublishFacts DEF ProbesInv
  <1>3. CASE s' = Probes!Publish([s EXCEPT !.serving = ~@])
    <2> DEFINE v == ~s.serving
               b == [s EXCEPT !.serving = v]
    <2>1. b \in States
      <3>1. v \in BOOLEAN
        OBVIOUS
      <3> HIDE DEF v
      <3>2. QED BY <1>1, <3>1 DEF States
    <2>2. /\ b.held = s.held /\ b.asleep = s.asleep /\ b.needsResume = s.needsResume
          /\ b.observed = s.observed /\ b.suspended = s.suspended /\ b.paused = s.paused
          /\ b.timer = s.timer /\ b.round = s.round /\ b.queued = s.queued
          /\ b.remote = s.remote /\ b.owner = s.owner /\ b.notReady = s.notReady
          /\ b.epoch = s.epoch /\ b.cookie = s.cookie
      BY <1>1 DEF States
    <2>3. s' = Probes!Publish(b)
      BY <1>3
    <2> HIDE DEF b
    <2>4. Owned(b)
      BY <1>1, <2>2 DEF Owned, Probes!Authority
    <2>5. QED BY <1>2, <2>1, <2>2, <2>3, <2>4
  <1>4. CASE s' = Probes!Publish([s EXCEPT !.enabled = ~@])
    <2> DEFINE v == ~s.enabled
               b == [s EXCEPT !.enabled = v]
    <2>1. b \in States
      <3>1. v \in BOOLEAN
        OBVIOUS
      <3> HIDE DEF v
      <3>2. QED BY <1>1, <3>1 DEF States
    <2>2. /\ b.held = s.held /\ b.asleep = s.asleep /\ b.needsResume = s.needsResume
          /\ b.observed = s.observed /\ b.suspended = s.suspended /\ b.paused = s.paused
          /\ b.timer = s.timer /\ b.round = s.round /\ b.queued = s.queued
          /\ b.remote = s.remote /\ b.owner = s.owner /\ b.notReady = s.notReady
          /\ b.epoch = s.epoch /\ b.cookie = s.cookie
      BY <1>1 DEF States
    <2>3. s' = Probes!Publish(b)
      BY <1>4
    <2> HIDE DEF b
    <2>4. Owned(b)
      BY <1>1, <2>2 DEF Owned, Probes!Authority
    <2>5. QED BY <1>2, <2>1, <2>2, <2>3, <2>4
  <1>5. CASE s' = Probes!Publish([s EXCEPT !.notReady = FALSE])
    <2> DEFINE b == [s EXCEPT !.notReady = FALSE]
    <2>1. b \in States
      BY <1>1 DEF States
    <2>2. /\ b.held = s.held /\ b.asleep = s.asleep /\ b.needsResume = s.needsResume
          /\ b.observed = s.observed /\ b.suspended = s.suspended /\ b.paused = s.paused
          /\ b.timer = s.timer /\ b.round = s.round /\ b.queued = s.queued
          /\ b.remote = s.remote /\ b.owner = s.owner /\ ~b.notReady
          /\ b.epoch = s.epoch /\ b.cookie = s.cookie
      BY <1>1 DEF States
    <2>3. s' = Probes!Publish(b)
      BY <1>5
    <2> HIDE DEF b
    <2>4. Owned(b)
      BY <1>1, <2>2 DEF Owned, Probes!Authority
    <2>5. QED BY <1>2, <2>1, <2>2, <2>3, <2>4
  <1>6. CASE s' = Probes!Publish([s EXCEPT !.remote = "checking", !.owner = "none"])
    <2> DEFINE b == [s EXCEPT !.remote = "checking", !.owner = "none"]
    <2>1. b \in States
      BY <1>1 DEF States, Probes!Remotes, Owners
    <2>2. /\ b.held = s.held /\ b.asleep = s.asleep /\ b.needsResume = s.needsResume
          /\ b.observed = s.observed /\ b.suspended = s.suspended /\ b.paused = s.paused
          /\ b.timer = s.timer /\ b.round = s.round /\ b.queued = s.queued
          /\ b.owner = "none"
      BY <1>1 DEF States
    <2>3. s' = Probes!Publish(b)
      BY <1>6
    <2> HIDE DEF b
    <2>4. Owned(b)
      BY <1>1, <2>2 DEF Owned, Probes!Authority
    <2>5. QED BY <1>2, <2>1, <2>2, <2>3, <2>4
  <1>7. ASSUME NEW r \in {"settled", "auth_required"},
               s' = Probes!Publish([s EXCEPT !.remote = r, !.owner = "none"])
        PROVE  ProbesInv'
    <2> DEFINE b == [s EXCEPT !.remote = r, !.owner = "none"]
    <2>1. b \in States
      BY <1>1 DEF States, Probes!Remotes, Owners
    <2>2. /\ b.held = s.held /\ b.asleep = s.asleep /\ b.needsResume = s.needsResume
          /\ b.observed = s.observed /\ b.suspended = s.suspended /\ b.paused = s.paused
          /\ b.timer = s.timer /\ b.round = s.round /\ b.queued = s.queued
          /\ b.owner = "none"
      BY <1>1 DEF States
    <2>3. s' = Probes!Publish(b)
      BY <1>7
    <2> HIDE DEF b
    <2>4. Owned(b)
      BY <1>1, <2>2 DEF Owned, Probes!Authority
    <2>5. QED BY <1>2, <2>1, <2>2, <2>3, <2>4
  <1>8. QED BY <1>3, <1>4, <1>5, <1>6, <1>7 DEF Probes!Work

LEMMA EndKeeps == ASSUME ProbesInv, Probes!End PROVE ProbesInv'
PROOF
  <1> DEFINE b == [s EXCEPT !.busy = FALSE, !.exclusive = FALSE]
  <1>1. s' = Probes!Publish(b)
    BY DEF Probes!End
  <1>2. b \in States
    BY DEF ProbesInv, Good, States
  <1>3. /\ b.held = s.held /\ b.asleep = s.asleep /\ b.needsResume = s.needsResume
        /\ b.observed = s.observed /\ b.suspended = s.suspended /\ b.paused = s.paused
        /\ b.timer = s.timer /\ b.round = s.round /\ b.queued = s.queued
        /\ b.remote = s.remote /\ b.owner = s.owner /\ b.notReady = s.notReady
        /\ b.epoch = s.epoch /\ b.cookie = s.cookie
    BY DEF ProbesInv, Good, States
  <1> HIDE DEF b
  <1>4. Owned(b)
    BY <1>3 DEF ProbesInv, Good, Owned, Probes!Authority
  <1>5. Publishable(b)
    BY <1>2, <1>3, <1>4, PublishableFacts DEF ProbesInv, Probes!End
  <1>6. QED BY <1>1, <1>5, PublishFacts DEF ProbesInv

LEMMA LoginKeeps == ASSUME ProbesInv, Probes!Login PROVE ProbesInv'
PROOF
  <1> DEFINE b == [s EXCEPT !.latest = @ + 1, !.cookie = s.latest + 1,
                            !.remote = "settled", !.owner = "none"]
  <1>1. s' = Probes!Publish(b)
    BY DEF Probes!Login
  <1>2. b \in States
    <2> DEFINE newest == s.latest + 1
    <2>1. s \in States /\ newest \in Nat /\ "settled" \in Probes!Remotes
          /\ "none" \in Owners
      BY DEF ProbesInv, Good, States, Probes!Remotes, Owners
    <2>2. b = [s EXCEPT !.latest = newest, !.cookie = newest, !.remote = "settled",
                        !.owner = "none"]
      OBVIOUS
    <2> HIDE DEF b, newest
    <2>3. QED BY <2>1, <2>2 DEF States
  <1>3. /\ b.held = s.held /\ b.asleep = s.asleep /\ b.needsResume = s.needsResume
        /\ b.observed = s.observed /\ b.suspended = s.suspended /\ b.paused = s.paused
        /\ b.timer = s.timer /\ b.round = s.round /\ b.queued = s.queued
        /\ b.remote = "settled"
    BY DEF ProbesInv, Good, States
  <1> HIDE DEF b
  <1>4. Owned(b)
    BY <1>3 DEF ProbesInv, Good, Owned
  <1>5. Publishable(b)
    BY <1>2, <1>3, <1>4, PublishableFacts DEF ProbesInv, Probes!Login
  <1>6. QED BY <1>1, <1>5, PublishFacts DEF ProbesInv

LEMMA RevokedKeeps == ASSUME ProbesInv, Probes!Revoked PROVE ProbesInv'
PROOF
  <1> DEFINE b == [s EXCEPT !.cookie = 0, !.remote = "auth_required", !.owner = "none",
                            !.notReady = FALSE, !.busy = TRUE, !.exclusive = FALSE]
  <1>1. s' = Probes!Publish(b)
    BY DEF Probes!Revoked
  <1>2. b \in States
    BY DEF ProbesInv, Good, States, Probes!Remotes, Owners
  <1>3. /\ b.held = s.held /\ b.asleep = s.asleep /\ b.needsResume = s.needsResume
        /\ b.observed = s.observed /\ b.suspended = s.suspended /\ b.paused = s.paused
        /\ b.timer = s.timer /\ b.round = s.round /\ b.queued = s.queued
        /\ b.remote = "auth_required"
    BY DEF ProbesInv, Good, States
  <1> HIDE DEF b
  <1>4. Owned(b)
    BY <1>3 DEF ProbesInv, Good, Owned
  <1>5. Publishable(b)
    BY <1>2, <1>3, <1>4, PublishableFacts DEF ProbesInv, Probes!Revoked
  <1>6. QED BY <1>1, <1>5, PublishFacts DEF ProbesInv

\* A pause that only a change ends.
LEMMA EventPauseFacts ==
  ASSUME NEW a, NEW b \in States, Good(a), ~a.queued,
         Kept(a, b), Silent(a, b), Owned(b), b.queued => Awake(b)
  PROVE  LET c == Probes!Pause(b, "event") IN
         /\ Good(c) /\ Frame(a, c)
         /\ c.suspended = a.suspended /\ c.needsResume = a.needsResume
         /\ c.queued => Awake(c)
         /\ c.paused = "event" /\ ~c.timer /\ ~c.round.on
PROOF
  <1> DEFINE d == [b EXCEPT !.paused = "event"]
             c == Probes!Cancel(d)
  <1>1. Probes!Pause(b, "event") = c
    BY DEF Probes!Pause
  <1>2. d \in States
    BY DEF States, Pauses
  <1>3. /\ Frame(b, d) /\ d.needsResume = b.needsResume /\ d.observed = b.observed
        /\ d.suspended = b.suspended /\ d.paused = "event"
        /\ d.timer = b.timer /\ d.round = b.round
        /\ d.remote = b.remote /\ d.owner = b.owner /\ d.notReady = b.notReady
        /\ d.queued = b.queued
    BY DEF States, Frame
  <1> HIDE DEF d
  <1>4. (Awake(d) <=> Awake(b)) /\ Probes!Authority(d) = Probes!Authority(b)
    BY <1>2, <1>3, FrameFacts
  <1>5. Owned(d)
    BY <1>3, <1>4 DEF Owned
  <1>6. /\ c \in States /\ Kept(d, c) /\ ~c.timer /\ ~c.round.on
        /\ c.queued <=> d.queued \/ (c.remote # d.remote /\ Awake(d))
        /\ c.notReady <=> d.notReady
        /\ Owned(c)
    BY <1>2, <1>5, CancelFacts
  <1> HIDE DEF c
  <1>7. /\ Frame(a, c) /\ c.suspended = a.suspended /\ c.needsResume = a.needsResume
        /\ c.observed = a.observed /\ c.paused = "event"
    BY <1>3, <1>6 DEF Kept, Frame
  <1>8. a \in States
    BY DEF Good
  <1>9. (Awake(c) <=> Awake(a)) /\ (Awake(d) <=> Awake(a)) /\ (Awake(b) <=> Awake(a)) /\ Tokens(c)
    BY <1>6, <1>7, <1>8, <1>3, FrameFacts DEF Good, Awake, Kept, Frame
  <1>10. c.queued => Awake(c)
    BY <1>3, <1>6, <1>9
  <1>11. Told(c)
    BY <1>7, <1>10 DEF Good, Told, Frame, Awake
  <1>12. Seen(c)
    <2> SUFFICES ASSUME Awake(c), ~c.queued PROVE c.observed = Probes!Key(c)
      BY DEF Seen
    <2>1. ~b.queued /\ c.remote = b.remote /\ (c.notReady <=> b.notReady)
      BY <1>3, <1>6, <1>9
    <2>2. b.remote = a.remote /\ (b.notReady <=> a.notReady)
      BY <1>9, <2>1 DEF Silent
    <2>3. Probes!Key(c) = Probes!Key(a)
      BY <1>6, <1>7, <1>8, <2>1, <2>2, FrameFacts
    <2>4. a.observed = Probes!Key(a)
      BY <1>9 DEF Good, Seen
    <2>5. QED BY <1>7, <2>3, <2>4
  <1>13. Paused(c) /\ Timed(c) /\ HealthArmed(c)
    BY <1>6, <1>7 DEF Paused, Timed, HealthArmed
  <1>14. Good(c)
    BY <1>6, <1>9, <1>11, <1>12, <1>13 DEF Good
  <1>15. QED BY <1>1, <1>6, <1>7, <1>10, <1>14

LEMMA StopAskedKeeps == ASSUME ProbesInv, Probes!StopAsked PROVE ProbesInv'
PROOF
  <1>1. PICK a \in Probes!Withdrawn(s) :
          LET b == Probes!Pause(a, "event")
          IN  \/ s' = b
              \/ ~s.exclusive
                 /\ s' = Probes!Publish([b EXCEPT !.busy = TRUE, !.notReady = FALSE])
    BY DEF Probes!StopAsked
  <1> DEFINE b == Probes!Pause(a, "event")
             c == [b EXCEPT !.busy = TRUE, !.notReady = FALSE]
  <1>2. s' = b \/ (~s.exclusive /\ s' = Probes!Publish(c))
    BY <1>1
  <1>3. Good(s) /\ s \in States /\ ~s.queued
    BY DEF ProbesInv, Good, Probes!StopAsked
  <1>4. /\ a \in States /\ Kept(s, a) /\ Silent(s, a) /\ Owned(a)
        /\ a.queued => s.queued \/ Awake(s)
    BY <1>3, WithdrawnFacts DEF Good
  <1>5. a.queued => Awake(a)
    BY <1>3, <1>4 DEF Kept, Frame, Awake
  <1>6. /\ Good(b) /\ Frame(s, b)
        /\ b.suspended = s.suspended /\ b.needsResume = s.needsResume
        /\ b.queued => Awake(b)
        /\ b.paused = "event" /\ ~b.timer /\ ~b.round.on
    BY <1>3, <1>4, <1>5, EventPauseFacts
  <1> HIDE DEF b
  <1>7. CASE s' = b
    BY <1>6, <1>7 DEF ProbesInv
  <1>8. CASE ~s.exclusive /\ s' = Probes!Publish(c)
    <2>1. b \in States /\ Owned(b) /\ Told(b)
      BY <1>6 DEF Good
    <2>2. c \in States
      BY <2>1 DEF States
    <2>3. /\ c.asleep = b.asleep /\ c.exclusive = b.exclusive
          /\ c.suspended = b.suspended /\ c.needsResume = b.needsResume
          /\ c.paused = b.paused /\ c.timer = b.timer /\ c.round = b.round
          /\ c.queued = b.queued /\ c.remote = b.remote /\ c.owner = b.owner /\ ~c.notReady
          /\ c.epoch = b.epoch /\ c.cookie = b.cookie
      BY <2>1 DEF States
    <2> HIDE DEF c
    <2>4. Owned(c)
      BY <2>1, <2>3 DEF Owned, Probes!Authority
    <2>5. Paused(c) /\ Timed(c)
      BY <1>6, <2>3 DEF Paused, Timed
    <2>6. ~c.exclusive
      BY <1>6, <1>8, <2>3 DEF Frame
    <2>7. Publishable(c)
      BY <1>6, <2>1, <2>2, <2>3, <2>4, <2>5, <2>6 DEF Publishable, Told, Awake
    <2>8. QED BY <1>8, <2>7, PublishFacts DEF ProbesInv
  <1>9. QED BY <1>2, <1>7, <1>8

LEMMA RemoteNotReadyKeeps == ASSUME ProbesInv, Probes!RemoteNotReady PROVE ProbesInv'
PROOF
  <1>1. PICK a \in Probes!Withdrawn(s) :
          \E b \in {a, Probes!SetRemote(a, "settled", TRUE, "none")} :
            s' = Probes!Pause(b, "event")
    BY DEF Probes!RemoteNotReady
  <1> DEFINE c == NotReady(a)
  <1>2. s' = Probes!Pause(a, "event") \/ s' = Probes!Pause(c, "event")
    BY <1>1 DEF NotReady
  <1>3. Good(s) /\ s \in States /\ ~s.queued
    BY DEF ProbesInv, Good, Probes!RemoteNotReady
  <1>4. /\ a \in States /\ Kept(s, a) /\ Silent(s, a) /\ Owned(a) /\ a.round = s.round
        /\ a.queued => s.queued \/ Awake(s)
    BY <1>3, WithdrawnFacts DEF Good
  <1>5. /\ a.queued => Awake(a)
        /\ Awake(a) <=> Awake(s)
    BY <1>3, <1>4 DEF Kept, Frame, Awake
  <1>6. CASE s' = Probes!Pause(a, "event")
    BY <1>3, <1>4, <1>5, <1>6, EventPauseFacts DEF ProbesInv
  <1>7. CASE s' = Probes!Pause(c, "event")
    <2>2. /\ c \in States /\ Kept(a, c) /\ c.round = a.round
          /\ c.remote = "settled" /\ c.owner = "none" /\ c.notReady
          /\ c.queued <=> a.queued \/ ((a.remote # "settled" \/ ~a.notReady) /\ Awake(a))
      BY <1>4, NotReadyFacts
    <2> HIDE DEF c
    <2>3. Kept(s, c)
      BY <1>4, <2>2 DEF Kept, Frame
    <2>4. Silent(s, c)
      BY <1>4, <1>5, <2>2 DEF Silent
    <2>5. Owned(c)
      BY <1>4, <2>2 DEF Owned
    <2>6. c.queued => Awake(c)
      BY <1>5, <2>2 DEF Kept, Frame, Awake
    <2>7. QED BY <1>3, <1>7, <2>2, <2>3, <2>4, <2>5, <2>6, EventPauseFacts DEF ProbesInv
  <1>8. QED BY <1>2, <1>6, <1>7

LEMMA MicrotaskKeeps == ASSUME ProbesInv, Probes!Microtask PROVE ProbesInv'
PROOF
  <1> DEFINE a == [s EXCEPT !.queued = FALSE]
             b == Probes!Update(a)
  <1>1. s' = IF s.asleep \/ s.held THEN a
             ELSE IF s.needsResume THEN Probes!Resume([b EXCEPT !.needsResume = FALSE])
             ELSE b
    BY DEF Probes!Microtask
  <1>2. Good(s) /\ s \in States /\ s.queued /\ Told(s) /\ Awake(s)
    BY DEF Probes!Microtask, ProbesInv, Good, Told, Awake
  <1>3. a \in States
    BY <1>2 DEF States
  <1>4. /\ Frame(s, a) /\ a.needsResume = s.needsResume /\ a.observed = s.observed
        /\ a.suspended = s.suspended /\ a.paused = s.paused
        /\ a.timer = s.timer /\ a.round = s.round
        /\ a.remote = s.remote /\ a.owner = s.owner /\ a.notReady = s.notReady
        /\ ~a.queued
    BY <1>2 DEF States, Frame
  <1> HIDE DEF a
  <1>5. /\ Awake(a)
        /\ Probes!Key(a) = Probes!Key(s)
        /\ Probes!Authority(a) = Probes!Authority(s)
        /\ Tokens(a)
    BY <1>2, <1>3, <1>4, FrameFacts DEF Good
  <1>6. Timed(a) /\ Owned(a) /\ Paused(a)
    BY <1>2, <1>4, <1>5 DEF Good, Timed, Owned, Paused
  <1>7. /\ b \in States /\ Frame(a, b)
        /\ b.needsResume = a.needsResume /\ b.suspended = a.suspended
        /\ Seen(b) /\ Paused(b) /\ Timed(b) /\ Owned(b)
        /\ ~a.suspended /\ ~a.needsResume => HealthArmed(b)
    BY <1>3, <1>5, <1>6, UpdateFacts
  <1> HIDE DEF b
  <1>8. Awake(b) /\ Tokens(b)
    BY <1>3, <1>5, <1>7, FrameFacts
  <1>9. b.held <=> b.busy /\ b.exclusive
    BY <1>2, <1>4, <1>7 DEF Told, Frame
  <1>10. CASE ~s.needsResume
    <2>1. s' = b
      BY <1>1, <1>2, <1>10 DEF Awake
    <2>2. ~b.needsResume /\ ~b.suspended /\ HealthArmed(b)
      BY <1>2, <1>4, <1>7, <1>10 DEF Told, Awake
    <2>3. Told(b)
      BY <1>8, <1>9, <2>2 DEF Told, Awake
    <2>4. QED BY <1>7, <1>8, <2>1, <2>2, <2>3 DEF ProbesInv, Good
  <1>11. CASE s.needsResume
    <2> DEFINE c == [b EXCEPT !.needsResume = FALSE]
               d == [c EXCEPT !.suspended = FALSE, !.paused = "no"]
               e == Probes!Update(d)
    <2>1. s' = e
      BY <1>1, <1>2, <1>11 DEF Awake, Probes!Resume
    <2>2. d \in States
      BY <1>7 DEF States, Pauses
    <2>3. /\ Frame(b, d) /\ ~d.needsResume /\ ~d.suspended /\ d.paused = "no"
          /\ d.observed = b.observed /\ d.timer = b.timer /\ d.round = b.round
          /\ d.remote = b.remote /\ d.owner = b.owner /\ d.notReady = b.notReady
      BY <1>7 DEF States, Frame
    <2> HIDE DEF d
    <2>4. Awake(d) /\ Probes!Authority(d) = Probes!Authority(b) /\ Tokens(d)
      BY <1>7, <1>8, <2>2, <2>3, FrameFacts
    <2>5. Timed(d) /\ Owned(d) /\ Paused(d)
      BY <1>7, <2>3, <2>4 DEF Timed, Owned, Paused
    <2>6. /\ e \in States /\ Frame(d, e)
          /\ ~e.needsResume /\ ~e.suspended
          /\ Seen(e) /\ Paused(e) /\ Timed(e) /\ Owned(e) /\ HealthArmed(e)
      BY <2>2, <2>3, <2>4, <2>5, UpdateFacts
    <2> HIDE DEF e
    <2>7. Awake(e) /\ Tokens(e)
      BY <2>2, <2>4, <2>6, FrameFacts
    <2>8. Told(e)
      BY <1>9, <2>3, <2>6, <2>7 DEF Told, Frame, Awake
    <2>9. QED BY <2>1, <2>6, <2>7, <2>8 DEF ProbesInv, Good
  <1>12. QED BY <1>10, <1>11

LEMMA SleepKeeps == ASSUME ProbesInv, Probes!Sleep PROVE ProbesInv'
PROOF
  <1> DEFINE c == [s EXCEPT !.asleep = TRUE]
  <1>1. PICK w \in Probes!Withdrawn(c) :
          s' = Probes!Cancel([w EXCEPT !.suspended = TRUE,
                                       !.tokenTimer = FALSE, !.tokenRound = Probes!NoRound])
    BY DEF Probes!Sleep
  <1> DEFINE a == [w EXCEPT !.suspended = TRUE,
                            !.tokenTimer = FALSE, !.tokenRound = Probes!NoRound]
             b == Probes!Cancel(a)
  <1>2. s' = b
    BY <1>1
  <1>3. Good(s) /\ s \in States /\ ~s.queued
    BY DEF Probes!Sleep, ProbesInv, Good
  <1>4. c \in States
    BY <1>3 DEF States
  <1>5. /\ c.busy = s.busy /\ c.exclusive = s.exclusive /\ c.held = s.held
        /\ c.asleep /\ ~c.queued /\ c.needsResume = s.needsResume
        /\ c.round = s.round /\ c.remote = s.remote /\ c.owner = s.owner
        /\ c.epoch = s.epoch /\ c.cookie = s.cookie /\ c.notReady = s.notReady
    BY <1>3 DEF States
  <1> HIDE DEF c
  <1>6. Owned(c) /\ ~Awake(c)
    BY <1>3, <1>5 DEF Good, Owned, Probes!Authority, Awake
  <1>7. w \in States /\ Kept(c, w) /\ Owned(w) /\ ~w.queued
    BY <1>4, <1>5, <1>6, WithdrawnFacts
  <1>8. a \in States
    BY <1>7, NoRoundFacts DEF States
  <1>9. /\ a.busy = w.busy /\ a.exclusive = w.exclusive /\ a.held = w.held
        /\ a.asleep = w.asleep /\ a.suspended /\ a.queued = w.queued
        /\ a.needsResume = w.needsResume
        /\ ~a.tokenTimer /\ ~a.tokenRound.on
        /\ a.round = w.round /\ a.remote = w.remote /\ a.owner = w.owner
        /\ a.epoch = w.epoch /\ a.cookie = w.cookie /\ a.notReady = w.notReady
    BY <1>7, NoRoundFacts DEF States
  <1> HIDE DEF a
  <1>10. /\ a.busy = s.busy /\ a.exclusive = s.exclusive /\ a.held = s.held /\ a.asleep
         /\ ~a.queued /\ a.needsResume = s.needsResume
    BY <1>5, <1>7, <1>9 DEF Kept, Frame
  <1>11. Owned(a) /\ Tokens(a) /\ ~Awake(a)
    BY <1>7, <1>9, <1>10 DEF Owned, Probes!Authority, Tokens, Awake
  <1>12. /\ b \in States /\ Kept(a, b) /\ ~b.timer /\ ~b.round.on /\ Owned(b)
         /\ b.queued <=> a.queued \/ (b.remote # a.remote /\ Awake(a))
    BY <1>8, <1>11, CancelFacts
  <1> HIDE DEF b
  <1>13. Tokens(b) /\ ~Awake(b)
    BY <1>8, <1>11, <1>12, FrameFacts DEF Kept
  <1>14. Told(b)
    BY <1>3, <1>9, <1>10, <1>11, <1>12 DEF Good, Told, Kept, Frame
  <1>15. b.asleep
    BY <1>10, <1>12 DEF Kept, Frame
  <1>16. Seen(b) /\ Paused(b) /\ Timed(b) /\ HealthArmed(b)
    BY <1>12, <1>13, <1>15 DEF Seen, Paused, Timed, HealthArmed
  <1>17. QED BY <1>2, <1>12, <1>13, <1>14, <1>16 DEF ProbesInv, Good

LEMMA WakeKeeps == ASSUME ProbesInv, Probes!Wake PROVE ProbesInv'
PROOF
  <1> DEFINE a == [s EXCEPT !.asleep = FALSE, !.needsResume = TRUE]
             t == Probes!TokenUpdate(a)
             b == Probes!Queue(t)
  <1>1. s' = b
    BY DEF Probes!Wake
  <1>2. Good(s) /\ s \in States /\ ~s.queued /\ s.asleep
    BY DEF Probes!Wake, ProbesInv, Good
  <1>3. a \in States
    BY <1>2 DEF States
  <1>4. /\ a.busy = s.busy /\ a.exclusive = s.exclusive /\ a.held = s.held
        /\ ~a.asleep /\ ~a.queued /\ a.needsResume
        /\ a.timer = s.timer /\ a.round = s.round
        /\ a.remote = s.remote /\ a.owner = s.owner /\ a.notReady = s.notReady
        /\ a.epoch = s.epoch /\ a.cookie = s.cookie
    BY <1>2 DEF States
  <1> HIDE DEF a
  <1>5. /\ t \in States /\ Tokens(t)
        /\ t.epoch = a.epoch /\ t.cookie = a.cookie
        /\ t.busy = a.busy /\ t.exclusive = a.exclusive
        /\ t.held = a.held /\ t.asleep = a.asleep
        /\ t.needsResume = a.needsResume
        /\ t.timer = a.timer /\ t.round = a.round
        /\ t.remote = a.remote /\ t.owner = a.owner /\ t.notReady = a.notReady
        /\ t.queued = a.queued
    BY <1>3, TokenUpdateFacts
  <1> HIDE DEF t
  <1>6. /\ b \in States /\ Kept(t, b) /\ b.timer = t.timer /\ b.round = t.round
        /\ b.remote = t.remote /\ b.owner = t.owner /\ b.notReady = t.notReady
        /\ b.queued <=> t.queued \/ Awake(t)
    BY <1>5, QueueFacts
  <1> HIDE DEF b
  <1>7. Tokens(b) /\ (Awake(b) <=> Awake(t)) /\ Probes!Authority(b) = Probes!Authority(t)
    BY <1>5, <1>6, FrameFacts DEF Kept
  <1>8. ~s.timer /\ ~s.round.on
    BY <1>2 DEF Good, Timed, Awake
  <1>9. Told(b)
    BY <1>2, <1>4, <1>5, <1>6 DEF Good, Told, Kept, Frame, Awake
  <1>10. b.needsResume /\ (b.queued <=> Awake(b)) /\ ~b.timer /\ ~b.round.on
    BY <1>4, <1>5, <1>6, <1>7, <1>8 DEF Kept
  <1>11. Seen(b) /\ Paused(b) /\ Timed(b)
    BY <1>10 DEF Seen, Paused, Timed
  <1>12. HealthArmed(b)
    BY <1>9, <1>10 DEF HealthArmed, Told, Awake, Probes!Eligible
  <1>13. Owned(b)
    BY <1>2, <1>4, <1>5, <1>6, <1>8 DEF Good, Owned
  <1>14. QED BY <1>1, <1>6, <1>7, <1>9, <1>11, <1>12, <1>13
     DEF ProbesInv, Good

LEMMA HealthTimerKeeps == ASSUME ProbesInv, Probes!HealthTimer PROVE ProbesInv'
PROOF
  <1> DEFINE a == [s EXCEPT !.timer = FALSE]
             round == [on |-> TRUE, key |-> Probes!Key(a),
                      authority |-> Probes!Authority(a),
                       previous |-> a.remote, owner |-> a.owner]
             c == [a EXCEPT !.round = round]
             d == Replaced(c, "checking", "health")
  <1>1. s' = IF ~Probes!Eligible(a) \/ Probes!Key(a) # a.observed THEN Probes!Update(a)
             ELSE d
    BY DEF Probes!HealthTimer, Replaced
  <1>2. Good(s) /\ s \in States /\ ~s.queued /\ s.timer
    BY DEF Probes!HealthTimer, ProbesInv, Good
  <1>3. /\ Probes!Eligible(s)
        /\ s.observed = Probes!Key(s)
        /\ Awake(s)
        /\ ~s.suspended
        /\ s.paused = "no"
    BY <1>2, RoundFacts
  <1>4. a \in States
    BY <1>2 DEF States
  <1>5. /\ Kept(s, a) /\ ~a.timer /\ a.remote = s.remote /\ a.owner = s.owner
        /\ a.notReady = s.notReady /\ a.queued = s.queued
    BY <1>2 DEF States, Kept, Frame
  <1> HIDE DEF a
  <1>6. /\ Probes!Key(a) = Probes!Key(s)
        /\ Probes!Authority(a) = Probes!Authority(s)
        /\ Probes!Eligible(a)
        /\ Tokens(a)
    BY <1>2, <1>3, <1>4, <1>5, FrameFacts DEF Kept, Good
  <1>7. s' = d
    BY <1>1, <1>3, <1>5, <1>6 DEF Kept
  <1>8. round \in Rounds /\ round.on
    <2>1. Probes!Key(a) \in Keys /\ Probes!Authority(a) \in Nat \X Nat
      BY <1>4, KeyFacts
    <2>2. a.remote \in Probes!Remotes /\ a.owner \in Owners
      BY <1>4 DEF States
    <2>3. QED BY <2>1, <2>2 DEF Rounds
  <1>9. /\ round.key = Probes!Key(s) /\ round.authority = Probes!Authority(s)
        /\ round.previous = s.remote /\ round.owner = s.owner
    BY <1>5, <1>6
  <1> HIDE DEF round
  <1>10. /\ c \in States /\ Kept(a, c) /\ ~c.timer /\ c.round = round
         /\ c.remote = s.remote /\ c.notReady = s.notReady /\ c.queued = s.queued
    BY <1>4, <1>5, <1>8 DEF States, Kept, Frame
  <1> HIDE DEF c
  <1>11. /\ d \in States /\ Kept(c, d) /\ d.timer = c.timer /\ d.round = c.round
         /\ d.remote = "checking" /\ d.owner = "health" /\ ~d.notReady
         /\ d.queued <=> c.queued \/ (("checking" # c.remote \/ c.notReady) /\ Awake(c))
    <2>1. "checking" \in Probes!Remotes /\ "health" \in Owners
      BY DEF Probes!Remotes, Owners
    <2>2. QED BY <1>10, <2>1, ReplacedFacts
  <1> HIDE DEF d
  <1>12. Kept(s, d)
    BY <1>5, <1>10, <1>11 DEF Kept, Frame
  <1>13. /\ Probes!Key(d) = Probes!Key(s) /\ Probes!Authority(d) = Probes!Authority(s)
         /\ Awake(d) /\ Tokens(d)
    <2>1. s.remote # "auth_required" /\ ~s.notReady
      BY <1>3 DEF Probes!Eligible
    <2>2. QED BY <1>2, <1>3, <1>11, <1>12, <2>1, FrameFacts DEF Kept, Good
  <1>14. Told(d)
    BY <1>2, <1>12, <1>13 DEF Good, Told, Kept, Frame, Awake
  <1>15. Seen(d) /\ Paused(d) /\ HealthArmed(d)
    BY <1>3, <1>8, <1>10, <1>11, <1>12, <1>13 DEF Seen, Paused, HealthArmed,
                                                  Kept
  <1>16. Timed(d)
    <2>1. /\ Probed(Probes!Key(s))
          /\ Probes!Key(s) # <<>>
          /\ Probes!Key(s)[1] = Probes!Authority(s)
      BY <1>2, <1>3, KeyFacts
    <2>2. QED
      BY <1>3, <1>8, <1>9, <1>10, <1>11, <1>12, <1>13, <2>1 DEF Timed, Kept
  <1>17. Owned(d)
    <2>1. ~(s.remote = "checking" /\ s.owner = "health")
      BY <1>2 DEF Good, Owned, Timed
    <2>2. QED BY <1>8, <1>9, <1>10, <1>11, <1>13, <2>1 DEF Owned
  <1>18. QED BY <1>7, <1>11, <1>13, <1>14, <1>15, <1>16, <1>17
     DEF ProbesInv, Good

LEMMA HealthFinishKeeps == ASSUME ProbesInv, Probes!HealthFinish PROVE ProbesInv'
PROOF
  <1> DEFINE stands == ~s.suspended /\ s.paused = "no" /\ Probes!Eligible(s)
                         /\ s.round.key = Probes!Key(s)
             a == [s EXCEPT !.round = Probes!NoRound]
             c == Replaced(a, "settled", "none")
             d == Probes!Update(c)
  <1>1. s' = Probes!Update(IF stands THEN c ELSE a)
    BY DEF Probes!HealthFinish, Replaced
  <1>2. Good(s) /\ s \in States /\ ~s.queued /\ s.round.on
    BY DEF Probes!HealthFinish, ProbesInv, Good
  <1>3. /\ Probes!Eligible(s)
        /\ s.observed = Probes!Key(s)
        /\ Awake(s)
        /\ ~s.suspended
        /\ s.paused = "no"
    BY <1>2, RoundFacts
  <1>4. stands
    BY <1>2, <1>3 DEF Good, Timed
  <1>5. s' = d
    BY <1>1, <1>4
  <1>6. a \in States
    BY <1>2, NoRoundFacts DEF States
  <1>7. Kept(s, a) /\ a.timer = s.timer /\ ~a.round.on
    BY <1>2, NoRoundFacts DEF States, Kept, Frame
  <1> HIDE DEF a
  <1>8. /\ c \in States /\ Kept(a, c) /\ c.timer = a.timer /\ c.round = a.round
        /\ c.remote = "settled" /\ ~c.notReady
    <2>1. "settled" \in Probes!Remotes /\ "none" \in Owners
      BY DEF Probes!Remotes, Owners
    <2>2. QED BY <1>6, <2>1, ReplacedFacts
  <1> HIDE DEF c
  <1>9. Kept(s, c)
    BY <1>7, <1>8 DEF Kept, Frame
  <1>10. Awake(c) /\ Tokens(c)
    BY <1>2, <1>3, <1>8, <1>9, FrameFacts DEF Kept, Good
  <1>11. ~c.timer /\ ~c.round.on /\ c.paused = "no" /\ ~c.suspended /\ ~c.needsResume
    BY <1>2, <1>3, <1>7, <1>8, <1>9 DEF Good, Told, Timed, Awake, Kept
  <1>12. Timed(c) /\ Owned(c) /\ Paused(c)
    BY <1>8, <1>11 DEF Timed, Owned, Paused
  <1>13. /\ d \in States /\ Frame(c, d) /\ ~d.needsResume /\ ~d.suspended
         /\ Seen(d) /\ Paused(d) /\ Timed(d) /\ Owned(d) /\ HealthArmed(d)
    BY <1>8, <1>10, <1>11, <1>12, UpdateFacts
  <1> HIDE DEF d
  <1>14. Awake(d) /\ Tokens(d)
    BY <1>8, <1>10, <1>13, FrameFacts
  <1>15. Told(d)
    BY <1>2, <1>9, <1>13, <1>14 DEF Good, Told, Frame, Kept, Awake
  <1>16. QED BY <1>5, <1>13, <1>14, <1>15 DEF ProbesInv, Good

\* All but the token service is well.
Sound(a) ==
  /\ a \in States
  /\ Told(a) /\ Seen(a) /\ Paused(a) /\ Timed(a) /\ Owned(a) /\ HealthArmed(a)

LEMMA SoundFacts ==
  ASSUME NEW a, NEW b \in States, Sound(a),
         b.epoch = a.epoch, b.cookie = a.cookie,
         b.busy = a.busy, b.exclusive = a.exclusive,
         b.serving = a.serving, b.enabled = a.enabled,
         b.held = a.held, b.asleep = a.asleep,
         b.needsResume = a.needsResume, b.observed = a.observed,
         b.suspended = a.suspended, b.paused = a.paused,
         b.timer = a.timer, b.round = a.round,
         b.remote = a.remote, b.owner = a.owner, b.notReady = a.notReady,
         b.queued = a.queued
  PROVE  Sound(b)
PROOF
  <1>1. Probes!Key(b) = Probes!Key(a) /\ Probes!Authority(b) = Probes!Authority(a)
          /\ (Awake(b) <=> Awake(a))
        /\ (Probes!Eligible(b) <=> Probes!Eligible(a))
    BY DEF Probes!Key, Probes!Authority, Awake, Probes!Eligible
  <1>2. Told(b) /\ Seen(b) /\ Paused(b)
    BY <1>1 DEF Sound, Told, Seen, Paused
  <1>3. Timed(b) /\ Owned(b) /\ HealthArmed(b)
    BY <1>1 DEF Sound, Timed, Owned, HealthArmed
  <1>4. QED BY <1>2, <1>3 DEF Sound

LEMMA TokenUpdateKeeps ==
  ASSUME NEW a, Sound(a)
  PROVE  Good(Probes!TokenUpdate(a))
PROOF
  <1> DEFINE b == Probes!TokenUpdate(a)
  <1>1. /\ b \in States /\ Tokens(b)
        /\ b.epoch = a.epoch /\ b.cookie = a.cookie /\ b.latest = a.latest
        /\ b.busy = a.busy /\ b.exclusive = a.exclusive
        /\ b.serving = a.serving /\ b.enabled = a.enabled
        /\ b.held = a.held /\ b.asleep = a.asleep
        /\ b.needsResume = a.needsResume /\ b.observed = a.observed
        /\ b.suspended = a.suspended /\ b.paused = a.paused
        /\ b.timer = a.timer /\ b.round = a.round
        /\ b.remote = a.remote /\ b.owner = a.owner /\ b.notReady = a.notReady
         /\ b.queued = a.queued
    BY TokenUpdateFacts DEF Sound
  <1> HIDE DEF b
  <1>2. Sound(b)
    BY <1>1, SoundFacts
  <1>3. QED BY <1>1, <1>2 DEF Sound, Good, b

LEMMA TokenTimerKeeps == ASSUME ProbesInv, Probes!TokenTimer PROVE ProbesInv'
PROOF
  <1> DEFINE a == [s EXCEPT !.tokenTimer = FALSE]
             round == [on |-> TRUE, key |-> Probes!TokenKey(a)]
             b == [a EXCEPT !.tokenRound = round]
  <1>1. s' = IF Probes!TokenKey(a) # a.tokenObserved THEN Probes!TokenUpdate(a) ELSE b
    BY DEF Probes!TokenTimer
  <1>2. Good(s) /\ Sound(s) /\ s \in States /\ s.tokenTimer
    BY DEF Probes!TokenTimer, ProbesInv, Good, Sound
  <1>3. ~s.asleep /\ s.tokenObserved = Probes!TokenKey(s)
    BY <1>2 DEF Good, Tokens
  <1>4. a \in States
    BY <1>2 DEF States
  <1>5. /\ a.epoch = s.epoch /\ a.cookie = s.cookie
        /\ a.busy = s.busy /\ a.exclusive = s.exclusive
        /\ a.serving = s.serving /\ a.enabled = s.enabled
        /\ a.held = s.held /\ a.asleep = s.asleep
        /\ a.needsResume = s.needsResume /\ a.observed = s.observed
        /\ a.suspended = s.suspended /\ a.paused = s.paused
        /\ a.timer = s.timer /\ a.round = s.round
        /\ a.remote = s.remote /\ a.owner = s.owner /\ a.notReady = s.notReady
        /\ a.queued = s.queued
        /\ a.tokenObserved = s.tokenObserved
    BY <1>2 DEF States
  <1> HIDE DEF a
  <1>6. Probes!TokenKey(a) = Probes!TokenKey(s)
    BY <1>5 DEF Probes!TokenKey, Probes!TokenEligible
  <1>7. round \in TokenRounds /\ round.on
    BY <1>4, KeyFacts DEF TokenRounds
  <1> HIDE DEF round
  <1>8. /\ b \in States /\ b.tokenRound = round
        /\ b.epoch = s.epoch /\ b.cookie = s.cookie
        /\ b.busy = s.busy /\ b.exclusive = s.exclusive
        /\ b.serving = s.serving /\ b.enabled = s.enabled
        /\ b.held = s.held /\ b.asleep = s.asleep
        /\ b.needsResume = s.needsResume /\ b.observed = s.observed
        /\ b.suspended = s.suspended /\ b.paused = s.paused
        /\ b.timer = s.timer /\ b.round = s.round
        /\ b.remote = s.remote /\ b.owner = s.owner /\ b.notReady = s.notReady
        /\ b.queued = s.queued
        /\ b.tokenObserved = s.tokenObserved
    BY <1>4, <1>5, <1>7 DEF States
  <1> HIDE DEF b
  <1>9. s' = b
    BY <1>1, <1>3, <1>5, <1>6
  <1>10. Sound(b)
    BY <1>2, <1>8, SoundFacts
  <1>11. Tokens(b)
    BY <1>3, <1>7, <1>8 DEF Tokens, Probes!TokenKey, Probes!TokenEligible
  <1>12. QED BY <1>9, <1>10, <1>11 DEF ProbesInv, Good, Sound

\* A token that is refused pauses the health service until something changes.
LEMMA RefusalKeeps ==
  ASSUME NEW a, Sound(a), ~a.queued, NEW w \in Probes!Withdrawn(a)
  PROVE  Sound(Probes!SetRemote(Probes!Pause([w EXCEPT !.refused = w.cookie], "gate"),
                                "auth_required", FALSE, "none"))
PROOF
  <1> DEFINE v == [w EXCEPT !.refused = w.cookie]
             b == [v EXCEPT !.paused = "gate"]
             c == Probes!Cancel(b)
             d == Replaced(c, "auth_required", "none")
  <1>1. /\ a \in States /\ w \in States /\ Kept(a, w) /\ Silent(a, w) /\ Owned(w)
        /\ w.queued => Awake(a)
    BY WithdrawnFacts DEF Sound
  <1>2. b \in States
    BY <1>1 DEF States, Pauses
  <1>3. /\ b.epoch = w.epoch /\ b.cookie = w.cookie
        /\ b.busy = w.busy /\ b.exclusive = w.exclusive
        /\ b.serving = w.serving /\ b.enabled = w.enabled
        /\ b.held = w.held /\ b.asleep = w.asleep
        /\ b.needsResume = w.needsResume /\ b.observed = w.observed
        /\ b.suspended = w.suspended
        /\ b.timer = w.timer /\ b.round = w.round
        /\ b.remote = w.remote /\ b.owner = w.owner /\ b.notReady = w.notReady
        /\ b.queued = w.queued
    BY <1>1 DEF States
  <1>4. d = Probes!SetRemote(Probes!Pause(v, "gate"), "auth_required", FALSE, "none")
    BY DEF Probes!Pause, Replaced
  <1> HIDE DEF b
  <1>5. Owned(b)
    BY <1>1, <1>3 DEF Owned, Probes!Authority
  <1>6. /\ c \in States /\ Kept(b, c) /\ ~c.timer /\ ~c.round.on
        /\ c.queued <=> b.queued \/ (c.remote # b.remote /\ Awake(b))
        /\ c.notReady <=> b.notReady
    BY <1>2, CancelFacts
  <1> HIDE DEF c
  <1>7. /\ d \in States /\ Kept(c, d) /\ d.timer = c.timer /\ d.round = c.round
        /\ d.remote = "auth_required" /\ d.owner = "none" /\ ~d.notReady
        /\ d.queued <=> c.queued \/ (("auth_required" # c.remote \/ c.notReady) /\ Awake(c))
    <2>1. "auth_required" \in Probes!Remotes /\ "none" \in Owners
      BY DEF Probes!Remotes, Owners
    <2>2. QED BY <1>6, <2>1, ReplacedFacts
  <1> HIDE DEF d
  <1>8. /\ d.epoch = a.epoch /\ d.cookie = a.cookie
        /\ d.busy = a.busy /\ d.exclusive = a.exclusive
        /\ d.serving = a.serving /\ d.enabled = a.enabled
        /\ d.held = a.held /\ d.asleep = a.asleep
        /\ d.needsResume = a.needsResume /\ d.observed = a.observed
        /\ d.suspended = a.suspended
    BY <1>1, <1>3, <1>6, <1>7 DEF Kept, Frame
  <1>9. /\ Awake(b) <=> Awake(a)
        /\ Awake(c) <=> Awake(a)
        /\ Awake(d) <=> Awake(a)
    BY <1>1, <1>3, <1>6, <1>7 DEF Awake, Kept, Frame
  <1>10. Told(d)
    <2>1. d.queued => Awake(a)
      BY <1>1, <1>3, <1>6, <1>7, <1>9
    <2>2. QED BY <1>8, <2>1 DEF Sound, Told, Awake
  <1>11. Seen(d)
    <2> SUFFICES ASSUME Awake(d), ~d.queued PROVE d.observed = Probes!Key(d)
      BY DEF Seen
    <2>1. ~w.queued /\ d.remote = w.remote /\ (d.notReady <=> w.notReady)
      BY <1>3, <1>6, <1>7, <1>9
    <2>2. d.remote = a.remote /\ (d.notReady <=> a.notReady)
      BY <1>9, <1>1, <2>1 DEF Silent
    <2>3. d.notReady = a.notReady
      BY <1>1, <1>7, <2>2 DEF States
    <2>4. Probes!Key(d) = Probes!Key(a)
      BY <1>8, <2>2, <2>3 DEF Probes!Key, Probes!Authority
    <2>5. QED BY <1>8, <1>9, <2>4 DEF Sound, Seen
  <1>12. Paused(d) /\ HealthArmed(d)
    BY <1>7 DEF Paused, HealthArmed, Probes!Eligible
  <1>13. Timed(d) /\ Owned(d)
    BY <1>6, <1>7 DEF Timed, Owned
  <1>14. QED BY <1>4, <1>7, <1>10, <1>11, <1>12, <1>13 DEF Sound

\* What somebody else shows leaves the health service as it is until it is told.
LEMMA ShownKeeps ==
  ASSUME NEW a, Sound(a), ~a.queued, NEW r \in Probes!Remotes, NEW n \in BOOLEAN
  PROVE  LET b == Probes!SetRemote(a, r, n, "none") IN Sound(b) /\ Frame(a, b)
PROOF
  <1> DEFINE b == Probes!SetRemote(a, r, n, "none")
  <1>1. /\ a \in States /\ b \in States /\ Kept(a, b) /\ b.timer = a.timer
        /\ b.round = a.round
        /\ b.remote = r /\ b.owner = "none" /\ (b.notReady <=> n)
        /\ b.queued <=> a.queued \/ ((r # a.remote \/ ~(n <=> a.notReady)) /\ Awake(a))
    <2>1. "none" \in Owners /\ a \in States
      BY DEF Owners, Sound
    <2>2. QED BY <2>1, SetRemoteFacts
  <1> HIDE DEF b
  <1>2. (Awake(b) <=> Awake(a)) /\ Probes!Authority(b) = Probes!Authority(a)
    BY <1>1, FrameFacts DEF Kept
  <1>3. Told(b)
    BY <1>1, <1>2 DEF Sound, Told, Kept, Frame, Awake
  <1>4. Awake(a) /\ ~b.queued => a.remote = b.remote /\ (a.notReady <=> b.notReady)
    BY <1>1
  <1>5. a.remote = b.remote /\ (a.notReady <=> b.notReady) =>
          Probes!Key(b) = Probes!Key(a) /\ (Probes!Eligible(b) <=> Probes!Eligible(a))
    BY <1>1, FrameFacts DEF Kept
  <1>6. Seen(b)
    BY <1>1, <1>2, <1>4, <1>5 DEF Sound, Seen, Kept
  <1>7. Paused(b)
    <2> SUFFICES ASSUME Awake(b), b.paused = "gate", ~b.needsResume, b.observed = Probes!Key(b)
                 PROVE  b.remote = "auth_required"
      BY DEF Paused
    <2>1. a.observed = Probes!Key(a) /\ a.remote = "auth_required"
      BY <1>1, <1>2 DEF Sound, Seen, Paused, Kept
    <2>2. Probes!Key(a)[5]
      BY <1>1, <2>1, KeyFacts
    <2>3. Probes!Key(b) = Probes!Key(a)
      BY <1>1, <2>1 DEF Kept
    <2>4. QED BY <1>1, <2>2, <2>3, KeyFacts
  <1>8. Timed(b)
    BY <1>1, <1>2 DEF Sound, Timed, Kept
  <1>9. Owned(b)
    BY <1>1 DEF Sound, Owned
  <1>10. HealthArmed(b)
    <2> SUFFICES ASSUME ~b.queued, ~b.asleep, Probes!Eligible(b)
                 PROVE  b.timer \/ b.round.on \/ b.paused = "event"
      BY DEF HealthArmed
    <2>1. ~b.held
      BY <1>3 DEF Told, Probes!Eligible
    <2>2. Awake(a) /\ ~a.asleep
      BY <1>2, <2>1 DEF Awake
    <2>3. Probes!Eligible(a)
      BY <1>4, <1>5, <2>2
    <2>4. QED BY <1>1, <2>2, <2>3 DEF Sound, HealthArmed, Kept
  <1>11. Sound(b)
    BY <1>1, <1>3, <1>6, <1>7, <1>8, <1>9, <1>10 DEF Sound
  <1>12. QED BY <1>1, <1>11 DEF Kept, b

LEMMA RecoveryKeeps == ASSUME ProbesInv, Probes!Recovery PROVE ProbesInv'
PROOF
  <1>1. PICK r \in Probes!Remotes, n \in BOOLEAN : s' = Probes!SetRemote(s, r, n, "none")
    BY DEF Probes!Recovery, Probes!Found, Probes!Remotes
  <1> DEFINE b == Probes!SetRemote(s, r, n, "none")
  <1>2. Sound(s) /\ ~s.queued /\ s \in States /\ Tokens(s)
    BY DEF Probes!Recovery, ProbesInv, Good, Sound
  <1>3. Sound(b) /\ Frame(s, b)
    BY <1>2, ShownKeeps
  <1> HIDE DEF b
  <1>4. b \in States
    BY <1>3 DEF Sound
  <1>5. Tokens(b)
    BY <1>2, <1>3, <1>4, FrameFacts
  <1>6. QED BY <1>1, <1>3, <1>5 DEF ProbesInv, Good, Sound, b

LEMMA TokenAnswerKeeps ==
  ASSUME ProbesInv, NEW verdict \in {"valid", "invalid", "network_error"},
         Probes!TokenAnswer(verdict)
  PROVE  ProbesInv'
PROOF
  <1> DEFINE current == s.tokenRound.key = Probes!TokenKey(s)
             Refusals == {Probes!SetRemote(Probes!Pause([w EXCEPT !.refused = w.cookie], "gate"),
                                           "auth_required", FALSE, "none")
                            : w \in Probes!Withdrawn(s)}
             error == Probes!SetRemote(s, "settled", FALSE, "none")
             Shown == CASE ~current \/ verdict = "valid" -> {s}
                        [] current /\ verdict = "invalid" -> Refusals
                        [] current /\ verdict = "network_error" -> {error}
  <1>1. PICK a \in Shown : s' = Probes!TokenUpdate([a EXCEPT !.tokenRound = Probes!NoRound])
    BY DEF Probes!TokenAnswer
  <1> DEFINE b == [a EXCEPT !.tokenRound = Probes!NoRound]
  <1>2. Sound(s) /\ ~s.queued
    BY DEF Probes!TokenAnswer, ProbesInv, Good, Sound
  <1>3. ASSUME NEW x \in Refusals PROVE Sound(x)
    <2>1. PICK w \in Probes!Withdrawn(s) :
            x = Probes!SetRemote(Probes!Pause([w EXCEPT !.refused = w.cookie], "gate"),
                                 "auth_required", FALSE, "none")
      BY <1>3
    <2>2. QED BY <1>2, <2>1, RefusalKeeps
  <1>4. Sound(error)
    <2>1. "settled" \in Probes!Remotes /\ FALSE \in BOOLEAN
      BY DEF Probes!Remotes
    <2>2. QED BY <1>2, <2>1, ShownKeeps
  <1>5. Sound(a)
    <2>1. a \in Shown
      BY <1>1
    <2> HIDE DEF current, Refusals, error
    <2>2. CASE ~current \/ verdict = "valid"
      BY <1>2, <2>1, <2>2
    <2>3. CASE current /\ verdict = "invalid"
      BY <1>3, <2>1, <2>3
    <2>4. CASE current /\ verdict = "network_error"
      BY <1>4, <2>1, <2>4
    <2>5. QED BY <2>2, <2>3, <2>4
  <1>6. b \in States
    BY <1>5, NoRoundFacts DEF Sound, States
  <1>7. /\ b.epoch = a.epoch /\ b.cookie = a.cookie
        /\ b.busy = a.busy /\ b.exclusive = a.exclusive
        /\ b.serving = a.serving /\ b.enabled = a.enabled
        /\ b.held = a.held /\ b.asleep = a.asleep
        /\ b.needsResume = a.needsResume /\ b.observed = a.observed
        /\ b.suspended = a.suspended /\ b.paused = a.paused
        /\ b.timer = a.timer /\ b.round = a.round
        /\ b.remote = a.remote /\ b.owner = a.owner /\ b.notReady = a.notReady
        /\ b.queued = a.queued
    BY <1>5 DEF Sound, States
  <1>8. s' = Probes!TokenUpdate(b)
    BY <1>1
  <1> HIDE DEF b, Shown
  <1>9. Sound(b)
    BY <1>5, <1>6, <1>7, SoundFacts
  <1>10. QED BY <1>8, <1>9, TokenUpdateKeeps DEF ProbesInv

LEMMA ProbesStep == ProbesInv /\ [Probes!Next]_(Probes!vars) => ProbesInv'
PROOF
  <1> SUFFICES ASSUME ProbesInv, [Probes!Next]_(Probes!vars) PROVE ProbesInv'
    OBVIOUS
  <1>1. CASE Probes!Begin BY <1>1, BeginKeeps
  <1>2. CASE Probes!Rescope BY <1>2, RescopeKeeps
  <1>3. CASE Probes!Work BY <1>3, WorkKeeps
  <1>4. CASE Probes!End BY <1>4, EndKeeps
  <1>5. CASE Probes!StopAsked BY <1>5, StopAskedKeeps
  <1>6. CASE Probes!Login BY <1>6, LoginKeeps
  <1>7. CASE Probes!Revoked BY <1>7, RevokedKeeps
  <1>8. CASE Probes!Microtask BY <1>8, MicrotaskKeeps
  <1>9. CASE Probes!Sleep BY <1>9, SleepKeeps
  <1>10. CASE Probes!Wake BY <1>10, WakeKeeps
  <1>11. CASE Probes!RemoteNotReady BY <1>11, RemoteNotReadyKeeps
  <1>12. CASE Probes!Recovery BY <1>12, RecoveryKeeps
  <1>13. CASE Probes!HealthTimer BY <1>13, HealthTimerKeeps
  <1>14. CASE Probes!HealthFinish BY <1>14, HealthFinishKeeps
  <1>15. CASE Probes!TokenTimer BY <1>15, TokenTimerKeeps
  <1>16. CASE \E verdict \in {"valid", "invalid", "network_error"} : Probes!TokenAnswer(verdict)
    BY <1>16, TokenAnswerKeeps
  <1>17. CASE UNCHANGED Probes!vars
    BY <1>17 DEF ProbesInv, Probes!vars
  <1>18. QED
    BY <1>1, <1>2, <1>3, <1>4, <1>5, <1>6, <1>7, <1>8, <1>9, <1>10, <1>11, <1>12, <1>13,
       <1>14, <1>15, <1>16, <1>17
    DEF Probes!Next

LEMMA ProbesArmed == ProbesInv => Probes!ProbesKeepOn
PROOF
  <1> SUFFICES ASSUME ProbesInv PROVE Probes!ProbesKeepOn
    OBVIOUS
  <1>1. s \in States /\ Good(s)
    BY DEF ProbesInv, Good
  <1>2. Probes!Armed
    <2> SUFFICES ASSUME ~s.queued, ~s.asleep
                 PROVE  /\ Probes!Eligible(s) =>
                             \/ s.timer \/ s.round.on
                             \/ s.paused = "event" /\ s.observed = Probes!Key(s)
                        /\ Probes!TokenEligible(s) /\ s.refused # s.cookie =>
                             s.tokenTimer \/ s.tokenRound.on
      BY DEF Probes!Armed
    <2>1. ASSUME Probes!Eligible(s)
          PROVE  \/ s.timer \/ s.round.on
                 \/ s.paused = "event" /\ s.observed = Probes!Key(s)
      <3>1. ~s.held
        BY <1>1, <2>1 DEF Good, Told, Probes!Eligible
      <3>2. s.observed = Probes!Key(s)
        BY <1>1, <3>1 DEF Good, Seen, Awake
      <3>3. s.timer \/ s.round.on \/ s.paused = "event"
        BY <1>1, <2>1 DEF Good, HealthArmed
      <3>4. QED BY <3>2, <3>3
    <2>2. Probes!TokenEligible(s) /\ s.refused # s.cookie => s.tokenTimer \/ s.tokenRound.on
      BY <1>1 DEF Good, Tokens
    <2>3. QED BY <2>1, <2>2
  <1>3. ASSUME ~s.queued, s.notReady \/ s.paused # "no" PROVE ~s.timer /\ ~s.round.on
    <2> SUFFICES ASSUME s.timer \/ s.round.on PROVE FALSE
      OBVIOUS
    <2>1. Probes!Eligible(s) /\ s.paused = "no"
      BY <1>1, <1>3, RoundFacts
    <2>2. QED BY <1>3, <2>1 DEF Probes!Eligible
  <1>4. s.remote = "checking" /\ s.owner = "health" => s.round.on
    BY <1>1 DEF Good, Owned
  <1>5. QED BY <1>2, <1>3, <1>4 DEF Probes!ProbesKeepOn

LEMMA ProbesHold == Probes!Spec => []Probes!ProbesKeepOn
PROOF BY ProbesInit, ProbesStep, ProbesArmed, PTL DEF Probes!Spec
-----------------------------------------------------------------------------
(* The block in the SSH configuration (SshConfig).                         *)

Words == Aliases \cup {"other", "more"}
Files ==
  {Config!Absent, Config!Malformed}
    \cup {Config!Text(before, block, after) :
            before \in Seq(Words), block \in Config!Configs \cup {Config!Empty},
            after \in Seq(Words)}

\* A write under way is of what was shown, which is what the file holds unless
\* another program wrote it meanwhile; before the file is replaced its backup is
\* durable.
Confirmed ==
  job # Config!Empty =>
    /\ job.source \in Files /\ job.config \in Config!Configs
    /\ shown = [source |-> job.source, config |-> job.config]
    /\ Config!Usable(job.source, job.config)
    /\ job.raced \/ file = job.source
    /\ job.step = "backup" \/ job.source = Config!Absent
         \/ (backup = job.source /\ kept = job.source)

ConfigInv == saved \in Config!Configs /\ file \in Files /\ fileStable \in Files /\ Confirmed

LEMMA FileFacts ==
  /\ Config!Absent \in Files /\ Config!Theirs \subseteq Files
  /\ \A content \in Files :
       content.kind = "invalid" \/ Config!Foreign(content) \in Seq(Words)
  /\ \A chosen \in Config!Configs : chosen # Config!Empty
PROOF
  <1>1. Config!Absent \in Files /\ Config!Malformed \in Files
    BY DEF Files
  <1>2. \A word \in Words, more \in Words :
          <<>> \in Seq(Words) /\ <<word>> \in Seq(Words) /\ <<word, more>> \in Seq(Words)
    OBVIOUS
  <1>3. "other" \in Words /\ "more" \in Words /\ Aliases \subseteq Words
    BY DEF Words
  <1>4. /\ Config!Text(<<>>, Config!Empty, <<"other">>) \in Files
        /\ \A alias \in Aliases :
             Config!Text(<<>>, Config!Empty, <<alias, "other">>) \in Files
        /\ \A chosen \in Config!Configs :
             Config!Text(<<"other">>, chosen, <<"more">>) \in Files
    <2> HIDE DEF Words
    <2>1. ASSUME NEW before \in Seq(Words),
                 NEW block \in Config!Configs \cup {Config!Empty},
                 NEW after \in Seq(Words)
          PROVE  Config!Text(before, block, after) \in Files
      BY DEF Files
    <2>2. QED BY <1>2, <1>3, <2>1
  <1>5. Config!Theirs \subseteq Files
    BY <1>1, <1>4 DEF Config!Theirs
  <1>6. ASSUME NEW content \in Files, content.kind # "invalid"
        PROVE  Config!Foreign(content) \in Seq(Words)
    <2>1. CASE content = Config!Absent
      BY <1>2, <1>3, <2>1 DEF Config!Absent, Config!Foreign
    <2>2. CASE content # Config!Absent
      <3>1. PICK before \in Seq(Words), block \in Config!Configs \cup {Config!Empty},
                 after \in Seq(Words) :
              content = Config!Text(before, block, after)
        BY <1>6, <2>2 DEF Files, Config!Malformed
      <3>2. Config!Foreign(content) = before \o after
        BY <3>1 DEF Config!Text, Config!Foreign
      <3>3. QED BY <3>2
    <2>3. QED BY <2>1, <2>2
  <1>7. \A chosen \in Config!Configs : chosen # Config!Empty
    <2>1. \A chosen \in Config!Configs : DOMAIN chosen = {"alias", "version"}
      BY DEF Config!Configs
    <2>2. DOMAIN Config!Empty = {"kind"}
      BY DEF Config!Empty
    <2>3. QED BY <2>1, <2>2
  <1>8. QED BY <1>1, <1>5, <1>6, <1>7

\* What a write leaves is a file whose other text is that of its source.
LEMMA ContentFacts ==
  ASSUME NEW source \in Files, NEW chosen \in Config!Configs, Config!Usable(source, chosen)
  PROVE  LET content == Config!Content(source, chosen) IN
         /\ content \in Files /\ content \notin Config!Theirs
         /\ Config!Foreign(content) = Config!Foreign(source)
         /\ ~Config!Conflict(content, chosen.alias)
         /\ Config!Inspect(content, chosen) = "SSH_CONFIG_OK"
PROOF
  <1> DEFINE content == Config!Content(source, chosen)
  <1>1. Config!Foreign(source) \in Seq(Words)
    BY FileFacts DEF Config!Usable
  <1>2. content = Config!Text(<<>>, chosen, Config!Foreign(source))
    BY DEF Config!Content
  <1>3. content.kind = "text" /\ content.before = <<>> /\ content.block = chosen
        /\ content.after = Config!Foreign(source)
    BY <1>2 DEF Config!Text
  <1>4. <<>> \in Seq(Words)
    OBVIOUS
  <1>5. content \in Files
    <2>1. chosen \in Config!Configs \cup {Config!Empty}
      OBVIOUS
    <2>2. ASSUME NEW before \in Seq(Words),
                 NEW block \in Config!Configs \cup {Config!Empty},
                 NEW after \in Seq(Words)
          PROVE  Config!Text(before, block, after) \in Files
      BY DEF Files
    <2>3. Config!Text(<<>>, chosen, Config!Foreign(source)) \in Files
      BY <1>1, <1>4, <2>1, <2>2
    <2>4. QED BY <1>2, <2>3
  <1>6. <<>> \o Config!Foreign(source) = Config!Foreign(source)
    BY <1>1, ConcatEmptySeq
  <1> HIDE DEF content
  <1>7. Config!Foreign(content) = Config!Foreign(source)
    BY <1>3, <1>6 DEF Config!Foreign
  <1>8. ~Config!Conflict(content, chosen.alias)
    BY <1>7 DEF Config!Usable, Config!Conflict
  <1>9. Config!Inspect(content, chosen) = "SSH_CONFIG_OK"
    <2>1. Config!Content(content, chosen) = content
      BY <1>2, <1>7 DEF Config!Content
    <2>2. chosen # Config!Empty
      BY FileFacts
    <2>3. QED BY <1>3, <2>1, <2>2 DEF Config!Inspect
  <1>10. content \notin Config!Theirs
    <2>1. content # Config!Absent /\ content # Config!Malformed
      BY <1>3 DEF Config!Absent, Config!Malformed
    <2>2. \A before, after : content # Config!Text(before, Config!Empty, after)
      BY <1>3, FileFacts DEF Config!Text
    <2>3. \A block, after : content # Config!Text(<<"other">>, block, after)
      BY <1>3 DEF Config!Text
    <2>4. QED BY <2>1, <2>2, <2>3 DEF Config!Theirs
  <1>11. QED BY <1>5, <1>7, <1>8, <1>9, <1>10 DEF content

LEMMA ConfigInit == Config!Init => ConfigInv
PROOF BY FileFacts DEF Config!Init, ConfigInv, Confirmed

LEMMA ConfigStep == ConfigInv /\ [Config!Next]_(Config!vars) => ConfigInv'
PROOF
  <1> SUFFICES ASSUME ConfigInv, [Config!Next]_(Config!vars) PROVE ConfigInv'
    OBVIOUS
  <1> USE DEF ConfigInv
  <1>1. CASE Config!Preview
    BY <1>1 DEF Config!Preview, Confirmed
  <1>2. CASE Config!Write
    <2> DEFINE new == [step |-> IF file = Config!Absent THEN "replace" ELSE "backup",
                       source |-> file, config |-> saved, raced |-> FALSE]
    <2>1. job' = new
      BY <1>2 DEF Config!Write
    <2>2. new.source = file /\ new.config = saved
          /\ (new.step = "backup" \/ file = Config!Absent)
      OBVIOUS
    <2> HIDE DEF new
    <2>3. QED BY <1>2, <2>1, <2>2 DEF Config!Write, Confirmed
  <1>3. CASE Config!BackUp
    <2>1. CASE backup' = job.source /\ kept' = job.source
                 /\ job' = [job EXCEPT !.step = "replace"]
      BY <1>3, <2>1 DEF Config!BackUp, Confirmed
    <2>2. CASE job' = Config!Empty
      BY <1>3, <2>2 DEF Config!BackUp, Confirmed
    <2>3. QED BY <1>3, <2>1, <2>2 DEF Config!BackUp
  <1>4. CASE Config!Replace
    <2>1. Config!Content(job.source, job.config) \in Files
      BY <1>4, ContentFacts DEF Config!Replace, Confirmed
    <2>2. QED BY <1>4, <2>1 DEF Config!Replace, Confirmed
  <1>5. CASE Config!OtherProgram
    <2>1. file' \in Files /\ fileStable' \in Files
      BY <1>5, FileFacts DEF Config!OtherProgram
    <2>2. QED BY <1>5, <2>1 DEF Config!OtherProgram, Confirmed
  <1>6. CASE Config!SaveSettings
    BY <1>6 DEF Config!SaveSettings, Confirmed
  <1>7. CASE Config!Crash
    BY <1>7 DEF Config!Crash, Confirmed
  <1>8. CASE UNCHANGED Config!vars
    BY <1>8 DEF Config!vars, Confirmed, Config!Usable, Config!Conflict, Config!Foreign
  <1>9. QED BY <1>1, <1>2, <1>3, <1>4, <1>5, <1>6, <1>7, <1>8 DEF Config!Next

\* What a step that writes what was shown leaves.
ReplacedAsShown ==
  /\ job # Config!Empty /\ job.step = "replace" /\ file' # file
  /\ file' = Config!Content(job.source, job.config)
  => /\ shown = [source |-> job.source, config |-> job.config]
     /\ job.raced \/ file = shown.source
     /\ Config!Foreign(file') = Config!Foreign(shown.source)
     /\ ~Config!Conflict(file', shown.config.alias)
     /\ Config!Inspect(file', shown.config) = "SSH_CONFIG_OK"
     /\ shown.source # Config!Absent => shown.source \in {kept, file} /\ kept = kept'
        /\ kept' = shown.source

LEMMA ReplacesAsShown ==
  ConfigInv /\ [Config!Next]_(Config!vars) => [ReplacedAsShown]_(Config!vars)
PROOF
  <1> SUFFICES ASSUME ConfigInv, Config!Next, job # Config!Empty, job.step = "replace",
                      file' # file,
                      file' = Config!Content(job.source, job.config)
               PROVE  ReplacedAsShown
    BY DEF ReplacedAsShown
  <1>1. /\ job.source \in Files /\ job.config \in Config!Configs
        /\ Config!Usable(job.source, job.config)
        /\ shown = [source |-> job.source, config |-> job.config]
        /\ job.raced \/ file = job.source
        /\ job.source = Config!Absent \/ (backup = job.source /\ kept = job.source)
    BY DEF ConfigInv, Confirmed
  <1>2. shown.source = job.source /\ shown.config = job.config
    BY <1>1
  <1>3. /\ file' \notin Config!Theirs
        /\ Config!Foreign(file') = Config!Foreign(job.source)
        /\ ~Config!Conflict(file', job.config.alias)
        /\ Config!Inspect(file', job.config) = "SSH_CONFIG_OK"
    BY <1>1, ContentFacts
  <1>4. Config!Replace \/ Config!Crash
    BY <1>3 DEF Config!Next, Config!Preview, Config!Write, Config!BackUp,
       Config!OtherProgram, Config!SaveSettings
  <1>5. kept' \in {kept, backup}
    BY <1>4 DEF Config!Replace, Config!Crash
  <1>6. QED BY <1>1, <1>2, <1>3, <1>5 DEF ReplacedAsShown

LEMMA ConfigHolds == Config!Spec => Config!ConfigReplacedAsShown
PROOF
  <1>1. [][ReplacedAsShown]_(Config!vars) => Config!ConfigReplacedAsShown
    BY PTL DEF ReplacedAsShown, Config!ConfigReplacedAsShown
  <1>2. QED BY <1>1, ConfigInit, ConfigStep, ReplacesAsShown, PTL DEF Config!Spec

-----------------------------------------------------------------------------
(* The diagnosis (Diagnostics).                                            *)

Proxies == {Diagnosis!Stopped} \cup [id : Nat, config : Settings]
Statuses == {"pending", "running", "passed", "failed", "skipped"}
Worlds ==
  [config : Settings, scope : Nat, cookie : PortalCookies \cup {0}, auth : Nat,
   proxy : Proxies]
Runs ==
  [id : Nat \ {0}, scope : Nat, config : Settings, cookie : PortalCookies \cup {0},
   auth : Nat, running : BOOLEAN, proxy : Proxies, status : [DOMAIN Diagnosis!Checks -> Statuses],
   aborted : BOOLEAN, refused : BOOLEAN, finished : BOOLEAN, current : BOOLEAN]
Records == [id : Nat, scope : Nat, config : Settings, invalidated : BOOLEAN]

\* While the scope of a run lasts, the proxy is the one it began with or has
\* failed; the login only ever moves on.
Belongs(r, w) ==
  r # Diagnosis!NoRun =>
    /\ r \in Runs
    /\ r.scope <= w.scope /\ r.auth <= w.auth
    /\ r.scope = w.scope => w.proxy = Diagnosis!Stopped \/ w.proxy = r.proxy
    /\ r.running <=> r.proxy # Diagnosis!Stopped

\* A run that has seen a change is of an earlier login, or was aborted and is not
\* heard any more.
Outrun(r, w, heard, v) ==
  r # Diagnosis!NoRun /\ ~r.current =>
    \/ r.auth < w.auth
    \/ r.aborted /\ v # r.id /\ (heard = Diagnosis!NoRun \/ heard.invalidated)

\* What was published last and has seen a change is of an earlier login, or not
\* valid.
Published(r, w, v) ==
  r # Diagnosis!NoRun /\ ~r.current => r.auth < w.auth \/ v # r.id

DiagnosisInv ==
  /\ world \in Worlds /\ nextRun \in Nat \ {0}
  /\ record = Diagnosis!NoRun \/ record \in Records
  /\ Belongs(run, world) /\ Belongs(latest, world)
  /\ Outrun(run, world, record, valid) /\ Published(latest, world, valid)

LEMMA NoRunFacts ==
  Diagnosis!NoRun \notin Runs /\ Diagnosis!NoRun \notin Records
    /\ Diagnosis!NoRun = Diagnosis!Stopped
PROOF
  <1>1. Diagnosis!NoRun.id = 0 /\ DOMAIN Diagnosis!NoRun = {"id"}
    BY DEF Diagnosis!NoRun
  <1>2. \A r \in Runs : r.id # 0
    BY DEF Runs
  <1>3. \A r \in Records : DOMAIN r = {"id", "scope", "config", "invalidated"}
    BY DEF Records
  <1>4. QED BY <1>1, <1>2, <1>3 DEF Diagnosis!NoRun, Diagnosis!Stopped

\* Publishing a run, whatever main.js makes of it.
LEMMA PublishingFacts ==
  ASSUME DiagnosisInv, NEW r \in Runs, Diagnosis!Publish(r), world' = world,
         Belongs(r, world), Outrun(r, world, record, valid)
  PROVE  /\ record' = Diagnosis!NoRun \/ record' \in Records
         /\ Belongs(latest', world) /\ Published(latest', world, valid')
         /\ Outrun(r, world, record', valid')
PROOF
  <1>1. latest' = r
    BY DEF Diagnosis!Publish
  <1>2. CASE Diagnosis!Heard(r)
    <2>1. record \in Records /\ ~record.invalidated
      BY <1>2 DEF Diagnosis!Heard, DiagnosisInv
    <2>2. record' = [record EXCEPT !.id = r.id] /\ valid' = r.id
      BY <1>2 DEF Diagnosis!Publish
    <2>3. record' \in Records
      BY <2>1, <2>2 DEF Records, Runs
    <2>4. ~r.current => r.auth < world.auth
      BY <2>1, NoRunFacts DEF Outrun
    <2>5. QED BY <1>1, <2>3, <2>4 DEF Published, Outrun
  <1>3. CASE ~Diagnosis!Heard(r)
    <2>1. record' = record /\ valid' = valid
      BY <1>3 DEF Diagnosis!Publish
    <2>2. QED BY <1>1, <2>1 DEF DiagnosisInv, Published, Outrun
  <1>4. QED BY <1>2, <1>3

\* A run of the service goes on, and keeps what it belongs to.
Same(r, t) ==
  /\ t \in Runs
  /\ t.id = r.id /\ t.scope = r.scope /\ t.config = r.config /\ t.cookie = r.cookie
  /\ t.auth = r.auth /\ t.running = r.running /\ t.proxy = r.proxy
  /\ t.current = r.current /\ (r.aborted => t.aborted)

LEMMA SameFacts ==
  ASSUME NEW r \in Runs, NEW t, Same(r, t), NEW w, NEW heard, NEW v
  PROVE  /\ Belongs(r, w) => Belongs(t, w)
         /\ Outrun(r, w, heard, v) => Outrun(t, w, heard, v)
PROOF BY NoRunFacts DEF Same, Belongs, Outrun

LEMMA GoesOn ==
  ASSUME DiagnosisInv, run # Diagnosis!NoRun, NEW r, Same(run, r), run' = r,
         Diagnosis!Publish(r),
         world' = world, nextRun' = nextRun
  PROVE  DiagnosisInv'
PROOF
  <1>1. run \in Runs /\ r \in Runs
    BY DEF DiagnosisInv, Belongs, Same
  <1>2. Belongs(r, world) /\ Outrun(r, world, record, valid)
    BY <1>1, SameFacts DEF DiagnosisInv
  <1>3. /\ record' = Diagnosis!NoRun \/ record' \in Records
        /\ Belongs(latest', world) /\ Published(latest', world, valid')
        /\ Outrun(r, world, record', valid')
    BY <1>1, <1>2, PublishingFacts
  <1>4. QED BY <1>2, <1>3 DEF DiagnosisInv

LEMMA AbortedFacts ==
  ASSUME NEW r \in Runs
  PROVE  Same(r, Diagnosis!Aborted(r)) /\ Diagnosis!Aborted(r).aborted
PROOF
  <1> DEFINE status == [i \in DOMAIN Diagnosis!Checks |->
                          IF r.status[i] = "running" THEN "skipped" ELSE r.status[i]]
             t == [r EXCEPT !.aborted = TRUE, !.status = status]
  <1>1. Diagnosis!Aborted(r) = t
    BY NoRunFacts DEF Diagnosis!Aborted
  <1>2. status \in [DOMAIN Diagnosis!Checks -> Statuses]
    BY DEF Runs, Statuses
  <1> HIDE DEF status
  <1>3. t \in Runs
    BY <1>2 DEF Runs
  <1>4. QED BY <1>1, <1>3 DEF Same, Runs

\* A run that has seen a change.
LEMMA OutdatedFacts ==
  ASSUME NEW r \in Runs
  PROVE  LET t == Diagnosis!Outdated(r) IN
         /\ t \in Runs /\ t # Diagnosis!NoRun /\ ~t.current
         /\ t.id = r.id /\ t.scope = r.scope /\ t.auth = r.auth
         /\ t.running = r.running /\ t.proxy = r.proxy /\ t.aborted = r.aborted
PROOF
  <1>1. Diagnosis!Outdated(r) = [r EXCEPT !.current = FALSE]
    BY NoRunFacts DEF Diagnosis!Outdated
  <1>2. Diagnosis!Outdated(r) \in Runs
    BY <1>1 DEF Runs
  <1>3. QED BY <1>1, <1>2, NoRunFacts DEF Runs

LEMMA CheckKeeps == ASSUME DiagnosisInv, Diagnosis!Check PROVE DiagnosisInv'
PROOF
  <1> DEFINE R(status) == [run EXCEPT !.status[Diagnosis!At] = status]
  <1>1. PICK status \in {"skipped", "running"} :
          /\ run' = R(status) /\ Diagnosis!Publish(R(status))
          /\ world' = world /\ nextRun' = nextRun
    BY DEF Diagnosis!Check
  <1>2. run # Diagnosis!NoRun
    BY DEF Diagnosis!Check, Diagnosis!Waiting
  <1>3. run \in Runs
    BY <1>2 DEF DiagnosisInv, Belongs
  <1>4. status \in Statuses
    BY DEF Statuses
  <1>5. Same(run, R(status))
    BY <1>3, <1>4 DEF Runs, Same
  <1> HIDE DEF R
  <1>6. QED BY <1>1, <1>2, <1>5, GoesOn

LEMMA AnswerKeeps ==
  ASSUME DiagnosisInv, NEW answer \in {"ok", "failed", "refused"}, Diagnosis!Answer(answer)
  PROVE  DiagnosisInv'
PROOF
  <1> DEFINE status == Diagnosis!Outcome(answer)
             refused == run.refused \/ (answer = "refused" /\ Diagnosis!IsFresh)
             r == [run EXCEPT !.status[Diagnosis!At] = status, !.refused = refused]
  <1>1. run' = r /\ Diagnosis!Publish(r) /\ world' = world /\ nextRun' = nextRun
          /\ run # Diagnosis!NoRun
    BY DEF Diagnosis!Answer
  <1>2. run \in Runs
    BY <1>1 DEF DiagnosisInv, Belongs
  <1>3. status \in Statuses /\ refused \in BOOLEAN
    BY <1>2 DEF Diagnosis!Outcome, Statuses, Runs
  <1> HIDE DEF status, refused
  <1>4. Same(run, r)
    BY <1>2, <1>3 DEF Runs, Same
  <1> HIDE DEF r
  <1>5. QED BY <1>1, <1>4, GoesOn

LEMMA StopsKeep ==
  ASSUME DiagnosisInv, Diagnosis!Deadline \/ Diagnosis!Cancel
  PROVE  DiagnosisInv'
PROOF
  <1>1. /\ run # Diagnosis!NoRun /\ run' = Diagnosis!Aborted(run)
        /\ Diagnosis!Publish(Diagnosis!Aborted(run))
        /\ world' = world /\ nextRun' = nextRun
    BY DEF Diagnosis!Deadline, Diagnosis!Cancel
  <1>2. run \in Runs
    BY <1>1 DEF DiagnosisInv, Belongs
  <1>3. Same(run, Diagnosis!Aborted(run))
    BY <1>2, AbortedFacts
  <1>4. QED BY <1>1, <1>3, GoesOn

LEMMA FinishKeeps == ASSUME DiagnosisInv, Diagnosis!Finish PROVE DiagnosisInv'
PROOF
  <1> DEFINE r == [run EXCEPT !.finished = TRUE]
             revoked == [world EXCEPT !.cookie = 0, !.auth = @ + 1]
  <1>1. run # Diagnosis!NoRun /\ run \in Runs
    BY DEF Diagnosis!Finish, DiagnosisInv, Belongs
  <1>2. /\ run' = Diagnosis!NoRun /\ record' = Diagnosis!NoRun /\ latest' = r
        /\ nextRun' = nextRun
        /\ valid' = IF Diagnosis!Heard(r) THEN r.id ELSE valid
        /\ world' \in {world, revoked}
    BY DEF Diagnosis!Finish
  <1>3. Same(run, r)
    BY <1>1 DEF Same, Runs
  <1> HIDE DEF r
  <1>4. Belongs(r, world) /\ Outrun(r, world, record, valid)
    BY <1>1, <1>3, SameFacts DEF DiagnosisInv
  <1>5. Published(r, world, valid')
    <2>1. Diagnosis!Heard(r) => record # Diagnosis!NoRun /\ ~record.invalidated
      BY DEF Diagnosis!Heard
    <2>2. QED BY <1>2, <1>4, <2>1 DEF Outrun, Published
  <1>6. /\ world' \in Worlds /\ world'.scope = world.scope /\ world'.proxy = world.proxy
        /\ world'.auth >= world.auth /\ world.auth \in Nat /\ world'.auth \in Nat
    <2>1. world \in Worlds
      BY DEF DiagnosisInv
    <2> DEFINE auth == world.auth + 1
    <2>2. world.auth \in Nat /\ auth \in Nat /\ auth >= world.auth
      BY <2>1 DEF Worlds
    <2>3. revoked = [world EXCEPT !.cookie = 0, !.auth = auth]
      OBVIOUS
    <2> HIDE DEF auth
    <2>4. revoked \in Worlds /\ revoked.scope = world.scope /\ revoked.proxy = world.proxy
          /\ revoked.auth = auth
      BY <2>1, <2>2, <2>3 DEF Worlds
    <2> HIDE DEF revoked
    <2>5. QED BY <1>2, <2>1, <2>2, <2>4
  <1>7. r \in Runs
    BY <1>3 DEF Same
  <1>8. Belongs(r, world')
    BY <1>4, <1>6, <1>7 DEF Belongs, Runs
  <1>9. Published(r, world', valid')
    BY <1>5, <1>6, <1>7 DEF Published, Runs
  <1>10. QED BY <1>2, <1>6, <1>8, <1>9 DEF DiagnosisInv, Belongs, Outrun

LEMMA StartKeeps == ASSUME DiagnosisInv, Diagnosis!Start PROVE DiagnosisInv'
PROOF
  <1> DEFINE r == [id |-> nextRun, scope |-> world.scope, config |-> world.config,
                   cookie |-> world.cookie, auth |-> world.auth,
                   running |-> world.proxy # Diagnosis!Stopped, proxy |-> world.proxy,
                   status |-> [i \in DOMAIN Diagnosis!Checks |-> "pending"],
                   aborted |-> FALSE, refused |-> FALSE, finished |-> FALSE,
                   current |-> TRUE]
             heard == [id |-> 0, scope |-> world.scope, config |-> world.config,
                       invalidated |-> FALSE]
  <1>1. run' = r /\ nextRun' = nextRun + 1 /\ record' = heard
        /\ world' = world /\ latest' = latest /\ valid' = valid
    BY DEF Diagnosis!Start
  <1>2. world \in Worlds /\ nextRun \in Nat \ {0}
    BY DEF DiagnosisInv
  <1>3. heard \in Records
    BY <1>2 DEF Worlds, Records
  <1>4. r \in Runs
    BY <1>2 DEF Worlds, Runs, Statuses
  <1>5. /\ r.scope = world.scope /\ r.auth = world.auth /\ r.proxy = world.proxy
        /\ (r.running <=> r.proxy # Diagnosis!Stopped) /\ r.current
    OBVIOUS
  <1> HIDE DEF r, heard
  <1>6. Belongs(r, world)
    BY <1>2, <1>4, <1>5 DEF Belongs, Worlds
  <1>7. Outrun(r, world, heard, valid)
    BY <1>5 DEF Outrun
  <1>8. QED BY <1>1, <1>2, <1>3, <1>6, <1>7 DEF DiagnosisInv

\* What follows a change that a result must not survive.
LEMMA ChangesKeep ==
  ASSUME DiagnosisInv, NEW new \in Worlds, Diagnosis!Changes(new),
         new.auth >= world.auth,
         \/ new.scope > world.scope
         \/ new.scope = world.scope /\ new.proxy = world.proxy
  PROVE  DiagnosisInv'
PROOF
  <1> DEFINE old == IF run = Diagnosis!NoRun THEN latest ELSE Diagnosis!Aborted(run)
  <1>1. /\ world' = new /\ valid' = 0 /\ nextRun' = nextRun
        /\ record' = IF record = Diagnosis!NoRun THEN Diagnosis!NoRun
                     ELSE [record EXCEPT !.invalidated = TRUE]
        /\ run' = Diagnosis!Outdated(Diagnosis!Aborted(run))
        /\ latest' = Diagnosis!Outdated(old)
    BY DEF Diagnosis!Changes
  <1>2. world \in Worlds
    BY DEF DiagnosisInv
  <1>3. ASSUME NEW r \in Runs, Belongs(r, world)
        PROVE  /\ Belongs(Diagnosis!Outdated(r), new)
               /\ Published(Diagnosis!Outdated(r), new, 0)
               /\ r.aborted => Diagnosis!Outdated(r).aborted /\ Diagnosis!Outdated(r).id # 0
    <2> DEFINE t == Diagnosis!Outdated(r)
    <2>1. /\ t \in Runs /\ t # Diagnosis!NoRun /\ ~t.current
          /\ t.id = r.id /\ t.scope = r.scope /\ t.auth = r.auth
          /\ t.running = r.running /\ t.proxy = r.proxy /\ t.aborted = r.aborted
      BY OutdatedFacts
    <2> HIDE DEF t
    <2>2. /\ r.id # 0 /\ r.scope \in Nat /\ r.auth \in Nat
          /\ world.scope \in Nat /\ world.auth \in Nat
          /\ new.scope \in Nat /\ new.auth \in Nat
      BY <1>2 DEF Runs, Worlds
    <2>3. /\ r.scope <= world.scope /\ r.auth <= world.auth
          /\ r.scope = world.scope =>
               world.proxy = Diagnosis!Stopped \/ world.proxy = r.proxy
          /\ r.running <=> r.proxy # Diagnosis!Stopped
      BY <1>3, NoRunFacts DEF Belongs
    <2>4. r.scope <= new.scope /\ r.auth <= new.auth
      BY <2>2, <2>3
    <2>5. r.scope = new.scope => new.proxy = Diagnosis!Stopped \/ new.proxy = r.proxy
      BY <2>2, <2>3
    <2>6. Belongs(t, new)
      BY <2>1, <2>3, <2>4, <2>5 DEF Belongs
    <2>7. Published(t, new, 0)
      BY <2>1, <2>2 DEF Published
    <2>8. QED BY <2>1, <2>2, <2>6, <2>7 DEF t
  <1>4. Diagnosis!Outdated(Diagnosis!NoRun) = Diagnosis!NoRun
          /\ Diagnosis!Aborted(Diagnosis!NoRun) = Diagnosis!NoRun
    BY DEF Diagnosis!Outdated, Diagnosis!Aborted
  <1>5. record' = Diagnosis!NoRun \/ (record' \in Records /\ record'.invalidated)
    <2>1. record \in Records =>
            /\ [record EXCEPT !.invalidated = TRUE] \in Records
            /\ [record EXCEPT !.invalidated = TRUE].invalidated
      BY DEF Records
    <2>2. QED BY <1>1, <2>1 DEF DiagnosisInv
  <1>6. run # Diagnosis!NoRun => /\ Diagnosis!Aborted(run) \in Runs
                                 /\ Diagnosis!Aborted(run).aborted
                                 /\ Belongs(Diagnosis!Aborted(run), world)
    <2> SUFFICES ASSUME run # Diagnosis!NoRun
                 PROVE  /\ Diagnosis!Aborted(run) \in Runs /\ Diagnosis!Aborted(run).aborted
                        /\ Belongs(Diagnosis!Aborted(run), world)
      OBVIOUS
    <2>1. run \in Runs
      BY DEF DiagnosisInv, Belongs
    <2>2. Same(run, Diagnosis!Aborted(run)) /\ Diagnosis!Aborted(run).aborted
      BY <2>1, AbortedFacts
    <2>3. QED BY <2>1, <2>2, SameFacts DEF DiagnosisInv, Same
  <1>7. Belongs(run', new) /\ Outrun(run', new, record', 0)
    <2>1. CASE run = Diagnosis!NoRun
      BY <1>1, <1>4, <2>1 DEF Belongs, Outrun
    <2>2. CASE run # Diagnosis!NoRun
      BY <1>1, <1>3, <1>5, <1>6, <2>2 DEF Outrun
    <2>3. QED BY <2>1, <2>2
  <1>8. Belongs(latest', new) /\ Published(latest', new, 0)
    <2>1. CASE old = Diagnosis!NoRun
      BY <1>1, <1>4, <2>1 DEF Belongs, Published
    <2>2. CASE old # Diagnosis!NoRun
      <3>1. old \in Runs /\ Belongs(old, world)
        BY <1>6, <2>2 DEF DiagnosisInv, Belongs
      <3> HIDE DEF old
      <3>2. QED BY <1>1, <1>3, <3>1
    <2>3. QED BY <2>1, <2>2
  <1>9. QED BY <1>1, <1>5, <1>7, <1>8 DEF DiagnosisInv

\* A setting is saved.
LEMMA SettingsKeep ==
  ASSUME DiagnosisInv, NEW chosen \in Settings, Diagnosis!SaveSettings(chosen)
  PROVE  DiagnosisInv'
PROOF
  <1> DEFINE new == [world EXCEPT !.config = chosen]
  <1>1. world \in Worlds /\ Diagnosis!Changes(new)
    BY DEF Diagnosis!SaveSettings, DiagnosisInv
  <1>2. /\ new \in Worlds /\ new.scope = world.scope /\ new.proxy = world.proxy
        /\ new.auth = world.auth /\ world.auth \in Nat
    BY <1>1 DEF Worlds
  <1> HIDE DEF new
  <1>3. new.auth >= world.auth
    BY <1>2
  <1>4. QED BY <1>1, <1>2, <1>3, ChangesKeep

\* The epoch advances, with whatever proxy, cookie and login comes of it.
LEMMA EpochKeeps ==
  ASSUME DiagnosisInv, NEW proxy \in Proxies, NEW cookie \in PortalCookies \cup {0},
         NEW auth \in Nat, auth >= world.auth,
         NEW scope \in Nat, scope > world.scope,
         Diagnosis!Changes([world EXCEPT !.scope = scope, !.auth = auth, !.cookie = cookie,
                                         !.proxy = proxy])
  PROVE  DiagnosisInv'
PROOF
  <1> DEFINE new == [world EXCEPT !.scope = scope, !.auth = auth, !.cookie = cookie,
                                  !.proxy = proxy]
  <1>1. world \in Worlds
    BY DEF DiagnosisInv
  <1>2. new \in Worlds /\ new.scope = scope /\ new.auth = auth
    BY <1>1 DEF Worlds
  <1>3. Diagnosis!Changes(new)
    OBVIOUS
  <1> HIDE DEF new
  <1>4. QED BY <1>2, <1>3, ChangesKeep

LEMMA ScopesKeep ==
  ASSUME DiagnosisInv, Diagnosis!StartProxy \/ Diagnosis!AdvanceEpoch
         \/ \E cookie \in PortalCookies : Diagnosis!Login(cookie)
  PROVE  DiagnosisInv'
PROOF
  <1> DEFINE scope == world.scope + 1
             auth == world.auth + 1
             started == [id |-> world.scope + 1, config |-> world.config]
  <1>1. world \in Worlds
    BY DEF DiagnosisInv
  <1>2. /\ world.scope \in Nat /\ world.auth \in Nat /\ world.proxy \in Proxies
        /\ world.cookie \in PortalCookies \cup {0} /\ world.config \in Settings
    BY <1>1 DEF Worlds
  <1>3. /\ scope \in Nat /\ scope > world.scope /\ world.auth >= world.auth
        /\ auth \in Nat /\ auth >= world.auth
    BY <1>2
  <1>4. started \in Proxies /\ Diagnosis!Stopped \in Proxies
    BY <1>2 DEF Proxies
  <1>5. CASE Diagnosis!StartProxy
    <2>1. Diagnosis!Changes([world EXCEPT !.scope = scope, !.proxy = started])
      BY <1>5 DEF Diagnosis!StartProxy
    <2> HIDE DEF scope, started
    <2>2. [world EXCEPT !.scope = scope, !.proxy = started]
          = [world EXCEPT !.scope = scope, !.auth = world.auth, !.cookie = world.cookie,
                          !.proxy = started]
      BY <1>1 DEF Worlds
    <2>3. Diagnosis!Changes([world EXCEPT !.scope = scope, !.auth = world.auth,
                                          !.cookie = world.cookie, !.proxy = started])
      BY <2>1, <2>2
    <2>4. QED BY <1>2, <1>3, <1>4, <2>3, EpochKeeps
  <1>6. CASE Diagnosis!AdvanceEpoch
    <2>1. Diagnosis!Changes([world EXCEPT !.scope = scope, !.proxy = Diagnosis!Stopped])
      BY <1>6 DEF Diagnosis!AdvanceEpoch
    <2> HIDE DEF scope
    <2>2. [world EXCEPT !.scope = scope, !.proxy = Diagnosis!Stopped]
          = [world EXCEPT !.scope = scope, !.auth = world.auth, !.cookie = world.cookie,
                          !.proxy = Diagnosis!Stopped]
      BY <1>1 DEF Worlds
    <2>3. Diagnosis!Changes([world EXCEPT !.scope = scope, !.auth = world.auth,
                                          !.cookie = world.cookie, !.proxy = Diagnosis!Stopped])
      BY <2>1, <2>2
    <2>4. QED BY <1>2, <1>3, <1>4, <2>3, EpochKeeps
  <1>7. CASE \E cookie \in PortalCookies : Diagnosis!Login(cookie)
    <2>1. PICK cookie \in PortalCookies : Diagnosis!Login(cookie)
      BY <1>7
    <2>2. Diagnosis!Changes([world EXCEPT !.scope = scope, !.auth = auth,
                                          !.cookie = cookie])
      BY <2>1 DEF Diagnosis!Login
    <2> HIDE DEF scope, auth
    <2>3. [world EXCEPT !.scope = scope, !.auth = auth, !.cookie = cookie]
          = [world EXCEPT !.scope = scope, !.auth = auth, !.cookie = cookie,
                          !.proxy = world.proxy]
      BY <1>1 DEF Worlds
    <2>4. Diagnosis!Changes([world EXCEPT !.scope = scope, !.auth = auth, !.cookie = cookie,
                                          !.proxy = world.proxy])
      BY <2>2, <2>3
    <2>5. QED BY <1>2, <1>3, <1>4, <2>4, EpochKeeps
  <1>8. QED BY <1>5, <1>6, <1>7

\* What main.js is not told of leaves scope and login as they were, or the login
\* moves on.
LEMMA UntoldKeeps ==
  ASSUME DiagnosisInv, NEW new \in Worlds, world' = new,
         new.scope = world.scope, new.auth >= world.auth,
         new.proxy \in {world.proxy, Diagnosis!Stopped},
         UNCHANGED <<record, valid, nextRun>>,
         \/ run' = run /\ latest' = latest
         \/ run' = Diagnosis!Outdated(run) /\ latest' = Diagnosis!Outdated(latest)
              /\ new.auth > world.auth
  PROVE  DiagnosisInv'
PROOF
  <1>1. /\ world.scope \in Nat /\ world.auth \in Nat
        /\ new.scope \in Nat /\ new.auth \in Nat
    BY DEF DiagnosisInv, Worlds
  <1>2. ASSUME NEW r, Belongs(r, world)
        PROVE  /\ Belongs(r, new)
               /\ Outrun(r, world, record, valid) => Outrun(r, new, record, valid)
               /\ Published(r, world, valid) => Published(r, new, valid)
    <2>1. r # Diagnosis!NoRun => r.auth \in Nat
      BY <1>2 DEF Belongs, Runs
    <2>2. Belongs(r, new)
      BY <1>1, <1>2, <2>1 DEF Belongs
    <2>3. r # Diagnosis!NoRun /\ r.auth < world.auth => r.auth < new.auth
      BY <1>1, <2>1
    <2>4. QED BY <2>2, <2>3 DEF Outrun, Published
  <1>3. ASSUME NEW r, Belongs(r, world), new.auth > world.auth
        PROVE  /\ Belongs(Diagnosis!Outdated(r), new)
               /\ Outrun(Diagnosis!Outdated(r), new, record, valid)
               /\ Published(Diagnosis!Outdated(r), new, valid)
    <2> DEFINE t == Diagnosis!Outdated(r)
    <2>1. CASE r = Diagnosis!NoRun
      BY <2>1 DEF Diagnosis!Outdated, Belongs, Outrun, Published
    <2>2. CASE r # Diagnosis!NoRun
      <3>1. r \in Runs /\ Belongs(r, new) /\ r.auth <= world.auth /\ r.auth \in Nat
        BY <1>2, <1>3, <2>2 DEF Belongs, Runs
      <3>2. /\ t \in Runs /\ t # Diagnosis!NoRun /\ t.scope = r.scope /\ t.auth = r.auth
            /\ t.running = r.running /\ t.proxy = r.proxy
        BY <3>1, OutdatedFacts
      <3> HIDE DEF t
      <3>3. Belongs(t, new)
        BY <2>2, <3>1, <3>2 DEF Belongs
      <3>4. t.auth < new.auth
        BY <1>1, <1>3, <3>1, <3>2
      <3>5. QED BY <3>3, <3>4 DEF t, Outrun, Published
    <2>3. QED BY <2>1, <2>2
  <1>4. Belongs(run, world) /\ Outrun(run, world, record, valid)
        /\ Belongs(latest, world) /\ Published(latest, world, valid)
    BY DEF DiagnosisInv
  <1>5. Belongs(run', new) /\ Outrun(run', new, record, valid)
        /\ Belongs(latest', new) /\ Published(latest', new, valid)
    BY <1>2, <1>3, <1>4
  <1>6. QED BY <1>5 DEF DiagnosisInv

LEMMA EventsKeep ==
  ASSUME DiagnosisInv, Diagnosis!ProxyFails \/ Diagnosis!Revoked
         \/ \E cookie \in PortalCookies : Diagnosis!CookieSeen(cookie)
  PROVE  DiagnosisInv'
PROOF
  <1> DEFINE auth == world.auth + 1
             revoked == [world EXCEPT !.cookie = 0, !.auth = auth]
  <1>1. world \in Worlds
    BY DEF DiagnosisInv
  <1>2. world.auth \in Nat /\ auth \in Nat /\ auth > world.auth /\ world.auth >= world.auth
        /\ auth >= world.auth
    BY <1>1 DEF Worlds
  <1>3. CASE Diagnosis!ProxyFails
    <2> DEFINE new == [world EXCEPT !.proxy = Diagnosis!Stopped]
    <2>1. Diagnosis!Stopped \in Proxies
      BY DEF Proxies
    <2>2. /\ new \in Worlds /\ new.scope = world.scope /\ new.auth = world.auth
          /\ new.proxy = Diagnosis!Stopped
      BY <1>1, <2>1 DEF Worlds
    <2>3. world' = new /\ UNCHANGED <<run, latest, record, valid, nextRun>>
      BY <1>3 DEF Diagnosis!ProxyFails
    <2> HIDE DEF new
    <2>4. QED BY <1>2, <2>2, <2>3, UntoldKeeps
  <1>4. CASE Diagnosis!Revoked
    <2>1. /\ world' = revoked /\ UNCHANGED <<record, valid, nextRun>>
          /\ run' = Diagnosis!Outdated(run) /\ latest' = Diagnosis!Outdated(latest)
      BY <1>4 DEF Diagnosis!Revoked
    <2> HIDE DEF auth
    <2>2. /\ revoked \in Worlds /\ revoked.scope = world.scope /\ revoked.auth = auth
          /\ revoked.proxy = world.proxy
      BY <1>1, <1>2 DEF Worlds
    <2> HIDE DEF revoked
    <2>3. QED BY <1>2, <2>1, <2>2, UntoldKeeps
  <1>5. CASE \E cookie \in PortalCookies : Diagnosis!CookieSeen(cookie)
    <2>1. PICK cookie \in PortalCookies : Diagnosis!CookieSeen(cookie)
      BY <1>5
    <2> DEFINE new == [world EXCEPT !.cookie = cookie]
    <2>2. /\ new \in Worlds /\ new.scope = world.scope /\ new.auth = world.auth
          /\ new.proxy = world.proxy
      BY <1>1 DEF Worlds
    <2>3. world' = new /\ UNCHANGED <<run, latest, record, valid, nextRun>>
      BY <2>1 DEF Diagnosis!CookieSeen
    <2> HIDE DEF new
    <2>4. QED BY <1>2, <2>2, <2>3, UntoldKeeps
  <1>6. QED BY <1>3, <1>4, <1>5

LEMMA DiagnosisInit == Diagnosis!Init => DiagnosisInv
PROOF
  <1> SUFFICES ASSUME Diagnosis!Init PROVE DiagnosisInv
    OBVIOUS
  <1>1. PICK chosen \in Settings : \E cookie \in PortalCookies :
          world = [config |-> chosen, scope |-> 0, cookie |-> cookie, auth |-> 0,
                   proxy |-> [id |-> 0, config |-> chosen]]
    BY DEF Diagnosis!Init
  <1>2. world \in Worlds
    BY <1>1 DEF Worlds, Proxies
  <1>3. QED BY <1>2 DEF Diagnosis!Init, DiagnosisInv, Belongs, Outrun, Published

LEMMA DiagnosisStep ==
  DiagnosisInv /\ [Diagnosis!Next]_(Diagnosis!vars) => DiagnosisInv'
PROOF
  <1> SUFFICES ASSUME DiagnosisInv, [Diagnosis!Next]_(Diagnosis!vars) PROVE DiagnosisInv'
    OBVIOUS
  <1>1. CASE Diagnosis!Check
    BY <1>1, CheckKeeps
  <1>2. CASE Diagnosis!Deadline \/ Diagnosis!Cancel
    BY <1>2, StopsKeep
  <1>3. CASE Diagnosis!Finish
    BY <1>3, FinishKeeps
  <1>4. CASE Diagnosis!Start
    BY <1>4, StartKeeps
  <1>5. CASE \E answer \in {"ok", "failed", "refused"} : Diagnosis!Answer(answer)
    BY <1>5, AnswerKeeps
  <1>6. CASE \E chosen \in Settings : Diagnosis!SaveSettings(chosen)
    BY <1>6, SettingsKeep
  <1>7. CASE Diagnosis!StartProxy \/ Diagnosis!AdvanceEpoch
               \/ \E cookie \in PortalCookies : Diagnosis!Login(cookie)
    BY <1>7, ScopesKeep
  <1>8. CASE Diagnosis!ProxyFails \/ Diagnosis!Revoked
               \/ \E cookie \in PortalCookies : Diagnosis!CookieSeen(cookie)
    BY <1>8, EventsKeep
  <1>9. CASE Diagnosis!SaveOnboarding \/ UNCHANGED Diagnosis!vars
    BY <1>9 DEF Diagnosis!SaveOnboarding, Diagnosis!vars, DiagnosisInv
  <1>10. QED
    BY <1>1, <1>2, <1>3, <1>4, <1>5, <1>6, <1>7, <1>8, <1>9 DEF Diagnosis!Next

\* Only a proof of the present completes the onboarding.
CompletedWithProof ==
  completed # completed' =>
    /\ latest.current /\ latest.finished /\ latest.cookie = world.cookie
    /\ latest.running /\ latest.proxy = world.proxy

LEMMA CompletesWithProof ==
  DiagnosisInv /\ [Diagnosis!Next]_(Diagnosis!vars) => [CompletedWithProof]_(Diagnosis!vars)
PROOF
  <1> SUFFICES ASSUME DiagnosisInv, Diagnosis!Next, completed # completed'
               PROVE  CompletedWithProof
    BY DEF CompletedWithProof
  <1>1. Diagnosis!SaveOnboarding
    BY DEF Diagnosis!Next, Diagnosis!Check, Diagnosis!Deadline, Diagnosis!Finish,
       Diagnosis!Start, Diagnosis!Cancel, Diagnosis!Answer, Diagnosis!SaveSettings,
       Diagnosis!Changes, Diagnosis!CookieSeen, Diagnosis!Login, Diagnosis!StartProxy,
       Diagnosis!AdvanceEpoch, Diagnosis!ProxyFails, Diagnosis!Revoked
  <1>2. /\ latest # Diagnosis!NoRun /\ latest.id = valid
        /\ Diagnosis!Identity(latest) = Diagnosis!Present
        /\ latest.finished /\ world.proxy # Diagnosis!Stopped
    BY <1>1 DEF Diagnosis!SaveOnboarding, Diagnosis!Shown
  <1>3. latest.scope = world.scope /\ latest.cookie = world.cookie
          /\ latest.auth = world.auth
    BY <1>2 DEF Diagnosis!Identity, Diagnosis!Present
  <1>4. latest \in Runs /\ world \in Worlds
    BY <1>2 DEF DiagnosisInv, Belongs
  <1>5. latest.proxy = world.proxy /\ latest.running
    BY <1>2, <1>3, <1>4 DEF DiagnosisInv, Belongs
  <1>6. latest.current
    <2>1. world.auth \in Nat
      BY <1>4 DEF Worlds
    <2>2. ~(latest.auth < world.auth)
      BY <1>3, <2>1
    <2>3. QED BY <1>2, <2>2 DEF DiagnosisInv, Published
  <1>7. QED BY <1>2, <1>3, <1>5, <1>6 DEF CompletedWithProof

\* A run that ends revokes only the cookie it was refused with.
RevokedAsRefused ==
  run # Diagnosis!NoRun /\ run' = Diagnosis!NoRun /\ world' # world =>
    run.refused /\ run.current /\ run.cookie = world.cookie

LEMMA RevokesAsRefused ==
  DiagnosisInv /\ [Diagnosis!Next]_(Diagnosis!vars) => [RevokedAsRefused]_(Diagnosis!vars)
PROOF
  <1> SUFFICES ASSUME DiagnosisInv, Diagnosis!Next, run # Diagnosis!NoRun,
                      run' = Diagnosis!NoRun, world' # world
               PROVE  RevokedAsRefused
    BY DEF RevokedAsRefused
  <1>1. run \in Runs /\ world \in Worlds
    BY DEF DiagnosisInv, Belongs
  <1>2. /\ Diagnosis!Aborted(run) \in Runs /\ Diagnosis!Outdated(run) # Diagnosis!NoRun
        /\ Diagnosis!Outdated(Diagnosis!Aborted(run)) # Diagnosis!NoRun
    <2>1. Diagnosis!Aborted(run) \in Runs
      BY <1>1, AbortedFacts DEF Same
    <2>2. QED BY <1>1, <2>1, OutdatedFacts
  <1>3. \A new : ~Diagnosis!Changes(new)
    BY <1>2 DEF Diagnosis!Changes
  <1>4. Diagnosis!Finish
    BY <1>2, <1>3 DEF Diagnosis!Next, Diagnosis!Check, Diagnosis!Deadline,
       Diagnosis!Start, Diagnosis!Cancel, Diagnosis!Answer, Diagnosis!SaveSettings,
       Diagnosis!CookieSeen, Diagnosis!Login, Diagnosis!StartProxy,
       Diagnosis!AdvanceEpoch, Diagnosis!ProxyFails, Diagnosis!Revoked,
       Diagnosis!SaveOnboarding
  <1>5. run.refused /\ ~run.aborted /\ Diagnosis!IsFresh
    BY <1>4 DEF Diagnosis!Finish
  <1>6. run.cookie = world.cookie /\ run.auth = world.auth
    BY <1>5 DEF Diagnosis!IsFresh, Diagnosis!Identity, Diagnosis!Present
  <1>7. run.current
    <2>1. world.auth \in Nat
      BY <1>1 DEF Worlds
    <2>2. ~(run.auth < world.auth)
      BY <1>6, <2>1
    <2>3. QED BY <1>5, <2>2 DEF DiagnosisInv, Outrun
  <1>8. QED BY <1>5, <1>6, <1>7 DEF RevokedAsRefused

LEMMA DiagnosisSafe == Diagnosis!Spec => Diagnosis!DiagnosisHolds
PROOF
  <1>1. [][CompletedWithProof]_(Diagnosis!vars) /\ [][RevokedAsRefused]_(Diagnosis!vars) =>
          Diagnosis!DiagnosisHolds
    BY PTL DEF CompletedWithProof, RevokedAsRefused, Diagnosis!DiagnosisHolds
  <1>2. Diagnosis!Spec => [][CompletedWithProof]_(Diagnosis!vars)
    BY DiagnosisInit, DiagnosisStep, CompletesWithProof, PTL DEF Diagnosis!Spec
  <1>3. Diagnosis!Spec => [][RevokedAsRefused]_(Diagnosis!vars)
    BY DiagnosisInit, DiagnosisStep, RevokesAsRefused, PTL DEF Diagnosis!Spec
  <1>4. QED BY <1>1, <1>2, <1>3

-----------------------------------------------------------------------------
(* The history: sequences of records as sets of records.                   *)

HistoryRecords == [id : Nat, profile : Profiles, open : BOOLEAN]

RecordsIn(rs) == {rs[i] : i \in DOMAIN rs}
Distinct(rs) == \A i, j \in DOMAIN rs : rs[i].id = rs[j].id => i = j

LEMMA PlacesBefore ==
  ASSUME NEW places, NEW i
  PROVE  History!Before(places, i) = Cardinality({j \in places : j < i})
PROOF
  <1>1. \A S : History!Cardinality(S) = Cardinality(S)
    BY DEF History!Cardinality, Cardinality
  <1>2. QED BY <1>1 DEF History!Before

\* The places of a set are numbered one after another.
LEMMA PlacesNumbered ==
  ASSUME NEW n \in Nat, NEW places \in SUBSET (1..n)
  PROVE  /\ IsFiniteSet(places) /\ Cardinality(places) \in 0..n
         /\ \A i \in places : History!Before(places, i) \in 0..Cardinality(places) - 1
         /\ \A i, j \in places : i < j => History!Before(places, i) < History!Before(places, j)
         /\ \A k \in 0..Cardinality(places) - 1 : \E i \in places : History!Before(places, i) = k
         /\ Cardinality(places) = n <=> places = 1..n
PROOF
  <1>1. IsFiniteSet(1..n) /\ Cardinality(1..n) = n
    BY FS_Interval
  <1>2. /\ IsFiniteSet(places) /\ Cardinality(places) \in 0..n
        /\ Cardinality(places) = n <=> places = 1..n
    <2>1. IsFiniteSet(places) /\ Cardinality(places) <= Cardinality(1..n)
      BY <1>1, FS_Subset
    <2>2. Cardinality(places) = Cardinality(1..n) => places = 1..n
      BY <1>1, FS_Subset
    <2>3. Cardinality(places) \in Nat
      BY <2>1, FS_CardinalityType
    <2>4. QED BY <1>1, <2>1, <2>2, <2>3
  <1>3. ASSUME NEW S \in SUBSET places, NEW T \in SUBSET places, S \subseteq T,
               NEW x \in T, x \notin S
        PROVE  Cardinality(S) < Cardinality(T) /\ Cardinality(S) \in Nat
    <2>1. IsFiniteSet(T) /\ IsFiniteSet(S)
      BY <1>2, FS_Subset
    <2>2. S \in SUBSET T /\ S # T
      BY <1>3
    <2>3. Cardinality(S) \in Nat /\ Cardinality(T) \in Nat
      BY <2>1, FS_CardinalityType
    <2>4. Cardinality(S) <= Cardinality(T) /\ Cardinality(S) # Cardinality(T)
      BY <2>1, <2>2, FS_Subset
    <2>5. QED BY <2>3, <2>4
  <1>4. ASSUME NEW i \in places
        PROVE  History!Before(places, i) \in 0..Cardinality(places) - 1
    <2> DEFINE S == {j \in places : j < i}
    <2>1. S \subseteq places /\ i \in places /\ i \notin S
      BY <1>4
    <2>2. Cardinality(S) < Cardinality(places) /\ Cardinality(S) \in Nat
      BY <2>1, <1>3
    <2>3. History!Before(places, i) = Cardinality(S)
      BY PlacesBefore
    <2>4. QED BY <2>2, <2>3, <1>2
  <1>5. ASSUME NEW i \in places, NEW j \in places, i < j
        PROVE  History!Before(places, i) < History!Before(places, j)
    <2> DEFINE S == {l \in places : l < i}
               T == {l \in places : l < j}
    <2>1. S \subseteq T /\ T \subseteq places /\ i \in T /\ i \notin S
      <3> i \in Int /\ j \in Int /\ places \subseteq Int
        OBVIOUS
      <3>1. \A l \in places : l < i => l < j
        BY <1>5
      <3>2. ~(i < i)
        OBVIOUS
      <3>3. QED BY <1>5, <3>1, <3>2
    <2>2. Cardinality(S) < Cardinality(T)
      BY <2>1, <1>3
    <2>3. QED BY <2>2, PlacesBefore
  <1>6. \A k \in 0..Cardinality(places) - 1 : \E i \in places : History!Before(places, i) = k
    <2> DEFINE T == 0..Cardinality(places) - 1
               f == [i \in places |-> History!Before(places, i)]
    <2>1. IsFiniteSet(T) /\ Cardinality(T) = Cardinality(places)
      <3> DEFINE b == Cardinality(places) - 1
      <3>1. Cardinality(places) \in Nat /\ b \in Int
        BY <1>2
      <3>2. IsFiniteSet(0..b) /\ Cardinality(0..b) = IF 0 > b THEN 0 ELSE b - 0 + 1
        <4> HIDE DEF b
        <4>1. QED BY <3>1, FS_Interval
      <3>3. QED BY <3>1, <3>2
    <2>2. f \in [places -> T]
      BY <1>4
    <2>3. \A i, j \in places : f[i] = f[j] => i = j
      <3> SUFFICES ASSUME NEW i \in places, NEW j \in places, f[i] = f[j], i # j
                   PROVE  FALSE
        OBVIOUS
      <3>1. i \in Int /\ j \in Int
        OBVIOUS
      <3>2. f[i] \in Int /\ f[j] \in Int
        BY <2>2
      <3>3. CASE i < j
        BY <3>3, <3>2, <1>5
      <3>4. CASE j < i
        BY <3>4, <3>2, <1>5
      <3>5. QED BY <3>1, <3>3, <3>4
    <2>4. f \in Injection(places, T)
      BY <2>2, <2>3 DEF Injection, IsInjective
    <2>5. f \in Surjection(places, T)
      BY <2>1, <2>4, FS_Injection
    <2>6. \A k \in T : \E i \in places : f[i] = k
      BY <2>5 DEF Surjection
    <2>7. QED BY <2>6
  <1>7. QED BY <1>2, <1>4, <1>5, <1>6

\* So many of the places come before the m-th.
LEMMA PlacesCounted ==
  ASSUME NEW n \in Nat, NEW places \in SUBSET (1..n), NEW m \in Nat
  PROVE  Cardinality({i \in places : History!Before(places, i) < m})
           = IF m < Cardinality(places) THEN m ELSE Cardinality(places)
PROOF
  <1> DEFINE S == {i \in places : History!Before(places, i) < m}
             c == IF m < Cardinality(places) THEN m ELSE Cardinality(places)
             T == 0..c - 1
             f == [i \in S |-> History!Before(places, i)]
  <1>1. /\ IsFiniteSet(places) /\ Cardinality(places) \in Nat
        /\ \A i \in places : History!Before(places, i) \in 0..Cardinality(places) - 1
        /\ \A i, j \in places : i < j => History!Before(places, i) < History!Before(places, j)
        /\ \A k \in 0..Cardinality(places) - 1 : \E i \in places : History!Before(places, i) = k
    BY PlacesNumbered
  <1>2. c \in Nat /\ IsFiniteSet(T) /\ Cardinality(T) = c
    <2> DEFINE b == c - 1
    <2>1. c \in Nat /\ b \in Int
      BY <1>1
    <2>2. IsFiniteSet(0..b) /\ Cardinality(0..b) = IF 0 > b THEN 0 ELSE b - 0 + 1
      <3> HIDE DEF b
      <3>1. QED BY <2>1, FS_Interval
    <2>3. QED BY <2>1, <2>2
  <1>3. f \in [S -> T]
    <2> SUFFICES ASSUME NEW i \in S PROVE History!Before(places, i) \in 0..c - 1
      OBVIOUS
    <2>1. /\ History!Before(places, i) \in 0..Cardinality(places) - 1
          /\ History!Before(places, i) < m
      BY <1>1
    <2>2. QED BY <2>1, <1>1
  <1>4. \A k \in T : \E i \in S : f[i] = k
    <2> TAKE k \in T
    <2>1. k \in 0..Cardinality(places) - 1 /\ k < m
      BY <1>1
    <2>2. PICK i \in places : History!Before(places, i) = k
      BY <2>1, <1>1
    <2>3. QED BY <2>1, <2>2
  <1>5. \A i, j \in S : f[i] = f[j] => i = j
    <2> SUFFICES ASSUME NEW i \in S, NEW j \in S, f[i] = f[j], i # j
                 PROVE  FALSE
      OBVIOUS
    <2>1. i \in Int /\ j \in Int /\ f[i] \in Int /\ f[j] \in Int
      BY <1>3
    <2>2. CASE i < j
      BY <2>2, <2>1, <1>1
    <2>3. CASE j < i
      BY <2>3, <2>1, <1>1
    <2>4. QED BY <2>1, <2>2, <2>3
  <1>6. f \in Injection(S, T) /\ f \in Surjection(S, T)
    BY <1>3, <1>4, <1>5 DEF Injection, IsInjective, Surjection
  <1>7. Cardinality(S) = Cardinality(T)
    BY <1>2, <1>6, FS_Injection
  <1>8. QED BY <1>7, <1>2

\* What is left of records, in any order.
LEMMA WithoutFacts ==
  ASSUME NEW rs \in Seq(HistoryRecords), Distinct(rs), NEW ids
  PROVE  LET rest == History!Without(rs, ids)
             left == {i \in DOMAIN rs : rs[i].id \notin ids}
         IN  /\ rest \in Seq(HistoryRecords) /\ Distinct(rest)
             /\ RecordsIn(rest) = {r \in RecordsIn(rs) : r.id \notin ids}
             /\ Len(rest) = Cardinality(left) /\ Len(rest) \in 0..Len(rs)
             /\ Len(rest) = Len(rs) <=> left = DOMAIN rs
PROOF
  <1> DEFINE left == {i \in DOMAIN rs : rs[i].id \notin ids}
             c == Cardinality(left)
             at == [k \in 1..c |-> CHOOSE i \in left : History!Before(left, i) + 1 = k]
             rest == History!Without(rs, ids)
  <1>1. DOMAIN rs = 1..Len(rs) /\ Len(rs) \in Nat /\ left \in SUBSET (1..Len(rs))
    OBVIOUS
  <1>2. /\ c \in 0..Len(rs) /\ (c = Len(rs) <=> left = 1..Len(rs))
        /\ \A i \in left : History!Before(left, i) \in 0..c - 1
        /\ \A i, j \in left : i < j => History!Before(left, i) < History!Before(left, j)
        /\ \A k \in 0..c - 1 : \E i \in left : History!Before(left, i) = k
    <2> HIDE DEF left
    <2>1. QED BY <1>1, PlacesNumbered
  <1>3. rest = [k \in 1..c |-> rs[at[k]]]
    <2>1. \A S : History!Cardinality(S) = Cardinality(S)
      BY DEF History!Cardinality, Cardinality
    <2>2. QED BY <2>1 DEF History!Without
  <1>4. \A k \in 1..c : at[k] \in left /\ History!Before(left, at[k]) + 1 = k
    <2> TAKE k \in 1..c
    <2>1. k - 1 \in 0..c - 1
      BY <1>2
    <2>2. PICK i \in left : History!Before(left, i) = k - 1
      BY <2>1, <1>2
    <2>3. History!Before(left, i) + 1 = k
      BY <2>2, <1>2
    <2>4. at[k] = CHOOSE l \in left : History!Before(left, l) + 1 = k
      OBVIOUS
    <2> HIDE DEF left, at
    <2>5. QED BY <2>3, <2>4
  <1>5. \A i \in left : \E k \in 1..c : at[k] = i
    <2> TAKE i \in left
    <2>1. History!Before(left, i) + 1 \in 1..c
      BY <1>2
    <2> DEFINE k == History!Before(left, i) + 1
    <2>2. at[k] \in left /\ History!Before(left, at[k]) + 1 = k
      BY <2>1, <1>4
    <2>3. i \in Int /\ at[k] \in Int
      BY <1>1, <2>2
    <2>4. History!Before(left, at[k]) = History!Before(left, i)
      <3>1. History!Before(left, at[k]) \in Int /\ History!Before(left, i) \in Int
        BY <2>2, <1>2
      <3>2. History!Before(left, at[k]) + 1 = History!Before(left, i) + 1
        BY <2>2
      <3> HIDE DEF left, at, k
      <3>3. QED BY <3>1, <3>2
    <2>5. ~(i < at[k]) /\ ~(at[k] < i)
      BY <2>2, <2>4, <1>2
    <2>6. k \in 1..c /\ at[k] = i
      BY <2>1, <2>3, <2>5
    <2> HIDE DEF at, c, k, left
    <2>7. QED BY <2>6
  <1> HIDE DEF at, c, rest
  <1>6. rest \in Seq(HistoryRecords) /\ Len(rest) = c /\ DOMAIN rest = 1..c
    <2>1. \A k \in 1..c : rs[at[k]] \in HistoryRecords
      <3>1. \A k \in 1..c : at[k] \in DOMAIN rs
        BY <1>4
      <3>2. \A i \in DOMAIN rs : rs[i] \in HistoryRecords
        OBVIOUS
      <3>3. QED BY <3>1, <3>2
    <2>2. rest \in [1..c -> HistoryRecords]
      BY <2>1, <1>3
    <2>3. c \in Nat
      <3>1. c \in 0..Len(rs)
        BY <1>2
      <3>2. QED BY <3>1, <1>1
    <2>4. QED BY <2>2, <2>3
  <1>7. RecordsIn(rest) = {r \in RecordsIn(rs) : r.id \notin ids}
    <2>1. \A k \in 1..c : rest[k] = rs[at[k]] /\ at[k] \in left
      BY <1>3, <1>4
    <2>2. \A k \in 1..c : rest[k] \in RecordsIn(rs) /\ rest[k].id \notin ids
      BY <2>1 DEF RecordsIn
    <2>3. ASSUME NEW r \in RecordsIn(rs), r.id \notin ids
          PROVE  r \in RecordsIn(rest)
      <3>1. PICK i \in DOMAIN rs : r = rs[i]
        BY DEF RecordsIn
      <3>2. PICK k \in 1..c : at[k] = i
        BY <3>1, <2>3, <1>5
      <3>3. QED BY <3>1, <3>2, <2>1, <1>6 DEF RecordsIn
    <2>4. QED BY <2>2, <2>3, <1>6 DEF RecordsIn
  <1>8. Distinct(rest)
    <2> SUFFICES ASSUME NEW k \in 1..c, NEW l \in 1..c, rest[k].id = rest[l].id
                 PROVE  k = l
      BY <1>6 DEF Distinct
    <2>1. at[k] = at[l]
      BY <1>3, <1>4 DEF Distinct
    <2>2. /\ History!Before(left, at[k]) + 1 = k
          /\ History!Before(left, at[l]) + 1 = l
      BY <1>4
    <2>3. QED BY <2>1, <2>2
  <1>9. QED BY <1>1, <1>2, <1>6, <1>7, <1>8 DEF rest, c

LEMMA SameRecords ==
  ASSUME NEW rs \in Seq(HistoryRecords)
  PROVE  /\ History!Ids(rs) = {r.id : r \in RecordsIn(rs)}
         /\ History!OpenIds(rs) = {r.id : r \in {r \in RecordsIn(rs) : r.open}}
         /\ \A ps : History!IdsOf(rs, ps) = {r.id : r \in {r \in RecordsIn(rs) : r.profile \in ps}}
         /\ RecordsIn(rs) \subseteq HistoryRecords
         /\ Distinct(rs) => \A r, q \in RecordsIn(rs) : r.id = q.id => r = q
PROOF
  BY DEF History!Ids, History!OpenIds, History!IdsOf, RecordsIn, Distinct

\* What gives way when the history is full: ended records, and no more than that.
LEMMA PrunedFacts ==
  ASSUME NEW rs \in Seq(HistoryRecords), Distinct(rs)
  PROVE  LET rest == History!Pruned(rs)
             open == {i \in DOMAIN rs : rs[i].open}
         IN  /\ rest \in Seq(HistoryRecords) /\ Distinct(rest)
             /\ RecordsIn(rest) \subseteq RecordsIn(rs)
             /\ \A r \in RecordsIn(rs) : r.open => r \in RecordsIn(rest)
             /\ Len(rest) \in 0..Len(rs)
             /\ Len(rs) <= MaxSessions =>
                  RecordsIn(rest) = RecordsIn(rs) /\ Len(rest) = Len(rs)
             /\ Len(rs) >= MaxSessions => Len(rest) >= MaxSessions
             /\ Cardinality(open) <= MaxSessions => Len(rest) <= MaxSessions
PROOF
  <1> DEFINE n == Len(rs)
             ended == {i \in DOMAIN rs : ~rs[i].open}
             open == {i \in DOMAIN rs : rs[i].open}
             old == {i \in ended : History!Before(ended, i) + MaxSessions < n}
             ids == {rs[i].id : i \in old}
             left == {i \in DOMAIN rs : rs[i].id \notin ids}
             rest == History!Pruned(rs)
  <1>1. DOMAIN rs = 1..n /\ n \in Nat /\ MaxSessions \in Nat
    BY HistoryAssumption
  <1>2. ended \in SUBSET (1..n) /\ open \in SUBSET (1..n) /\ old \in SUBSET (1..n)
    BY <1>1
  <1>3. rest = History!Without(rs, ids)
    BY DEF History!Pruned
  <1>4. left = (1..n) \ old
    BY <1>1 DEF Distinct
  <1> HIDE DEF rest
  <1>5. /\ rest \in Seq(HistoryRecords) /\ Distinct(rest)
        /\ RecordsIn(rest) = {r \in RecordsIn(rs) : r.id \notin ids}
        /\ Len(rest) = Cardinality(left) /\ Len(rest) \in 0..n
        /\ Len(rest) = n <=> left = 1..n
    <2> HIDE DEF ids
    <2>1. QED BY <1>1, <1>3, WithoutFacts
  <1>6. \A i \in ended : History!Before(ended, i) \in Nat
    <2> HIDE DEF ended, n
    <2>1. \A i \in ended : History!Before(ended, i) \in 0..Cardinality(ended) - 1
      BY <1>1, <1>2, PlacesNumbered
    <2>2. QED BY <2>1
  <1>7. \A r \in RecordsIn(rs) : r.open => r \in RecordsIn(rest)
    <2> SUFFICES ASSUME NEW i \in DOMAIN rs, rs[i].open PROVE rs[i].id \notin ids
      BY <1>5 DEF RecordsIn
    <2> SUFFICES ASSUME NEW j \in old, rs[i].id = rs[j].id PROVE FALSE
      OBVIOUS
    <2>1. QED BY DEF Distinct
  <1>8. n <= MaxSessions => RecordsIn(rest) = RecordsIn(rs) /\ Len(rest) = n
    <2> SUFFICES ASSUME n <= MaxSessions
                 PROVE  RecordsIn(rest) = RecordsIn(rs) /\ Len(rest) = n
      OBVIOUS
    <2>1. old = {}
      BY <1>1, <1>6
    <2>2. left = 1..n /\ ids = {}
      BY <2>1, <1>4
    <2>3. QED BY <2>2, <1>5
  <1>9. IsFiniteSet(ended) /\ IsFiniteSet(old) /\ IsFiniteSet(open) /\ IsFiniteSet(left)
        /\ Cardinality(ended) \in Nat /\ Cardinality(old) \in Nat
        /\ Cardinality(open) \in Nat /\ Cardinality(left) \in Nat
    <2>1. left \in SUBSET (1..n)
      BY <1>4
    <2> HIDE DEF ended, old, open, left
    <2>2. IsFiniteSet(1..n)
      BY <1>1, FS_Interval
    <2>3. IsFiniteSet(ended) /\ IsFiniteSet(old) /\ IsFiniteSet(open) /\ IsFiniteSet(left)
      BY <2>1, <2>2, <1>2, FS_Subset
    <2>4. QED BY <2>3, FS_CardinalityType
  <1>10. Cardinality(left) + Cardinality(old) = n
    <2>1. left \cup old = 1..n /\ left \cap old = {}
      BY <1>2, <1>4
    <2> HIDE DEF left, old, n
    <2>2. Cardinality(left \cup old) =
            Cardinality(left) + Cardinality(old) - Cardinality(left \cap old)
      BY <1>9, FS_Union
    <2>4. Cardinality(1..n) = Cardinality(left) + Cardinality(old) - Cardinality({})
      BY <2>1, <2>2
    <2>3. Cardinality(1..n) = n /\ Cardinality({}) = 0
      BY <1>1, FS_Interval, FS_EmptySet
    <2>5. QED BY <2>4, <2>3, <1>1, <1>9
  <1>11. Cardinality(open) + Cardinality(ended) = n
    <2>1. open \cup ended = 1..n /\ open \cap ended = {}
      BY <1>1
    <2> HIDE DEF open, ended, n
    <2>2. Cardinality(open \cup ended) =
            Cardinality(open) + Cardinality(ended) - Cardinality(open \cap ended)
      BY <1>9, FS_Union
    <2>4. Cardinality(1..n) = Cardinality(open) + Cardinality(ended) - Cardinality({})
      BY <2>1, <2>2
    <2>3. Cardinality(1..n) = n /\ Cardinality({}) = 0
      BY <1>1, FS_Interval, FS_EmptySet
    <2>5. QED BY <2>4, <2>3, <1>1, <1>9
  <1>12. ASSUME n >= MaxSessions
         PROVE  Cardinality(old) = IF n - MaxSessions < Cardinality(ended)
                                   THEN n - MaxSessions ELSE Cardinality(ended)
    <2> DEFINE m == n - MaxSessions
    <2>1. m \in Nat
      BY <1>1, <1>12
    <2>2. old = {i \in ended : History!Before(ended, i) < m}
      BY <1>1, <1>6
    <2> HIDE DEF ended, old, m
    <2>3. Cardinality({i \in ended : History!Before(ended, i) < m})
            = IF m < Cardinality(ended) THEN m ELSE Cardinality(ended)
      BY <2>1, <1>1, <1>2, PlacesCounted
    <2>4. QED BY <2>2, <2>3 DEF m
  <1>13. n >= MaxSessions => Len(rest) >= MaxSessions
    <2> HIDE DEF ended, old, left
    <2>1. QED BY <1>1, <1>5, <1>9, <1>10, <1>12
  <1>14. Cardinality(open) <= MaxSessions => Len(rest) <= MaxSessions
    <2> HIDE DEF ended, old, left, open
    <2>1. CASE n < MaxSessions
      BY <2>1, <1>1, <1>5
    <2>2. CASE n >= MaxSessions
      BY <2>2, <1>1, <1>5, <1>9, <1>10, <1>11, <1>12
    <2>3. QED BY <2>1, <2>2, <1>1
  <1>15. QED BY <1>5, <1>7, <1>8, <1>13, <1>14 DEF rest

-----------------------------------------------------------------------------
(* The history: stores.                                                    *)

HistoryFiles == [kind : {"absent", "corrupt", "document"}, records : Seq(HistoryRecords)]
Stores ==
  [sessions : Seq(HistoryRecords), registered : SUBSET Nat, cleared : SUBSET Profiles,
   failed : BOOLEAN, dirty : BOOLEAN, timer : BOOLEAN, needsRead : BOOLEAN,
   pending : BOOLEAN, file : HistoryFiles, backup : BOOLEAN]

InMemory(a) == RecordsIn(a.sessions)
InFile(a) == RecordsIn(a.file.records)

\* Memory holds no more than the limit and nothing that was erased, open records are
\* the registered ones, and what memory and file both hold is of one profile.
Consistent(a, nx, er) ==
  /\ a \in Stores
  /\ Distinct(a.sessions) /\ Len(a.sessions) <= MaxSessions
  /\ \A r \in InMemory(a) : r.id < nx /\ r.id \notin er /\ (r.open <=> r.id \in a.registered)
  /\ \A id \in a.registered : \E r \in InMemory(a) : r.id = id
  /\ Distinct(a.file.records) /\ (a.file.kind # "document" => a.file.records = <<>>)
  /\ \A q \in InFile(a) : q.id < nx
  /\ \A q \in InFile(a), r \in InMemory(a) : r.id = q.id => r.profile = q.profile

\* What could not be read or copied is remembered as a failure.
Recorded(a) ==
  /\ a.needsRead \/ a.pending => a.failed
  /\ a.pending => a.file.kind = "corrupt" /\ ~a.needsRead
  /\ a.file.kind = "corrupt" => a.backup \/ a.needsRead \/ a.pending

\* Of a file that was not read nothing is in memory, and what was erased of it are the
\* records of the profiles that were cleared.
Unread(a, er) ==
  \A q \in InFile(a) :
    (q.profile \in a.cleared <=> q.id \in er) /\ \A r \in InMemory(a) : r.id # q.id

Usable(a, nx, er) ==
  Consistent(a, nx, er) /\ Recorded(a) /\ (a.needsRead => Unread(a, er))

\* A file is replaced by what memory holds, if it was read, and copied if damaged.
Written(a, b) ==
  b.file # a.file =>
    /\ b.file.kind = "document" /\ InFile(b) = InMemory(b) /\ ~b.needsRead
    /\ a.file.kind = "corrupt" => b.backup

LEMMA SameUsable ==
  ASSUME NEW nx, NEW er, NEW a, Usable(a, nx, er), NEW b \in Stores, Recorded(b),
         Distinct(b.sessions), InMemory(b) = InMemory(a), Len(b.sessions) <= MaxSessions,
         b.registered = a.registered, b.cleared = a.cleared, b.file = a.file,
         b.needsRead = a.needsRead
  PROVE  Usable(b, nx, er)
PROOF
  BY DEF Usable, Consistent, Unread, InMemory, InFile

LEMMA WrittenUsable ==
  ASSUME NEW nx, NEW er, NEW a, Usable(a, nx, er), NEW b \in Stores, Recorded(b),
         Distinct(b.sessions), InMemory(b) = InMemory(a), Len(b.sessions) <= MaxSessions,
         b.registered = a.registered, b.file.kind = "document", ~b.needsRead,
         b.file.records = b.sessions
  PROVE  Usable(b, nx, er)
PROOF
  <1>1. InFile(b) = InMemory(b)
    BY DEF InFile, InMemory
  <1>2. \A r, q \in InMemory(b) : r.id = q.id => r = q
    BY SameRecords DEF InMemory, Stores
  <1>3. QED BY <1>1, <1>2 DEF Usable, Consistent, InMemory

\* flush: what memory holds stays, and what is written is what it holds.
LEMMA FlushFacts ==
  ASSUME NEW nx, NEW er, NEW a, Usable(a, nx, er), NEW b \in History!Flush(a)
  PROVE  /\ Usable(b, nx, er) /\ InMemory(b) = InMemory(a)
         /\ Len(b.sessions) = Len(a.sessions)
         /\ b.needsRead = a.needsRead /\ b.backup = a.backup /\ Written(a, b)
         /\ a.dirty /\ ~b.failed => InFile(b) = InMemory(b)
PROOF
  <1> DEFINE rest == History!Pruned(a.sessions)
             p == [a EXCEPT !.timer = FALSE, !.sessions = rest,
                            !.dirty = @ \/ rest # a.sessions]
             written == [p EXCEPT !.file = History!Document(p.sessions)]
             b1 == [written EXCEPT !.dirty = FALSE, !.cleared = {}, !.failed = FALSE]
             b2 == [written EXCEPT !.dirty = TRUE, !.failed = TRUE]
             b3 == [p EXCEPT !.dirty = TRUE, !.failed = TRUE]
  <1>1. a \in Stores /\ Distinct(a.sessions) /\ Len(a.sessions) <= MaxSessions
        /\ a.sessions \in Seq(HistoryRecords)
    BY DEF Usable, Consistent, Stores
  <1>2. /\ rest \in Seq(HistoryRecords) /\ Distinct(rest)
        /\ RecordsIn(rest) = RecordsIn(a.sessions) /\ Len(rest) = Len(a.sessions)
    BY <1>1, PrunedFacts
  <1>3. \/ b = p /\ (p.needsRead \/ p.pending \/ ~(p.dirty \/ p.failed))
        \/ b = b3 /\ ~(p.needsRead \/ p.pending)
        \/ b \in {b1, b2} /\ ~(p.needsRead \/ p.pending)
    BY DEF History!Flush
  <1> HIDE DEF rest
  <1>4. /\ p \in Stores /\ p.sessions = rest /\ p.registered = a.registered
        /\ p.cleared = a.cleared /\ p.failed = a.failed /\ p.needsRead = a.needsRead
        /\ p.pending = a.pending /\ p.file = a.file /\ p.backup = a.backup
        /\ p.dirty = (a.dirty \/ rest # a.sessions)
    BY <1>1, <1>2 DEF Stores
  <1>5. Recorded(a)
    BY DEF Usable
  <1>6. CASE b = p /\ (p.needsRead \/ p.pending \/ ~(p.dirty \/ p.failed))
    <2> HIDE DEF p
    <2>1. Recorded(b)
      BY <1>4, <1>5, <1>6 DEF Recorded
    <2>2. Usable(b, nx, er)
      BY <2>1, <1>1, <1>2, <1>4, <1>6, SameUsable DEF InMemory
    <2>3. QED BY <2>2, <2>1, <1>2, <1>4, <1>6 DEF InMemory, Written, Recorded
  <1>7. CASE b = b3 /\ ~(p.needsRead \/ p.pending)
    <2>1. /\ b \in Stores /\ b.sessions = rest /\ b.registered = a.registered
          /\ b.cleared = a.cleared /\ b.failed /\ b.needsRead = a.needsRead
          /\ b.pending = a.pending /\ b.file = a.file /\ b.backup = a.backup
      <3> HIDE DEF p
      <3>1. QED BY <1>4, <1>7 DEF Stores
    <2> HIDE DEF p, b3
    <2>2. Recorded(b)
      BY <2>1, <1>5 DEF Recorded
    <2>3. Usable(b, nx, er)
      BY <2>1, <2>2, <1>1, <1>2, SameUsable DEF InMemory
    <2>4. QED BY <2>1, <2>3, <1>2 DEF InMemory, Written
  <1>8. CASE b \in {b1, b2} /\ ~(p.needsRead \/ p.pending)
    <2>1. History!Document(rest) \in HistoryFiles /\ History!Document(rest).kind = "document"
          /\ History!Document(rest).records = rest
      BY <1>2 DEF History!Document, HistoryFiles
    <2>2. /\ written \in Stores /\ written.sessions = rest
          /\ written.registered = a.registered /\ written.needsRead = a.needsRead
          /\ written.pending = a.pending /\ written.backup = a.backup
          /\ written.file = History!Document(rest)
      <3> HIDE DEF p
      <3>1. QED BY <1>4, <2>1 DEF Stores
    <2>3. /\ b \in Stores /\ b.sessions = rest
          /\ b.registered = a.registered /\ b.needsRead = a.needsRead
          /\ b.pending = a.pending /\ b.backup = a.backup
          /\ b.file = History!Document(rest)
      <3> HIDE DEF written, p
      <3>1. QED BY <2>2, <1>8 DEF Stores
    <2>4. ~a.needsRead /\ ~a.pending
      BY <1>4, <1>8
    <2> HIDE DEF p, b1, b2, written
    <2>5. Recorded(b)
      BY <2>1, <2>3, <2>4 DEF Recorded
    <2>6. Usable(b, nx, er)
      BY <2>1, <2>3, <2>4, <2>5, <1>1, <1>2, WrittenUsable DEF InMemory
    <2>7. InFile(b) = InMemory(b) /\ InMemory(b) = InMemory(a)
      BY <2>1, <2>3, <1>2 DEF InFile, InMemory
    <2>8. a.file.kind = "corrupt" => b.backup
      BY <1>5, <2>3, <2>4 DEF Recorded
    <2>9. QED BY <2>1, <2>3, <2>4, <2>6, <2>7, <2>8, <1>2 DEF Written
  <1> HIDE DEF p, b1, b2, b3, written
  <1>9. QED BY <1>3, <1>6, <1>7, <1>8

LEMMA Joined ==
  ASSUME NEW x \in Seq(HistoryRecords), NEW y \in Seq(HistoryRecords),
         Distinct(x), Distinct(y),
         \A r \in RecordsIn(x), q \in RecordsIn(y) : r.id # q.id
  PROVE  /\ x \o y \in Seq(HistoryRecords) /\ Distinct(x \o y)
         /\ RecordsIn(x \o y) = RecordsIn(x) \cup RecordsIn(y)
         /\ Len(x \o y) = Len(x) + Len(y)
         /\ \A i \in DOMAIN (x \o y) :
              IF i <= Len(x) THEN i \in DOMAIN x /\ (x \o y)[i] = x[i]
              ELSE i - Len(x) \in DOMAIN y /\ (x \o y)[i] = y[i - Len(x)]
PROOF
  <1> DEFINE z == x \o y
  <1>1. /\ z \in Seq(HistoryRecords) /\ Len(z) = Len(x) + Len(y)
        /\ DOMAIN z = 1..Len(z) /\ DOMAIN x = 1..Len(x) /\ DOMAIN y = 1..Len(y)
        /\ Len(x) \in Nat /\ Len(y) \in Nat
    OBVIOUS
  <1>2. \A i \in DOMAIN z :
          IF i <= Len(x) THEN i \in DOMAIN x /\ z[i] = x[i]
          ELSE i - Len(x) \in DOMAIN y /\ z[i] = y[i - Len(x)]
    BY <1>1
  <1>3. /\ \A i \in DOMAIN x : i \in DOMAIN z /\ z[i] = x[i]
        /\ \A i \in DOMAIN y : i + Len(x) \in DOMAIN z /\ z[i + Len(x)] = y[i]
    BY <1>1
  <1> HIDE DEF z
  <1>4. RecordsIn(z) \subseteq RecordsIn(x) \cup RecordsIn(y)
    BY <1>2 DEF RecordsIn
  <1>5. RecordsIn(x) \cup RecordsIn(y) \subseteq RecordsIn(z)
    BY <1>3 DEF RecordsIn
  <1>6. Distinct(z)
    <2> SUFFICES ASSUME NEW i \in DOMAIN z, NEW j \in DOMAIN z, z[i].id = z[j].id
                 PROVE  i = j
      BY DEF Distinct
    <2>1. i \in Nat /\ j \in Nat
      BY <1>1
    <2>2. CASE i <= Len(x) /\ j <= Len(x)
      BY <2>2, <1>2 DEF Distinct
    <2>3. CASE ~(i <= Len(x)) /\ ~(j <= Len(x))
      <3>1. i - Len(x) = j - Len(x)
        BY <2>3, <1>2 DEF Distinct
      <3>2. QED BY <3>1, <2>1, <1>1
    <2>4. CASE i <= Len(x) /\ ~(j <= Len(x))
      <3>1. z[i] \in RecordsIn(x) /\ z[j] \in RecordsIn(y)
        BY <2>4, <1>2 DEF RecordsIn
      <3>2. QED BY <3>1
    <2>5. CASE ~(i <= Len(x)) /\ j <= Len(x)
      <3>1. z[j] \in RecordsIn(x) /\ z[i] \in RecordsIn(y)
        BY <2>5, <1>2 DEF RecordsIn
      <3>2. QED BY <3>1
    <2>6. QED BY <2>2, <2>3, <2>4, <2>5
  <1>7. QED BY <1>1, <1>2, <1>4, <1>5, <1>6 DEF z

\* _load: what is merged of a document and of memory.
Merged(a) ==
  LET old == a.file.records
      taken == History!Without(old, History!IdsOf(old, a.cleared) \cup History!Ids(a.sessions))
      ended == History!Without(taken, History!OpenIds(taken))
      open == History!Without(taken, History!Ids(ended))
      interrupted == [i \in DOMAIN open |-> [open[i] EXCEPT !.open = FALSE]]
  IN  ended \o a.sessions \o interrupted

LEMMA MergedFacts ==
  ASSUME NEW nx, NEW er, NEW a, Consistent(a, nx, er), Unread(a, er)
  PROVE  /\ Merged(a) \in Seq(HistoryRecords) /\ Distinct(Merged(a))
         /\ Cardinality({i \in DOMAIN Merged(a) : Merged(a)[i].open}) <= MaxSessions
         /\ InMemory(a) \subseteq RecordsIn(Merged(a))
         /\ \A r \in RecordsIn(Merged(a)) :
              \/ r \in InMemory(a)
              \/ /\ ~r.open
                 /\ \E q \in InFile(a) :
                      q.id = r.id /\ q.profile = r.profile /\ q.profile \notin a.cleared
         /\ \A q \in InFile(a) :
              \/ q.profile \in a.cleared
              \/ \E r \in RecordsIn(Merged(a)) : r.id = q.id
PROOF
  <1> DEFINE old == a.file.records
             gone == History!IdsOf(old, a.cleared) \cup History!Ids(a.sessions)
             taken == History!Without(old, gone)
             ended == History!Without(taken, History!OpenIds(taken))
             open == History!Without(taken, History!Ids(ended))
             interrupted == [i \in DOMAIN open |-> [open[i] EXCEPT !.open = FALSE]]
             first == ended \o a.sessions
  <1>1. /\ old \in Seq(HistoryRecords) /\ Distinct(old)
        /\ a.sessions \in Seq(HistoryRecords) /\ Distinct(a.sessions)
        /\ Len(a.sessions) <= MaxSessions /\ Len(a.sessions) \in Nat /\ MaxSessions \in Nat
    BY HistoryAssumption DEF Consistent, Stores, HistoryFiles
  <1>2. \A q \in RecordsIn(old) :
          (q.id \in gone) <=> q.profile \in a.cleared \/ \E r \in InMemory(a) : r.id = q.id
    <2>1. /\ History!Ids(a.sessions) = {r.id : r \in InMemory(a)}
          /\ History!IdsOf(old, a.cleared) =
               {r.id : r \in {r \in RecordsIn(old) : r.profile \in a.cleared}}
          /\ \A r, q \in RecordsIn(old) : r.id = q.id => r = q
      BY <1>1, SameRecords DEF InMemory
    <2> HIDE DEF old
    <2>2. QED BY <2>1
  <1>3. /\ taken \in Seq(HistoryRecords) /\ Distinct(taken)
        /\ RecordsIn(taken) = {r \in RecordsIn(old) : r.id \notin gone}
    <2> HIDE DEF old, gone
    <2>1. QED BY <1>1, WithoutFacts
  <1> HIDE DEF taken
  <1>4. /\ ended \in Seq(HistoryRecords) /\ Distinct(ended)
        /\ RecordsIn(ended) = {r \in RecordsIn(taken) : r.id \notin History!OpenIds(taken)}
    BY <1>3, WithoutFacts
  <1>5. RecordsIn(ended) = {r \in RecordsIn(taken) : ~r.open}
    <2>1. /\ History!OpenIds(taken) = {r.id : r \in {r \in RecordsIn(taken) : r.open}}
          /\ \A r, q \in RecordsIn(taken) : r.id = q.id => r = q
      BY <1>3, SameRecords
    <2> HIDE DEF ended
    <2>2. QED BY <2>1, <1>4
  <1> HIDE DEF ended
  <1>6. /\ open \in Seq(HistoryRecords) /\ Distinct(open)
        /\ RecordsIn(open) = {r \in RecordsIn(taken) : r.id \notin History!Ids(ended)}
    BY <1>3, WithoutFacts
  <1>7. RecordsIn(open) = {r \in RecordsIn(taken) : r.open}
    <2>1. /\ History!Ids(ended) = {r.id : r \in RecordsIn(ended)}
          /\ \A r, q \in RecordsIn(taken) : r.id = q.id => r = q
          /\ RecordsIn(taken) \subseteq HistoryRecords
      BY <1>3, <1>4, SameRecords
    <2> HIDE DEF open
    <2>2. QED BY <2>1, <1>5, <1>6 DEF HistoryRecords
  <1> HIDE DEF open
  <1>8. /\ interrupted \in Seq(HistoryRecords) /\ Distinct(interrupted)
        /\ \A r \in RecordsIn(interrupted) :
             ~r.open /\ \E q \in RecordsIn(open) : q.id = r.id /\ q.profile = r.profile
        /\ \A q \in RecordsIn(open) : \E r \in RecordsIn(interrupted) : r.id = q.id
    <2>1. /\ \A i \in DOMAIN open : open[i] \in HistoryRecords
          /\ DOMAIN open = 1..Len(open) /\ Len(open) \in Nat
      BY <1>6
    <2>2. \A i \in DOMAIN open :
            /\ interrupted[i] \in HistoryRecords /\ ~interrupted[i].open
            /\ interrupted[i].id = open[i].id /\ interrupted[i].profile = open[i].profile
      BY <2>1 DEF HistoryRecords
    <2>3. DOMAIN interrupted = DOMAIN open
      OBVIOUS
    <2>4. interrupted \in [1..Len(open) -> HistoryRecords]
      BY <2>1, <2>2
    <2> HIDE DEF interrupted
    <2>5. interrupted \in Seq(HistoryRecords)
      BY <2>1, <2>4
    <2>6. Distinct(interrupted)
      BY <2>2, <2>3, <1>6 DEF Distinct
    <2>7. QED BY <2>2, <2>3, <2>5, <2>6 DEF RecordsIn
  <1> HIDE DEF interrupted
  <1>9. \A r \in RecordsIn(taken), q \in RecordsIn(a.sessions) : r.id # q.id
    BY <1>2, <1>3 DEF InMemory
  <1>10. /\ first \in Seq(HistoryRecords) /\ Distinct(first)
         /\ RecordsIn(first) = RecordsIn(ended) \cup RecordsIn(a.sessions)
         /\ Len(first) = Len(ended) + Len(a.sessions)
         /\ \A i \in DOMAIN first :
              IF i <= Len(ended) THEN i \in DOMAIN ended /\ first[i] = ended[i]
              ELSE i - Len(ended) \in DOMAIN a.sessions
                     /\ first[i] = a.sessions[i - Len(ended)]
    BY <1>1, <1>4, <1>5, <1>9, Joined
  <1> HIDE DEF first
  <1>11. \A r \in RecordsIn(first), q \in RecordsIn(interrupted) : r.id # q.id
    <2> SUFFICES ASSUME NEW r \in RecordsIn(first), NEW q \in RecordsIn(interrupted), r.id = q.id
                 PROVE  FALSE
      OBVIOUS
    <2>1. PICK o \in RecordsIn(open) : o.id = q.id
      BY <1>8
    <2>2. CASE r \in RecordsIn(a.sessions)
      BY <2>1, <2>2, <1>7, <1>9
    <2>3. CASE r \in RecordsIn(ended)
      <3>1. r \in RecordsIn(taken) /\ o \in RecordsIn(taken) /\ r.id = o.id /\ o.open /\ ~r.open
        BY <2>1, <2>3, <1>5, <1>7
      <3>2. QED BY <3>1, <1>3, SameRecords
    <2>4. QED BY <2>2, <2>3, <1>10
  <1>12. Merged(a) = first \o interrupted
    BY DEF Merged, first, ended, open, interrupted, taken
  <1> DEFINE m == Merged(a)
  <1>13. /\ m \in Seq(HistoryRecords) /\ Distinct(m)
         /\ RecordsIn(m) = RecordsIn(first) \cup RecordsIn(interrupted)
         /\ \A i \in DOMAIN m :
              IF i <= Len(first) THEN i \in DOMAIN first /\ m[i] = first[i]
              ELSE i - Len(first) \in DOMAIN interrupted
                     /\ m[i] = interrupted[i - Len(first)]
    BY <1>8, <1>10, <1>11, <1>12, Joined
  <1> HIDE DEF m, old, gone
  <1>14. Cardinality({i \in DOMAIN m : m[i].open}) <= MaxSessions
    <2> DEFINE S == {i \in DOMAIN m : m[i].open}
               b == Len(ended)
               T == b + 1..b + Len(a.sessions)
    <2>1. b \in Nat /\ DOMAIN m \subseteq Nat /\ Len(first) = b + Len(a.sessions)
      BY <1>4, <1>10, <1>13
    <2>2. S \subseteq T
      <3> SUFFICES ASSUME NEW i \in DOMAIN m, m[i].open PROVE i \in T
        OBVIOUS
      <3>1. i <= Len(first)
        <4> SUFFICES ASSUME ~(i <= Len(first)) PROVE FALSE
          OBVIOUS
        <4>1. m[i] \in RecordsIn(interrupted)
          BY <1>13 DEF RecordsIn
        <4>2. QED BY <4>1, <1>8
      <3>2. i \in DOMAIN first /\ m[i] = first[i]
        BY <3>1, <1>13
      <3>3. ~(i <= Len(ended))
        <4> SUFFICES ASSUME i <= Len(ended) PROVE FALSE
          OBVIOUS
        <4>1. m[i] \in RecordsIn(ended)
          BY <3>2, <1>10 DEF RecordsIn
        <4>2. QED BY <4>1, <1>5
      <3>4. QED BY <3>1, <3>3, <2>1
    <2>3. IsFiniteSet(T) /\ Cardinality(T) = Len(a.sessions)
      <3> DEFINE lo == b + 1
                 hi == b + Len(a.sessions)
      <3>1. lo \in Int /\ hi \in Int
        BY <2>1, <1>1
      <3>2. IsFiniteSet(lo..hi) /\ Cardinality(lo..hi) = IF lo > hi THEN 0 ELSE hi - lo + 1
        <4> HIDE DEF lo, hi
        <4>1. QED BY <3>1, FS_Interval
      <3>3. (IF lo > hi THEN 0 ELSE hi - lo + 1) = Len(a.sessions)
        BY <2>1, <1>1
      <3>4. QED BY <3>2, <3>3
    <2> HIDE DEF S, T
    <2>4. IsFiniteSet(S) /\ Cardinality(S) <= Cardinality(T)
      BY <2>2, <2>3, FS_Subset
    <2>5. Cardinality(S) \in Nat
      BY <2>4, FS_CardinalityType
    <2>6. Cardinality(S) <= MaxSessions
      BY <2>3, <2>4, <2>5, <1>1
    <2>7. QED BY <2>6 DEF S
  <1>15. InMemory(a) \subseteq RecordsIn(m)
    BY <1>10, <1>13 DEF InMemory
  <1>16. ASSUME NEW r \in RecordsIn(m), r \notin InMemory(a)
         PROVE  /\ ~r.open
                /\ \E q \in InFile(a) :
                     q.id = r.id /\ q.profile = r.profile /\ q.profile \notin a.cleared
    <2>1. /\ ~r.open
          /\ \E q \in RecordsIn(taken) : q.id = r.id /\ q.profile = r.profile
      <3>1. CASE r \in RecordsIn(ended)
        BY <3>1, <1>5
      <3>2. CASE r \in RecordsIn(interrupted)
        BY <3>2, <1>7, <1>8
      <3>3. QED BY <3>1, <3>2, <1>10, <1>13, <1>16 DEF InMemory
    <2>2. \A q \in RecordsIn(taken) : q \in InFile(a) /\ q.profile \notin a.cleared
      BY <1>2, <1>3 DEF InFile, old
    <2>3. QED BY <2>1, <2>2
  <1>17. ASSUME NEW q \in InFile(a), q.profile \notin a.cleared
         PROVE  \E r \in RecordsIn(m) : r.id = q.id
    <2>1. q \in RecordsIn(taken)
      <3>1. \A r \in InMemory(a) : r.id # q.id
        BY DEF Unread
      <3>2. QED BY <3>1, <1>2, <1>3, <1>17 DEF InFile, old
    <2>2. CASE q.open
      BY <2>1, <2>2, <1>7, <1>8, <1>13
    <2>3. CASE ~q.open
      BY <2>1, <2>3, <1>5, <1>10, <1>13
    <2>4. QED BY <2>2, <2>3
  <1>18. QED BY <1>13, <1>14, <1>15, <1>16, <1>17 DEF m

\* Memory that is not full has dropped nothing, and has all of a file that it read.
Remembers(a, b, er) ==
  \/ Len(b.sessions) >= MaxSessions
  \/ \A r \in InMemory(a) : r.id \in er \/ \E t \in InMemory(b) : t.id = r.id
TakesOver(a, b, er) ==
  \/ Len(b.sessions) >= MaxSessions
  \/ \A q \in InFile(a) : q.id \in er \/ \E t \in InMemory(b) : t.id = q.id

LEMMA DocumentLoaded ==
  ASSUME NEW nx, NEW er, NEW a, Consistent(a, nx, er), Unread(a, er), ~a.pending,
         a.file.kind = "document", NEW b \in History!LoadDocument(a)
  PROVE  /\ Usable(b, nx, er) /\ Remembers(a, b, er) /\ Written(a, b) /\ TakesOver(a, b, er)
         /\ ~b.needsRead
PROOF
  <1> DEFINE m == Merged(a)
             rest == History!Pruned(m)
  <1>1. /\ m \in Seq(HistoryRecords) /\ Distinct(m)
        /\ Cardinality({i \in DOMAIN m : m[i].open}) <= MaxSessions
        /\ InMemory(a) \subseteq RecordsIn(m)
        /\ \A r \in RecordsIn(m) :
             \/ r \in InMemory(a)
             \/ /\ ~r.open
                /\ \E q \in InFile(a) :
                     q.id = r.id /\ q.profile = r.profile /\ q.profile \notin a.cleared
        /\ \A q \in InFile(a) :
             q.profile \in a.cleared \/ \E r \in RecordsIn(m) : r.id = q.id
    BY MergedFacts
  <1> HIDE DEF m
  <1>2. /\ rest \in Seq(HistoryRecords) /\ Distinct(rest)
        /\ RecordsIn(rest) \subseteq RecordsIn(m)
        /\ \A r \in RecordsIn(m) : r.open => r \in RecordsIn(rest)
        /\ Len(m) <= MaxSessions => RecordsIn(rest) = RecordsIn(m)
        /\ Len(m) >= MaxSessions => Len(rest) >= MaxSessions
        /\ Len(rest) <= MaxSessions
    BY <1>1, PrunedFacts
  <1>3. PICK dirt \in BOOLEAN :
          LET read == [a EXCEPT !.needsRead = FALSE, !.sessions = rest, !.dirty = dirt]
          IN  b \in IF read.dirty THEN History!Flush(read) ELSE {read}
    <2> DEFINE old == a.file.records
               taken == History!Without(old, History!IdsOf(old, a.cleared)
                                               \cup History!Ids(a.sessions))
               ended == History!Without(taken, History!OpenIds(taken))
               open == History!Without(taken, History!Ids(ended))
               changed == History!IdsOf(old, a.cleared) # {} \/ open # <<>> \/ rest # m
    <2>1. b \in LET read == [a EXCEPT !.needsRead = FALSE, !.sessions = rest,
                                      !.dirty = @ \/ changed]
                IN  IF read.dirty THEN History!Flush(read) ELSE {read}
      BY DEF History!LoadDocument, Merged, m
    <2> DEFINE dirt == a.dirty \/ changed
    <2>2. dirt \in BOOLEAN /\ a \in Stores
      BY DEF Consistent
    <2>3. [a EXCEPT !.needsRead = FALSE, !.sessions = rest, !.dirty = @ \/ changed]
            = [a EXCEPT !.needsRead = FALSE, !.sessions = rest, !.dirty = dirt]
      BY <2>2 DEF Stores
    <2> HIDE DEF dirt, changed, rest
    <2>4. LET read == [a EXCEPT !.needsRead = FALSE, !.sessions = rest, !.dirty = dirt]
          IN  b \in IF read.dirty THEN History!Flush(read) ELSE {read}
      BY <2>1, <2>3
    <2>5. dirt \in BOOLEAN
      BY <2>2
    <2>6. QED BY <2>4, <2>5
  <1> DEFINE read == [a EXCEPT !.needsRead = FALSE, !.sessions = rest, !.dirty = dirt]
  <1> HIDE DEF rest
  <1>4. /\ read \in Stores /\ read.sessions = rest /\ ~read.needsRead /\ ~read.pending
        /\ read.registered = a.registered /\ read.cleared = a.cleared
        /\ read.file = a.file /\ read.backup = a.backup
    BY <1>2 DEF Consistent, Stores
  <1>5. b \in IF read.dirty THEN History!Flush(read) ELSE {read}
    BY <1>3
  <1> HIDE DEF read
  <1>6. /\ InMemory(read) = RecordsIn(rest) /\ InFile(read) = InFile(a)
        /\ a.file.records \in Seq(HistoryRecords)
        /\ Distinct(a.file.records)
    BY <1>4 DEF InMemory, InFile, Consistent, Stores, HistoryFiles
  <1>7. \A r \in InMemory(read) :
          r.id < nx /\ r.id \notin er /\ (r.open <=> r.id \in read.registered)
    <2> SUFFICES ASSUME NEW r \in RecordsIn(rest)
                 PROVE  r.id < nx /\ r.id \notin er /\ (r.open <=> r.id \in a.registered)
      BY <1>4, <1>6
    <2>1. CASE r \in InMemory(a)
      BY <2>1 DEF Consistent
    <2>2. CASE r \notin InMemory(a)
      <3>1. PICK q \in InFile(a) : q.id = r.id /\ q.profile \notin a.cleared
        BY <2>2, <1>1, <1>2
      <3>2. ~r.open
        BY <2>2, <1>1, <1>2
      <3>3. q.id \notin er /\ q.id < nx /\ \A t \in InMemory(a) : t.id # q.id
        BY <3>1 DEF Unread, Consistent
      <3>4. r.id \notin a.registered
        BY <3>1, <3>3 DEF Consistent
      <3>5. QED BY <3>1, <3>2, <3>3, <3>4
    <2>3. QED BY <2>1, <2>2
  <1>8. \A id \in read.registered : \E r \in InMemory(read) : r.id = id
    <2> SUFFICES ASSUME NEW id \in a.registered
                 PROVE  \E r \in RecordsIn(rest) : r.id = id
      BY <1>4, <1>6
    <2>1. PICK r \in InMemory(a) : r.id = id
      BY DEF Consistent
    <2>2. r.open
      BY <2>1 DEF Consistent
    <2>3. QED BY <2>1, <2>2, <1>1, <1>2
  <1>9. \A q \in InFile(read), r \in InMemory(read) : r.id = q.id => r.profile = q.profile
    <2> SUFFICES ASSUME NEW q \in InFile(a), NEW r \in RecordsIn(rest), r.id = q.id
                 PROVE  r.profile = q.profile
      BY <1>6
    <2>1. CASE r \in InMemory(a)
      BY <2>1 DEF Unread
    <2>2. CASE r \notin InMemory(a)
      <3>1. PICK o \in InFile(a) : o.id = r.id /\ o.profile = r.profile
        BY <2>2, <1>1, <1>2
      <3>2. o = q
        BY <3>1, <1>6, SameRecords DEF InFile
      <3>3. QED BY <3>1, <3>2
    <2>3. QED BY <2>1, <2>2
  <1>10. Recorded(read)
    BY <1>4 DEF Recorded
  <1>11. Usable(read, nx, er)
    <2>1. Consistent(read, nx, er)
      <3>1. \A q \in InFile(read) : q.id < nx
        BY <1>6 DEF Consistent
      <3>2. Distinct(read.sessions) /\ Len(read.sessions) <= MaxSessions
        BY <1>2, <1>4
      <3>3. Distinct(read.file.records)
            /\ (read.file.kind # "document" => read.file.records = <<>>)
        BY <1>4, <1>6
      <3>4. QED BY <3>1, <3>2, <3>3, <1>4, <1>7, <1>8, <1>9 DEF Consistent
    <2>2. QED BY <2>1, <1>4, <1>10 DEF Usable
  <1>12. /\ Usable(b, nx, er) /\ InMemory(b) = InMemory(read)
         /\ Len(b.sessions) = Len(rest) /\ ~b.needsRead /\ Written(a, b)
    <2>1. CASE b = read
      BY <2>1, <1>4, <1>11 DEF Written
    <2>2. CASE b \in History!Flush(read)
      <3>1. /\ Usable(b, nx, er) /\ InMemory(b) = InMemory(read)
            /\ Len(b.sessions) = Len(read.sessions)
            /\ b.needsRead = read.needsRead /\ Written(read, b)
        BY <2>2, <1>11, FlushFacts
      <3>2. QED BY <3>1, <1>4 DEF Written
    <2>3. QED BY <2>1, <2>2, <1>5
  <1>13. Len(rest) >= MaxSessions \/ RecordsIn(rest) = RecordsIn(m)
    <2>1. Len(m) \in Nat /\ MaxSessions \in Nat
      BY <1>1, HistoryAssumption
    <2>2. QED BY <2>1, <1>2
  <1>14. Remembers(a, b, er)
    BY <1>1, <1>6, <1>12, <1>13 DEF Remembers
  <1>15. TakesOver(a, b, er)
    <2> SUFFICES ASSUME RecordsIn(rest) = RecordsIn(m), NEW q \in InFile(a), q.id \notin er
                 PROVE  \E t \in InMemory(b) : t.id = q.id
      BY <1>12, <1>13 DEF TakesOver
    <2>1. q.profile \notin a.cleared
      BY DEF Unread
    <2>2. QED BY <2>1, <1>1, <1>6, <1>12
  <1>16. QED BY <1>12, <1>14, <1>15

\* _load: whatever the file holds, and if it cannot be read.
LEMMA LoadFacts ==
  ASSUME NEW nx, NEW er, NEW a, Consistent(a, nx, er), Unread(a, er), ~a.pending,
         NEW b \in History!Load(a)
  PROVE  /\ Usable(b, nx, er) /\ Remembers(a, b, er) /\ Written(a, b)
         /\ ~b.needsRead => TakesOver(a, b, er)
PROOF
  <1> DEFINE unread == [a EXCEPT !.needsRead = TRUE, !.failed = TRUE]
             read == [a EXCEPT !.needsRead = FALSE]
             copied == [read EXCEPT !.backup = TRUE, !.dirty = TRUE]
             held == [read EXCEPT !.pending = TRUE, !.failed = TRUE]
             soiled == [held EXCEPT !.dirty = TRUE]
  <1>1. a \in Stores /\ a.file.kind \in {"absent", "corrupt", "document"}
        /\ (a.file.kind # "document" => a.file.records = <<>>)
    BY DEF Consistent, Stores, HistoryFiles
  <1>2. a.file.kind # "document" => InFile(a) = {}
    BY <1>1 DEF InFile, RecordsIn
  <1>3. ASSUME NEW c \in Stores, Recorded(c), c.sessions = a.sessions,
               c.registered = a.registered, c.cleared = a.cleared, c.file = a.file
        PROVE  Usable(c, nx, er) /\ Remembers(a, c, er) /\ Written(a, c) /\ InFile(c) = InFile(a)
    <2>1. InMemory(c) = InMemory(a) /\ InFile(c) = InFile(a)
      BY <1>3 DEF InMemory, InFile
    <2>2. QED BY <1>3, <2>1 DEF Usable, Consistent, Unread, Remembers, Written
  <1>4. CASE b = unread
    <2>1. /\ b \in Stores /\ b.sessions = a.sessions /\ b.registered = a.registered
          /\ b.cleared = a.cleared /\ b.file = a.file /\ b.needsRead /\ b.failed /\ ~b.pending
      BY <1>1, <1>4 DEF Stores
    <2>2. Recorded(b)
      BY <2>1 DEF Recorded
    <2>3. QED BY <2>1, <2>2, <1>3
  <1>5. CASE a.file.kind = "absent" /\ b = read
    <2>1. /\ b \in Stores /\ b.sessions = a.sessions /\ b.registered = a.registered
          /\ b.cleared = a.cleared /\ b.file = a.file /\ ~b.needsRead /\ ~b.pending
      BY <1>1, <1>5 DEF Stores
    <2>2. Recorded(b)
      BY <2>1, <1>5 DEF Recorded
    <2>3. QED BY <2>1, <2>2, <1>2, <1>3, <1>5 DEF TakesOver
  <1>6. CASE a.file.kind = "corrupt" /\ b \in {held, soiled}
    <2>1. /\ b \in Stores /\ b.sessions = a.sessions /\ b.registered = a.registered
          /\ b.cleared = a.cleared /\ b.file = a.file /\ ~b.needsRead /\ b.pending /\ b.failed
      BY <1>1, <1>6 DEF Stores
    <2>2. Recorded(b)
      BY <2>1, <1>6 DEF Recorded
    <2>3. QED BY <2>1, <2>2, <1>2, <1>3, <1>6 DEF TakesOver
  <1>7. CASE a.file.kind = "corrupt" /\ b \in History!Flush(copied)
    <2> DEFINE c == copied
    <2>1. /\ c \in Stores /\ c.sessions = a.sessions /\ c.registered = a.registered
          /\ c.cleared = a.cleared /\ c.file = a.file /\ ~c.needsRead /\ ~c.pending
          /\ c.backup
      BY <1>1 DEF Stores
    <2>6. b \in History!Flush(c)
      BY <1>7
    <2> HIDE DEF c
    <2>2. Recorded(c)
      BY <2>1 DEF Recorded
    <2>3. Usable(c, nx, er)
      BY <2>1, <2>2, <1>3
    <2>4. /\ Usable(b, nx, er) /\ InMemory(b) = InMemory(c)
          /\ b.needsRead = c.needsRead /\ b.backup = c.backup /\ Written(c, b)
      BY <2>3, <2>6, FlushFacts
    <2>5. InMemory(c) = InMemory(a)
      BY <2>1 DEF InMemory
    <2>7. QED BY <2>1, <2>4, <2>5, <1>2, <1>7 DEF Remembers, Written, TakesOver
  <1>8. CASE a.file.kind = "document" /\ b \in History!LoadDocument(a)
    BY <1>8, DocumentLoaded
  <1>9. \/ b = unread
        \/ a.file.kind = "absent" /\ b = read
        \/ a.file.kind = "corrupt" /\ b \in {held, soiled} \cup History!Flush(copied)
        \/ a.file.kind = "document" /\ b \in History!LoadDocument(a)
    BY <1>1 DEF History!Load, History!LoadCorrupt
  <1> HIDE DEF unread, read, copied, held, soiled
  <1>10. QED BY <1>4, <1>5, <1>6, <1>7, <1>8, <1>9

\* retry: what it reads, copies and writes.
LEMMA RetryFacts ==
  ASSUME NEW nx, NEW er, NEW a, Usable(a, nx, er), NEW b \in History!Retry(a)
  PROVE  /\ Usable(b, nx, er) /\ Remembers(a, b, er) /\ Written(a, b)
         /\ a.needsRead /\ ~b.needsRead => TakesOver(a, b, er)
PROOF
  <1>1. PICK l \in IF a.needsRead THEN History!Load(a) ELSE {a} :
          \E c \in IF ~l.pending THEN {l}
                   ELSE {[l EXCEPT !.pending = FALSE, !.backup = TRUE, !.dirty = TRUE],
                         [l EXCEPT !.failed = TRUE]} : b \in History!Flush(c)
    <2> DEFINE loaded == IF a.needsRead THEN History!Load(a) ELSE {a}
               Copied(l) == IF ~l.pending THEN {l}
                            ELSE {[l EXCEPT !.pending = FALSE, !.backup = TRUE, !.dirty = TRUE],
                                  [l EXCEPT !.failed = TRUE]}
    <2>1. b \in UNION {History!Flush(c) : c \in UNION {Copied(l) : l \in loaded}}
      BY DEF History!Retry
    <2> HIDE DEF Copied, loaded
    <2>2. PICK c \in UNION {Copied(l) : l \in loaded} : b \in History!Flush(c)
      BY <2>1
    <2>3. PICK l \in loaded : c \in Copied(l)
      OBVIOUS
    <2>4. QED BY <2>2, <2>3 DEF Copied, loaded
  <1>2. PICK c \in IF ~l.pending THEN {l}
                   ELSE {[l EXCEPT !.pending = FALSE, !.backup = TRUE, !.dirty = TRUE],
                         [l EXCEPT !.failed = TRUE]} : b \in History!Flush(c)
    BY <1>1
  <1>3. /\ Usable(l, nx, er) /\ Remembers(a, l, er) /\ Written(a, l)
        /\ a.needsRead /\ ~l.needsRead => TakesOver(a, l, er)
        /\ ~a.needsRead => l = a
    <2>1. CASE a.needsRead
      <3>1. Consistent(a, nx, er) /\ Unread(a, er) /\ ~a.pending
        BY <2>1 DEF Usable, Recorded
      <3>2. QED BY <1>1, <2>1, <3>1, LoadFacts
    <2>2. CASE ~a.needsRead
      BY <1>1, <2>2 DEF Remembers, Written
    <2>3. QED BY <2>1, <2>2
  <1>4. l \in Stores /\ Recorded(l)
    BY <1>3 DEF Usable, Consistent
  <1>5. /\ c \in Stores /\ c.sessions = l.sessions /\ c.registered = l.registered
        /\ c.cleared = l.cleared /\ c.file = l.file /\ c.needsRead = l.needsRead
        /\ (l.pending /\ ~c.pending => c.backup) /\ (l.pending /\ c.pending => c.failed)
        /\ (~l.pending => c = l) /\ (l.backup => c.backup)
    BY <1>2, <1>4 DEF Stores
  <1>6. Recorded(c)
    BY <1>4, <1>5 DEF Recorded
  <1>7. Usable(c, nx, er) /\ InMemory(c) = InMemory(l)
    <2>1. Distinct(l.sessions) /\ Len(l.sessions) <= MaxSessions
      BY <1>3 DEF Usable, Consistent
    <2>2. QED BY <2>1, <1>3, <1>5, <1>6, SameUsable DEF InMemory
  <1>8. /\ Usable(b, nx, er) /\ InMemory(b) = InMemory(c) /\ Len(b.sessions) = Len(c.sessions)
        /\ b.needsRead = c.needsRead /\ b.backup = c.backup /\ Written(c, b)
    BY <1>2, <1>7, FlushFacts
  <1>9. Remembers(a, b, er)
    BY <1>3, <1>5, <1>7, <1>8 DEF Remembers
  <1>10. Written(a, b)
    <2>1. CASE b.file # c.file
      BY <2>1, <1>3, <1>5, <1>8 DEF Written
    <2>2. CASE b.file = c.file
      <3> SUFFICES ASSUME b.file # a.file
                   PROVE  /\ b.file.kind = "document" /\ InFile(b) = InMemory(b) /\ ~b.needsRead
                          /\ a.file.kind = "corrupt" => b.backup
        BY DEF Written
      <3>1. /\ l.file.kind = "document" /\ InFile(l) = InMemory(l) /\ ~l.needsRead
            /\ a.file.kind = "corrupt" => l.backup
        BY <2>2, <1>3, <1>5 DEF Written
      <3>2. b.file = l.file /\ InFile(b) = InFile(l)
        BY <2>2, <1>5 DEF InFile
      <3>3. QED BY <3>1, <3>2, <1>5, <1>7, <1>8
    <2>3. QED BY <2>1, <2>2
  <1>11. a.needsRead /\ ~b.needsRead => TakesOver(a, b, er)
    BY <1>3, <1>5, <1>7, <1>8 DEF TakesOver
  <1>12. QED BY <1>8, <1>9, <1>10, <1>11

-----------------------------------------------------------------------------
(* The history: steps.                                                     *)

HistoryInv ==
  /\ historyUp \in BOOLEAN /\ next \in Nat /\ \A id \in erased : id \in Nat /\ id < next
  /\ confirmed \subseteq erased /\ \A q \in InFile(h) : q.id \notin confirmed
  /\ IF historyUp THEN Usable(h, next, erased)
     ELSE /\ h = History!New(h.file, h.backup) /\ erased = confirmed
          /\ Consistent(h, next, erased)

\* A store that is used as it should be loses nothing in a step.
LEMMA UsedKeeps ==
  ASSUME HistoryInv, historyUp, historyUp', next' \in Nat, Usable(h', next', erased'),
         Remembers(h, h', erased'), Written(h, h'),
         h.needsRead /\ ~h'.needsRead => TakesOver(h, h', erased'),
         erased \subseteq erased', \A id \in erased' : id \in Nat /\ id < next',
         confirmed' \subseteq erased',
         h'.file # h.file \/ \A q \in InFile(h) : q.id \notin confirmed'
  PROVE  HistoryInv' /\ History!NothingOverwritten
PROOF
  <1>1. Usable(h, next, erased)
    BY DEF HistoryInv
  <1>2. /\ h.sessions \in Seq(HistoryRecords) /\ h'.sessions \in Seq(HistoryRecords)
        /\ h.file.records \in Seq(HistoryRecords) /\ h'.file.records \in Seq(HistoryRecords)
    BY <1>1 DEF Usable, Consistent, Stores, HistoryFiles
  <1>3. /\ History!Ids(h.sessions) = {r.id : r \in InMemory(h)}
        /\ History!Ids(h'.sessions) = {r.id : r \in InMemory(h')}
        /\ History!Ids(h.file.records) = {r.id : r \in InFile(h)}
        /\ History!Ids(h'.file.records) = {r.id : r \in InFile(h')}
    BY <1>2, SameRecords DEF InMemory, InFile
  <1>4. \A q \in InFile(h') : q.id \notin confirmed'
    <2>1. CASE h'.file = h.file
      BY <2>1 DEF InFile
    <2>2. CASE h'.file # h.file
      <3>1. InFile(h') = InMemory(h')
        BY <2>2 DEF Written
      <3>2. QED BY <3>1 DEF Usable, Consistent
    <2>3. QED BY <2>1, <2>2
  <1>5. HistoryInv'
    BY <1>4 DEF HistoryInv
  <1>6. \/ Len(h'.sessions) >= MaxSessions
        \/ History!Ids(h.sessions) \subseteq History!Ids(h'.sessions) \cup (erased \cup erased')
    BY <1>3 DEF Remembers
  <1>7. ASSUME h'.file # h.file
        PROVE  /\ h.file.kind = "corrupt" => h'.backup
               /\ \/ Len(h'.sessions) >= MaxSessions
                  \/ History!Ids(h.file.records)
                       \subseteq History!Ids(h'.file.records) \cup (erased \cup erased')
                  \/ /\ historyUp /\ ~h.needsRead
                     /\ History!Ids(h.file.records) \cap History!Ids(h.sessions)
                          \subseteq History!Ids(h'.file.records) \cup (erased \cup erased')
    <2>1. /\ InFile(h') = InMemory(h') /\ ~h'.needsRead
          /\ h.file.kind = "corrupt" => h'.backup
      BY <1>7 DEF Written
    <2>2. CASE h.needsRead
      BY <2>1, <2>2, <1>3 DEF TakesOver
    <2>3. CASE ~h.needsRead
      BY <2>1, <2>3, <1>3, <1>6
    <2>4. QED BY <2>1, <2>2, <2>3
  <1>8. QED BY <1>5, <1>6, <1>7 DEF History!NothingOverwritten

LEMMA SampleKeeps ==
  ASSUME HistoryInv, NEW id, History!Sample(id)
  PROVE  HistoryInv' /\ History!NothingOverwritten
PROOF
  <1>1. Usable(h, next, erased) /\ historyUp
    BY DEF HistoryInv, History!Sample
  <1>2. /\ h' = [h EXCEPT !.dirty = TRUE, !.timer = TRUE]
        /\ historyUp' /\ next' = next /\ erased' = erased /\ confirmed' = confirmed
    BY <1>1 DEF History!Sample, History!Scheduled
  <1>3. /\ h' \in Stores /\ h'.sessions = h.sessions /\ h'.registered = h.registered
        /\ h'.cleared = h.cleared /\ h'.file = h.file /\ h'.needsRead = h.needsRead
        /\ h'.pending = h.pending /\ h'.failed = h.failed /\ h'.backup = h.backup
    BY <1>1, <1>2 DEF Usable, Consistent, Stores
  <1>4. Recorded(h')
    BY <1>1, <1>3 DEF Usable, Recorded
  <1>5. Usable(h', next', erased')
    <2>1. Distinct(h.sessions) /\ Len(h.sessions) <= MaxSessions
      BY <1>1 DEF Usable, Consistent
    <2>2. InMemory(h') = InMemory(h)
      BY <1>3 DEF InMemory
    <2>3. Usable(h', next, erased)
      BY <2>1, <2>2, <1>1, <1>3, <1>4, SameUsable
    <2>4. QED BY <2>3, <1>2
  <1>6. Remembers(h, h', erased') /\ Written(h, h')
    BY <1>3 DEF Remembers, Written, InMemory
  <1>7. QED BY <1>1, <1>2, <1>3, <1>5, <1>6, UsedKeeps DEF HistoryInv

LEMMA TimerKeeps ==
  ASSUME HistoryInv, History!Timer
  PROVE  HistoryInv' /\ History!NothingOverwritten
PROOF
  <1>1. /\ Usable(h, next, erased) /\ historyUp /\ h' \in History!Flush(h)
        /\ historyUp' /\ next' = next /\ erased' = erased /\ confirmed' = confirmed
    BY DEF HistoryInv, History!Timer
  <1>2. /\ Usable(h', next, erased) /\ InMemory(h') = InMemory(h)
        /\ h'.needsRead = h.needsRead /\ Written(h, h')
    BY <1>1, FlushFacts
  <1>3. Remembers(h, h', erased')
    BY <1>2 DEF Remembers
  <1>4. QED BY <1>1, <1>2, <1>3, UsedKeeps DEF HistoryInv

LEMMA GetKeeps ==
  ASSUME HistoryInv, History!Get
  PROVE  HistoryInv' /\ History!NothingOverwritten
PROOF
  <1> DEFINE rest == History!Pruned(h.sessions)
             seen == [h EXCEPT !.sessions = rest, !.dirty = @ \/ rest # h.sessions]
  <1>1. /\ Usable(h, next, erased) /\ historyUp
        /\ h' \in IF seen.failed THEN History!Retry(seen) ELSE {seen}
        /\ historyUp' /\ next' = next /\ erased' = erased /\ confirmed' = confirmed
    BY DEF HistoryInv, History!Get
  <1>2. /\ h \in Stores /\ h.sessions \in Seq(HistoryRecords) /\ Distinct(h.sessions)
        /\ Len(h.sessions) <= MaxSessions /\ Recorded(h)
    BY <1>1 DEF Usable, Consistent, Stores
  <1>3. /\ rest \in Seq(HistoryRecords) /\ Distinct(rest)
        /\ RecordsIn(rest) = RecordsIn(h.sessions) /\ Len(rest) = Len(h.sessions)
    BY <1>2, PrunedFacts
  <1> HIDE DEF rest
  <1>4. /\ seen \in Stores /\ seen.sessions = rest /\ seen.registered = h.registered
        /\ seen.cleared = h.cleared /\ seen.file = h.file /\ seen.needsRead = h.needsRead
        /\ seen.pending = h.pending /\ seen.failed = h.failed /\ seen.backup = h.backup
    BY <1>2, <1>3 DEF Stores
  <1> HIDE DEF seen
  <1>5. Recorded(seen) /\ InMemory(seen) = InMemory(h) /\ InFile(seen) = InFile(h)
    BY <1>2, <1>3, <1>4 DEF Recorded, InMemory, InFile
  <1>6. Usable(seen, next, erased)
    BY <1>1, <1>2, <1>3, <1>4, <1>5, SameUsable
  <1>7. /\ Usable(h', next, erased) /\ Remembers(seen, h', erased) /\ Written(seen, h')
        /\ seen.needsRead /\ ~h'.needsRead => TakesOver(seen, h', erased)
    <2>1. CASE h' = seen
      BY <2>1, <1>6 DEF Remembers, Written
    <2>2. CASE h' \in History!Retry(seen)
      BY <2>2, <1>6, RetryFacts
    <2>3. QED BY <1>1, <2>1, <2>2
  <1>8. /\ Remembers(h, h', erased') /\ Written(h, h')
        /\ h.needsRead /\ ~h'.needsRead => TakesOver(h, h', erased')
    BY <1>1, <1>4, <1>5, <1>7 DEF Remembers, Written, TakesOver
  <1>9. QED BY <1>1, <1>7, <1>8, UsedKeeps DEF HistoryInv

LEMMA HistoryStartKeeps ==
  ASSUME HistoryInv, History!Start
  PROVE  HistoryInv' /\ History!NothingOverwritten
PROOF
  <1>1. /\ ~historyUp /\ historyUp' /\ h' \in History!Load(h) /\ next \in Nat
        /\ next' = next /\ erased' = erased /\ confirmed' = confirmed
        /\ h = History!New(h.file, h.backup) /\ erased = confirmed /\ Consistent(h, next, erased)
        /\ \A q \in InFile(h) : q.id \notin confirmed
    BY DEF HistoryInv, History!Start
  <1>2. h.sessions = <<>> /\ h.cleared = {} /\ ~h.pending
    BY <1>1 DEF History!New
  <1>3. Unread(h, erased)
    BY <1>1, <1>2 DEF Unread, InMemory, RecordsIn
  <1>4. /\ Usable(h', next, erased) /\ Written(h, h')
        /\ ~h'.needsRead => TakesOver(h, h', erased)
    BY <1>1, <1>2, <1>3, LoadFacts
  <1>5. \A q \in InFile(h') : q.id \notin confirmed'
    <2>1. CASE h'.file = h.file
      BY <2>1, <1>1 DEF InFile
    <2>2. CASE h'.file # h.file
      <3>1. InFile(h') = InMemory(h')
        BY <2>2, <1>4 DEF Written
      <3>2. QED BY <3>1, <1>1, <1>4 DEF Usable, Consistent
    <2>3. QED BY <2>1, <2>2
  <1>6. HistoryInv'
    BY <1>1, <1>4, <1>5 DEF HistoryInv
  <1>7. ASSUME h'.file # h.file
        PROVE  /\ h.file.kind = "corrupt" => h'.backup
               /\ \/ Len(h'.sessions) >= MaxSessions
                  \/ History!Ids(h.file.records)
                       \subseteq History!Ids(h'.file.records) \cup (erased \cup erased')
    <2>1. /\ InFile(h') = InMemory(h') /\ ~h'.needsRead
          /\ h.file.kind = "corrupt" => h'.backup
      BY <1>4, <1>7 DEF Written
    <2>2. h.file.records \in Seq(HistoryRecords) /\ h'.file.records \in Seq(HistoryRecords)
      BY <1>1, <1>4 DEF Usable, Consistent, Stores, HistoryFiles
    <2>3. /\ History!Ids(h.file.records) = {r.id : r \in InFile(h)}
          /\ History!Ids(h'.file.records) = {r.id : r \in InFile(h')}
      BY <2>2, SameRecords DEF InFile
    <2>4. QED BY <2>1, <2>3, <1>1, <1>4 DEF TakesOver
  <1>8. QED BY <1>1, <1>6, <1>7 DEF History!NothingOverwritten

LEMMA HistoryEndKeeps ==
  ASSUME HistoryInv, History!End
  PROVE  HistoryInv' /\ History!NothingOverwritten
PROOF
  <1>1. /\ historyUp /\ ~historyUp' /\ historyUp' \in BOOLEAN /\ next \in Nat
        /\ next' = next /\ erased' = confirmed
        /\ confirmed' = confirmed /\ Usable(h, next, erased)
        /\ confirmed \subseteq erased /\ \A q \in InFile(h) : q.id \notin confirmed
    BY DEF HistoryInv, History!End
  <1>2. PICK a \in History!Flush(h) \cup {h} : h' = History!New(a.file, a.backup)
    BY DEF History!End
  <1>3. /\ Usable(a, next, erased) /\ Written(h, a) /\ InMemory(a) = InMemory(h)
        /\ a.needsRead = h.needsRead
    <2>1. CASE a = h
      BY <2>1, <1>1 DEF Written
    <2>2. CASE a \in History!Flush(h)
      BY <2>2, <1>1, FlushFacts
    <2>3. QED BY <2>1, <2>2, <1>2
  <1>4. /\ a.file \in HistoryFiles /\ a.backup \in BOOLEAN
        /\ h.sessions \in Seq(HistoryRecords) /\ a.file.records \in Seq(HistoryRecords)
        /\ h.file.records \in Seq(HistoryRecords)
    BY <1>1, <1>3 DEF Usable, Consistent, Stores, HistoryFiles
  <1>5. /\ h' \in Stores /\ h'.file = a.file /\ h'.backup = a.backup
        /\ h'.sessions = <<>> /\ h'.registered = {}
    BY <1>2, <1>4 DEF History!New, Stores
  <1>6. InMemory(h') = {} /\ InFile(h') = InFile(a)
    BY <1>5 DEF InMemory, InFile, RecordsIn
  <1>7. \A q \in InFile(a) : q.id \notin confirmed
    <2>1. CASE a.file = h.file
      BY <2>1, <1>1 DEF InFile
    <2>2. CASE a.file # h.file
      <3>1. InFile(a) = InMemory(a)
        BY <2>2, <1>3 DEF Written
      <3>2. QED BY <3>1, <1>1, <1>3 DEF Usable, Consistent
    <2>3. QED BY <2>1, <2>2
  <1>8. Consistent(h', next, confirmed)
    <2>1. Distinct(<<>>) /\ Len(<<>>) <= MaxSessions
      BY HistoryAssumption DEF Distinct
    <2>2. QED BY <2>1, <1>3, <1>5, <1>6 DEF Consistent, Usable
  <1>9. HistoryInv'
    BY <1>1, <1>2, <1>5, <1>6, <1>7, <1>8 DEF HistoryInv
  <1>10. ASSUME h'.file # h.file
         PROVE  /\ h.file.kind = "corrupt" => h'.backup
                /\ ~h.needsRead
                /\ History!Ids(h.file.records) \cap History!Ids(h.sessions)
                     \subseteq History!Ids(h'.file.records) \cup (erased \cup erased')
    <2>1. /\ InFile(a) = InMemory(a) /\ ~a.needsRead
          /\ h.file.kind = "corrupt" => a.backup
      BY <1>3, <1>5, <1>10 DEF Written
    <2>2. /\ History!Ids(h.sessions) = {r.id : r \in InMemory(h)}
          /\ History!Ids(a.file.records) = {r.id : r \in InFile(a)}
      BY <1>4, SameRecords DEF InFile, InMemory
    <2>3. QED BY <2>1, <2>2, <1>3, <1>5
  <1>11. QED BY <1>1, <1>9, <1>10 DEF History!NothingOverwritten

LEMMA WithoutOne ==
  ASSUME NEW rs \in Seq(HistoryRecords), Distinct(rs), NEW r \in RecordsIn(rs)
  PROVE  Len(History!Without(rs, {r.id})) = Len(rs) - 1
PROOF
  <1> DEFINE left == {i \in DOMAIN rs : rs[i].id \notin {r.id}}
  <1>1. PICK i \in DOMAIN rs : rs[i] = r
    BY DEF RecordsIn
  <1>2. left = (1..Len(rs)) \ {i} /\ i \in 1..Len(rs) /\ Len(rs) \in Nat
    BY <1>1 DEF Distinct
  <1>3. IsFiniteSet(1..Len(rs)) /\ Cardinality(1..Len(rs)) = Len(rs)
    <2> DEFINE n == Len(rs)
    <2> HIDE DEF n
    <2>1. n \in Nat => IsFiniteSet(1..n) /\ Cardinality(1..n) = n
      BY FS_Interval
    <2>2. QED BY <2>1, <1>2 DEF n
  <1>4. Cardinality((1..Len(rs)) \ {i}) = Len(rs) - 1
    <2> DEFINE S == 1..Len(rs)
    <2>1. i \in S /\ IsFiniteSet(S) /\ Cardinality(S) = Len(rs)
      BY <1>2, <1>3
    <2> HIDE DEF S
    <2>2. Cardinality(S \ {i}) = Cardinality(S) - 1
      BY <2>1, FS_RemoveElement
    <2>3. QED BY <2>1, <2>2 DEF S
  <1>5. Len(History!Without(rs, {r.id})) = Cardinality(left)
    BY WithoutFacts
  <1> HIDE DEF left
  <1>6. QED BY <1>2, <1>4, <1>5

LEMMA Appended ==
  ASSUME NEW rs \in Seq(HistoryRecords), Distinct(rs), NEW r \in HistoryRecords,
         \A q \in RecordsIn(rs) : q.id # r.id
  PROVE  /\ Append(rs, r) \in Seq(HistoryRecords) /\ Distinct(Append(rs, r))
         /\ RecordsIn(Append(rs, r)) = RecordsIn(rs) \cup {r}
         /\ Len(Append(rs, r)) = Len(rs) + 1
PROOF
  <1> DEFINE more == Append(rs, r)
  <1>1. /\ more \in Seq(HistoryRecords) /\ Len(more) = Len(rs) + 1 /\ Len(rs) \in Nat
        /\ DOMAIN more = 1..Len(rs) + 1 /\ DOMAIN rs = 1..Len(rs)
        /\ \A i \in DOMAIN rs : more[i] = rs[i]
        /\ more[Len(rs) + 1] = r
    OBVIOUS
  <1> HIDE DEF more
  <1>2. \A i \in DOMAIN more : i \in DOMAIN rs \/ i = Len(rs) + 1
    BY <1>1
  <1>3. DOMAIN rs \subseteq DOMAIN more /\ Len(rs) + 1 \in DOMAIN more
    BY <1>1
  <1>4. Distinct(more)
    <2>1. \A i \in DOMAIN rs : rs[i].id # r.id
      BY DEF RecordsIn
    <2>2. QED BY <2>1, <1>1, <1>2 DEF Distinct
  <1>5. RecordsIn(more) = RecordsIn(rs) \cup {r}
    BY <1>1, <1>2, <1>3 DEF RecordsIn
  <1>6. QED BY <1>1, <1>4, <1>5 DEF more

LEMMA RegisterKeeps ==
  ASSUME HistoryInv, NEW p \in Profiles, History!Register(p)
  PROVE  HistoryInv' /\ History!NothingOverwritten
PROOF
  <1> DEFINE new == [id |-> next, profile |-> p, open |-> TRUE]
             more == Append(h.sessions, new)
             most == History!Pruned(more)
             rest == History!Without(most, {next})
  <1>1. /\ Usable(h, next, erased) /\ historyUp /\ next \in Nat
        /\ historyUp' /\ next' = next + 1 /\ erased' = erased /\ confirmed' = confirmed
        /\ confirmed \subseteq erased /\ \A q \in InFile(h) : q.id \notin confirmed
        /\ \A id \in erased : id \in Nat /\ id < next
    BY DEF HistoryInv, History!Register
  <1>2. /\ h \in Stores /\ h.sessions \in Seq(HistoryRecords) /\ Distinct(h.sessions)
        /\ Len(h.sessions) \in Nat /\ Len(h.sessions) <= MaxSessions /\ MaxSessions \in Nat
        /\ \A r \in InMemory(h) :
             r.id < next /\ r.id \notin erased /\ (r.open <=> r.id \in h.registered)
        /\ \A id \in h.registered : \E r \in InMemory(h) : r.id = id
        /\ InMemory(h) \subseteq HistoryRecords
    BY <1>1, HistoryAssumption, SameRecords DEF Usable, Consistent, Stores, InMemory
  <1>3. new \in HistoryRecords /\ new.id = next /\ new.open
    BY <1>1 DEF HistoryRecords
  <1>4. /\ next \notin erased /\ next \notin h.registered
        /\ \A q \in InFile(h) : q.id < next /\ q.id # next /\ q.id \in Nat
        /\ \A r \in InMemory(h) : r.id # next
    <2>1. \A q \in InFile(h) : q.id < next /\ q \in HistoryRecords
      BY <1>1, SameRecords DEF Usable, Consistent, InFile, Stores, HistoryFiles
    <2>2. QED BY <2>1, <1>1, <1>2 DEF HistoryRecords
  <1>5. /\ more \in Seq(HistoryRecords) /\ Distinct(more) /\ Len(more) = Len(h.sessions) + 1
        /\ RecordsIn(more) = InMemory(h) \cup {new}
    <2>1. \A r \in RecordsIn(h.sessions) : r.id # new.id
      BY <1>3, <1>4 DEF InMemory
    <2> HIDE DEF new
    <2>2. QED BY <2>1, <1>2, <1>3, Appended DEF InMemory
  <1> HIDE DEF more
  <1>6. /\ most \in Seq(HistoryRecords) /\ Distinct(most)
        /\ RecordsIn(most) \subseteq RecordsIn(more)
        /\ \A r \in RecordsIn(more) : r.open => r \in RecordsIn(most)
        /\ Len(most) \in 0..Len(more)
        /\ Len(more) <= MaxSessions => RecordsIn(most) = RecordsIn(more)
        /\ Len(more) >= MaxSessions => Len(most) >= MaxSessions
    BY <1>5, PrunedFacts
  <1> HIDE DEF most
  <1>7. /\ rest \in Seq(HistoryRecords) /\ Distinct(rest) /\ Len(rest) = Len(most) - 1
        /\ RecordsIn(rest) = {r \in RecordsIn(most) : r.id # next}
    <2>1. new \in RecordsIn(most)
      BY <1>3, <1>5, <1>6
    <2>2. /\ rest \in Seq(HistoryRecords) /\ Distinct(rest)
          /\ RecordsIn(rest) = {r \in RecordsIn(most) : r.id \notin {next}}
      BY <1>6, WithoutFacts
    <2>3. Len(History!Without(most, {new.id})) = Len(most) - 1
      BY <2>1, <1>6, WithoutOne
    <2>4. QED BY <2>2, <2>3, <1>3
  <1> HIDE DEF rest
  <1>8. CASE Len(most) > MaxSessions
    <2>1. PICK dirt \in BOOLEAN : h' = [h EXCEPT !.sessions = rest, !.dirty = dirt]
      <3>1. h' = [h EXCEPT !.sessions = rest, !.dirty = @ \/ most # more]
        BY <1>8 DEF History!Register, most, more, rest
      <3> DEFINE dirt == h.dirty \/ most # more
      <3>2. h' = [h EXCEPT !.sessions = rest, !.dirty = dirt] /\ dirt \in BOOLEAN
        BY <3>1, <1>2 DEF Stores
      <3> HIDE DEF dirt
      <3>3. QED BY <3>2
    <2>2. /\ h' \in Stores /\ h'.sessions = rest /\ h'.registered = h.registered
          /\ h'.cleared = h.cleared /\ h'.file = h.file /\ h'.needsRead = h.needsRead
          /\ h'.pending = h.pending /\ h'.failed = h.failed /\ h'.backup = h.backup
      BY <2>1, <1>2, <1>7 DEF Stores
    <2>3. /\ InMemory(h') \subseteq InMemory(h) /\ InFile(h') = InFile(h)
          /\ \A r \in InMemory(h) : r.open => r \in InMemory(h')
      BY <2>2, <1>4, <1>5, <1>6, <1>7 DEF InMemory, InFile
    <2>4. Len(rest) >= MaxSessions /\ Len(rest) <= MaxSessions
      BY <1>2, <1>5, <1>6, <1>7, <1>8
    <2>5. Consistent(h', next + 1, erased)
      <3>1. \A q \in InFile(h') : q.id < next + 1
        BY <2>3, <1>1, <1>4
      <3>2. \A r \in InMemory(h') :
              r.id < next + 1 /\ r.id \notin erased /\ (r.open <=> r.id \in h'.registered)
        BY <2>2, <2>3, <1>1, <1>2 DEF HistoryRecords
      <3>3. \A id \in h'.registered : \E r \in InMemory(h') : r.id = id
        <4> SUFFICES ASSUME NEW id \in h.registered PROVE \E r \in InMemory(h') : r.id = id
          BY <2>2
        <4>1. PICK r \in InMemory(h) : r.id = id
          BY <1>2
        <4>2. QED BY <4>1, <2>3, <1>2
      <3>4. /\ Distinct(h'.file.records)
            /\ h'.file.kind # "document" => h'.file.records = <<>>
            /\ \A q \in InFile(h'), r \in InMemory(h') : r.id = q.id => r.profile = q.profile
        BY <2>2, <2>3, <1>1 DEF Usable, Consistent
      <3>5. QED BY <3>1, <3>2, <3>3, <3>4, <2>2, <2>4, <1>7 DEF Consistent
    <2>6. Recorded(h') /\ (h'.needsRead => Unread(h', erased))
      BY <2>2, <2>3, <1>1 DEF Usable, Recorded, Unread
    <2>7. Usable(h', next', erased')
      BY <2>5, <2>6, <1>1 DEF Usable
    <2>8. Remembers(h, h', erased') /\ Written(h, h')
      BY <2>2, <2>4 DEF Remembers, Written
    <2>9. next' \in Nat /\ \A id \in erased' : id \in Nat /\ id < next'
      BY <1>1
    <2>10. QED BY <2>2, <2>7, <2>8, <2>9, <1>1, UsedKeeps
  <1>9. CASE ~(Len(most) > MaxSessions)
    <2>1. h' = [h EXCEPT !.sessions = most, !.registered = @ \cup {next},
                         !.dirty = TRUE, !.timer = TRUE]
      <3>1. h' = History!Scheduled([h EXCEPT !.sessions = most, !.registered = @ \cup {next}])
        BY <1>9 DEF History!Register, most, more
      <3>2. QED BY <3>1, <1>2 DEF History!Scheduled, Stores
    <2>2. /\ h' \in Stores /\ h'.sessions = most /\ h'.registered = h.registered \cup {next}
          /\ h'.cleared = h.cleared /\ h'.file = h.file /\ h'.needsRead = h.needsRead
          /\ h'.pending = h.pending /\ h'.failed = h.failed /\ h'.backup = h.backup
      BY <2>1, <1>1, <1>2, <1>6 DEF Stores
    <2>3. /\ InMemory(h') \subseteq InMemory(h) \cup {new} /\ InFile(h') = InFile(h)
          /\ \A r \in InMemory(h) : r.open => r \in InMemory(h')
          /\ new \in InMemory(h')
      BY <2>2, <1>3, <1>5, <1>6 DEF InMemory, InFile
    <2>4. Len(most) <= MaxSessions
      BY <1>2, <1>5, <1>6, <1>9
    <2>5. Consistent(h', next + 1, erased)
      <3>1. \A q \in InFile(h') : q.id < next + 1
        BY <2>3, <1>1, <1>4
      <3>2. \A r \in InMemory(h') :
              r.id < next + 1 /\ r.id \notin erased /\ (r.open <=> r.id \in h'.registered)
        <4> SUFFICES ASSUME NEW r \in InMemory(h')
                     PROVE  r.id < next + 1 /\ r.id \notin erased
                            /\ (r.open <=> r.id \in h'.registered)
          OBVIOUS
        <4>1. CASE r = new
          BY <4>1, <2>2, <1>1, <1>3, <1>4
        <4>2. CASE r \in InMemory(h)
          BY <4>2, <2>2, <1>1, <1>2, <1>4 DEF HistoryRecords
        <4> HIDE DEF new
        <4>3. QED BY <4>1, <4>2, <2>3
      <3>3. \A id \in h'.registered : \E r \in InMemory(h') : r.id = id
        <4> SUFFICES ASSUME NEW id \in h'.registered PROVE \E r \in InMemory(h') : r.id = id
          OBVIOUS
        <4>1. CASE id = next
          BY <4>1, <2>3, <1>3
        <4>2. CASE id \in h.registered
          <5>1. PICK r \in InMemory(h) : r.id = id
            BY <4>2, <1>2
          <5>2. QED BY <4>2, <5>1, <2>3, <1>2
        <4>3. QED BY <4>1, <4>2, <2>2
      <3>4. /\ Distinct(h'.file.records)
            /\ h'.file.kind # "document" => h'.file.records = <<>>
        BY <2>2, <1>1 DEF Usable, Consistent
      <3>5. \A q \in InFile(h'), r \in InMemory(h') : r.id = q.id => r.profile = q.profile
        <4>1. \A q \in InFile(h), r \in InMemory(h) : r.id = q.id => r.profile = q.profile
          BY <1>1 DEF Usable, Consistent
        <4>2. \A q \in InFile(h) : new.id # q.id
          BY <1>3, <1>4
        <4> HIDE DEF new
        <4>3. QED BY <4>1, <4>2, <2>3
      <3>6. QED BY <3>1, <3>2, <3>3, <3>4, <3>5, <2>2, <2>4, <1>6 DEF Consistent
    <2>6. Recorded(h')
      BY <2>2, <1>1 DEF Usable, Recorded
    <2>7. h'.needsRead => Unread(h', erased)
      <3>1. \A q \in InFile(h) : new.id # q.id
        BY <1>3, <1>4
      <3> HIDE DEF new
      <3>2. QED BY <3>1, <2>2, <2>3, <1>1 DEF Usable, Unread
    <2>8. Usable(h', next', erased')
      BY <2>5, <2>6, <2>7, <1>1 DEF Usable
    <2>9. Remembers(h, h', erased')
      <3>1. CASE Len(more) <= MaxSessions
        <4>1. RecordsIn(most) = RecordsIn(more)
          BY <3>1, <1>6
        <4> HIDE DEF new
        <4>2. QED BY <4>1, <2>2, <1>5 DEF Remembers, InMemory
      <3>2. CASE ~(Len(more) <= MaxSessions)
        <4>1. Len(most) >= MaxSessions
          BY <3>2, <1>2, <1>5, <1>6
        <4>2. QED BY <4>1, <2>2 DEF Remembers
      <3>3. QED BY <3>1, <3>2
    <2>10. Written(h, h') /\ next' \in Nat /\ \A id \in erased' : id \in Nat /\ id < next'
      BY <2>2, <1>1 DEF Written
    <2>11. QED BY <2>2, <2>8, <2>9, <2>10, <1>1, UsedKeeps
  <1>10. QED BY <1>8, <1>9

LEMMA FinalizeKeeps ==
  ASSUME HistoryInv, NEW id, History!Finalize(id)
  PROVE  HistoryInv' /\ History!NothingOverwritten
PROOF
  <1> DEFINE found == CHOOSE r \in {h.sessions[i] : i \in DOMAIN h.sessions} : r.id = id
             done == [found EXCEPT !.open = FALSE]
             rest == History!Without(h.sessions, {id})
             more == Append(rest, done)
             a == [h EXCEPT !.sessions = more, !.registered = @ \ {id}, !.dirty = TRUE]
  <1>1. /\ Usable(h, next, erased) /\ historyUp /\ id \in h.registered
        /\ h' \in History!Flush(a)
        /\ historyUp' /\ next' = next /\ erased' = erased /\ confirmed' = confirmed
    BY DEF HistoryInv, History!Finalize
  <1>2. /\ h \in Stores /\ h.sessions \in Seq(HistoryRecords) /\ Distinct(h.sessions)
        /\ Len(h.sessions) \in Nat /\ Len(h.sessions) <= MaxSessions
        /\ \A r \in InMemory(h) :
             r.id < next /\ r.id \notin erased /\ (r.open <=> r.id \in h.registered)
        /\ \A i \in h.registered : \E r \in InMemory(h) : r.id = i
        /\ InMemory(h) \subseteq HistoryRecords
        /\ \A r, q \in InMemory(h) : r.id = q.id => r = q
    BY <1>1, SameRecords DEF Usable, Consistent, Stores, InMemory
  <1>3. found \in InMemory(h) /\ found.id = id
    <2>1. \E r \in InMemory(h) : r.id = id
      BY <1>1, <1>2
    <2>2. QED BY <2>1 DEF InMemory, RecordsIn
  <1> HIDE DEF found
  <1>4. /\ done \in HistoryRecords /\ done.id = id /\ ~done.open
        /\ done.profile = found.profile
    <2>1. found \in HistoryRecords /\ found.id = id
      BY <1>2, <1>3
    <2>2. QED BY <2>1 DEF HistoryRecords
  <1> HIDE DEF done
  <1>5. /\ rest \in Seq(HistoryRecords) /\ Distinct(rest) /\ Len(rest) = Len(h.sessions) - 1
        /\ RecordsIn(rest) = {r \in InMemory(h) : r.id # id}
    <2>1. /\ rest \in Seq(HistoryRecords) /\ Distinct(rest)
          /\ RecordsIn(rest) = {r \in RecordsIn(h.sessions) : r.id \notin {id}}
      BY <1>2, WithoutFacts
    <2>2. Len(History!Without(h.sessions, {found.id})) = Len(h.sessions) - 1
      BY <1>2, <1>3, WithoutOne DEF InMemory
    <2>3. QED BY <2>1, <2>2, <1>3 DEF InMemory
  <1> HIDE DEF rest
  <1>6. /\ more \in Seq(HistoryRecords) /\ Distinct(more) /\ Len(more) = Len(h.sessions)
        /\ RecordsIn(more) = {r \in InMemory(h) : r.id # id} \cup {done}
    <2>1. \A r \in RecordsIn(rest) : r.id # done.id
      BY <1>4, <1>5
    <2>2. QED BY <2>1, <1>2, <1>4, <1>5, Appended
  <1> HIDE DEF more
  <1>7. /\ a \in Stores /\ a.sessions = more /\ a.registered = h.registered \ {id}
        /\ a.cleared = h.cleared /\ a.file = h.file /\ a.needsRead = h.needsRead
        /\ a.pending = h.pending /\ a.failed = h.failed /\ a.backup = h.backup
    BY <1>2, <1>6 DEF Stores
  <1> HIDE DEF a
  <1>8. /\ InMemory(a) = {r \in InMemory(h) : r.id # id} \cup {done} /\ InFile(a) = InFile(h)
    BY <1>6, <1>7 DEF InMemory, InFile
  <1>9. Consistent(a, next, erased)
    <2>1. \A r \in InMemory(a) :
            r.id < next /\ r.id \notin erased /\ (r.open <=> r.id \in a.registered)
      <3> SUFFICES ASSUME NEW r \in InMemory(a)
                   PROVE  r.id < next /\ r.id \notin erased /\ (r.open <=> r.id \in a.registered)
        OBVIOUS
      <3>1. CASE r = done
        BY <3>1, <1>2, <1>3, <1>4, <1>7
      <3>2. CASE r \in InMemory(h) /\ r.id # id
        BY <3>2, <1>2, <1>7
      <3>3. QED BY <3>1, <3>2, <1>8
    <2>2. \A i \in a.registered : \E r \in InMemory(a) : r.id = i
      BY <1>2, <1>7, <1>8
    <2>3. \A q \in InFile(a), r \in InMemory(a) : r.id = q.id => r.profile = q.profile
      <3>1. \A q \in InFile(h), r \in InMemory(h) : r.id = q.id => r.profile = q.profile
        BY <1>1 DEF Usable, Consistent
      <3>2. QED BY <3>1, <1>3, <1>4, <1>8
    <2>4. /\ Distinct(a.file.records) /\ (a.file.kind # "document" => a.file.records = <<>>)
          /\ \A q \in InFile(a) : q.id < next
      BY <1>1, <1>7, <1>8 DEF Usable, Consistent
    <2>5. QED BY <2>1, <2>2, <2>3, <2>4, <1>2, <1>6, <1>7 DEF Consistent
  <1>10. Usable(a, next, erased)
    <2>1. Recorded(a)
      BY <1>1, <1>7 DEF Usable, Recorded
    <2>2. a.needsRead => Unread(a, erased)
      BY <1>1, <1>3, <1>4, <1>7, <1>8 DEF Usable, Unread
    <2>3. QED BY <2>1, <2>2, <1>9 DEF Usable
  <1>11. /\ Usable(h', next, erased) /\ InMemory(h') = InMemory(a)
         /\ h'.needsRead = a.needsRead /\ Written(a, h')
    BY <1>1, <1>10, FlushFacts
  <1>12. Remembers(h, h', erased')
    BY <1>4, <1>8, <1>11 DEF Remembers
  <1>13. Written(h, h')
    BY <1>7, <1>11 DEF Written
  <1>14. QED BY <1>1, <1>7, <1>11, <1>12, <1>13, UsedKeeps DEF HistoryInv

LEMMA ClearKeeps ==
  ASSUME HistoryInv, NEW p \in Profiles, History!Clear(p)
  PROVE  HistoryInv' /\ History!NothingOverwritten
PROOF
  <1> DEFINE ids == History!IdsOf(h.sessions, {p})
             of == History!Of(p)
             rest == History!Without(h.sessions, ids)
             a == History!Clearing(p)
             er == erased \cup of
  <1>1. /\ Usable(h, next, erased) /\ historyUp /\ h' \in History!Flush(a) /\ next \in Nat
        /\ historyUp' /\ next' = next /\ erased' = er
        /\ confirmed' = IF h'.failed THEN confirmed ELSE confirmed \cup of
        /\ confirmed \subseteq erased /\ \A q \in InFile(h) : q.id \notin confirmed
        /\ \A id \in erased : id \in Nat /\ id < next
    BY DEF HistoryInv, History!Clear
  <1>2. /\ h \in Stores /\ h.sessions \in Seq(HistoryRecords) /\ Distinct(h.sessions)
        /\ Len(h.sessions) \in Nat /\ Len(h.sessions) <= MaxSessions /\ MaxSessions \in Nat
        /\ \A r \in InMemory(h) :
             r.id < next /\ r.id \notin erased /\ (r.open <=> r.id \in h.registered)
        /\ \A i \in h.registered : \E r \in InMemory(h) : r.id = i
        /\ InMemory(h) \subseteq HistoryRecords /\ InFile(h) \subseteq HistoryRecords
        /\ \A r, q \in InMemory(h) : r.id = q.id => r = q
        /\ \A r, q \in InFile(h) : r.id = q.id => r = q
        /\ h.file.records \in Seq(HistoryRecords)
        /\ \A q \in InFile(h) : q.id < next
        /\ \A q \in InFile(h), r \in InMemory(h) : r.id = q.id => r.profile = q.profile
    BY <1>1, SameRecords, HistoryAssumption
       DEF Usable, Consistent, Stores, HistoryFiles, InMemory, InFile
  <1>3. /\ ids = {r.id : r \in {r \in InMemory(h) : r.profile = p}}
        /\ of = {r.id : r \in {r \in InMemory(h) \cup InFile(h) : r.profile = p}}
    <2>1. /\ ids = {r.id : r \in {r \in InMemory(h) : r.profile \in {p}}}
          /\ History!IdsOf(h.file.records, {p}) =
               {r.id : r \in {r \in InFile(h) : r.profile \in {p}}}
      BY <1>2, SameRecords DEF InMemory, InFile
    <2>2. QED BY <2>1 DEF History!Of
  <1>4. /\ rest \in Seq(HistoryRecords) /\ Distinct(rest) /\ Len(rest) \in 0..Len(h.sessions)
        /\ RecordsIn(rest) = {r \in InMemory(h) : r.id \notin ids}
    <2> HIDE DEF ids
    <2>1. QED BY <1>2, WithoutFacts DEF InMemory
  <1>5. a = [h EXCEPT !.cleared = @ \cup {p}, !.dirty = TRUE,
                      !.registered = @ \ of, !.sessions = rest]
    BY <1>2 DEF History!Clearing, Stores
  <1> HIDE DEF rest, a, ids, of
  <1>6. /\ a \in Stores /\ a.sessions = rest /\ a.registered = h.registered \ of
        /\ a.cleared = h.cleared \cup {p} /\ a.file = h.file /\ a.needsRead = h.needsRead
        /\ a.pending = h.pending /\ a.failed = h.failed /\ a.backup = h.backup /\ a.dirty
    BY <1>2, <1>4, <1>5 DEF Stores
  <1>7. InMemory(a) = {r \in InMemory(h) : r.profile # p} /\ InFile(a) = InFile(h)
    <2>1. \A r \in InMemory(h) : r.id \in ids <=> r.profile = p
      BY <1>2, <1>3
    <2>2. InMemory(a) = {r \in InMemory(h) : r.id \notin ids} /\ InFile(a) = InFile(h)
      BY <1>4, <1>6 DEF InMemory, InFile
    <2>3. QED BY <2>1, <2>2
  <1>8. \A r \in InMemory(h) : r.id \in of <=> r.profile = p
    BY <1>2, <1>3
  <1>9. Consistent(a, next, er)
    <2>1. \A r \in InMemory(a) :
            r.id < next /\ r.id \notin er /\ (r.open <=> r.id \in a.registered)
      BY <1>2, <1>6, <1>7, <1>8
    <2>2. \A i \in a.registered : \E r \in InMemory(a) : r.id = i
      BY <1>2, <1>6, <1>7, <1>8
    <2>3. \A q \in InFile(a), r \in InMemory(a) : r.id = q.id => r.profile = q.profile
      BY <1>2, <1>7
    <2>4. /\ Distinct(a.file.records) /\ (a.file.kind # "document" => a.file.records = <<>>)
          /\ \A q \in InFile(a) : q.id < next
      BY <1>1, <1>6, <1>7 DEF Usable, Consistent
    <2>5. Distinct(a.sessions) /\ Len(a.sessions) <= MaxSessions
      BY <1>2, <1>4, <1>6
    <2> HIDE DEF er
    <2>6. QED BY <2>1, <2>2, <2>3, <2>4, <2>5, <1>6 DEF Consistent
  <1>10. Usable(a, next, er)
    <2>1. Recorded(a)
      BY <1>1, <1>6 DEF Usable, Recorded
    <2>2. a.needsRead => Unread(a, er)
      <3> SUFFICES ASSUME h.needsRead, NEW q \in InFile(h)
                   PROVE  /\ q.profile \in h.cleared \cup {p} <=> q.id \in erased \cup of
                          /\ \A r \in InMemory(a) : r.id # q.id
        BY <1>6, <1>7 DEF Unread
      <3>1. /\ q.profile \in h.cleared <=> q.id \in erased
            /\ \A r \in InMemory(h) : r.id # q.id
        BY <1>1 DEF Usable, Unread
      <3>2. q.id \in of <=> q.profile = p
        BY <3>1, <1>2, <1>3
      <3>3. QED BY <3>1, <3>2, <1>7
    <2> HIDE DEF er
    <2>3. QED BY <2>1, <2>2, <1>9 DEF Usable
  <1> HIDE DEF er
  <1>11. /\ Usable(h', next, er) /\ InMemory(h') = InMemory(a)
         /\ h'.needsRead = a.needsRead /\ Written(a, h')
         /\ ~h'.failed => InFile(h') = InMemory(h')
    BY <1>1, <1>6, <1>10, FlushFacts
  <1>12. Remembers(h, h', erased')
    BY <1>1, <1>7, <1>8, <1>11 DEF Remembers, er
  <1>13. Written(h, h')
    BY <1>6, <1>11 DEF Written
  <1>14. \A id \in erased' : id \in Nat /\ id < next'
    <2>1. \A id \in of : id \in Nat /\ id < next
      BY <1>2, <1>3 DEF HistoryRecords
    <2>2. QED BY <2>1, <1>1 DEF er
  <1>15. erased \subseteq erased' /\ confirmed' \subseteq erased'
    BY <1>1 DEF er
  <1>16. h'.file # h.file \/ \A q \in InFile(h) : q.id \notin confirmed'
    <2> SUFFICES ASSUME h'.file = h.file PROVE \A q \in InFile(h) : q.id \notin confirmed'
      OBVIOUS
    <2>1. CASE h'.failed
      BY <2>1, <1>1
    <2>2. CASE ~h'.failed
      <3>1. InFile(h) = InMemory(h')
        BY <2>2, <1>11 DEF InFile
      <3>2. \A r \in InMemory(h') : r.id \notin er
        BY <1>11 DEF Usable, Consistent
      <3>3. QED BY <3>1, <3>2, <1>1, <1>15
    <2>3. QED BY <2>1, <2>2
  <1>17. QED BY <1>1, <1>6, <1>11, <1>12, <1>13, <1>14, <1>15, <1>16, UsedKeeps

LEMMA HistoryStarts == History!Init => HistoryInv
PROOF
  <1> SUFFICES ASSUME History!Init PROVE HistoryInv
    OBVIOUS
  <1>1. /\ historyUp = FALSE /\ next = 3 /\ erased = {} /\ confirmed = {}
        /\ \E f \in {History!Absent, History!Damaged} \cup {History!Left(p) : p \in Profiles} :
             h = History!New(f, FALSE)
    BY DEF History!Init
  <1>2. PICK f \in {History!Absent, History!Damaged} \cup {History!Left(p) : p \in Profiles} :
          h = History!New(f, FALSE)
    BY <1>1
  <1>3. /\ f \in HistoryFiles /\ Distinct(f.records)
        /\ f.kind # "document" => f.records = <<>>
        /\ \A q \in RecordsIn(f.records) : q.id < 3
    <2>1. CASE f \in {History!Absent, History!Damaged}
      <3>1. f.records = <<>> /\ f \in HistoryFiles
        <4>1. \E k \in {"absent", "corrupt"} : f = [kind |-> k, records |-> <<>>]
          BY <2>1 DEF History!Absent, History!Damaged
        <4>2. <<>> \in Seq(HistoryRecords)
          OBVIOUS
        <4>3. QED BY <4>1, <4>2 DEF HistoryFiles
      <3>2. Distinct(<<>>) /\ RecordsIn(<<>>) = {}
        BY DEF Distinct, RecordsIn
      <3>3. QED BY <3>1, <3>2
    <2>2. CASE f \in {History!Left(p) : p \in Profiles}
      <3>1. PICK p \in Profiles : f = History!Left(p)
        BY <2>2
      <3> DEFINE r1 == [id |-> 1, profile |-> p, open |-> FALSE]
                 r2 == [id |-> 2, profile |-> p, open |-> TRUE]
      <3>2. r1 \in HistoryRecords /\ r2 \in HistoryRecords /\ r1.id = 1 /\ r2.id = 2
        BY DEF HistoryRecords
      <3>3. f.records = <<r1, r2>> /\ f.kind = "document"
            /\ f = [kind |-> "document", records |-> <<r1, r2>>]
        BY <3>1 DEF History!Left, History!Document
      <3> HIDE DEF r1, r2
      <3>4. /\ <<r1, r2>> \in Seq(HistoryRecords) /\ DOMAIN <<r1, r2>> = 1..2
            /\ <<r1, r2>>[1] = r1 /\ <<r1, r2>>[2] = r2
        BY <3>2
      <3>5. \A i \in 1..2 : i = 1 \/ i = 2
        OBVIOUS
      <3> DEFINE rs == <<r1, r2>>
      <3>6. rs \in Seq(HistoryRecords) /\ DOMAIN rs = 1..2 /\ rs[1] = r1 /\ rs[2] = r2
        BY <3>4
      <3> HIDE DEF rs
      <3>7. Distinct(rs) /\ \A q \in RecordsIn(rs) : q.id < 3
        BY <3>2, <3>5, <3>6 DEF Distinct, RecordsIn
      <3>8. QED BY <3>3, <3>6, <3>7 DEF HistoryFiles, rs
    <2>3. QED BY <2>1, <2>2
  <1>4. /\ h \in Stores /\ h.file = f /\ h.backup = FALSE /\ h.sessions = <<>>
        /\ h.registered = {}
    BY <1>2, <1>3 DEF History!New, Stores
  <1>5. InMemory(h) = {} /\ InFile(h) = RecordsIn(f.records)
    BY <1>4 DEF InMemory, InFile, RecordsIn
  <1>6. Distinct(<<>>) /\ Len(<<>>) <= MaxSessions
    BY HistoryAssumption DEF Distinct
  <1>7. Consistent(h, next, erased)
    BY <1>1, <1>3, <1>4, <1>5, <1>6 DEF Consistent
  <1>8. QED BY <1>1, <1>2, <1>4, <1>7 DEF HistoryInv

LEMMA HistoryStep ==
  HistoryInv /\ History!Next => HistoryInv' /\ History!NothingOverwritten
PROOF
  BY HistoryStartKeeps, TimerKeeps, GetKeeps, HistoryEndKeeps, RegisterKeeps, ClearKeeps,
     SampleKeeps, FinalizeKeeps DEF History!Next

LEMMA HistoryShows == HistoryInv => History!ClearedStaysCleared
PROOF
  <1> SUFFICES ASSUME HistoryInv PROVE History!ClearedStaysCleared
    OBVIOUS
  <1>1. Consistent(h, next, erased)
    BY DEF HistoryInv, Usable
  <1>2. h.sessions \in Seq(HistoryRecords) /\ h.file.records \in Seq(HistoryRecords)
    BY <1>1 DEF Consistent, Stores, HistoryFiles
  <1>3. /\ History!Ids(h.sessions) = {r.id : r \in InMemory(h)}
        /\ History!Ids(h.file.records) = {r.id : r \in InFile(h)}
    BY <1>2, SameRecords DEF InMemory, InFile
  <1>4. /\ \A r \in InMemory(h) : r.id \notin erased /\ r.id \notin confirmed
        /\ \A q \in InFile(h) : q.id \notin confirmed
    BY <1>1 DEF HistoryInv, Consistent
  <1>5. \A i \in DOMAIN h.sessions : h.sessions[i].open => h.sessions[i].id \in h.registered
    BY <1>1 DEF Consistent, InMemory, RecordsIn
  <1>6. QED BY <1>3, <1>4, <1>5 DEF History!ClearedStaysCleared

LEMMA HistoryKept == History!Spec => History!HistoryHolds
PROOF
  <1>1. HistoryInv /\ UNCHANGED History!vars => HistoryInv'
    BY DEF History!vars, HistoryInv, InFile, InMemory
  <1>2. History!Spec => []HistoryInv
    BY <1>1, HistoryStarts, HistoryStep, PTL DEF History!Spec
  <1>3. HistoryInv /\ [History!Next]_(History!vars) =>
          [History!NothingOverwritten]_(History!vars)
    BY HistoryStep
  <1>4. HistoryInv /\ HistoryInv' /\ [History!Next]_(History!vars) =>
          [History!ClearedStaysCleared' /\ History!NothingOverwritten]_(History!vars)
    <2>1. HistoryInv' => History!ClearedStaysCleared'
      BY HistoryShows, PTL
    <2>2. QED BY <1>3, <2>1
  <1>5. QED BY <1>2, <1>4, PTL DEF History!Spec, History!HistoryHolds

-----------------------------------------------------------------------------
(* The services together.                                                  *)

all == <<part, vars, documents, history, s, config, diagnosis>>

\* A behaviour of the services is one of each of them.
LEMMA CredentialsAlone == ServicesSpec => Spec
PROOF
  <1>1. ServicesInit => Init
    BY DEF ServicesInit
  <1>2. [ServicesNext]_all => [Next]_vars
    BY DEF ServicesNext, all
  <1>3. QED BY <1>1, <1>2, PTL DEF ServicesSpec, Spec, all

LEMMA HistoryAlone == ServicesSpec => History!Spec
PROOF
  <1>1. ServicesInit => History!Init
    BY DEF ServicesInit
  <1>2. [ServicesNext]_all => [History!Next]_(History!vars)
    BY DEF ServicesNext, all, history, History!vars
  <1>3. QED BY <1>1, <1>2, PTL DEF ServicesSpec, History!Spec, all

LEMMA DocumentsAlone == ServicesSpec => Root!Spec
PROOF
  <1>1. ServicesInit => Root!Init
    BY DEF ServicesInit
  <1>2. [ServicesNext]_all => [Root!Next]_(Root!vars)
    BY DEF ServicesNext, all, documents, Root!vars, Root!memory
  <1>3. QED BY <1>1, <1>2, PTL DEF ServicesSpec, Root!Spec, all

LEMMA ProbesAlone == ServicesSpec => Probes!Spec
PROOF
  <1>1. ServicesInit => Probes!Init
    BY DEF ServicesInit
  <1>2. [ServicesNext]_all => [Probes!Next]_(Probes!vars)
    BY DEF ServicesNext, all, Probes!vars
  <1>3. QED BY <1>1, <1>2, PTL DEF ServicesSpec, Probes!Spec, all

LEMMA ConfigAlone == ServicesSpec => Config!Spec
PROOF
  <1>1. ServicesInit => Config!Init
    BY DEF ServicesInit
  <1>2. [ServicesNext]_all => [Config!Next]_(Config!vars)
    BY DEF ServicesNext, all, config, Config!vars
  <1>3. QED BY <1>1, <1>2, PTL DEF ServicesSpec, Config!Spec, all

LEMMA DiagnosisAlone == ServicesSpec => Diagnosis!Spec
PROOF
  <1>1. ServicesInit => Diagnosis!Init
    BY DEF ServicesInit
  <1>2. [ServicesNext]_all => [Diagnosis!Next]_(Diagnosis!vars)
    BY DEF ServicesNext, all, diagnosis, Diagnosis!vars
  <1>3. QED BY <1>1, <1>2, PTL DEF ServicesSpec, Diagnosis!Spec, all

\* A revoked cookie is neither used again by its process nor found by a later one,
\* whatever becomes of the document (clearCookie, getCookie, _commit).
THEOREM RevokedStaysDead == ServicesSpec => []RevokedForGood
PROOF BY CredentialsAlone, CredentialsHold, PTL

\* A store that is not locked agrees with its file unless another program wrote
\* it, save tells its caller the truth, a store that unlocks holds what is
\* durable, and rejected bytes are kept, for every set of documents and contents
\* (load, save, retryLoad).
THEOREM DocumentStaysSafe == ServicesSpec => DocumentIsSafe
PROOF
  <1>1. Root!Spec => []Root!UnlockedAgrees
    BY StoreAgrees, PTL
  <1>2. QED
    BY <1>1, DocumentsAlone, SaveAlwaysTruthful, UnlockAlwaysDurable,
       RejectedAlwaysKept, PTL DEF DocumentIsSafe

\* Whatever other programs write into the file, each step of the store, each
\* crash and each power loss is one that RootStore allows (load, save,
\* retryLoad).
THEOREM DocumentsImplementRootStore == ServicesSpec => ImplementsRootStore
PROOF BY DocumentsAlone, StoreImplementsRootStore, PTL DEF ImplementsRootStore

\* Whatever sequence of operations, sleeps, refusals and logins comes, an idle
\* application on a machine that is awake probes what is to be probed, and what a
\* round has shown is taken back with it (update, cancel and resume of both
\* services, queueRecoveryUpdate).
THEOREM ProbesAlwaysKeepOn == ServicesSpec => []ProbesKeepOn
PROOF
  <1>1. Probes!Spec => []Probes!ProbesKeepOn
    BY ProbesHold
  <1>2. QED BY <1>1, ProbesAlone, PTL DEF ProbesKeepOn

\* Whatever other programs and crashes do to the files, the user's configuration
\* is replaced only as it was shown, no other line of it is lost or moved, and a
\* durable copy of what is replaced exists, for all aliases and configurations
\* (preview, write, atomicWriteBytes).
THEOREM ConfigIsReplacedAsShown == ServicesSpec => ConfigReplacedAsShown
PROOF BY ConfigHolds, ConfigAlone, PTL DEF ConfigReplacedAsShown

\* However configuration, scope, login, cookie and proxy change while a diagnosis
\* runs, only a proof of the present completes the onboarding, and only the cookie
\* that was refused is revoked, for all configurations, cookies and numbers of runs
\* (run, publish, isFresh, invalidateDiagnostics, assertProof).
THEOREM DiagnosisAlwaysHolds == ServicesSpec => DiagnosisHolds
PROOF BY DiagnosisSafe, DiagnosisAlone, PTL DEF DiagnosisHolds

\* Whatever sessions open, end and are cleared while the file cannot be read, is
\* damaged or refuses to be written, and wherever the process ends, what was cleared
\* does not come back and nothing else is lost but to the limit, for all profiles
\* and every limit (_load, _prune, register, finalize, clear, flush, retry).
THEOREM HistoryAlwaysHolds == ServicesSpec => HistoryHolds
PROOF BY HistoryKept, HistoryAlone, PTL DEF HistoryHolds
=============================================================================
