----------------------------- MODULE MCServices -----------------------------
(***************************************************************************)
(* The services around the proxy, in one run of TLC: credentials, settings, *)
(* session history, the two probes of the portal, the block in the SSH       *)
(* configuration and the diagnosis.  As far as they are modelled here they   *)
(* share no state, so a behaviour is one of one of them, and their states    *)
(* add up instead of multiplying.                                          *)
(***************************************************************************)
EXTENDS CredentialStore, Naturals, Sequences

CONSTANTS
  Documents, Default, Legacy, Migrated, Corrupt, Invalid, Nothing, Intruders,  \* SettingsStore
  Profiles, MaxSessions, MaxIds,                    \* SessionHistory
  MaxEpoch, MaxCookie,                              \* PortalProbes
  Aliases, Versions,                                \* SshConfig
  Settings, PortalCookies, MaxScope, MaxAuth, MaxRuns  \* Diagnostics

VARIABLES
  part,                                             \* the part at work
  settingsUp, settingsRoot, settingsDisk, settingsStable,  \* SettingsStore
  known, code, corrupt, op, touched,
  historyUp, h, next, erased, confirmed,            \* SessionHistory
  s,                                                \* PortalProbes
  saved, file, fileStable, backup, kept, shown, job,  \* SshConfig
  world, run, latest, record, valid, nextRun, completed  \* Diagnostics

Root == INSTANCE SettingsStore WITH
  up <- settingsUp, root <- settingsRoot, disk <- settingsDisk, stable <- settingsStable
History == INSTANCE SessionHistory WITH up <- historyUp
Probes == INSTANCE PortalProbes
Config == INSTANCE SshConfig WITH stable <- fileStable
Diagnosis == INSTANCE Diagnostics WITH
  next <- nextRun, Cookies <- PortalCookies

\* The contents are told apart, and others write nothing that is none of them.
ASSUME DocumentAssumption ==
  /\ Default \in Documents /\ Migrated \in Documents
  /\ Documents \cap (Corrupt \cup {Legacy, Invalid, Nothing, Root!Unreadable}) = {}
  /\ Legacy \notin Corrupt \cup {Invalid, Nothing}
  /\ Invalid \notin Corrupt \cup {Nothing}
  /\ Nothing \notin Corrupt
  /\ Intruders \subseteq Root!Contents

\* The history holds so many sessions.
ASSUME HistoryAssumption == MaxSessions \in Nat

documents == <<settingsUp, settingsRoot, settingsDisk, settingsStable,
               known, code, corrupt, op, touched>>
history == <<historyUp, h, next, erased, confirmed>>
config == <<saved, file, fileStable, backup, kept, shown, job>>
diagnosis == <<world, run, latest, record, valid, nextRun, completed>>

ServicesNext ==
  /\ UNCHANGED part
  /\ \/ /\ part = "credentials" /\ Next
        /\ UNCHANGED <<documents, history, s, config, diagnosis>>
     \/ /\ part = "documents" /\ Root!Next
        /\ UNCHANGED <<vars, history, s, config, diagnosis>>
     \/ /\ part = "history" /\ History!Next
        /\ UNCHANGED <<vars, documents, s, config, diagnosis>>
     \/ /\ part = "probes" /\ Probes!Next
        /\ UNCHANGED <<vars, documents, history, config, diagnosis>>
     \/ /\ part = "config" /\ Config!Next
        /\ UNCHANGED <<vars, documents, history, s, diagnosis>>
     \/ /\ part = "diagnosis" /\ Diagnosis!Next
        /\ UNCHANGED <<vars, documents, history, s, config>>

\* A part that is not at work has one initial state.
ServicesInit ==
  /\ part \in {"credentials", "documents", "history", "probes", "config", "diagnosis"}
  /\ Init /\ (part # "credentials" => disk = NoSecrets /\ keyring)
  /\ Root!Init /\ (part # "documents" => settingsDisk = Nothing)
  /\ History!Init /\ (part # "history" => h.file.kind = "absent")
  /\ Probes!Init /\ (part # "probes" => s.serving /\ s.enabled /\ s.cookie = 1)
  /\ Config!Init /\ (part # "config" => /\ file = Config!Absent
                                        /\ saved = CHOOSE c \in Config!Configs : TRUE)
  /\ Diagnosis!Init /\ (part # "diagnosis" => /\ world.config = CHOOSE c \in Settings : TRUE
                                              /\ world.cookie = CHOOSE c \in PortalCookies : TRUE)

ServicesSpec ==
  ServicesInit /\ [][ServicesNext]_<<part, vars, documents, history, s, config, diagnosis>>

-----------------------------------------------------------------------------
\* A store that is not locked agrees with its file, a save tells its caller the
\* truth, a store that unlocks holds what is durable, and bytes that a load has
\* rejected are not overwritten (SettingsStore).
DocumentIsSafe ==
  /\ []Root!UnlockedAgrees
  /\ Root!SaveIsTruthful /\ Root!UnlockIsDurable /\ Root!RejectedBytesKept

\* The settings store keeps the promise of RootStore.
ImplementsRootStore == Root!ImplementsRootStore

\* What the run checks of the other parts, as their modules state it.
HistoryHolds == History!HistoryHolds
ProbesKeepOn == Probes!ProbesKeepOn
ConfigReplacedAsShown == Config!ConfigReplacedAsShown
DiagnosisHolds == Diagnosis!DiagnosisHolds
=============================================================================
