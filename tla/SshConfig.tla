------------------------------ MODULE SshConfig -------------------------------
(***************************************************************************)
(* The block of the program in the user's SSH configuration                *)
(* (electron/ssh-config-service.js).  The user is shown what would be       *)
(* written (preview) and confirms it later (write); in between, and during  *)
(* the write itself, other programs may change the file and the settings    *)
(* may change.  The old file is copied to a backup before it is replaced.   *)
(*                                                                         *)
(* The write is synchronous: its file operations are steps, among which     *)
(* other programs, a crash or a power loss may come, but nothing of the     *)
(* program itself.                                                         *)
(*                                                                         *)
(* Abstracted: a configuration is an alias and what else the block says; a  *)
(* hash stands for what was hashed; a line that is not in the block is a    *)
(* Host line for an alias or any other line.  A power loss finds a file as  *)
(* it was last made durable, or as it is.                                  *)
(***************************************************************************)
EXTENDS Sequences

CONSTANTS
  Aliases,    \* aliases that the settings may name
  Versions    \* what else the block says: host, port, key, profile

Configs == [alias : Aliases, version : Versions]

Absent == [kind |-> "absent"]
\* Not UTF-8, unbalanced or repeated markers, a symbolic link, no regular file.
Malformed == [kind |-> "invalid"]
Text(before, block, after) ==
  [kind |-> "text", before |-> before, block |-> block, after |-> after]

Empty == [kind |-> "none"]     \* no block, no preview, no write

VARIABLES
  saved,          \* the settings
  file, stable,   \* the configuration: as it is, as a power loss may leave it
  backup, kept,   \* the backup, in the same way
  shown,          \* the hashes of the last preview: its source and its settings
  job             \* the write under way

vars == <<saved, file, stable, backup, kept, shown, job>>

-----------------------------------------------------------------------------
\* unmanagedBytes: what is not in the block, in its order
Foreign(content) ==
  IF content.kind = "absent" THEN <<>> ELSE content.before \o content.after

\* hostPatterns: a Host line outside the block that has the alias
Conflict(content, alias) ==
  \E i \in DOMAIN Foreign(content) : Foreign(content)[i] = alias

\* readSource and unmanagedBytes succeed.
Usable(content, config) ==
  content.kind # "invalid" /\ ~Conflict(content, config.alias)

\* _preview: the block comes first, the other text follows as it was.
Content(content, config) == Text(<<>>, config, Foreign(content))

\* inspect
Inspect(content, config) ==
  IF content.kind = "absent" \/ content.block = Empty THEN "SSH_CONFIG_MISSING"
  ELSE IF content # Content(content, config) THEN "SSH_CONFIG_MISMATCH"
  ELSE "SSH_CONFIG_OK"

-----------------------------------------------------------------------------
\* preview; an error shows nothing.
Preview ==
  /\ job = Empty
  /\ shown' = IF Usable(file, saved) THEN [source |-> file, config |-> saved] ELSE Empty
  /\ UNCHANGED <<saved, file, stable, backup, kept, job>>

\* A plausible error: the source is not compared with what was shown.
WriteWhatever ==
  /\ job = Empty /\ shown # Empty
  /\ Usable(file, saved) /\ saved = shown.config
  /\ file # Content(file, saved)
  /\ job' = [step |-> IF file = Absent THEN "replace" ELSE "backup",
             source |-> file, config |-> saved, raced |-> FALSE]
  /\ UNCHANGED <<saved, file, stable, backup, kept, shown>>

\* write, up to the directory: the file and the settings are as shown, and
\* there is something to change.
Write ==
  /\ job = Empty /\ shown # Empty
  /\ Usable(file, saved)
  /\ shown = [source |-> file, config |-> saved]
  /\ file # Content(file, saved)
  /\ job' = [step |-> IF file = Absent THEN "replace" ELSE "backup",
             source |-> file, config |-> saved, raced |-> FALSE]
  /\ UNCHANGED <<saved, file, stable, backup, kept, shown>>

\* atomicWriteBytes for the backup: durable, or an error before or after the
\* file was renamed, which ends the write.
BackUp ==
  /\ job # Empty /\ job.step = "backup"
  /\ \/ backup' = job.source /\ kept' = job.source /\ job' = [job EXCEPT !.step = "replace"]
     \/ backup' = job.source /\ UNCHANGED kept /\ job' = Empty
     \/ UNCHANGED <<backup, kept>> /\ job' = Empty
  /\ UNCHANGED <<saved, file, stable, shown>>

\* atomicWriteBytes for the configuration
Replace ==
  /\ job # Empty /\ job.step = "replace"
  /\ LET content == Content(job.source, job.config)
     IN \/ file' = content /\ stable' = content
        \/ file' = content /\ UNCHANGED stable
        \/ UNCHANGED <<file, stable>>
  /\ job' = Empty
  /\ UNCHANGED <<saved, backup, kept, shown>>

-----------------------------------------------------------------------------
\* What other programs and the user leave in the file.
Theirs ==
  {Absent, Malformed, Text(<<>>, Empty, <<"other">>)}
    \cup {Text(<<>>, Empty, <<alias, "other">>) : alias \in Aliases}
    \cup {Text(<<"other">>, config, <<"more">>) : config \in Configs}

OtherProgram ==
  /\ file' \in Theirs /\ stable' = file'
  /\ job' = IF job = Empty THEN Empty ELSE [job EXCEPT !.raced = TRUE]
  /\ UNCHANGED <<saved, backup, kept, shown>>

\* set-settings, or another profile is chosen.
SaveSettings ==
  /\ job = Empty
  /\ saved' \in Configs
  /\ UNCHANGED <<file, stable, backup, kept, shown, job>>

\* The process ends; with the power, each file may go back to what was durable.
Crash ==
  /\ shown' = Empty /\ job' = Empty
  /\ \/ UNCHANGED <<file, stable, backup, kept>>
     \/ /\ file' \in {file, stable} /\ stable' = file'
        /\ backup' \in {backup, kept} /\ kept' = backup'
  /\ UNCHANGED saved

Init ==
  /\ saved \in Configs
  /\ file \in Theirs /\ stable = file
  /\ backup = Absent /\ kept = Absent
  /\ shown = Empty /\ job = Empty

Next == Preview \/ Write \/ BackUp \/ Replace \/ OtherProgram \/ SaveSettings \/ Crash

Spec == Init /\ [][Next]_vars

-----------------------------------------------------------------------------
\* The user's file is replaced only by what was shown: exactly the block of the
\* confirmed settings before all other text in its old order, which inspect then
\* accepts.  The source that was shown is what is replaced (another program that
\* writes during the write itself excepted), its backup survives a power loss
\* from before the replacement on, and so no text is ever without a durable copy.
ConfigReplacedAsShown ==
  [][/\ job # Empty /\ job.step = "replace" /\ file' # file
     /\ file' = Content(job.source, job.config)
     => /\ shown = [source |-> job.source, config |-> job.config]
        /\ job.raced \/ file = shown.source
        /\ Foreign(file') = Foreign(shown.source) /\ ~Conflict(file', shown.config.alias)
        /\ Inspect(file', shown.config) = "SSH_CONFIG_OK"
        /\ shown.source # Absent => shown.source \in {kept, file} /\ kept = kept'
           /\ kept' = shown.source]_vars
=============================================================================
