------------------------------ MODULE RootStore ------------------------------
(***************************************************************************)
(* What the settings store promises to the components that keep their      *)
(* state in the root document (the key service, the profiles): a commit is *)
(* confirmed and durable, or has not happened, or is uncertain and locks   *)
(* the store; a locked store writes nothing, and it is unlocked only by a  *)
(* reload after which memory, file and durable file are one document.      *)
(***************************************************************************)
CONSTANTS
  Fresh,        \* the document in memory before anything is loaded
  Unreadable    \* a file from which no document can be loaded

VARIABLES
  open,         \* the program runs and has loaded, or tried to load, the root
  mem,          \* the document in memory
  disk,         \* the document a reader of the file sees
  stable,       \* the document that a power loss leaves
  locked        \* commits are refused

vars == <<open, mem, disk, stable, locked>>

Closed == ~open /\ mem = Fresh /\ ~locked

Init == Closed /\ stable = disk

\* An unreadable file may be replaced although the store is locked: the user
\* asks for exactly that.
Writable == open /\ (~locked \/ disk = Unreadable)

Commit ==
  /\ Writable
  /\ mem' = disk' /\ stable' = disk' /\ ~locked'
  /\ UNCHANGED open

\* The new document may or may not be there, in memory or on the disk.
CommitUncertain ==
  /\ Writable
  /\ locked'
  /\ mem' = mem \/ mem' = disk'
  /\ stable' \in {stable, disk'}
  /\ UNCHANGED open

Reload ==
  /\ open
  /\ disk # Unreadable
  /\ mem' = disk /\ stable' = disk /\ ~locked'
  /\ UNCHANGED <<open, disk>>

\* The document may have been read and made durable before the reload failed.
ReloadFails ==
  /\ open
  /\ locked'
  /\ mem' \in {mem, disk} /\ stable' \in {stable, disk}
  /\ UNCHANGED <<open, disk>>

Open ==
  /\ ~open
  /\ open' = TRUE
  /\ \/ mem' = disk /\ ~locked' /\ disk # Unreadable
     \/ mem' \in {mem, disk} /\ locked'
  /\ stable' \in {stable, disk}
  /\ UNCHANGED disk

\* A commit may have been under way.
Crash ==
  /\ Closed'
  /\ Writable \/ UNCHANGED disk
  /\ UNCHANGED stable

PowerLoss ==
  /\ Closed'
  /\ disk' = stable
  /\ UNCHANGED stable

Next ==
  \/ Commit \/ CommitUncertain \/ Reload \/ ReloadFails
  \/ Open \/ Crash \/ PowerLoss

Spec == Init /\ [][Next]_vars
==============================================================================
