------------------------------ MODULE MCFiles ------------------------------
(***************************************************************************)
(* The queue of file transfers, the publication of one file, and the update *)
(* of the program with its ways out, in one run of TLC: they share no       *)
(* state, so a behaviour is one of one of them, and their states add up     *)
(* instead of multiplying.                                                 *)
(***************************************************************************)
EXTENDS FileTransferQueue

CONSTANTS Contents, Chunks, Platforms, MaxVersion

VARIABLES
  part,                                                       \* the part at work
  source, copy, tempDir, target, pc, opt, before, multipart,  \* FilePublication
  read, sent, placed, retained, mayBeChanged,
  started, code, waiting, preparation, exited,                \* ShutdownCoordinator
  platform, phase, candidate, ready, restartRequired,         \* UpdateService
  updatesDisposed, op, intent, marker, cache, tampered, handed, native,
  job, edited, prepared, shuttingDown, exitPrepared, fatal, allowQuit, left

Publication == INSTANCE FilePublication
Updates == INSTANCE UpdateService WITH disposed <- updatesDisposed

publication == <<source, copy, tempDir, target, pc, opt, before, multipart,
                 read, sent, placed, retained, mayBeChanged>>
updates == <<started, code, waiting, preparation, exited,
             platform, phase, candidate, ready, restartRequired,
             updatesDisposed, op, intent, marker, cache, tampered, handed, native,
             job, edited, prepared, shuttingDown, exitPrepared, fatal, allowQuit, left>>

FilesNext ==
  /\ UNCHANGED part
  /\ \/ part = "queue" /\ Next /\ UNCHANGED <<publication, updates>>
     \/ part = "publication" /\ Publication!Next /\ UNCHANGED <<vars, updates>>
     \/ part = "update" /\ Updates!Next /\ UNCHANGED <<vars, publication>>

FilesInit ==
  /\ part \in {"queue", "publication", "update"}
  /\ Init /\ Publication!Init /\ Updates!Init
  /\ part # "queue" => context = None
  /\ part # "publication" => /\ source = CHOOSE c \in Contents : TRUE
                             /\ target = Publication!NoFile
                             /\ opt = CHOOSE o \in Publication!Options : ~o.inPlace
  /\ part # "update" => platform = CHOOSE p \in Platforms : TRUE

\* The fair actions of a part are disabled in its initial states.
FilesSpec ==
  FilesInit /\ [][FilesNext]_<<part, vars, publication, updates>>
    /\ Fairness /\ Updates!Fairness

-----------------------------------------------------------------------------
\* What a run checks of FilePublication.
PublishedIsVerified == Publication!PublishedIsVerified
NothingClobbered == Publication!NothingClobbered
LeftoversTold == Publication!LeftoversTold

\* What a run checks of UpdateService and ShutdownCoordinator.
ExitsAreClean == Updates!TypeOK /\ Updates!UpdateLeavesClean /\ Updates!ExitCodeIsTold

\* Whoever waits is served or told: a transfer in the queue, a shutdown, a hand-over.
NothingHangs == QueueMoves /\ Updates!NothingHangs
=============================================================================
