---------------------------- MODULE ScpSession -----------------------------
(***************************************************************************)
(* SCP transfers through the proxy: startScpSession (electron/scp/         *)
(* session.js) with runUploadSession, runDownloadSession and the temporary *)
(* files they share a quota of (temp-file.js).                             *)
(*                                                                         *)
(* A session can be told to stop at any moment (close: the client, the     *)
(* proxy, the idle and the lifetime timers) and any step can fail; then it *)
(* unwinds: the temporary file goes, the quota is given back, the client   *)
(* is told.  A crash leaves the file of the session behind.                *)
(*                                                                         *)
(* Abstracted: paths, globs, limits of entries and bytes (failures of a    *)
(* step), the records (ScpEndpoint reads and writes them), idle time; the  *)
(* publication itself is FilePublication.  Every file has size 1.          *)
(***************************************************************************)
EXTENDS Naturals, FiniteSets

CONSTANTS
  Sessions,
  Quota,       \* MAX_RESERVED_BYTES, in files
  MaxFiles,    \* bound on the files of a session (not in the code)
  MaxDepth,    \* MAX_DEPTH
  MaxCrashes   \* bound on the crashes (not in the code)

VARIABLES
  ses,        \* the sessions
  reserved,   \* reservedBytes
  stale,      \* private directories of processes that are gone
  crashes

vars == <<ses, reserved, stale, crashes>>

Idle == [pc |-> "idle", direction |-> "up", stopped |-> FALSE, failed |-> FALSE,
         files |-> 0, depth |-> 0, time |-> FALSE, existed |-> FALSE,
         held |-> FALSE, file |-> FALSE, dest |-> "old", changed |-> FALSE,
         mayBeChanged |-> FALSE, warned |-> FALSE, exit |-> "none"]

Working(s) == s.pc \notin {"idle", "unwind", "closing", "over"}
Held == {i \in Sessions : ses[i].held}

Put(i, s) == ses' = [ses EXCEPT ![i] = s]
\* Step i from one point to the next: check() passes only if it is not stopped.
Step(i, from, s) == ses[i].pc = from /\ ~ses[i].stopped /\ Put(i, s)

-----------------------------------------------------------------------------
Start(i, direction) ==
  /\ ses[i].pc = "idle"
  /\ \E existed \in BOOLEAN :
       Put(i, [ses[i] EXCEPT !.pc = "begin", !.direction = direction, !.existed = existed])
  /\ UNCHANGED <<reserved, stale, crashes>>

\* The destination is inspected and acknowledged; the sources are found and
\* the client has asked for the first.
Begun(i) ==
  /\ Step(i, "begin", [ses[i] EXCEPT !.pc = IF ses[i].direction = "up" THEN "record" ELSE "send"])
  /\ UNCHANGED <<reserved, stale, crashes>>

\* runUploadSession: the records of times and directories.
Directories(i) ==
  LET s == ses[i]
  IN /\ \/ ~s.time /\ Step(i, "record", [s EXCEPT !.time = TRUE])
        \/ s.depth < MaxDepth /\ Step(i, "record", [s EXCEPT !.depth = @ + 1, !.time = FALSE])
        \/ s.depth > 0 /\ ~s.time /\ Step(i, "record", [s EXCEPT !.depth = @ - 1])
     /\ UNCHANGED <<reserved, stale, crashes>>

\* receiveFile
Header(i) ==
  /\ ses[i].files < MaxFiles
  /\ Step(i, "record", [ses[i] EXCEPT !.pc = "reserve", !.time = FALSE, !.dest = "old"])
  /\ UNCHANGED <<reserved, stale, crashes>>

\* allocateTempFile: the quota is taken before the first await.
Reserve(i) ==
  /\ reserved < Quota /\ reserved' = reserved + 1
  /\ Step(i, "reserve", [ses[i] EXCEPT !.pc = "allocate", !.held = TRUE])
  /\ UNCHANGED <<stale, crashes>>

\* A plausible error: a private directory is taken for abandoned by its age.
ScavengedLive(i) ==
  [j \in Sessions |-> IF j = i THEN ses[j] ELSE [ses[j] EXCEPT !.file = FALSE]]

\* scavenge removes what a dead process has left, as far as it gets, and
\* spares the directories of the living.
Scavenged(i) == ses

Allocate(i) ==
  /\ ses[i].pc = "allocate" /\ ~ses[i].stopped
  /\ ses' = [Scavenged(i) EXCEPT ![i].pc = "receive", ![i].file = TRUE]
  /\ stale' \in 0..stale
  /\ UNCHANGED <<reserved, crashes>>

\* Acknowledged, received, closed, confirmed by the client, target looked at.
Receive(i) ==
  /\ Step(i, "receive", [ses[i] EXCEPT !.pc = "publish"])
  /\ UNCHANGED <<reserved, stale, crashes>>

\* An existing target is replaced in place, which is noted before the call.
Publish(i) ==
  /\ \E dest \in {"new", "partial"} :
       Step(i, "publish", [ses[i] EXCEPT !.pc = "verify", !.dest = dest,
                                         !.mayBeChanged = ses[i].existed])
  /\ UNCHANGED <<reserved, stale, crashes>>

\* A plausible error: the completion is acknowledged before the finally.
VerifyAndAck(i) ==
  /\ ses[i].dest = "new"
  /\ Step(i, "verify", [ses[i] EXCEPT !.pc = "unwind", !.files = @ + 1])
  /\ UNCHANGED <<reserved, stale, crashes>>

\* verifyPublication reads the target back.
Verify(i) ==
  /\ ses[i].dest = "new"
  /\ Step(i, "verify", [ses[i] EXCEPT !.pc = "unwind"])
  /\ UNCHANGED <<reserved, stale, crashes>>

\* A plausible error: the quota is given back before the file is removed.
ReleasedFirst(s, out) ==
  [s EXCEPT !.held = FALSE, !.file = @ /\ out = "kept"]

\* cleanup: release follows the removal of the file; a file that cannot be
\* removed keeps its quota.
Released(s, out) ==
  [s EXCEPT !.held = @ /\ out = "kept" /\ s.file, !.file = @ /\ out = "kept"]

\* removeTemporary in the finally of receiveFile.  If it worked and the file
\* is published, completion is acknowledged; else the session fails.
Unwind(i) ==
  /\ ses[i].pc = "unwind"
  /\ \E out \in {"removed", "kept", "directory kept"} :
       LET s == Released(ses[i], out)
           fine == out = "removed" /\ ~s.failed /\ ~s.stopped
       IN /\ Put(i, IF fine
                    THEN [s EXCEPT !.pc = "record", !.files = @ + 1, !.mayBeChanged = FALSE]
                    ELSE [s EXCEPT !.pc = "closing", !.failed = TRUE, !.warned = @ \/ s.mayBeChanged])
          /\ reserved' = reserved - (IF ses[i].held /\ ~s.held THEN 1 ELSE 0)
  /\ UNCHANGED <<stale, crashes>>

\* The client half-closes its input between complete entries.
EndOfInput(i) ==
  /\ ses[i].depth = 0 /\ ~ses[i].time /\ ses[i].files > 0
  /\ Step(i, "record", [ses[i] EXCEPT !.pc = "closing"])
  /\ UNCHANGED <<reserved, stale, crashes>>

\* runDownloadSession: open and compare, send header and body, compare again,
\* send the closing byte and await the client's.
SendOpen(i) ==
  /\ ses[i].files < MaxFiles
  /\ Step(i, "send", [ses[i] EXCEPT !.pc = "body", !.changed = FALSE])
  /\ UNCHANGED <<reserved, stale, crashes>>
SendChecked(i) ==
  /\ ~ses[i].changed
  /\ Step(i, "body", [ses[i] EXCEPT !.pc = "send", !.files = @ + 1])
  /\ UNCHANGED <<reserved, stale, crashes>>
SendEnd(i) ==
  /\ ses[i].files > 0
  /\ Step(i, "send", [ses[i] EXCEPT !.pc = "closing"])
  /\ UNCHANGED <<reserved, stale, crashes>>
SourceChanges(i) ==
  /\ ses[i].pc = "body" /\ Put(i, [ses[i] EXCEPT !.changed = TRUE])
  /\ UNCHANGED <<reserved, stale, crashes>>

-----------------------------------------------------------------------------
\* A step fails, or is refused because the session was stopped.  The quota
\* and the file exist in part; a publication may have gone any way.
Fail(i) ==
  /\ Working(ses[i])
  /\ LET s == [ses[i] EXCEPT !.failed = TRUE, !.pc = IF ses[i].held THEN "unwind" ELSE "closing"]
     IN CASE s.held /\ ses[i].pc = "allocate" ->
               \E made \in BOOLEAN : Put(i, [s EXCEPT !.file = made])
          [] ses[i].pc = "publish" ->
               \E dest \in {"old", "partial", "new"} :
                 Put(i, [s EXCEPT !.dest = dest, !.mayBeChanged = s.existed])
          [] OTHER -> Put(i, s)
  /\ UNCHANGED <<reserved, stale, crashes>>

\* A plausible error: what is published is not interrupted.
CloseOutsidePublication(i) ==
  /\ ses[i].pc \notin {"idle", "over", "publish", "verify"} /\ ~ses[i].stopped
  /\ Put(i, [ses[i] EXCEPT !.stopped = TRUE])
  /\ UNCHANGED <<reserved, stale, crashes>>

\* close: the first reason counts, everything that waits is woken.
Close(i) ==
  /\ ses[i].pc \notin {"idle", "over"} /\ ~ses[i].stopped
  /\ Put(i, [ses[i] EXCEPT !.stopped = TRUE])
  /\ UNCHANGED <<reserved, stale, crashes>>

\* The finally of the session: what a failed removal kept is reported, the
\* error and the warning are written within a short bound.  Of the session
\* only the result and what it left are of interest any more.
Finish(i) ==
  /\ ses[i].pc = "closing"
  /\ Put(i, [Idle EXCEPT !.pc = "over", !.exit = IF ses[i].failed THEN "1" ELSE "0",
                         !.warned = ses[i].warned, !.held = ses[i].held,
                         !.file = ses[i].file])
  /\ UNCHANGED <<reserved, stale, crashes>>

\* The process dies: the sessions are gone, their files are not.
Crash ==
  /\ crashes < MaxCrashes /\ crashes' = crashes + 1
  /\ stale' = stale + Cardinality({i \in Sessions : ses[i].file})
  /\ ses' = [i \in Sessions |-> Idle] /\ reserved' = 0

Next ==
  \/ \E i \in Sessions :
       \/ \E direction \in {"up", "down"} : Start(i, direction)
       \/ Begun(i) \/ Directories(i) \/ Header(i) \/ Reserve(i) \/ Allocate(i)
       \/ Receive(i) \/ Publish(i) \/ Verify(i) \/ Unwind(i) \/ EndOfInput(i)
       \/ SendOpen(i) \/ SendChecked(i) \/ SendEnd(i) \/ SourceChanges(i)
       \/ Fail(i) \/ Close(i) \/ Finish(i)
  \/ Crash

Init ==
  /\ ses = [i \in Sessions |-> Idle] /\ reserved = 0 /\ stale = 0 /\ crashes = 0

\* The lifetime timer closes a session; a stopped session fails at its next
\* check, and every wait ends (ScpEndpoint!WaitEnds, race); the removal of
\* files and the last message take bounded time.
Fairness ==
  \A i \in Sessions :
    /\ WF_vars(Close(i)) /\ WF_vars(ses[i].stopped /\ Fail(i))
    /\ WF_vars(Unwind(i)) /\ WF_vars(Finish(i))

Spec == Init /\ [][Next]_vars /\ Fairness

-----------------------------------------------------------------------------
\* The quota counts exactly the files that are, or may be, on the disk: it is
\* given back once and not before the file is gone, and nobody removes the
\* file of a session at work (allocateTempFile, cleanup, scavenge).
QuotaExact ==
  /\ reserved = Cardinality(Held) /\ reserved <= Quota
  /\ \A i \in Sessions :
       /\ ses[i].file => ses[i].held
       /\ ses[i].pc \in {"receive", "publish", "verify"} => ses[i].file
       /\ ses[i].pc \in {"record", "over"} /\ ses[i].held => ses[i].file /\ ses[i].exit = "1"

\* The client takes a file for complete only when it is: an upload is read
\* back and its temporary file removed before the ACK, a download unchanged
\* while it was sent; and an upload that spoilt an existing target says so
\* (receiveFile, verifyPublication, sendFile, remoteTargetMayBeChanged).
CompletionIsTrue ==
  [][\A i \in Sessions :
       /\ ses'[i].files > ses[i].files =>
            IF ses[i].direction = "up" THEN ses'[i].dest = "new" /\ ~ses'[i].file
            ELSE ~ses[i].changed
       /\ ses'[i].exit = "1" /\ ses[i].existed /\ ses[i].dest = "partial" => ses'[i].warned]_vars

\* Every session ends, whatever the client and the portal do; the proxy
\* waits for it before it reports that it has stopped (close, race, done).
SessionEnds ==
  \A i \in Sessions : ses[i].pc # "idle" ~> ses[i].pc \in {"idle", "over"}
=============================================================================
