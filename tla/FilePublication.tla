-------------------------- MODULE FilePublication --------------------------
(***************************************************************************)
(* One transfer of a file (electron/file-transfer/orchestrator.js): a copy *)
(* is made beside the target, compared with the source and only then       *)
(* published.  Both sides change meanwhile: the source is edited, others   *)
(* create or remove the target, the portal may lose or spoil what it is    *)
(* sent, and an answer may be lost after the request was carried out.      *)
(*                                                                         *)
(* The source, the copy and the target are called so in both directions:   *)
(* an upload has the copy and the target on the portal, a download has     *)
(* them on the local disk.  A hash is the content itself.                  *)
(*                                                                         *)
(* Abstracted: paths, sizes and progress; a size limit, a cancellation, a  *)
(* deadline and a loss of authority are all the failure of a step.         *)
(***************************************************************************)
EXTENDS Naturals, FiniteSets

CONSTANTS
  Contents,   \* contents of the source
  Chunks      \* parts of a multipart upload

NoFile == "no file"
Bad == "bad"           \* spoilt or incomplete content
Foreign == "foreign"   \* a target that others made
Directory == "directory"

VARIABLES
  source,      \* content of the source
  copy,        \* content of the copy
  tempDir,     \* the portal keeps a directory for the parts
  target,      \* content of the target
  pc,          \* the step the transfer is at
  opt,         \* what it was asked: direction, overwrite, inPlace
  before,      \* the first hash of the source
  multipart,   \* the portal offered a multipart upload
  read,        \* contents of the parts that were sent
  sent,        \* number of parts that were sent
  placed,      \* what the transfer itself put into the target
  retained, mayBeChanged   \* what the result tells about leftovers

vars == <<source, copy, tempDir, target, pc, opt, before, multipart, read,
          sent, placed, retained, mayBeChanged>>
world == <<source, copy, tempDir, target>>
told == <<retained, mayBeChanged>>
job == <<opt, before, multipart, read, sent, placed>>

Up == opt.direction = "upload"
Ended == {"done", "failed"}
GoTo(from, to) == pc = from /\ pc' = to

-----------------------------------------------------------------------------
\* upload: the source is hashed.  download: an existing target must be a
\* file that may be replaced; the remote file is hashed.
Start ==
  /\ GoTo("start", IF Up THEN "preflight" ELSE "receive")
  /\ ~Up => target = NoFile \/ (opt.overwrite /\ target # Directory)
  /\ before' = source
  /\ UNCHANGED <<opt, multipart, read, sent, placed, told, world>>

\* targetPreflight
Free == target = NoFile \/ (opt.overwrite /\ target # Directory)
Preflight ==
  /\ GoTo("preflight", "init") /\ Free
  /\ UNCHANGED <<job, told, world>>

\* Whatever comes of the negotiation, the portal may keep something.
Negotiate(offered) ==
  /\ GoTo("init", IF offered THEN "chunks" ELSE "single")
  /\ retained' = TRUE
  /\ multipart' = offered /\ tempDir' = offered
  /\ UNCHANGED <<opt, before, read, sent, placed, mayBeChanged, source, copy, target>>

\* A small file is sent whole even if a multipart upload was offered.
Small == pc = "chunks" /\ sent = 0 /\ GoTo("chunks", "single") /\ UNCHANGED <<job, told, world>>

\* What arrives is what the source held while it was read, or is spoilt.
SendSingle ==
  /\ GoTo("single", "compare")
  /\ copy' \in {source, Bad}
  /\ UNCHANGED <<source, tempDir, target, job, told>>
SendChunk ==
  /\ pc = "chunks" /\ sent < Chunks
  /\ read' \in {read \cup {source}, read \cup {Bad}} /\ sent' = sent + 1
  /\ UNCHANGED <<world, pc, opt, before, multipart, placed, told>>
Merge ==
  /\ GoTo("chunks", "compare") /\ sent = Chunks
  /\ copy' = IF Cardinality(read) = 1 THEN CHOOSE c \in read : TRUE ELSE Bad
  /\ UNCHANGED <<source, tempDir, target, job, told>>

\* A plausible error: the copy is published without being read back.
CompareOnly ==
  /\ GoTo("compare", "recheck") /\ source = before
  /\ UNCHANGED <<job, told, world>>

\* The source is unchanged, the copy read back equals it, and the source is
\* unchanged still.
Compare ==
  /\ GoTo("compare", "readback") /\ source = before
  /\ UNCHANGED <<job, told, world>>
Readback ==
  /\ GoTo("readback", "recheck") /\ copy = before
  /\ UNCHANGED <<job, told, world>>

\* The last look at the target decides how it is published.
Recheck ==
  /\ pc = "recheck" /\ source = before /\ Free
  /\ pc' = IF target # NoFile /\ opt.inPlace THEN "replace" ELSE "move"
  /\ UNCHANGED <<job, told, world>>

Move ==
  /\ GoTo("move", "done")
  /\ target # Directory
  /\ target' = copy /\ placed' = copy /\ copy' = NoFile
  /\ retained' = multipart
  /\ UNCHANGED <<source, tempDir, opt, before, multipart, read, sent, mayBeChanged>>

\* In place: from here on a failure leaves the target in an unknown state.
Replace ==
  /\ GoTo("replace", "confirm")
  /\ target # Directory /\ mayBeChanged' = TRUE
  /\ placed' \in {source, Bad} /\ target' = placed'
  /\ UNCHANGED <<source, copy, tempDir, opt, before, multipart, read, sent, retained>>

Confirm ==
  /\ GoTo("confirm", "done")
  /\ target = before /\ source = before
  /\ mayBeChanged' = FALSE /\ retained' = TRUE
  /\ UNCHANGED <<job, world>>

-----------------------------------------------------------------------------
(* download                                                                *)

\* The file is read a second time into a private file beside the target.
Receive ==
  /\ GoTo("receive", "verify")
  /\ copy' \in {source, Bad}
  /\ UNCHANGED <<source, tempDir, target, job, told>>

\* Received, read a third time, and the private file read back.
Verify ==
  /\ GoTo("verify", "publish")
  /\ copy = before /\ source = before
  /\ UNCHANGED <<job, told, world>>

\* A plausible error: the look at the target before the transfer is trusted.
PublishByRename ==
  /\ GoTo("publish", "unlink")
  /\ target # Directory
  /\ target' = copy /\ placed' = copy
  /\ copy' = NoFile
  /\ UNCHANGED <<source, tempDir, opt, before, multipart, read, sent, told>>

\* With overwrite the private file is renamed, else linked: link fails if
\* the target exists by now.
Publish ==
  /\ GoTo("publish", "unlink")
  /\ IF opt.overwrite THEN target # Directory ELSE target = NoFile
  /\ target' = copy /\ placed' = copy
  /\ copy' = IF opt.overwrite THEN NoFile ELSE copy
  /\ UNCHANGED <<source, tempDir, opt, before, multipart, read, sent, told>>

\* The private file is removed, whatever came before.  A removal that fails
\* fails the transfer, even one that has published its copy already.
Unlink ==
  /\ pc = "unlink"
  /\ \/ pc' = "done" /\ copy' = NoFile
     \/ pc' = "failed" /\ UNCHANGED copy
  /\ UNCHANGED <<source, tempDir, target, job, told>>

-----------------------------------------------------------------------------
\* A request that is given up may have been carried out in part or whole.
Lost ==
  CASE pc = "init"    -> tempDir' \in BOOLEAN /\ UNCHANGED <<source, copy, target, placed>>
    [] pc = "single"  -> copy' \in {NoFile, source, Bad} /\ UNCHANGED <<source, tempDir, target, placed>>
    [] pc = "move"    -> /\ UNCHANGED <<source, tempDir>>
                         /\ \/ UNCHANGED <<copy, target, placed>>
                            \/ copy' = NoFile /\ target' = copy /\ placed' = copy
    [] pc = "replace" -> /\ placed' \in {placed, source, Bad}
                         /\ target' = IF placed' = placed THEN target ELSE placed'
                         /\ UNCHANGED <<source, copy, tempDir>>
    [] OTHER          -> UNCHANGED <<world, placed>>

\* A plausible error: the leftovers are told only once something was sent.
FailUntold ==
  /\ Up /\ GoTo(pc, "failed") /\ pc \notin Ended
  /\ Lost
  /\ retained' = (sent > 0 \/ copy' # NoFile)
  /\ UNCHANGED <<mayBeChanged, opt, before, multipart, read, sent>>

\* Any step of an upload may fail; what it left is told, not removed.
Fail ==
  /\ Up /\ GoTo(pc, "failed") /\ pc \notin Ended
  /\ Lost
  /\ retained' = (retained \/ pc = "init")
  /\ mayBeChanged' = (mayBeChanged \/ pc = "replace")
  /\ UNCHANGED <<opt, before, multipart, read, sent>>

\* A failed download removes its private file, of which it may have received
\* a part; the removal may fail too.
FailDownload ==
  /\ ~Up /\ GoTo(pc, "failed") /\ pc \notin Ended \cup {"unlink"}
  /\ copy' \in {NoFile, copy} \cup (IF pc = "receive" THEN {Bad} ELSE {})
  /\ UNCHANGED <<source, tempDir, target, job, told>>

\* The others: the source is edited, the target comes and goes.
SourceChanges ==
  /\ \E c \in Contents : source' = c
  /\ UNCHANGED <<copy, tempDir, target, pc, job, told>>
TargetChanges ==
  /\ target' \in {NoFile, Foreign, Directory}
  /\ UNCHANGED <<source, copy, tempDir, pc, job, told>>

Next ==
  \/ Start \/ Preflight \/ Small \/ SendSingle \/ SendChunk \/ Merge
  \/ (\E offered \in BOOLEAN : Negotiate(offered))
  \/ Compare \/ Readback \/ Recheck \/ Move \/ Replace \/ Confirm
  \/ Receive \/ Verify \/ Publish \/ Unlink \/ Fail \/ FailDownload
  \/ SourceChanges \/ TargetChanges

Options == [direction : {"upload", "download"}, overwrite : BOOLEAN, inPlace : BOOLEAN]

Init ==
  /\ source \in Contents /\ copy = NoFile /\ tempDir = FALSE
  /\ target \in {NoFile, Foreign, Directory}
  /\ pc = "start" /\ opt \in {o \in Options : o.inPlace => o.direction = "upload" /\ o.overwrite}
  /\ before = NoFile /\ multipart = FALSE /\ read = {} /\ sent = 0
  /\ placed = NoFile /\ retained = FALSE /\ mayBeChanged = FALSE

Spec == Init /\ [][Next]_vars

-----------------------------------------------------------------------------
\* What a successful transfer has put into the target is what the source
\* held when the transfer began, even if the source is edited meanwhile and
\* the portal spoils what it is sent (the hashes of upload and download).
PublishedIsVerified == pc = "done" => placed = before /\ before \in Contents

\* A download that may not overwrite never replaces a file, not even one
\* that appears while it runs; and no transfer touches the target before it
\* has verified its copy (targetPreflight, link in download).
NothingClobbered ==
  [][placed' # placed =>
       /\ opt.direction = "download" /\ ~opt.overwrite => target = NoFile
       /\ copy = before]_vars

\* The result tells what is left: of an upload that ended, a copy or a
\* directory on the portal and a target that may be incomplete; a download
\* that is reported as completed has left nothing beside its target, for one
\* that could not remove its private file is reported as failed (safeError,
\* the finally of download).
LeftoversTold ==
  /\ pc \in Ended /\ Up =>
       /\ (copy # NoFile \/ tempDir) => retained
       /\ target = Bad => mayBeChanged
  /\ pc = "done" /\ ~Up => copy = NoFile
=============================================================================
