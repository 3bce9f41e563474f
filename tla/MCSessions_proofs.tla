-------------------------- MODULE MCSessions_proofs -------------------------
(***************************************************************************)
(* Theorems about what the proxy server does for its clients.  The quota   *)
(* of temporary files is exact, and a client takes for complete only what  *)
(* is, for any number of sessions and any quota; the limits of the SSH     *)
(* server hold on what is really there, for any number of connections and  *)
(* sessions and any limits; and the bridge of a terminal or a command      *)
(* tells its client and the history the same, and never waits for an event *)
(* that may not come, for any limits of its queues.                        *)
(***************************************************************************)
EXTENDS MCSessions, FiniteSetTheorems, TLAPS

-----------------------------------------------------------------------------
(* The SCP sessions.                                                       *)

\* The sessions that are ever opened are finitely many.
FiniteSessions == IsFiniteSet(Sessions) /\ Quota \in Nat

Steps == {"idle", "begin", "record", "reserve", "allocate", "receive", "publish",
          "verify", "unwind", "send", "body", "closing", "over"}

Session == [pc : Steps, direction : {"up", "down"}, stopped : BOOLEAN, failed : BOOLEAN,
            files : Nat, depth : Nat, time : BOOLEAN, existed : BOOLEAN,
            held : BOOLEAN, file : BOOLEAN, dest : {"old", "partial", "new"},
            changed : BOOLEAN, mayBeChanged : BOOLEAN, warned : BOOLEAN,
            exit : {"none", "0", "1"}]

\* Where a session holds quota and has a file, and how it got there.
Consistent(s) ==
  /\ s.file => s.held
  /\ s.pc \in {"idle", "begin", "record", "reserve", "send", "body"} => ~s.held
  /\ s.pc \in {"allocate", "receive", "publish", "verify", "unwind"} => s.held
  /\ s.pc \in {"receive", "publish", "verify"} => s.file
  /\ s.pc = "closing" /\ s.held => s.file /\ s.failed
  /\ s.pc = "over" /\ s.held => s.file /\ s.exit = "1"
  /\ s.pc # "over" => s.exit = "none"

\* What is on its way to be acknowledged, and what has been told.
Truthful(s) ==
  /\ s.pc \in {"idle", "begin"} => ~s.failed
  /\ s.pc \in {"record", "reserve", "allocate", "receive", "publish", "verify"} =>
       s.direction = "up" /\ ~s.failed
  /\ s.pc \in {"send", "body"} => s.direction = "down"
  /\ s.pc = "unwind" => s.direction = "up" /\ (~s.failed => s.dest = "new")
  /\ s.pc = "verify" => (s.existed => s.mayBeChanged)
  /\ s.dest = "partial" => /\ s.pc \in {"verify", "unwind", "closing"}
                           /\ s.pc \in {"verify", "unwind"} /\ s.existed => s.mayBeChanged
                           /\ s.pc = "closing" /\ s.existed => s.warned

Sound(s) == s \in Session /\ Consistent(s) /\ Truthful(s)

Shape == ses \in [Sessions -> Session] /\ \A i \in Sessions : Sound(ses[i])

\* reservedBytes is what the sessions hold.
Counted == reserved = Cardinality(Held) /\ reserved <= Quota

ScpInv == Shape /\ Counted

\* A session that has not begun, or is forgotten, is sound.
LEMMA IdleLemma == Sound(Idle)
  BY DEF Idle, Sound, Session, Steps, Consistent, Truthful

\* What is left of a session that is over.
LEMMA OverLemma ==
  ASSUME NEW exit \in {"0", "1"}, NEW warned \in BOOLEAN, NEW held \in BOOLEAN,
         NEW file \in BOOLEAN, file => held, held => file /\ exit = "1"
  PROVE  LET s == [Idle EXCEPT !.pc = "over", !.exit = exit, !.warned = warned,
                               !.held = held, !.file = file]
         IN Sound(s) /\ s.held = held
  BY DEF Idle, Sound, Session, Steps, Consistent, Truthful

\* Counters are numbers.
LEMMA NumberLemma ==
  ASSUME NEW t \in Session
  PROVE  t.files + 1 \in Nat /\ t.depth + 1 \in Nat
  BY DEF Session

\* What is counted is a part of a finite set.
LEMMA FiniteLemma == ASSUME FiniteSessions PROVE IsFiniteSet(Held)
  BY FS_Subset DEF FiniteSessions, Held

\* In the initial state nothing is held.
LEMMA ScpInit == ASSUME FiniteSessions, Init PROVE ScpInv
PROOF
  <1>1. Held = {}
    BY DEF Init, Held, Idle
  <1>2. Counted
    BY <1>1, FS_EmptySet DEF Init, Counted, FiniteSessions
  <1>3. Shape
    BY IdleLemma DEF Init, Shape, Sound
  <1>4. QED BY <1>2, <1>3 DEF ScpInv

\* After a crash nothing is held.
LEMMA CrashLemma == ASSUME FiniteSessions, Crash PROVE ScpInv'
PROOF
  <1>1. Held' = {}
    BY DEF Crash, Held, Idle
  <1>2. Counted'
    BY <1>1, FS_EmptySet DEF Crash, Counted, FiniteSessions
  <1>3. Shape'
    BY IdleLemma DEF Crash, Shape, Sound
  <1>4. QED BY <1>2, <1>3 DEF ScpInv

\* A step of one session that leaves the quota alone.
LEMMA PutLemma ==
  ASSUME FiniteSessions, ScpInv, NEW i \in Sessions, NEW s, Put(i, s), Sound(s),
         s.held = ses[i].held, UNCHANGED reserved
  PROVE  ScpInv'
PROOF
  <1>1. Shape'
    BY DEF ScpInv, Shape, Put, Sound
  <1>2. Held' = Held
    BY DEF ScpInv, Shape, Put, Held
  <1>3. QED BY <1>1, <1>2 DEF ScpInv, Counted

\* Counting directories and files up and down leaves a session sound.
LEMMA CountLemma ==
  ASSUME NEW t, Sound(t), NEW n \in Nat, NEW time \in BOOLEAN
  PROVE  /\ t.pc = "record" => Sound([t EXCEPT !.depth = n, !.time = time])
         /\ t.pc = "body" => Sound([t EXCEPT !.pc = "send", !.files = n])
         /\ t.pc = "unwind" /\ ~t.failed =>
              Sound([t EXCEPT !.held = FALSE, !.file = FALSE, !.pc = "record", !.files = n,
                              !.mayBeChanged = FALSE])
  BY ZenonT(60) DEF Sound, Session, Steps, Consistent, Truthful

\* Steps from one await to the next, which take and give back nothing.
LEMMA UploadLemma ==
  ASSUME FiniteSessions, ScpInv, NEW i \in Sessions,
         Begun(i) \/ Directories(i) \/ Header(i) \/ Receive(i) \/ Publish(i) \/ Verify(i)
           \/ EndOfInput(i)
  PROVE  ScpInv'
PROOF
  <1> USE DEF Step, Session, Steps, Consistent, Truthful
  <1>1. Sound(ses[i])
    BY DEF ScpInv, Shape
  <1>2. CASE Begun(i)
    BY <1>1, <1>2, PutLemma DEF Begun, Sound
  <1>3. CASE Directories(i)
    <2> DEFINE t == ses[i]
               timed == [t EXCEPT !.time = TRUE]
               entered == [t EXCEPT !.depth = @ + 1, !.time = FALSE]
               left == [t EXCEPT !.depth = @ - 1]
    <2>1. t.pc = "record" /\ UNCHANGED reserved
      BY <1>3 DEF Directories
    <2>2. Sound(timed) /\ timed.held = t.held
      BY <1>1, <2>1 DEF Sound
    <2>3. Sound(entered) /\ entered.held = t.held
      <3>1. t.depth + 1 \in Nat
        BY <1>1 DEF Sound
      <3>2. Sound(entered)
        BY <1>1, <2>1, <3>1, CountLemma
      <3>3. entered.held = t.held
        BY <1>1 DEF Sound
      <3>4. QED BY <3>2, <3>3
    <2>4. t.depth > 0 => Sound(left) /\ left.held = t.held
      BY <1>1, <2>1 DEF Sound
    <2>5. Put(i, timed) \/ Put(i, entered) \/ (t.depth > 0 /\ Put(i, left))
      BY <1>3 DEF Directories
    <2>6. QED BY <2>1, <2>2, <2>3, <2>4, <2>5, PutLemma
  <1>4. CASE Header(i)
    BY <1>1, <1>4, PutLemma DEF Header, Sound
  <1>5. CASE Receive(i)
    BY <1>1, <1>5, PutLemma DEF Receive, Sound
  <1>6. CASE Publish(i)
    BY <1>1, <1>6, PutLemma DEF Publish, Sound
  <1>7. CASE Verify(i)
    BY <1>1, <1>7, PutLemma DEF Verify, Sound
  <1>8. CASE EndOfInput(i)
    BY <1>1, <1>8, PutLemma DEF EndOfInput, Sound
  <1>9. QED BY <1>2, <1>3, <1>4, <1>5, <1>6, <1>7, <1>8

\* The same of a download.
LEMMA DownloadLemma ==
  ASSUME FiniteSessions, ScpInv, NEW i \in Sessions,
         SendOpen(i) \/ SendChecked(i) \/ SendEnd(i) \/ SourceChanges(i)
  PROVE  ScpInv'
PROOF
  <1> USE DEF Step, Session, Steps, Consistent, Truthful
  <1>1. Sound(ses[i])
    BY DEF ScpInv, Shape
  <1>2. CASE SendOpen(i)
    BY <1>1, <1>2, PutLemma DEF SendOpen, Sound
  <1>3. CASE SendChecked(i)
    <2> DEFINE s == [ses[i] EXCEPT !.pc = "send", !.files = @ + 1]
    <2>1. Put(i, s) /\ UNCHANGED reserved /\ ses[i].pc = "body"
      BY <1>3 DEF SendChecked
    <2>2. ses[i].files + 1 \in Nat
      BY <1>1 DEF Sound
    <2>3. Sound(s)
      BY <1>1, <2>1, <2>2, CountLemma
    <2>4. s.held = ses[i].held
      BY <1>1 DEF Sound
    <2>5. QED BY <2>1, <2>3, <2>4, PutLemma
  <1>4. CASE SendEnd(i)
    BY <1>1, <1>4, PutLemma DEF SendEnd, Sound
  <1>5. CASE SourceChanges(i)
    BY <1>1, <1>5, PutLemma DEF SourceChanges, Sound
  <1>6. QED BY <1>2, <1>3, <1>4, <1>5

\* The beginning, a stop from outside, a failure and the end of a session.
LEMMA LifeLemma ==
  ASSUME FiniteSessions, ScpInv, NEW i \in Sessions, NEW direction \in {"up", "down"},
         Start(i, direction) \/ Close(i) \/ Fail(i) \/ Finish(i)
  PROVE  ScpInv'
PROOF
  <1> USE DEF Session, Steps, Consistent, Truthful
  <1>1. Sound(ses[i])
    BY DEF ScpInv, Shape
  <1>2. CASE Start(i, direction)
    BY <1>1, <1>2, PutLemma DEF Start, Sound
  <1>3. CASE Close(i)
    BY ZenonT(60), <1>1, <1>3, PutLemma DEF Close, Sound
  <1>4. CASE Fail(i) /\ ses[i].pc = "allocate"
    BY <1>1, <1>4, PutLemma DEF Fail, Working, Sound
  <1>5. CASE Fail(i) /\ ses[i].pc = "publish"
    BY ZenonT(60), <1>1, <1>5, PutLemma DEF Fail, Working, Sound
  <1>6. CASE Fail(i) /\ ses[i].pc \notin {"allocate", "publish"}
    BY <1>1, <1>6, PutLemma DEF Fail, Working, Sound
  <1>7. CASE Finish(i)
    <2> DEFINE t == ses[i]
               s == [Idle EXCEPT !.pc = "over", !.exit = IF t.failed THEN "1" ELSE "0",
                                 !.warned = t.warned, !.held = t.held, !.file = t.file]
    <2>1. Put(i, s) /\ UNCHANGED reserved /\ t.pc = "closing"
      BY <1>7 DEF Finish
    <2>2. /\ t.warned \in BOOLEAN /\ t.held \in BOOLEAN /\ t.file \in BOOLEAN
          /\ t.file => t.held
          /\ t.held => t.file /\ (IF t.failed THEN "1" ELSE "0") = "1"
      BY <1>1, <2>1 DEF Sound
    <2>3. Sound(s) /\ s.held = t.held
      BY <2>2, OverLemma
    <2>4. QED BY <2>1, <2>3, PutLemma
  <1>8. QED BY <1>2, <1>3, <1>4, <1>5, <1>6, <1>7

\* allocateTempFile takes the quota, and then makes the file.
LEMMA AllocateLemma ==
  ASSUME FiniteSessions, ScpInv, NEW i \in Sessions, Reserve(i) \/ Allocate(i)
  PROVE  ScpInv'
PROOF
  <1>1. Sound(ses[i])
    BY DEF ScpInv, Shape
  <1>2. CASE Reserve(i)
    <2> DEFINE s == [ses[i] EXCEPT !.pc = "allocate", !.held = TRUE]
    <2>1. /\ Put(i, s) /\ ses[i].pc = "reserve"
          /\ reserved < Quota /\ reserved' = reserved + 1
      BY <1>2 DEF Reserve, Step
    <2>2. Sound(s)
      BY <1>1, <2>1 DEF Sound, Session, Steps, Consistent, Truthful
    <2>3. Shape'
      BY <2>1, <2>2 DEF ScpInv, Shape, Put, Sound
    <2>4. Held' = Held \cup {i} /\ i \notin Held
      BY <1>1, <2>1 DEF Held, Put, Sound, Consistent, ScpInv, Shape
    <2>5. Cardinality(Held') = Cardinality(Held) + 1
      BY <2>4, FiniteLemma, FS_AddElement
    <2>6. Cardinality(Held) \in Nat
      BY FiniteLemma, FS_CardinalityType
    <2>7. QED BY <2>1, <2>3, <2>5, <2>6 DEF ScpInv, Counted, FiniteSessions
  <1>3. CASE Allocate(i)
    <2> DEFINE s == [ses[i] EXCEPT !.pc = "receive", !.file = TRUE]
    <2>1. Put(i, s) /\ UNCHANGED reserved /\ ses[i].pc = "allocate"
      BY <1>3 DEF Allocate, Scavenged, Put, ScpInv, Shape
    <2>2. Sound(s) /\ s.held = ses[i].held
      BY <1>1, <2>1 DEF Sound, Session, Steps, Consistent, Truthful
    <2>3. QED BY <2>1, <2>2, PutLemma
  <1>4. QED BY <1>2, <1>3

\* What is given back was counted.
LEMMA GiveBackLemma ==
  ASSUME NEW S, IsFiniteSet(S), NEW x \in S, NEW n, n = Cardinality(S),
         NEW q \in Nat, n <= q
  PROVE  /\ n - 0 = Cardinality(S) /\ n - 0 <= q
         /\ n - 1 = Cardinality(S \ {x}) /\ n - 1 <= q
PROOF
  <1>1. n \in Nat /\ Cardinality(S \ {x}) = n - 1
    BY FS_RemoveElement, FS_CardinalityType
  <1>2. QED BY <1>1

\* What cleanup changes of a session.
LEMMA ReleasedLemma ==
  ASSUME NEW t \in Session, NEW out \in {"removed", "kept", "directory kept"}
  PROVE  LET s == Released(t, out)
         IN /\ s \in Session /\ s.files = t.files /\ s.exit = t.exit
            /\ s.failed = t.failed /\ s.dest = t.dest
            /\ out = "removed" => ~s.file
  BY ZenonT(60) DEF Released, Session

\* cleanup gives the quota back unless the file could not be removed.
LEMMA UnwindLemma ==
  ASSUME FiniteSessions, ScpInv, NEW i \in Sessions, Unwind(i)
  PROVE  ScpInv'
PROOF
  <1>1. Sound(ses[i]) /\ ses[i].pc = "unwind" /\ ses[i].held
    BY DEF ScpInv, Shape, Unwind, Sound, Consistent
  <1>2. PICK out \in {"removed", "kept", "directory kept"} :
          LET s == Released(ses[i], out)
              fine == out = "removed" /\ ~s.failed /\ ~s.stopped
          IN /\ Put(i, IF fine
                       THEN [s EXCEPT !.pc = "record", !.files = @ + 1,
                                      !.mayBeChanged = FALSE]
                       ELSE [s EXCEPT !.pc = "closing", !.failed = TRUE,
                                      !.warned = @ \/ s.mayBeChanged])
             /\ reserved' = reserved - (IF ses[i].held /\ ~s.held THEN 1 ELSE 0)
    BY DEF Unwind
  <1> DEFINE s == Released(ses[i], out)
             fine == out = "removed" /\ ~s.failed /\ ~s.stopped
             going == [s EXCEPT !.pc = "record", !.files = @ + 1,
                                !.mayBeChanged = FALSE]
             failing == [s EXCEPT !.pc = "closing", !.failed = TRUE,
                                  !.warned = @ \/ s.mayBeChanged]
             next == IF fine THEN going ELSE failing
  <1>3. /\ s = [ses[i] EXCEPT !.held = s.held, !.file = s.file]
        /\ s \in Session /\ s.file = s.held /\ (s.file => ses[i].file)
        /\ out = "removed" => ~s.held
    BY ZenonT(60), <1>1 DEF Released, Sound, Session, Consistent
  <1>4. ASSUME fine PROVE Sound(going) /\ going.held = s.held
    <2>1. ses[i].files + 1 \in Nat /\ ~s.held /\ ~s.file /\ ~ses[i].failed
      <3>1. ses[i].files + 1 \in Nat
        BY <1>1, NumberLemma DEF Sound
      <3>2. ~s.held /\ ~s.file
        BY <1>3, <1>4
      <3>3. s.failed = ses[i].failed
        BY <1>1, <1>3 DEF Sound, Session
      <3>4. QED BY <1>4, <3>1, <3>2, <3>3
    <2>2. going = [ses[i] EXCEPT !.held = FALSE, !.file = FALSE, !.pc = "record",
                                 !.files = ses[i].files + 1, !.mayBeChanged = FALSE]
      BY ZenonT(60), <1>1, <1>3, <2>1 DEF Sound, Session
    <2>3. Sound(going)
      BY <1>1, <2>1, <2>2, CountLemma
    <2>4. QED BY <1>3, <2>3 DEF Session
  <1>5. Sound(failing) /\ failing.held = s.held
    <2>1. /\ failing \in Session /\ failing.pc = "closing" /\ failing.failed
          /\ failing.held = s.held /\ failing.file = s.file
          /\ failing.dest = ses[i].dest /\ failing.existed = ses[i].existed
          /\ failing.exit = ses[i].exit
          /\ failing.warned = (ses[i].warned \/ ses[i].mayBeChanged)
      BY ZenonT(60), <1>1, <1>3 DEF Sound, Session, Steps
    <2>2. QED BY <1>1, <1>3, <2>1 DEF Sound, Consistent, Truthful
  <1>6. Sound(next) /\ next.held = s.held /\ Put(i, next)
    BY <1>2, <1>4, <1>5
  <1>7. Shape'
    BY <1>6 DEF ScpInv, Shape, Put, Sound
  <1>8. Held' = IF s.held THEN Held ELSE Held \ {i}
    BY <1>1, <1>6 DEF Held, Put, ScpInv, Shape
  <1>9. i \in Held
    BY <1>1 DEF Held
  <1>10. Counted'
    <2>1. /\ reserved - 0 = Cardinality(Held) /\ reserved - 0 <= Quota
          /\ reserved - 1 = Cardinality(Held \ {i}) /\ reserved - 1 <= Quota
      BY <1>9, FiniteLemma, GiveBackLemma DEF ScpInv, Counted, FiniteSessions
    <2>2. CASE s.held
      <3>1. reserved' = reserved - 0 /\ Held' = Held
        BY <1>2, <1>8, <2>2
      <3>2. QED BY <2>1, <3>1 DEF Counted
    <2>3. CASE ~s.held
      <3>1. reserved' = reserved - 1 /\ Held' = Held \ {i}
        BY <1>1, <1>2, <1>8, <2>3
      <3>2. QED BY <2>1, <3>1 DEF Counted
    <2>4. QED BY <2>2, <2>3
  <1>11. QED BY <1>7, <1>10 DEF ScpInv

\* Every step.
LEMMA ScpNext == ASSUME FiniteSessions, ScpInv, [Next]_vars PROVE ScpInv'
PROOF
  <1>1. CASE UNCHANGED vars
    BY <1>1 DEF vars, ScpInv, Shape, Counted, Held
  <1>2. CASE Next
    BY <1>2, UploadLemma, DownloadLemma, LifeLemma, AllocateLemma, UnwindLemma, CrashLemma
    DEF Next
  <1>3. QED BY <1>1, <1>2

\* The invariant of every behaviour.
LEMMA Invariance == ASSUME FiniteSessions PROVE Spec => []ScpInv
PROOF
  <1>1. Init => ScpInv
    BY ScpInit
  <1>2. ScpInv /\ [Next]_vars => ScpInv'
    BY ScpNext
  <1>3. QED BY <1>1, <1>2, PTL DEF Spec

-----------------------------------------------------------------------------
\* The quota that is taken is exactly what the temporary files that are, or
\* may be, on the disk need: it is given back once, and not before the file
\* is gone, whatever fails and whoever stops a session.
THEOREM QuotaIsExact ==
  ASSUME FiniteSessions PROVE Spec => []QuotaExact
PROOF
  <1>1. ScpInv => QuotaExact
    BY DEF ScpInv, Shape, Sound, Consistent, Counted, QuotaExact
  <1>2. QED BY <1>1, Invariance, PTL

\* What a session tells its client in a step.
Told(i) ==
  /\ ses'[i].files > ses[i].files =>
       IF ses[i].direction = "up" THEN ses'[i].dest = "new" /\ ~ses'[i].file
       ELSE ~ses[i].changed
  /\ ses'[i].exit = "1" /\ ses[i].existed /\ ses[i].dest = "partial" => ses'[i].warned

\* A step that counts no file and ends no session tells nothing.
LEMMA QuietLemma ==
  ASSUME ScpInv, NEW i \in Sessions,
         ses'[i].files = ses[i].files, ses'[i].exit = ses[i].exit
  PROVE  Told(i)
PROOF
  <1>1. ses[i].files \in Nat
    BY DEF ScpInv, Shape, Session
  <1>2. ~(ses'[i].files > ses[i].files)
    BY <1>1
  <1>3. ses[i].exit = "1" => ses[i].dest # "partial"
    BY DEF ScpInv, Shape, Sound, Consistent, Truthful
  <1>4. QED BY <1>2, <1>3 DEF Told

\* The same, of a step of any session.
LEMMA PutQuietLemma ==
  ASSUME ScpInv, NEW i \in Sessions, NEW j \in Sessions, NEW s, Put(j, s),
         s.files = ses[j].files, s.exit = ses[j].exit
  PROVE  Told(i)
PROOF
  <1>1. ses'[i].files = ses[i].files /\ ses'[i].exit = ses[i].exit
    BY DEF Put, ScpInv, Shape
  <1>2. QED BY <1>1, QuietLemma

\* Only the end of an upload or download of one file, and of a session, do.
LEMMA ToldLemma ==
  ASSUME ScpInv, Next, NEW i \in Sessions
  PROVE  Told(i)
PROOF
  <1>1. Sound(ses[i]) /\ ses \in [Sessions -> Session]
    BY DEF ScpInv, Shape
  <1>2. ASSUME NEW j \in Sessions, NEW direction \in {"up", "down"},
               \/ Start(j, direction) \/ Begun(j) \/ Header(j) \/ Reserve(j)
               \/ Allocate(j) \/ Receive(j) \/ Publish(j) \/ Verify(j) \/ EndOfInput(j)
               \/ SendOpen(j) \/ SendEnd(j) \/ SourceChanges(j) \/ Close(j)
        PROVE  Told(i)
    <2>1. ses[j] \in Session
      BY <1>1
    <2> USE <2>1, PutQuietLemma DEF Step, Session
    <2>2. CASE Start(j, direction) \/ Close(j) \/ SourceChanges(j)
      BY <2>2 DEF Start, Close, SourceChanges
    <2>3. CASE Begun(j) \/ Header(j) \/ EndOfInput(j)
      BY <2>3 DEF Begun, Header, EndOfInput
    <2>4. CASE Receive(j) \/ Publish(j) \/ Verify(j)
      BY <2>4 DEF Receive, Publish, Verify
    <2>5. CASE SendOpen(j) \/ SendEnd(j)
      BY <2>5 DEF SendOpen, SendEnd
    <2>6. CASE Reserve(j)
      BY <2>6 DEF Reserve
    <2>7. CASE Allocate(j)
      <3>1. Put(j, [ses[j] EXCEPT !.pc = "receive", !.file = TRUE])
        BY <1>1, <2>7 DEF Allocate, Scavenged, Put
      <3>2. QED BY <3>1
    <2>8. QED BY <1>2, <2>2, <2>3, <2>4, <2>5, <2>6, <2>7
  <1>3. ASSUME NEW j \in Sessions, Directories(j) \/ Fail(j)
        PROVE  Told(i)
    <2>1. ses[j] \in Session
      BY <1>1
    <2> USE <2>1, PutQuietLemma DEF Session
    <2>2. CASE Directories(j)
      BY <2>2 DEF Directories, Step
    <2>3. CASE Fail(j) /\ ses[j].pc = "allocate"
      BY <2>3 DEF Fail
    <2>4. CASE Fail(j) /\ ses[j].pc = "publish"
      BY <2>4 DEF Fail
    <2>5. CASE Fail(j) /\ ses[j].pc \notin {"allocate", "publish"}
      BY <2>5 DEF Fail
    <2>6. QED BY <1>3, <2>2, <2>3, <2>4, <2>5
  <1>4. ASSUME NEW j \in Sessions, SendChecked(j) \/ Finish(j) \/ Unwind(j), j # i
        PROVE  Told(i)
    <2>1. ses'[i] = ses[i]
      BY <1>1, <1>4 DEF SendChecked, Finish, Unwind, Put, Step
    <2>2. QED BY <2>1, QuietLemma
  <1>5. CASE SendChecked(i)
    <2>1. /\ ~ses[i].changed /\ ses[i].pc = "body" /\ ses[i].direction = "down"
          /\ ses'[i].exit = ses[i].exit
      BY <1>1, <1>5 DEF SendChecked, Put, Step, Session, Sound, Truthful
    <2>2. ses[i].exit # "1"
      BY <1>1, <2>1 DEF Sound, Consistent
    <2>3. QED BY <2>1, <2>2 DEF Told
  <1>6. CASE Finish(i)
    <2>1. /\ ses'[i].files = 0 /\ ses'[i].warned = ses[i].warned
          /\ ses[i].pc = "closing"
      BY <1>1, <1>6 DEF Finish, Put, Idle
    <2>2. ses[i].files \in Nat
      BY <1>1 DEF Session
    <2>3. ~(ses'[i].files > ses[i].files)
      BY <2>1, <2>2
    <2>4. QED BY <1>1, <2>1, <2>3 DEF Told, Sound, Truthful
  <1>7. CASE Unwind(i)
    <2>1. PICK out \in {"removed", "kept", "directory kept"} :
            LET s == Released(ses[i], out)
                fine == out = "removed" /\ ~s.failed /\ ~s.stopped
            IN Put(i, IF fine
                      THEN [s EXCEPT !.pc = "record", !.files = @ + 1,
                                     !.mayBeChanged = FALSE]
                      ELSE [s EXCEPT !.pc = "closing", !.failed = TRUE,
                                     !.warned = @ \/ s.mayBeChanged])
      BY <1>7 DEF Unwind
    <2>2. ses[i].pc = "unwind"
      BY <1>7 DEF Unwind
    <2>3. ses[i].exit = "none" /\ ses[i].direction = "up"
      BY <1>1, <2>2 DEF Sound, Consistent, Truthful
    <2> DEFINE s == Released(ses[i], out)
    <2>4. /\ s \in Session /\ s.files = ses[i].files /\ s.exit = ses[i].exit
          /\ s.failed = ses[i].failed /\ s.dest = ses[i].dest
          /\ out = "removed" => ~s.file
      BY <1>1, ReleasedLemma
    <2>5. CASE out = "removed" /\ ~s.failed /\ ~s.stopped
      <3>1. ses'[i] = [s EXCEPT !.pc = "record", !.files = @ + 1,
                                !.mayBeChanged = FALSE]
        BY <1>1, <2>1, <2>5 DEF Put
      <3>2. ses'[i].dest = s.dest /\ ses'[i].file = s.file /\ ses'[i].exit = s.exit
        BY <2>4, <3>1 DEF Session
      <3>3. ses[i].dest = "new"
        BY <1>1, <2>2, <2>4, <2>5 DEF Sound, Truthful
      <3>4. QED BY <2>3, <2>4, <2>5, <3>2, <3>3 DEF Told
    <2>6. CASE ~(out = "removed" /\ ~s.failed /\ ~s.stopped)
      <3>1. ses'[i] = [s EXCEPT !.pc = "closing", !.failed = TRUE,
                                !.warned = @ \/ s.mayBeChanged]
        BY <1>1, <2>1, <2>6 DEF Put
      <3>2. ses'[i].files = ses[i].files /\ ses'[i].exit = ses[i].exit
        BY <2>4, <3>1 DEF Session
      <3>3. QED BY <3>2, QuietLemma
    <2>7. QED BY <2>5, <2>6
  <1>8. CASE Crash
    <2>1. ses'[i].files = 0 /\ ses'[i].exit = "none"
      BY <1>8 DEF Crash, Idle
    <2>2. ses[i].files \in Nat
      BY <1>1 DEF Session
    <2>3. ~(ses'[i].files > ses[i].files)
      BY <2>1, <2>2
    <2>4. QED BY <2>1, <2>3 DEF Told
  <1>9. QED BY <1>2, <1>3, <1>4, <1>5, <1>6, <1>7, <1>8 DEF Next

\* A client takes an upload for complete only when it was read back and its
\* temporary file is gone, a download only if the source did not change, and
\* learns of a target that was spoilt.
THEOREM CompletionIsTold ==
  ASSUME FiniteSessions PROVE Spec => CompletionIsTrue
PROOF
  <1>1. ScpInv /\ Next => \A i \in Sessions : Told(i)
    BY ToldLemma
  <1>2. ScpInv /\ [Next]_vars => [\A i \in Sessions : Told(i)]_vars
    BY <1>1
  <1>3. [\A i \in Sessions : Told(i)]_vars =>
          [\A i \in Sessions :
             /\ ses'[i].files > ses[i].files =>
                  IF ses[i].direction = "up" THEN ses'[i].dest = "new" /\ ~ses'[i].file
                  ELSE ~ses[i].changed
             /\ ses'[i].exit = "1" /\ ses[i].existed /\ ses[i].dest = "partial"
                  => ses'[i].warned]_vars
    BY DEF Told
  <1>4. QED BY <1>2, <1>3, Invariance, PTL DEF Spec, CompletionIsTrue

-----------------------------------------------------------------------------
(* The admission of connections and sessions.                               *)

\* The connections and sessions that are ever made are finitely many, and
\* the limits are numbers.
FiniteAdmission ==
  /\ IsFiniteSet(Sockets) /\ IsFiniteSet(Channels)
  /\ MaxConnections \in Nat /\ MaxSessions \in Nat

\* The shape of the state as far as the limits need it.
AdmissionShape ==
  /\ socket \in [Sockets -> {"none", "shaking", "ready", "gone"}]
  /\ channel \in [Channels -> {"none", "open", "gone"}]
  /\ bridge \in [Channels -> {"none", "terminal", "scp", "done"}]

AdmissionInv == AdmissionShape /\ Admission!PlacesAccounted

\* What an instance counts is what is counted here.
LEMMA CardinalityLemma ==
  ASSUME NEW S PROVE Admission!Cardinality(S) = Cardinality(S)
  BY DEF Admission!Cardinality, Cardinality

\* A set that does not grow keeps within its limit.
LEMMA ShrinkLemma ==
  ASSUME NEW S, IsFiniteSet(S), NEW T \in SUBSET S, NEW limit \in Nat,
         Cardinality(S) <= limit
  PROVE  Cardinality(T) <= limit
PROOF
  <1>1. /\ Cardinality(T) <= Cardinality(S)
        /\ Cardinality(S) \in Nat /\ Cardinality(T) \in Nat
    BY FS_Subset, FS_CardinalityType
  <1>2. QED BY <1>1

\* A set that takes one more element below its limit keeps within it.
LEMMA GrowLemma ==
  ASSUME NEW S, IsFiniteSet(S), NEW x, NEW limit \in Nat,
         Cardinality(S) < limit
  PROVE  Cardinality(S \cup {x}) <= limit
PROOF
  <1>1. /\ Cardinality(S) \in Nat
        /\ Cardinality(S \cup {x}) = IF x \in S THEN Cardinality(S) ELSE Cardinality(S) + 1
    BY FS_AddElement, FS_CardinalityType
  <1>2. QED BY <1>1

\* What is counted are parts of finite sets.
LEMMA PlacesFinite ==
  ASSUME FiniteAdmission
  PROVE  /\ IsFiniteSet(Admission!Connected)
         /\ IsFiniteSet(Admission!OpenChannels)
         /\ IsFiniteSet(Admission!OpenSessions)
  BY FS_Subset DEF FiniteAdmission, Admission!Connected,
                   Admission!OpenChannels, Admission!OpenSessions

\* The initial states.
LEMMA AdmissionInit ==
  ASSUME FiniteAdmission, Admission!Init
  PROVE  AdmissionInv
PROOF
  <1>1. /\ Admission!Connected = {}
        /\ Admission!OpenChannels = {}
        /\ Admission!OpenSessions = {}
    BY DEF Admission!Init, Admission!Connected, Admission!OpenChannels,
           Admission!OpenSessions
  <1>2. Admission!PlacesAccounted
    BY CardinalityLemma, <1>1, FS_EmptySet DEF Admission!PlacesAccounted,
                                               FiniteAdmission
  <1>3. QED BY <1>2 DEF Admission!Init, AdmissionInv, AdmissionShape

\* A step after which nothing is counted that was not counted before.
LEMMA NotMoreLemma ==
  ASSUME FiniteAdmission, AdmissionInv,
         Admission!Connected' \subseteq Admission!Connected,
         Admission!OpenChannels' \subseteq Admission!OpenChannels,
         Admission!OpenSessions' \subseteq Admission!OpenSessions
  PROVE  /\ Cardinality(Admission!Connected') <= MaxConnections
         /\ Cardinality(Admission!OpenChannels') <= MaxSessions
         /\ Cardinality(Admission!OpenSessions') <= MaxSessions
  BY CardinalityLemma, PlacesFinite, ShrinkLemma
     DEF FiniteAdmission, AdmissionInv, Admission!PlacesAccounted

\* A connection is counted before it is made.
LEMMA ConnectLemma ==
  ASSUME FiniteAdmission, AdmissionInv, NEW s \in Sockets, Admission!Connect(s)
  PROVE  AdmissionInv'
PROOF
  <1>1. /\ Admission!Connected' = Admission!Connected \cup {s}
        /\ Cardinality(Admission!Connected) < MaxConnections
    BY CardinalityLemma DEF Admission!Connect, Admission!Connected,
                            AdmissionInv, AdmissionShape
  <1>2. Cardinality(Admission!Connected') <= MaxConnections
    BY <1>1, PlacesFinite, GrowLemma DEF FiniteAdmission
  <1>3. UNCHANGED <<Admission!OpenChannels, Admission!OpenSessions>>
    BY DEF Admission!Connect, Admission!OpenChannels, Admission!OpenSessions
  <1>4. QED BY CardinalityLemma, <1>2, <1>3 DEF Admission!Connect,
                                                AdmissionInv, AdmissionShape,
                                                Admission!PlacesAccounted

\* So is a session.
LEMMA RequestSessionLemma ==
  ASSUME FiniteAdmission, AdmissionInv, NEW s \in Sockets, NEW c \in Channels,
         Admission!RequestSession(s, c)
  PROVE  AdmissionInv'
PROOF
  <1>1. /\ Admission!OpenChannels' = Admission!OpenChannels \cup {c}
        /\ Cardinality(Admission!OpenChannels) < MaxSessions
    BY CardinalityLemma DEF Admission!RequestSession, Admission!OpenChannels,
                            AdmissionInv, AdmissionShape
  <1>2. Cardinality(Admission!OpenChannels') <= MaxSessions
    BY <1>1, PlacesFinite, GrowLemma DEF FiniteAdmission
  <1>3. UNCHANGED <<Admission!Connected, Admission!OpenSessions>>
    BY DEF Admission!RequestSession, Admission!Connected,
           Admission!OpenSessions
  <1>4. QED BY CardinalityLemma, <1>2, <1>3 DEF Admission!RequestSession,
                                                AdmissionInv, AdmissionShape,
                                                Admission!PlacesAccounted

\* So is a bridge.
LEMMA RequestBridgeLemma ==
  ASSUME FiniteAdmission, AdmissionInv, NEW c \in Channels,
         NEW kind \in {"terminal", "scp"},
         Admission!RequestBridge(c, kind)
  PROVE  AdmissionInv'
PROOF
  <1>1. /\ Admission!OpenSessions' = Admission!OpenSessions \cup {c}
        /\ Cardinality(Admission!OpenSessions) < MaxSessions
    BY CardinalityLemma DEF Admission!RequestBridge, Admission!OpenSessions,
                            AdmissionInv, AdmissionShape
  <1>2. Cardinality(Admission!OpenSessions') <= MaxSessions
    BY <1>1, PlacesFinite, GrowLemma DEF FiniteAdmission
  <1>3. UNCHANGED <<Admission!Connected, Admission!OpenChannels>>
    BY DEF Admission!RequestBridge, Admission!Connected,
           Admission!OpenChannels
  <1>4. \A x \in Admission!OpenSessions' :
          bridge'[x] = "scp" /\ channel'[x] = "gone" => x \in interrupted'
    BY <1>1 DEF Admission!RequestBridge, AdmissionInv, AdmissionShape,
                Admission!PlacesAccounted
  <1>5. QED BY CardinalityLemma, <1>2, <1>3, <1>4
     DEF Admission!RequestBridge, AdmissionInv, AdmissionShape,
         Admission!PlacesAccounted

\* A channel that goes while its bridge remains has that bridge told.
LEMMA RemovedLemma ==
  ASSUME FiniteAdmission, AdmissionInv,
         NEW gone \in SUBSET Admission!OpenChannels, Admission!Removed(gone),
         UNCHANGED bridge, socket' \in [Sockets -> {"none", "shaking",
         "ready", "gone"}],
         Admission!Connected' \subseteq Admission!Connected
  PROVE  AdmissionInv'
PROOF
  <1>1. /\ Admission!OpenChannels' \subseteq Admission!OpenChannels
        /\ UNCHANGED Admission!OpenSessions
    BY DEF Admission!Removed, Admission!OpenChannels, Admission!OpenSessions,
           AdmissionInv, AdmissionShape
  <1>2. \A x \in Admission!OpenSessions' :
          bridge'[x] = "scp" /\ channel'[x] = "gone" => x \in interrupted'
    BY DEF Admission!Removed, AdmissionInv, Admission!PlacesAccounted,
           Admission!OpenSessions, Admission!OpenChannels
  <1>3. AdmissionShape'
    BY DEF Admission!Removed, AdmissionInv, AdmissionShape
  <1>4. QED BY CardinalityLemma, <1>1, <1>2, <1>3, NotMoreLemma
     DEF AdmissionInv, Admission!PlacesAccounted

\* A connection ends, and its channels with it.
LEMMA DisconnectLemma ==
  ASSUME FiniteAdmission, AdmissionInv, NEW s \in Sockets,
         Admission!Disconnect(s)
  PROVE  AdmissionInv'
PROOF
  <1>1. Admission!Connected' \subseteq Admission!Connected
    BY DEF Admission!Disconnect, Admission!Connected, AdmissionInv,
           AdmissionShape
  <1>2. socket' \in [Sockets -> {"none", "shaking", "ready", "gone"}]
    BY DEF Admission!Disconnect, AdmissionInv, AdmissionShape
  <1>3. QED BY <1>1, <1>2, RemovedLemma DEF Admission!Disconnect

\* A channel ends.
LEMMA CloseChannelLemma ==
  ASSUME FiniteAdmission, AdmissionInv, NEW c \in Channels,
         Admission!CloseChannel(c)
  PROVE  AdmissionInv'
PROOF
  <1>1. UNCHANGED Admission!Connected /\ {c} \subseteq Admission!OpenChannels
    BY DEF Admission!CloseChannel, Admission!Connected, Admission!OpenChannels
  <1>2. QED BY <1>1, RemovedLemma DEF Admission!CloseChannel, AdmissionInv,
                                      AdmissionShape

\* A bridge ends.
LEMMA BridgeEndsLemma ==
  ASSUME FiniteAdmission, AdmissionInv, NEW c \in Channels,
         Admission!BridgeEnds(c)
  PROVE  AdmissionInv'
PROOF
  <1>1. /\ Admission!OpenSessions' \subseteq Admission!OpenSessions
        /\ UNCHANGED <<Admission!Connected, Admission!OpenChannels>>
    BY DEF Admission!BridgeEnds, Admission!OpenSessions, Admission!Connected,
           Admission!OpenChannels, AdmissionInv, AdmissionShape
  <1>2. \A x \in Admission!OpenSessions' :
          bridge'[x] = "scp" /\ channel'[x] = "gone" => x \in interrupted'
    BY <1>1 DEF Admission!BridgeEnds, AdmissionInv, AdmissionShape,
                Admission!PlacesAccounted, Admission!OpenSessions
  <1>3. AdmissionShape'
    BY DEF Admission!BridgeEnds, AdmissionInv, AdmissionShape
  <1>4. QED BY CardinalityLemma, <1>1, <1>2, <1>3, NotMoreLemma
     DEF AdmissionInv, Admission!PlacesAccounted

\* The steps that count nothing.
LEMMA OtherLemma ==
  ASSUME FiniteAdmission, AdmissionInv,
         \/ \E s \in Sockets : Admission!Authenticate(s)
         \/ \E c \in Channels : Admission!RequestPty(c)
         \/ \E on \in BOOLEAN : Admission!SetAccepting(on)
         \/ UNCHANGED Admission!vars
  PROVE  AdmissionInv'
PROOF
  <1>1. CASE \E s \in Sockets : Admission!Authenticate(s)
    <2>1. UNCHANGED <<Admission!Connected, Admission!OpenChannels,
                      Admission!OpenSessions, channel, bridge, interrupted>>
      BY <1>1 DEF Admission!Authenticate, Admission!Connected,
                  Admission!OpenChannels, Admission!OpenSessions,
                  AdmissionInv, AdmissionShape
    <2>2. AdmissionShape'
      BY <1>1 DEF Admission!Authenticate, AdmissionInv, AdmissionShape
    <2>3. QED BY <2>1, <2>2 DEF AdmissionInv, Admission!PlacesAccounted
  <1>2. CASE ~\E s \in Sockets : Admission!Authenticate(s)
    <2>1. UNCHANGED <<socket, channel, bridge, interrupted>>
      BY <1>2 DEF Admission!RequestPty, Admission!SetAccepting, Admission!vars
    <2>2. QED BY <2>1 DEF AdmissionInv, AdmissionShape,
                          Admission!PlacesAccounted, Admission!Connected,
                          Admission!OpenChannels, Admission!OpenSessions
  <1>3. QED BY <1>1, <1>2

\* A handshake that takes too long is the end of a connection.
LEMMA AdmissionNext ==
  ASSUME FiniteAdmission, AdmissionInv, [Admission!Next]_(Admission!vars)
  PROVE  AdmissionInv'
  BY ConnectLemma, RequestSessionLemma, RequestBridgeLemma, DisconnectLemma,
     CloseChannelLemma, BridgeEndsLemma, OtherLemma
        DEF Admission!Next, Admission!HandshakeTimeout

\* The admission beside the other parts behaves as its module says.
LEMMA SessionsIsAdmission == SessionsSpec => Admission!Spec
PROOF
  <1>1. SessionsInit => Admission!Init
    BY DEF SessionsInit
  <1>2. [SessionsNext]_<<part, vars, b, admission, endpoint>>
          => [Admission!Next]_(Admission!vars)
    BY DEF SessionsNext, admission, Admission!vars
  <1>3. QED BY <1>1, <1>2, PTL DEF SessionsSpec, Admission!Spec

-----------------------------------------------------------------------------
\* Connections, sessions and bridges keep within their limits, those bridges
\* included that outlive their channel, and an SCP transfer among these was
\* told to stop: for any number of clients and any limits.
THEOREM PlacesAreAccounted ==
  ASSUME FiniteAdmission
  PROVE  /\ Admission!Spec => []Admission!PlacesAccounted
         /\ SessionsSpec => []PlacesAccounted
PROOF
  <1>1. Admission!Init => AdmissionInv
    BY AdmissionInit
  <1>2. AdmissionInv /\ [Admission!Next]_(Admission!vars) => AdmissionInv'
    BY AdmissionNext
  <1>3. AdmissionInv => Admission!PlacesAccounted
    BY DEF AdmissionInv
  <1>4. Admission!Spec => []Admission!PlacesAccounted
    BY <1>1, <1>2, <1>3, PTL DEF Admission!Spec
  <1>5. QED BY <1>4, SessionsIsAdmission, PTL DEF PlacesAccounted

-----------------------------------------------------------------------------
(* The bridge of a terminal or a command.                                   *)

\* There is a size, and the buffer of the socket has a size.
BridgeInstance == Sizes # {} /\ Room \in Nat

Codes == {"none", "null", "0", "7", "126", "1", "124", "125", "255"}
Reasons == {"interrupted", "completed", "output_limit", "auth_error", "network_error",
            "user_disconnect", "proxy_stop", "remote_not_ready", "timeout"}
Records == {Bridge!NotOpened, Bridge!Open} \cup (Codes \X Reasons)

Bridges ==
  [kind : Bridge!Kinds, ws : {"none", "connecting", "open", "closing", "gone"},
   remote : BOOLEAN, room : Nat, setup : BOOLEAN, pending : Nat, output : Nat,
   paused : BOOLEAN, inputEnded : BOOLEAN, eof : {"no", "draining", "due", "sent"},
   parser : {"PRELUDE", "READY", "OUTPUT", "COMPLETE"},
   size : Sizes, resize : SUBSET Sizes, portal : Sizes,
   code : Codes, reason : Reasons, closed : BOOLEAN, finished : BOOLEAN,
   exit : Codes, lost : BOOLEAN, record : Records, timers : SUBSET Bridge!Timers]

\* What a client was told, and what the history holds.
BridgeTold(x) ==
  /\ x.closed => x.record # Bridge!Open /\ x.timers = {}
  /\ x.finished => /\ x.code # "none" /\ x.output = 0
                   /\ x.record # Bridge!Open /\ "drain" \notin x.timers
  /\ x.exit # "none" => x.closed \/ x.finished
  /\ x.exit # "none" =>
       x.record \in {Bridge!NotOpened, <<"null", "proxy_stop">>, <<x.exit, x.reason>>}
  /\ x.exit \notin {"none", "125"} => ~x.lost
  /\ x.record \notin {Bridge!NotOpened, Bridge!Open, <<"null", "proxy_stop">>} =>
       x.closed \/ x.finished
  /\ ~x.closed => ~x.lost

\* How a size, the end of the input and the first data came to be.
Traced(x) ==
  /\ x.portal # x.size => x.resize # {}
  /\ x.eof # "no" => x.kind = "shell" /\ x.inputEnded
  /\ x.timers \cap {"eofQuiet", "eofDeadline"} # {} => x.eof # "no"
  /\ x.ws \in {"none", "connecting"} => ~x.remote

BridgeSound(x) == x \in Bridges /\ BridgeTold(x) /\ Traced(x)

\* Whatever can be sent is polled for.
Polled(x) ==
  /\ Bridge!Live(x) /\ x.remote /\ x.ws = "open"
  /\ \/ Bridge!Frames(x) > 0 \/ x.portal # x.size \/ x.eof = "due"
     \/ x.paused /\ ~x.inputEnded
  => "poll" \in x.timers

BridgeInv == BridgeSound(b) /\ Polled(b)

\* What a function of the bridge keeps.
BridgeKept(x, y) == BridgeSound(y) /\ (Polled(x) => Polled(y))

-----------------------------------------------------------------------------
(* The functions of the bridge, each for every state it may be called in.  *)

LEMMA NewLemma ==
  ASSUME BridgeInstance
  PROVE  /\ Bridge!New \in Bridges
         /\ BridgeTold(Bridge!New)
         /\ Traced(Bridge!New)
         /\ Polled(Bridge!New)
PROOF
  <1>1. (CHOOSE s \in Sizes : TRUE) \in Sizes
    BY DEF BridgeInstance
  <1>2. Bridge!New \in Bridges
    BY <1>1 DEF Bridge!New, BridgeInstance, Bridges, Bridge!Kinds, Codes,
                Reasons, Records
  <1>3. BridgeTold(Bridge!New) /\ Traced(Bridge!New) /\ Polled(Bridge!New)
    BY DEF Bridge!New, BridgeTold, Traced, Polled, Bridge!Live,
           Bridge!NotOpened, Bridge!Open
  <1>4. QED BY <1>2, <1>3

LEMMA RecordedLemma ==
  ASSUME NEW x \in Bridges, NEW c \in Codes, NEW r \in Reasons
  PROVE  /\ Bridge!Recorded(x, c, r) \in Bridges
         /\ Bridge!Recorded(x, c, r).record =
              IF x.record = Bridge!Open THEN <<c, r>> ELSE x.record
         /\ Bridge!Recorded(x, c, r) = [x EXCEPT !.record = Bridge!Recorded(x, c, r).record]
PROOF
  <1>1. <<c, r>> \in Records
    BY DEF Records
  <1>2. QED BY <1>1 DEF Bridge!Recorded, Bridges

\* The fields that the cleanup resets.
LEMMA GoneLemma ==
  ASSUME NEW x \in Bridges, NEW lost \in BOOLEAN
  PROVE  [x EXCEPT !.closed = TRUE, !.timers = {}, !.pending = 0, !.setup = FALSE,
                   !.output = 0, !.lost = lost, !.ws = "gone"] \in Bridges
  BY DEF Bridges

LEMMA CleanupLemma ==
  ASSUME NEW x, BridgeSound(x)
  PROVE  BridgeSound(Bridge!Cleanup(x)) /\ Bridge!Cleanup(x).closed
PROOF
  <1>1. CASE x.closed
    BY <1>1 DEF Bridge!Cleanup
  <1>2. CASE ~x.closed
    <2> DEFINE r == Bridge!Recorded(x, x.code, x.reason)
               y == [r EXCEPT !.closed = TRUE, !.timers = {}, !.pending = 0,
                              !.setup = FALSE, !.output = 0,
                              !.lost = @ \/ x.output > 0, !.ws = "gone"]
    <2>1. x \in Bridges /\ x.code \in Codes /\ x.reason \in Reasons
      BY DEF BridgeSound, Bridges
    <2>2. /\ r \in Bridges /\ r = [x EXCEPT !.record = r.record]
          /\ r.record = IF x.record = Bridge!Open THEN <<x.code, x.reason>> ELSE x.record
      BY <2>1, RecordedLemma
    <2>3. Bridge!Cleanup(x) = y
      BY <1>2 DEF Bridge!Cleanup
    <2> HIDE DEF r
    <2>4. y \in Bridges
      BY ZenonT(60), <2>1, <2>2 DEF Bridges
    <2>5. BridgeTold(y)
      BY <1>2, <2>1, <2>2 DEF BridgeSound, BridgeTold, Bridges, Bridge!Open,
                              Bridge!NotOpened, Codes
    <2>6. Traced(y)
      BY <2>1, <2>2 DEF BridgeSound, Traced, Bridges
    <2>7. QED BY <2>2, <2>3, <2>4, <2>5, <2>6 DEF BridgeSound, Bridges
  <1>3. QED BY <1>1, <1>2

\* A bridge that is closed polls for nothing.
LEMMA ClosedLemma ==
  ASSUME NEW x, BridgeSound(x)
  PROVE  BridgeKept(x, Bridge!Cleanup(x))
  BY CleanupLemma DEF BridgeKept, Polled, Bridge!Live

LEMMA WrittenLemma ==
  ASSUME NEW x, BridgeSound(x), ~x.closed, ~x.finished,
         "drain" \notin x.timers, x.output = 0,
         NEW y \in Bridge!Written(x)
  PROVE  BridgeKept(x, y)
PROOF
  <1>1. CASE x.code = "none"
    BY <1>1 DEF Bridge!Written, BridgeKept
  <1>2. CASE x.code # "none"
    <2> DEFINE f == [x EXCEPT !.finished = TRUE]
               r == Bridge!Recorded(f, x.code, x.reason)
               e == [r EXCEPT !.exit = x.code]
               d == [e EXCEPT !.timers = @ \cup {"close"}]
    <2>1. /\ x \in Bridges
          /\ f \in Bridges
          /\ x.code \in Codes
          /\ x.reason \in Reasons
      BY DEF BridgeSound, Bridges
    <2>2. f.record = x.record
      BY <2>1 DEF Bridges
    <2>3. /\ r \in Bridges /\ r = [f EXCEPT !.record = r.record]
          /\ r.record = IF x.record = Bridge!Open THEN <<x.code, x.reason>> ELSE x.record
      BY ZenonT(60), <2>1, <2>2, RecordedLemma
    <2>4. y = d \/ y = Bridge!Cleanup(r)
      BY <1>2 DEF Bridge!Written, Bridge!Arm
    <2> HIDE DEF r
    <2>11. /\ x.exit = "none" /\ ~x.lost
           /\ x.record \in {Bridge!NotOpened, Bridge!Open, <<"null", "proxy_stop">>}
      BY DEF BridgeSound, BridgeTold
    <2>12. /\ r.closed = FALSE /\ r.finished = TRUE /\ r.code = x.code /\ r.exit = "none"
           /\ r.reason = x.reason /\ r.output = 0 /\ r.lost = FALSE /\ r.timers = x.timers
      BY ZenonT(60), <2>1, <2>3, <2>11 DEF Bridges
    <2>13. r.record \in {Bridge!NotOpened, <<x.code, x.reason>>, <<"null", "proxy_stop">>}
      BY <2>3, <2>11
    <2>14. r.record # Bridge!Open
      BY <2>1, <2>13 DEF Bridge!Open, Bridge!NotOpened, Codes
    <2>5. BridgeSound(r)
      <3>1. BridgeTold(r)
        BY <1>2, <2>12, <2>14 DEF BridgeTold
      <3>2. Traced(r)
        BY ZenonT(60), <2>1, <2>3 DEF BridgeSound, Traced, Bridges
      <3>3. QED BY <2>3, <3>1, <3>2 DEF BridgeSound
    <2>6. r.code # "none"
      BY <1>2, <2>1, <2>3 DEF Bridges
    <2>7. BridgeSound(d)
      <3>1. d \in Bridges
        BY <2>1, <2>3 DEF Bridges, Bridge!Timers
      <3>2. /\ d.closed = FALSE /\ d.finished = TRUE /\ d.code = x.code /\ d.exit = x.code
            /\ d.reason = x.reason /\ d.output = 0 /\ d.lost = FALSE
            /\ d.timers = x.timers \cup {"close"} /\ d.record = r.record
        BY <2>3, <2>12 DEF Bridges
      <3>3. BridgeTold(d)
        BY <1>2, <2>13, <2>14, <3>2 DEF BridgeTold
      <3>4. Traced(d)
        BY ZenonT(60), <2>1, <2>3 DEF BridgeSound, Traced, Bridges
      <3>5. QED BY <3>1, <3>3, <3>4 DEF BridgeSound
    <2>8. d.code # "none"
      BY <2>3, <2>6 DEF Bridges
    <2>9. BridgeSound(Bridge!Cleanup(r)) /\ Bridge!Cleanup(r).closed
      BY <2>5, CleanupLemma
    <2>10. QED BY <2>4, <2>7, <2>8, <2>9 DEF BridgeKept, Polled, Bridge!Live
  <1>3. QED BY <1>1, <1>2

LEMMA FlushOutputLemma ==
  ASSUME NEW x, BridgeSound(x), NEW y \in Bridge!FlushOutput(x)
  PROVE  BridgeKept(x, y)
PROOF
  <1>1. CASE x.closed \/ x.finished \/ "drain" \in x.timers
    BY <1>1 DEF Bridge!FlushOutput, BridgeKept
  <1>2. CASE ~(x.closed \/ x.finished \/ "drain" \in x.timers) /\ x.output = 0
    <2>1. y \in Bridge!Written(x)
      BY <1>2 DEF Bridge!FlushOutput
    <2>2. QED BY <1>2, <2>1, WrittenLemma
  <1>3. CASE ~(x.closed \/ x.finished \/ "drain" \in x.timers) /\ x.output # 0
    <2>1. \/ y = Bridge!Cleanup(x)
          \/ \E n \in 0..(x.output - 1) : y = Bridge!Arm([x EXCEPT !.output = n], {"drain"})
          \/ y \in Bridge!Written([x EXCEPT !.output = 0])
      BY <1>3 DEF Bridge!FlushOutput
    <2>2. CASE y = Bridge!Cleanup(x)
      BY <2>2, ClosedLemma
    <2>3. ASSUME NEW n \in 0..(x.output - 1),
                 y = Bridge!Arm([x EXCEPT !.output = n], {"drain"})
          PROVE  BridgeKept(x, y)
      <3> DEFINE d == [x EXCEPT !.output = n, !.timers = @ \cup {"drain"}]
      <3>1. x \in Bridges /\ n \in Nat
        BY <1>3 DEF BridgeSound, Bridges
      <3>2. y = d
        BY <2>3, <3>1 DEF Bridge!Arm, Bridges
      <3>3. d \in Bridges
        BY <3>1 DEF Bridges, Bridge!Timers
      <3>4. BridgeTold(d) /\ Traced(d)
        BY <1>3, <3>1 DEF BridgeSound, BridgeTold, Traced, Bridges
      <3>5. Polled(x) => Polled(d)
        BY <3>1 DEF Polled, Bridge!Live, Bridge!Frames, Bridges
      <3>6. QED BY <3>2, <3>3, <3>4, <3>5 DEF BridgeKept, BridgeSound
    <2>4. CASE y \in Bridge!Written([x EXCEPT !.output = 0])
      <3> DEFINE z == [x EXCEPT !.output = 0]
      <3>1. x \in Bridges
        BY DEF BridgeSound
      <3>2. BridgeSound(z) /\ (Polled(x) => Polled(z))
        <4>1. z \in Bridges
          BY <3>1 DEF Bridges
        <4>2. BridgeTold(z) /\ Traced(z)
          BY <1>3, <3>1 DEF BridgeSound, BridgeTold, Traced, Bridges
        <4>3. Polled(x) => Polled(z)
          BY <3>1 DEF Polled, Bridge!Live, Bridge!Frames, Bridges
        <4>4. QED BY <4>1, <4>2, <4>3 DEF BridgeSound
      <3>3. ~z.closed /\ ~z.finished /\ "drain" \notin z.timers /\ z.output = 0
        BY <1>3, <3>1 DEF Bridges
      <3>4. BridgeKept(z, y)
        BY <2>4, <3>2, <3>3, WrittenLemma
      <3>5. QED BY <3>2, <3>4 DEF BridgeKept
    <2>5. QED BY <2>1, <2>2, <2>3, <2>4
  <1>4. QED BY <1>1, <1>2, <1>3

LEMMA CompleteLemma ==
  ASSUME NEW x, BridgeSound(x), NEW code \in Codes \ {"none"},
         NEW reason \in Reasons,
         NEW y \in Bridge!Complete(x, code, reason)
  PROVE  BridgeKept(x, y)
PROOF
  <1>1. CASE ~Bridge!Live(x)
    BY <1>1 DEF Bridge!Complete, BridgeKept
  <1>2. CASE Bridge!Live(x)
    <2> DEFINE z == [x EXCEPT !.code = code, !.reason = reason, !.ws = "gone",
                              !.pending = 0, !.setup = FALSE,
                              !.timers = @ \cap {"drain", "disconnect", "close"}]
    <2>1. x \in Bridges /\ y \in Bridge!FlushOutput(z)
      BY <1>2 DEF BridgeSound, Bridge!Complete
    <2>2. BridgeSound(z)
      <3>1. z \in Bridges
        BY <2>1 DEF Bridges
      <3>2. BridgeTold(z)
        BY <1>2, <2>1 DEF BridgeSound, BridgeTold, Bridges, Bridge!Live
      <3>3. Traced(z)
        BY <2>1 DEF BridgeSound, Traced, Bridges
      <3>4. QED BY <3>1, <3>2, <3>3 DEF BridgeSound
    <2>3. Polled(z)
      BY <2>1 DEF Polled, Bridge!Live, Bridges
    <2>4. QED BY <2>1, <2>2, <2>3, FlushOutputLemma DEF BridgeKept
  <1>3. QED BY <1>1, <1>2

LEMMA QueueOutputLemma ==
  ASSUME NEW x, BridgeSound(x), NEW y \in Bridge!QueueOutput(x)
  PROVE  BridgeKept(x, y)
PROOF
  <1>1. CASE ~Bridge!Live(x)
    BY <1>1 DEF Bridge!QueueOutput, BridgeKept
  <1>2. CASE Bridge!Live(x) /\ x.output = MaxOutput
    <2>1. y \in Bridge!Complete(x, "125", "output_limit")
      BY <1>2 DEF Bridge!QueueOutput
    <2>2. QED BY <2>1, CompleteLemma DEF Codes, Reasons
  <1>3. CASE Bridge!Live(x) /\ x.output # MaxOutput
    <2> DEFINE z == [x EXCEPT !.output = @ + 1]
    <2>1. x \in Bridges /\ y \in Bridge!FlushOutput(z)
      BY <1>3 DEF Bridge!QueueOutput, BridgeSound
    <2>2. BridgeSound(z) /\ (Polled(x) => Polled(z))
      <3>1. z \in Bridges
        BY <2>1 DEF Bridges
      <3>2. BridgeTold(z) /\ Traced(z)
        BY <1>3, <2>1 DEF BridgeSound, BridgeTold, Traced, Bridges,
                          Bridge!Live
      <3>3. Polled(x) => Polled(z)
        BY <2>1 DEF Polled, Bridge!Live, Bridge!Frames, Bridges
      <3>4. QED BY <3>1, <3>2, <3>3 DEF BridgeSound
    <2>3. QED BY <2>1, <2>2, FlushOutputLemma DEF BridgeKept
  <1>4. QED BY <1>1, <1>2, <1>3

LEMMA ScheduleFlushLemma ==
  ASSUME NEW x, BridgeSound(x)
  PROVE  /\ BridgeSound(Bridge!ScheduleFlush(x))
         /\ Polled(Bridge!ScheduleFlush(x))
PROOF
  <1> DEFINE d == [x EXCEPT !.timers = @ \cup {"poll", "send"}]
  <1>1. x \in Bridges
    BY DEF BridgeSound
  <1>2. CASE "poll" \in x.timers \/ ~Bridge!Live(x)
    BY <1>2 DEF Bridge!ScheduleFlush, Polled
  <1>3. CASE ~("poll" \in x.timers \/ ~Bridge!Live(x))
    <2>1. Bridge!ScheduleFlush(x) = d
      BY <1>3 DEF Bridge!ScheduleFlush, Bridge!Arm
    <2>2. d \in Bridges
      BY <1>1 DEF Bridges, Bridge!Timers
    <2>3. BridgeTold(d) /\ Traced(d)
      BY <1>1, <1>3 DEF BridgeSound, BridgeTold, Traced, Bridges, Bridge!Live
    <2>4. Polled(d)
      BY <1>1 DEF Polled, Bridges
    <2>5. QED BY <2>1, <2>2, <2>3, <2>4 DEF BridgeSound
  <1>4. QED BY <1>2, <1>3

\* The fields that a blocked queue and a size that is sent change.
LEMMA BlockedLemma ==
  ASSUME NEW x \in Bridges, NEW setup \in BOOLEAN, NEW pending \in Nat,
         NEW paused \in BOOLEAN
  PROVE  [x EXCEPT !.room = 0, !.setup = setup, !.pending = pending, !.paused = paused]
           \in Bridges
  BY DEF Bridges

LEMMA ResizedLemma ==
  ASSUME NEW x \in Bridges, NEW size \in Sizes, NEW resize \in SUBSET Sizes,
         NEW room \in Nat
  PROVE  [x EXCEPT !.portal = size, !.resize = resize, !.room = room] \in Bridges
  BY DEF Bridges

\* Nothing is left to send but, perhaps, the disconnect.
Quiet(x) ==
  /\ Bridge!Frames(x) = 0
  /\ x.portal = x.size
  /\ ~(x.paused /\ ~x.inputEnded)

LEMMA FlushEofLemma ==
  ASSUME NEW x, BridgeSound(x), Bridge!Live(x), Quiet(x)
  PROVE  BridgeSound(Bridge!FlushEof(x)) /\ Polled(Bridge!FlushEof(x))
PROOF
  <1>1. x \in Bridges
    BY DEF BridgeSound
  <1>2. CASE x.kind = "exec" \/ ~x.inputEnded \/ x.eof = "sent"
    <2>1. Bridge!FlushEof(x) = x /\ x.eof # "due"
      BY <1>1, <1>2 DEF Bridge!FlushEof, BridgeSound, Traced, Bridge!Kinds
    <2>2. QED BY <2>1 DEF Polled, Quiet
  <1>3. CASE /\ ~(x.kind = "exec" \/ ~x.inputEnded \/ x.eof = "sent")
             /\ x.eof = "no"
    <2> DEFINE d == [x EXCEPT !.eof = "draining",
                              !.timers = @ \cup {"eofDeadline", "eofQuiet"}]
    <2>1. Bridge!FlushEof(x) = d
      BY <1>1, <1>3 DEF Bridge!FlushEof, Bridge!Arm, Bridges
    <2>2. d \in Bridges
      BY <1>1 DEF Bridges, Bridge!Timers
    <2>3. BridgeTold(d) /\ Traced(d)
      BY <1>1, <1>3 DEF BridgeSound, BridgeTold, Traced, Bridges, Bridge!Live,
                        Bridge!Kinds
    <2>4. Polled(d)
      BY <1>1 DEF Polled, Quiet, Bridge!Frames, Bridges
    <2>5. QED BY <2>1, <2>2, <2>3, <2>4 DEF BridgeSound
  <1>4. CASE /\ ~(x.kind = "exec" \/ ~x.inputEnded \/ x.eof = "sent")
             /\ x.eof = "draining"
    BY <1>4 DEF Bridge!FlushEof, Polled, Quiet
  <1>5. CASE /\ ~(x.kind = "exec" \/ ~x.inputEnded \/ x.eof = "sent")
             /\ x.eof = "due"
    <2> DEFINE d == [x EXCEPT !.eof = "sent", !.room = @ - 1,
                              !.timers = @ \cup {"disconnect"}]
    <2>1. CASE x.room = 0
      BY <1>5, <2>1, ScheduleFlushLemma DEF Bridge!FlushEof
    <2>2. CASE x.room # 0
      <3>1. Bridge!FlushEof(x) = d
        BY <1>1, <1>5, <2>2 DEF Bridge!FlushEof, Bridge!Arm, Bridges
      <3>2. d \in Bridges
        <4>1. x.room - 1 \in Nat
          BY <1>1, <2>2 DEF Bridges
        <4>2. QED BY <1>1, <4>1 DEF Bridges, Bridge!Timers
      <3>3. BridgeTold(d) /\ Traced(d)
        BY <1>1, <1>5 DEF BridgeSound, BridgeTold, Traced, Bridges,
                          Bridge!Live, Bridge!Kinds
      <3>4. Polled(d)
        BY <1>1 DEF Polled, Quiet, Bridge!Frames, Bridges
      <3>5. QED BY <3>1, <3>2, <3>3, <3>4 DEF BridgeSound
    <2>3. QED BY <2>1, <2>2
  <1>6. QED BY <1>1, <1>2, <1>3, <1>4, <1>5 DEF Bridges

LEMMA FlushResizeLemma ==
  ASSUME NEW x, BridgeSound(x), Bridge!Live(x), Bridge!Frames(x) = 0
  PROVE  BridgeSound(Bridge!FlushResize(x)) /\ Polled(Bridge!FlushResize(x))
PROOF
  <1>1. x \in Bridges
    BY DEF BridgeSound
  <1>2. CASE x.resize # {} /\ x.room = 0
    BY <1>2, ScheduleFlushLemma DEF Bridge!FlushResize
  <1>3. CASE ~(x.resize # {} /\ x.room = 0)
    <2> DEFINE y == IF x.resize = {} THEN x
                    ELSE [x EXCEPT !.portal = x.size, !.resize = {}, !.room = @ - 1]
           d == [y EXCEPT !.paused = @ /\ x.inputEnded,
                          !.timers = @ \ {"send"}]
    <2>1. /\ y \in Bridges /\ y.portal = y.size
          /\ y = [x EXCEPT !.portal = y.portal, !.resize = y.resize, !.room = y.room]
      <3>1. CASE x.resize = {}
        <4>1. x.portal = x.size /\ y = x
          BY <3>1 DEF BridgeSound, Traced
        <4>2. x = [x EXCEPT !.portal = x.portal, !.resize = x.resize, !.room = x.room]
          BY <1>1 DEF Bridges
        <4>3. QED BY <1>1, <4>1, <4>2
      <3>2. CASE x.resize # {}
        <4>1. x.room - 1 \in Nat /\ x.room \in Nat
          BY <1>1, <1>3, <3>2 DEF Bridges
        <4>2. y = [x EXCEPT !.portal = x.size, !.resize = {}, !.room = x.room - 1]
          BY <3>2
        <4>3. y \in Bridges
          <5>1. x.size \in Sizes /\ {} \in SUBSET Sizes
            BY <1>1 DEF Bridges
          <5>2. QED BY <1>1, <4>1, <4>2, <5>1, ResizedLemma
        <4>4. QED BY <1>1, <4>2, <4>3 DEF Bridges
      <3>3. QED BY <3>1, <3>2
    <2>2. Bridge!FlushResize(x) = Bridge!FlushEof(d)
      BY <1>3, <2>1 DEF Bridge!FlushResize, Bridge!Cancel, Bridges
    <2> HIDE DEF y
    <2>3. d \in Bridges
      BY ZenonT(60), <2>1 DEF Bridges
    <2>4. BridgeTold(d) /\ Traced(d)
      <3>1. /\ d.closed = x.closed /\ d.record = x.record /\ d.finished = x.finished
            /\ d.code = x.code /\ d.output = x.output /\ d.exit = x.exit
            /\ d.reason = x.reason /\ d.lost = x.lost /\ d.timers = x.timers \ {"send"}
        BY <1>1, <2>1 DEF Bridges
      <3>2. /\ d.portal = d.size /\ d.eof = x.eof /\ d.kind = x.kind
            /\ d.inputEnded = x.inputEnded /\ d.ws = x.ws /\ d.remote = x.remote
        BY <1>1, <2>1 DEF Bridges
      <3>3. BridgeTold(d)
        BY <3>1 DEF BridgeSound, BridgeTold
      <3>4. Traced(d)
        BY <3>1, <3>2 DEF BridgeSound, Traced
      <3>5. QED BY <3>3, <3>4
    <2>5. Bridge!Live(d) /\ Quiet(d)
      BY ZenonT(60), <1>1, <2>1 DEF Bridge!Live, Quiet, Bridge!Frames, Bridges
    <2>6. QED BY <2>2, <2>3, <2>4, <2>5, FlushEofLemma DEF BridgeSound
  <1>4. QED BY <1>2, <1>3

LEMMA FlushInputLemma ==
  ASSUME NEW x, BridgeSound(x)
  PROVE  BridgeSound(Bridge!FlushInput(x)) /\ Polled(Bridge!FlushInput(x))
PROOF
  <1>1. x \in Bridges /\ Bridge!Frames(x) \in Nat
    BY DEF BridgeSound, Bridges, Bridge!Frames
  <1>2. CASE ~Bridge!Live(x) \/ ~x.remote \/ x.ws # "open"
    BY <1>2 DEF Bridge!FlushInput, Polled
  <1>3. CASE /\ ~(~Bridge!Live(x) \/ ~x.remote \/ x.ws # "open")
             /\ Bridge!Frames(x) > x.room
    <2> DEFINE d == [x EXCEPT !.room = 0, !.setup = @ /\ x.room = 0,
                              !.pending = IF x.room = 0 THEN @ ELSE Bridge!Frames(x) - x.room,
                              !.paused = (x.kind = "shell") \/ @]
    <2>1. Bridge!FlushInput(x) = Bridge!ScheduleFlush(d)
      BY <1>1, <1>3 DEF Bridge!FlushInput, Bridge!Blocked, Bridges
    <2>2. d \in Bridges
      <3> DEFINE setup == x.setup /\ x.room = 0
                 pending == IF x.room = 0 THEN x.pending ELSE Bridge!Frames(x) - x.room
                 paused == (x.kind = "shell") \/ x.paused
      <3>1. d = [x EXCEPT !.room = 0, !.setup = setup, !.pending = pending, !.paused = paused]
        BY <1>1
      <3>2. setup \in BOOLEAN /\ pending \in Nat /\ paused \in BOOLEAN
        BY <1>1, <1>3 DEF Bridges
      <3> HIDE DEF setup, pending, paused, d
      <3>3. QED BY <1>1, <3>1, <3>2, BlockedLemma
    <2>3. BridgeTold(d) /\ Traced(d)
      BY <1>1 DEF BridgeSound, BridgeTold, Traced, Bridges
    <2>4. QED BY <2>1, <2>2, <2>3, ScheduleFlushLemma DEF BridgeSound
  <1>4. CASE /\ ~(~Bridge!Live(x) \/ ~x.remote \/ x.ws # "open")
             /\ ~(Bridge!Frames(x) > x.room)
    <2> DEFINE d == [x EXCEPT !.setup = FALSE, !.pending = 0, !.room = @ - Bridge!Frames(x)]
    <2>1. Bridge!FlushInput(x) = Bridge!FlushResize(d)
      BY <1>4 DEF Bridge!FlushInput
    <2>2. d \in Bridges
      <3>1. x.room - Bridge!Frames(x) \in Nat
        BY <1>1, <1>4 DEF Bridges
      <3>2. QED BY <1>1, <3>1 DEF Bridges
    <2>3. BridgeTold(d) /\ Traced(d)
      BY <1>1 DEF BridgeSound, BridgeTold, Traced, Bridges
    <2>4. Bridge!Live(d) /\ Bridge!Frames(d) = 0
      BY <1>1, <1>4 DEF Bridge!Live, Bridge!Frames, Bridges
    <2>5. QED BY <2>1, <2>2, <2>3, <2>4, FlushResizeLemma DEF BridgeSound
  <1>5. QED BY <1>2, <1>3, <1>4

\* The first data of the portal.
LEMMA RemoteReadyLemma ==
  ASSUME NEW x, BridgeSound(x), Polled(x), x.ws \in {"open", "closing"}
  PROVE  BridgeSound(Bridge!RemoteReady(x)) /\ Polled(Bridge!RemoteReady(x))
PROOF
  <1> DEFINE d == [x EXCEPT !.remote = TRUE, !.timers = @ \ {"firstData"}]
  <1>1. x \in Bridges
    BY DEF BridgeSound
  <1>2. CASE x.remote
    BY <1>2 DEF Bridge!RemoteReady
  <1>3. CASE ~x.remote
    <2>1. Bridge!RemoteReady(x) = Bridge!FlushInput(d)
      BY <1>1, <1>3 DEF Bridge!RemoteReady, Bridge!Cancel, Bridges
    <2>2. d \in Bridges
      BY <1>1 DEF Bridges
    <2>3. BridgeTold(d) /\ Traced(d)
      BY <1>1 DEF BridgeSound, BridgeTold, Traced, Bridges
    <2>4. QED BY <2>1, <2>2, <2>3, FlushInputLemma DEF BridgeSound
  <1>4. QED BY <1>2, <1>3

\* Timers are cancelled and armed.
LEMMA CancelLemma ==
  ASSUME NEW x, BridgeSound(x), NEW S
  PROVE  /\ BridgeSound(Bridge!Cancel(x, S))
         /\ ("poll" \notin S => BridgeKept(x, Bridge!Cancel(x, S)))
PROOF
  <1> DEFINE d == [x EXCEPT !.timers = @ \ S]
  <1>1. x \in Bridges
    BY DEF BridgeSound
  <1>2. d \in Bridges
    BY <1>1 DEF Bridges
  <1>3. BridgeTold(d) /\ Traced(d)
    BY <1>1 DEF BridgeSound, BridgeTold, Traced, Bridges
  <1>4. "poll" \notin S => (Polled(x) => Polled(d))
    BY <1>1 DEF Polled, Bridge!Live, Bridge!Frames, Bridges
  <1>5. QED BY <1>2, <1>3, <1>4 DEF BridgeSound, BridgeKept, Bridge!Cancel

LEMMA ArmLemma ==
  ASSUME NEW x, BridgeSound(x), Bridge!Live(x),
         NEW S \in SUBSET (Bridge!Timers \ {"drain"}),
         S \cap {"eofQuiet", "eofDeadline"} # {} => x.eof # "no"
  PROVE  BridgeKept(x, Bridge!Arm(x, S))
PROOF
  <1> DEFINE d == [x EXCEPT !.timers = @ \cup S]
  <1>1. x \in Bridges
    BY DEF BridgeSound
  <1>2. d \in Bridges
    BY <1>1 DEF Bridges
  <1>3. BridgeTold(d) /\ Traced(d)
    BY <1>1 DEF BridgeSound, BridgeTold, Traced, Bridges, Bridge!Live
  <1>4. Polled(x) => Polled(d)
    BY <1>1 DEF Polled, Bridge!Live, Bridge!Frames, Bridges
  <1>5. QED BY <1>2, <1>3, <1>4 DEF BridgeSound, BridgeKept, Bridge!Arm

-----------------------------------------------------------------------------
(* The events.                                                             *)

LEMMA BeginLemma ==
  ASSUME BridgeInstance, Bridge!RejectEarly \/ Bridge!Begin
  PROVE  BridgeSound(b') /\ Polled(b')
PROOF
  <1>1. Bridge!New \in Bridges
    BY NewLemma
  <1>2. CASE Bridge!RejectEarly
    <2>1. PICK code \in {"1", "125"} : b' = [Bridge!New EXCEPT !.exit = code, !.closed = TRUE]
      BY <1>2 DEF Bridge!RejectEarly
    <2>2. b' \in Bridges
      BY ZenonT(60), <1>1, <2>1 DEF Bridges, Codes
    <2>3. BridgeTold(b') /\ Traced(b') /\ Polled(b')
      BY <2>1 DEF Bridge!New, BridgeTold, Traced, Polled, Bridge!Live,
                  Bridge!NotOpened, Bridge!Open
    <2>4. QED BY <2>2, <2>3 DEF BridgeSound
  <1>3. CASE Bridge!Begin
    <2>1. PICK kind \in Bridge!Kinds, startup \in BOOLEAN :
            b' = [Bridge!New EXCEPT !.kind = kind, !.ws = "connecting", !.record = Bridge!Open,
                             !.setup = kind = "exec" \/ startup]
      BY <1>3 DEF Bridge!Begin
    <2>2. (kind = "exec" \/ startup) \in BOOLEAN /\ Bridge!Open \in Records
      BY DEF Records
    <2>3. b' \in Bridges
      BY ZenonT(60), <1>1, <2>1, <2>2 DEF Bridges
    <2>4. BridgeTold(b') /\ Traced(b') /\ Polled(b')
      BY <2>1 DEF Bridge!New, BridgeTold, Traced, Polled, Bridge!Live,
                  Bridge!NotOpened, Bridge!Open
    <2>5. QED BY <2>3, <2>4 DEF BridgeSound
  <1>4. QED BY <1>2, <1>3

\* The web socket opens, closes and is gone.
LEMMA SocketLemma ==
  ASSUME BridgeInstance, BridgeInv,
         Bridge!WsOpen \/ Bridge!Refused \/ Bridge!Hangup \/ Bridge!WsClosing
  PROVE  BridgeSound(b') /\ Polled(b')
PROOF
  <1>1. BridgeSound(b) /\ Polled(b) /\ b \in Bridges
    BY DEF BridgeInv, BridgeSound
  <1>2. CASE Bridge!WsOpen
    <2> DEFINE d == [b EXCEPT !.ws = "open",
                              !.resize = IF b.size # b.portal THEN {b.size} ELSE @]
    <2>1. Bridge!Live(b) /\ b.ws = "connecting"
      BY <1>2 DEF Bridge!WsOpen
    <2>2. b' = Bridge!Arm(d, {"firstData", IF b.kind = "exec" THEN "exec" ELSE "ping"})
      BY <1>2 DEF Bridge!WsOpen
    <2>3. d \in Bridges
      BY <1>1 DEF Bridges
    <2>4. BridgeTold(d) /\ Traced(d) /\ Polled(d) /\ Bridge!Live(d)
      BY <1>1, <2>1 DEF BridgeSound, BridgeTold, Traced, Polled, Bridge!Live,
                        Bridges
    <2>5. QED BY <2>2, <2>3, <2>4, ArmLemma DEF BridgeSound, BridgeKept,
                                                Bridge!Timers
  <1>3. CASE Bridge!Refused
    <2>1. PICK reason \in {"auth_error", "network_error"} :
            b' \in Bridge!Complete(b, IF b.kind = "exec" THEN "255" ELSE "1", reason)
      BY <1>3 DEF Bridge!Refused
    <2>2. QED BY <1>1, <2>1, CompleteLemma DEF Codes, Reasons, BridgeKept
  <1>4. CASE Bridge!Hangup
    BY <1>1, <1>4, CompleteLemma DEF Bridge!Hangup, Codes, Reasons, BridgeKept
  <1>5. CASE Bridge!WsClosing
    <2>1. b' = [b EXCEPT !.ws = "closing"] /\ b.ws = "open"
      BY <1>5 DEF Bridge!WsClosing
    <2>2. b' \in Bridges
      BY <1>1, <2>1 DEF Bridges
    <2>3. BridgeTold(b') /\ Traced(b') /\ Polled(b')
      BY <1>1, <2>1 DEF BridgeSound, BridgeTold, Traced, Polled, Bridges
    <2>4. QED BY <2>2, <2>3 DEF BridgeSound
  <1>6. QED BY <1>2, <1>3, <1>4, <1>5

\* What the portal sends.
LEMMA PortalLemma ==
  ASSUME BridgeInstance, BridgeInv,
         Bridge!SessionEnded \/ Bridge!ShellData \/ Bridge!ExecData
  PROVE  BridgeSound(b') /\ Polled(b')
PROOF
  <1>1. BridgeSound(b) /\ Polled(b) /\ b \in Bridges
    BY DEF BridgeInv, BridgeSound
  <1>2. CASE Bridge!SessionEnded
    <2>1. PICK code \in Codes \ {"none"}, reason \in Reasons :
            b' \in Bridge!Complete(b, code, reason)
      BY <1>2 DEF Bridge!SessionEnded, Codes, Reasons, Bridge!PortalCodes
    <2>2. QED BY <1>1, <2>1, CompleteLemma DEF BridgeKept
  <1>3. CASE Bridge!ShellData
    <2>1. PICK x \in Bridge!QueueOutput(Bridge!RemoteReady(b)) :
            b' = Bridge!ResetEofQuiet(x)
      BY <1>3 DEF Bridge!ShellData
    <2>2. BridgeSound(Bridge!RemoteReady(b)) /\ Polled(Bridge!RemoteReady(b))
      BY <1>1, <1>3, RemoteReadyLemma DEF Bridge!ShellData, Bridge!Portal
    <2>3. BridgeSound(x) /\ Polled(x)
      BY <2>1, <2>2, QueueOutputLemma DEF BridgeKept
    <2>4. \/ b' = x
          \/ /\ Bridge!Live(x)
             /\ x.eof = "draining"
             /\ b' = Bridge!Arm(x, {"eofQuiet"})
      BY <2>1 DEF Bridge!ResetEofQuiet
    <2>5. QED BY <2>3, <2>4, ArmLemma DEF BridgeKept, Bridge!Timers
  <1>4. CASE Bridge!ExecData
    <2> DEFINE x == Bridge!RemoteReady(b)
    <2>1. BridgeSound(x) /\ Polled(x) /\ b' \in Bridge!ParserStep(x)
      BY <1>1, <1>4, RemoteReadyLemma DEF Bridge!ExecData, Bridge!Portal
    <2> HIDE DEF x
    <2>2. x \in Bridges
      BY <2>1 DEF BridgeSound
    <2>3. CASE b' = x
      BY <2>1, <2>3
    <2>4. CASE b' \in Bridge!Complete(x, "1", "interrupted")
                         \cup Bridge!Complete(x, "125", "output_limit")
      BY <2>1, <2>4, CompleteLemma DEF BridgeKept, Codes, Reasons
    <2>5. CASE b' = Bridge!FlushInput([x EXCEPT !.parser = "READY", !.pending = @ + 1])
      <3> DEFINE d == [x EXCEPT !.parser = "READY", !.pending = @ + 1]
      <3>1. d \in Bridges
        <4>1. x.pending + 1 \in Nat
          BY <2>2 DEF Bridges
        <4>2. QED BY <2>2, <4>1 DEF Bridges
      <3>2. BridgeTold(d) /\ Traced(d)
        BY <2>1, <2>2 DEF BridgeSound, BridgeTold, Traced, Bridges
      <3>3. QED BY <2>5, <3>1, <3>2, FlushInputLemma DEF BridgeSound
    <2>6. CASE b' = [x EXCEPT !.parser = "OUTPUT"]
      <3>1. b' \in Bridges
        BY <2>2, <2>6 DEF Bridges
      <3>2. BridgeTold(b') /\ Traced(b') /\ Polled(b')
        BY <2>1, <2>2, <2>6 DEF BridgeSound, BridgeTold, Traced, Polled,
                                Bridge!Live, Bridge!Frames, Bridges
      <3>3. QED BY <3>1, <3>2 DEF BridgeSound
    <2>7. CASE b' \in Bridge!QueueOutput(x)
      BY <2>1, <2>7, QueueOutputLemma DEF BridgeKept
    <2>8. CASE \E c \in {"0", "7"} :
                 b' \in Bridge!Complete([x EXCEPT !.parser = "COMPLETE"], c, "completed")
      <3> DEFINE d == [x EXCEPT !.parser = "COMPLETE"]
      <3>1. d \in Bridges
        BY <2>2 DEF Bridges
      <3>2. BridgeTold(d) /\ Traced(d) /\ Polled(d)
        BY <2>1, <2>2 DEF BridgeSound, BridgeTold, Traced, Polled,
                          Bridge!Live, Bridge!Frames, Bridges
      <3>3. QED BY <2>8, <3>1, <3>2, CompleteLemma
         DEF BridgeSound, BridgeKept, Codes, Reasons
    <2>9. QED BY <2>1, <2>3, <2>4, <2>5, <2>6, <2>7, <2>8
       DEF Bridge!ParserStep
  <1>5. QED BY <1>2, <1>3, <1>4

\* What the client sends, and what the socket says of its buffer.
LEMMA ClientLemma ==
  ASSUME BridgeInstance, BridgeInv,
         \/ Bridge!Input \/ Bridge!InputEnd \/ Bridge!Resize
         \/ Bridge!Pong \/ Bridge!BufferDrains
  PROVE  BridgeSound(b') /\ Polled(b')
PROOF
  <1>1. BridgeSound(b) /\ Polled(b) /\ b \in Bridges
    BY DEF BridgeInv, BridgeSound
  <1>2. CASE Bridge!Input
    <2> DEFINE d == [b EXCEPT !.pending = @ + 1,
                              !.paused = @ \/ ~b.remote \/ b.ws = "connecting"]
    <2>1. b' \in Bridge!Complete(b, "1", "interrupted") \/ b' = Bridge!FlushInput(d)
      BY <1>2 DEF Bridge!Input
    <2>2. d \in Bridges
      <3>1. /\ b.pending + 1 \in Nat
            /\ (b.paused \/ ~b.remote \/ b.ws = "connecting") \in BOOLEAN
        BY <1>1 DEF Bridges
      <3>2. QED BY <1>1, <3>1 DEF Bridges
    <2>3. BridgeTold(d) /\ Traced(d)
      BY <1>1 DEF BridgeSound, BridgeTold, Traced, Bridges
    <2>4. QED BY <1>1, <2>1, <2>2, <2>3, CompleteLemma, FlushInputLemma
             DEF BridgeSound, BridgeKept, Codes, Reasons
  <1>3. CASE Bridge!InputEnd
    <2>1. PICK carry \in {0, 1} :
            LET x == [b EXCEPT !.inputEnded = TRUE, !.pending = @ + carry]
            IN /\ b.kind = "exec" => carry = 0
               /\ b' = IF b.kind = "exec" THEN x ELSE Bridge!FlushInput(x)
      BY <1>3 DEF Bridge!InputEnd
    <2> DEFINE d == [b EXCEPT !.inputEnded = TRUE, !.pending = @ + carry]
    <2>2. d \in Bridges
      <3>1. b.pending + carry \in Nat
        BY <1>1 DEF Bridges
      <3>2. QED BY <1>1, <3>1 DEF Bridges
    <2>3. BridgeTold(d) /\ Traced(d)
      BY <1>1 DEF BridgeSound, BridgeTold, Traced, Bridges
    <2>4. b.kind = "exec" => Polled(d)
      BY <1>1, <2>1 DEF Polled, Bridge!Live, Bridge!Frames, Bridges
    <2>5. QED BY <2>1, <2>2, <2>3, <2>4, FlushInputLemma DEF BridgeSound
  <1>4. CASE Bridge!Resize
    <2>1. PICK s \in Sizes :
            LET x == [b EXCEPT !.size = s, !.resize = {s}]
            IN b' = IF b.remote /\ b.ws # "connecting"
                      THEN Bridge!ScheduleFlush(x) ELSE x
      BY <1>4 DEF Bridge!Resize
    <2> DEFINE d == [b EXCEPT !.size = s, !.resize = {s}]
    <2>2. d \in Bridges
      BY <1>1 DEF Bridges
    <2>3. BridgeTold(d) /\ Traced(d)
      BY <1>1 DEF BridgeSound, BridgeTold, Traced, Bridges
    <2>4. ~(b.remote /\ b.ws # "connecting") => Polled(d)
      BY <1>1 DEF Polled, Bridges
    <2>5. QED BY <2>1, <2>2, <2>3, <2>4, ScheduleFlushLemma DEF BridgeSound
  <1>5. CASE Bridge!Pong \/ Bridge!BufferDrains
    <2> DEFINE d == [b EXCEPT !.room = Room]
    <2>1. b' = d \/ b' = Bridge!Cancel(d, {"pong"})
      BY <1>5 DEF Bridge!Pong, Bridge!BufferDrains
    <2>2. d \in Bridges
      BY <1>1 DEF Bridges, BridgeInstance
    <2>3. BridgeTold(d) /\ Traced(d) /\ Polled(d)
      BY <1>1 DEF BridgeSound, BridgeTold, Traced, Polled, Bridge!Live,
                  Bridge!Frames, Bridges
    <2>4. QED BY <2>1, <2>2, <2>3, CancelLemma DEF BridgeSound, BridgeKept
  <1>6. QED BY <1>2, <1>3, <1>4, <1>5

\* The ends that come from outside, and the output that goes on.
LEMMA EndLemma ==
  ASSUME BridgeInstance, BridgeInv,
         Bridge!Drain \/ Bridge!ChannelClose \/ Bridge!Disconnected \/ Bridge!Stopped
  PROVE  BridgeSound(b') /\ Polled(b')
PROOF
  <1>1. BridgeSound(b) /\ Polled(b) /\ b \in Bridges
    BY DEF BridgeInv, BridgeSound
  <1>2. CASE Bridge!Drain
    <2>1. /\ BridgeSound(Bridge!Cancel(b, {"drain"}))
          /\ Polled(Bridge!Cancel(b, {"drain"}))
      BY <1>1, CancelLemma DEF BridgeKept
    <2>2. QED BY <1>2, <2>1, FlushOutputLemma DEF Bridge!Drain, BridgeKept
  <1>3. CASE Bridge!ChannelClose
    BY <1>1, <1>3, ClosedLemma DEF Bridge!ChannelClose, BridgeKept
  <1>4. CASE Bridge!Disconnected
    BY <1>1, <1>4, CompleteLemma DEF Bridge!Disconnected, BridgeKept, Codes,
                                     Reasons
  <1>5. CASE Bridge!Stopped
    <2>1. PICK x \in Bridge!Complete(b, "255", "proxy_stop") :
            b' = Bridge!Recorded(x, "null", "proxy_stop")
      BY <1>5 DEF Bridge!Stopped
    <2>2. BridgeSound(x) /\ Polled(x) /\ x \in Bridges
      BY <1>1, <2>1, CompleteLemma DEF BridgeKept, Codes, Reasons, BridgeSound
    <2>3. /\ b' \in Bridges /\ b' = [x EXCEPT !.record = b'.record]
          /\ b'.record = IF x.record = Bridge!Open THEN <<"null", "proxy_stop">> ELSE x.record
      BY <2>1, <2>2, RecordedLemma DEF Codes, Reasons
    <2>4. BridgeTold(b')
      BY <2>2, <2>3 DEF BridgeSound, BridgeTold, Bridges, Bridge!Open,
                        Bridge!NotOpened
    <2>5. Traced(b')
      BY <2>2, <2>3 DEF BridgeSound, Traced, Bridges
    <2>6. Polled(b')
      BY <2>2, <2>3 DEF Polled, Bridge!Live, Bridge!Frames, Bridges,
                        Bridge!Open, Bridge!NotOpened
    <2>7. QED BY <2>3, <2>4, <2>5, <2>6 DEF BridgeSound
  <1>6. QED BY <1>2, <1>3, <1>4, <1>5

\* The timers that end a bridge.
LEMMA DeadlineLemma ==
  ASSUME BridgeInstance, BridgeInv,
         \/ Bridge!FirstDataTimeout \/ Bridge!SendStalled \/ Bridge!DrainStalled
         \/ Bridge!DisconnectWait
         \/ Bridge!PongMissing \/ Bridge!ExecTimeout \/ Bridge!ForceClose
  PROVE  BridgeSound(b') /\ Polled(b')
PROOF
  <1>1. BridgeSound(b) /\ Polled(b) /\ b \in Bridges
    BY DEF BridgeInv, BridgeSound
  <1>2. CASE \/ Bridge!FirstDataTimeout \/ Bridge!SendStalled \/ Bridge!DisconnectWait
             \/ Bridge!PongMissing \/ Bridge!ExecTimeout
    <2>1. PICK t \in Bridge!Timers \ {"poll"}, code \in Codes \ {"none"},
               reason \in Reasons :
            b' \in Bridge!Complete(Bridge!Cancel(b, {t}), code, reason)
      BY <1>2 DEF Bridge!FirstDataTimeout, Bridge!SendStalled,
                  Bridge!DisconnectWait, Bridge!PongMissing,
                  Bridge!ExecTimeout, Bridge!Timers, Codes, Reasons
    <2>2. BridgeSound(Bridge!Cancel(b, {t})) /\ Polled(Bridge!Cancel(b, {t}))
      BY <1>1, CancelLemma DEF BridgeKept
    <2>3. QED BY <2>1, <2>2, CompleteLemma DEF BridgeKept
  <1>3. CASE Bridge!DrainStalled
    <2> DEFINE d == [b EXCEPT !.code = "125", !.reason = "timeout", !.exit = "125"]
    <2>1. "drain" \in b.timers /\ b' = Bridge!Cleanup(d)
      BY <1>3 DEF Bridge!DrainStalled, Bridge!Fires
    <2>2. /\ ~b.closed /\ ~b.finished /\ b.exit = "none"
          /\ b.record \in {Bridge!NotOpened, Bridge!Open, <<"null", "proxy_stop">>}
      BY <1>1, <2>1 DEF BridgeSound, BridgeTold
    <2>3. d \in Bridges
      <3>1. "125" \in Codes /\ "timeout" \in Reasons
        BY DEF Codes, Reasons
      <3>2. QED BY <1>1, <3>1 DEF Bridges
    <2>4. /\ d.record = b.record
          /\ d.closed = b.closed
          /\ d.code = "125"
          /\ d.reason = "timeout"
      BY <1>1 DEF Bridges
    <2> DEFINE r == Bridge!Recorded(d, "125", "timeout")
               lost == r.lost \/ d.output > 0
    <2>5. /\ r \in Bridges /\ r = [d EXCEPT !.record = r.record]
          /\ r.record = IF b.record = Bridge!Open THEN <<"125", "timeout">> ELSE b.record
      <3>1. "125" \in Codes /\ "timeout" \in Reasons
        BY DEF Codes, Reasons
      <3> HIDE DEF d
      <3>2. QED BY <2>3, <2>4, <3>1, RecordedLemma
    <2>6. b' = [r EXCEPT !.closed = TRUE, !.timers = {}, !.pending = 0, !.setup = FALSE,
                         !.output = 0, !.lost = lost, !.ws = "gone"]
      BY <2>1, <2>2, <2>4 DEF Bridge!Cleanup
    <2>7. lost \in BOOLEAN
      OBVIOUS
    <2> HIDE DEF r, lost
    <2>8. b' \in Bridges
      BY <2>5, <2>6, <2>7, GoneLemma
    <2>9. /\ b'.closed /\ b'.timers = {} /\ b'.output = 0 /\ b'.exit = "125"
          /\ b'.reason = "timeout" /\ b'.code = "125" /\ b'.ws = "gone"
          /\ b'.record \in {Bridge!NotOpened, <<"125", "timeout">>, <<"null", "proxy_stop">>}
      BY ZenonT(60), <1>1, <2>2, <2>5, <2>6 DEF Bridges
    <2>10. /\ b'.finished = b.finished /\ b'.eof = b.eof /\ b'.kind = b.kind
           /\ b'.inputEnded = b.inputEnded /\ b'.portal = b.portal /\ b'.size = b.size
           /\ b'.resize = b.resize
      BY ZenonT(60), <1>1, <2>5, <2>6 DEF Bridges
    <2>11. b'.record # Bridge!Open
      BY <2>9 DEF Bridge!Open, Bridge!NotOpened
    <2>12. BridgeTold(b')
      BY <2>2, <2>9, <2>10, <2>11 DEF BridgeTold
    <2>13. Traced(b')
      BY <1>1, <2>9, <2>10 DEF BridgeSound, Traced
    <2>14. Polled(b')
      BY <2>9 DEF Polled, Bridge!Live
    <2>15. QED BY <2>8, <2>12, <2>13, <2>14 DEF BridgeSound
  <1>4. CASE Bridge!ForceClose
    BY <1>1, <1>4, ClosedLemma DEF Bridge!ForceClose, BridgeKept
  <1>5. QED BY <1>2, <1>3, <1>4

\* The timers after which a bridge goes on.
LEMMA TimerLemma ==
  ASSUME BridgeInstance, BridgeInv,
         Bridge!Poll \/ Bridge!EofQuiet \/ Bridge!EofDeadline \/ Bridge!Ping
  PROVE  BridgeSound(b') /\ Polled(b')
PROOF
  <1>1. BridgeSound(b) /\ Polled(b) /\ b \in Bridges
    BY DEF BridgeInv, BridgeSound
  <1>2. CASE Bridge!Poll
    <2>1. b' = Bridge!FlushInput(Bridge!Cancel(b, {"poll"}))
      BY <1>2 DEF Bridge!Poll
    <2>2. QED BY <1>1, <2>1, CancelLemma, FlushInputLemma
  <1>3. CASE Bridge!EofQuiet \/ Bridge!EofDeadline
    <2>1. PICK t \in {"eofQuiet", "eofDeadline"} : Bridge!EofDue(t)
      BY <1>3 DEF Bridge!EofQuiet, Bridge!EofDeadline
    <2> DEFINE d == [b EXCEPT !.eof = "due"]
    <2>2. \/ b' = Bridge!Cancel(b, {t})
          \/ b' = Bridge!FlushInput(Bridge!Cancel(d, {"eofQuiet", "eofDeadline"}))
      BY <2>1 DEF Bridge!EofDue
    <2>3. b.eof # "no"
      BY <1>1, <2>1 DEF Bridge!EofDue, Bridge!Fires, BridgeSound, Traced
    <2>4. d \in Bridges
      BY <1>1 DEF Bridges
    <2>5. BridgeTold(d) /\ Traced(d)
      BY <1>1, <2>3 DEF BridgeSound, BridgeTold, Traced, Bridges
    <2>6. QED BY <1>1, <2>2, <2>4, <2>5, CancelLemma, FlushInputLemma
       DEF BridgeSound, BridgeKept
  <1>4. CASE Bridge!Ping
    <2>1. b' = Bridge!Arm(b, {"pong"}) /\ b.ws = "open" /\ "ping" \in b.timers
      BY <1>4 DEF Bridge!Ping, Bridge!Fires
    <2> DEFINE d == [b EXCEPT !.timers = @ \cup {"pong"}]
    <2>2. d \in Bridges
      BY <1>1 DEF Bridges, Bridge!Timers
    <2>3. BridgeTold(d) /\ Traced(d) /\ Polled(d)
      BY <1>1, <2>1 DEF BridgeSound, BridgeTold, Traced, Polled, Bridge!Live,
                        Bridge!Frames, Bridges
    <2>4. QED BY <2>1, <2>2, <2>3 DEF BridgeSound, Bridge!Arm
  <1>5. QED BY <1>2, <1>3, <1>4

\* Every step.
LEMMA BridgeNext ==
  ASSUME BridgeInstance, BridgeInv, [Bridge!Next]_(Bridge!vars)
  PROVE  BridgeInv'
PROOF
  <1>1. BridgeSound(b') /\ Polled(b')
    <2>1. CASE Bridge!Next
      BY <2>1, BeginLemma, SocketLemma, PortalLemma, ClientLemma, EndLemma,
         DeadlineLemma, TimerLemma DEF Bridge!Next
    <2>2. CASE UNCHANGED Bridge!vars
      BY <2>2 DEF Bridge!vars, BridgeInv
    <2>3. QED BY <2>1, <2>2
  <1>2. QED BY <1>1 DEF BridgeInv

\* The invariant of every behaviour.
LEMMA BridgeInvariance ==
  ASSUME BridgeInstance PROVE Bridge!Spec => []BridgeInv
PROOF
  <1>1. Bridge!Init => BridgeInv
    BY NewLemma DEF Bridge!Init, BridgeInv, BridgeSound
  <1>2. BridgeInv /\ [Bridge!Next]_(Bridge!vars) => BridgeInv'
    BY BridgeNext
  <1>3. QED BY <1>1, <1>2, PTL DEF Bridge!Spec

\* A bridge beside the other parts behaves as its module says.
LEMMA SessionsIsBridge == SessionsSpec => Bridge!Spec
PROOF
  <1>1. SessionsInit => Bridge!Init
    BY DEF SessionsInit
  <1>2. [SessionsNext]_<<part, vars, b, admission, endpoint>>
          => [Bridge!Next]_(Bridge!vars)
    BY DEF SessionsNext, Bridge!vars
  <1>3. QED BY <1>1, <1>2, PTL DEF SessionsSpec, Bridge!Spec

-----------------------------------------------------------------------------
\* The history holds what the client was told, and output is lost only if the
\* client is told so, in whatever order the socket, the client and a dozen
\* timers end a bridge.
THEOREM BridgeTellsExit ==
  ASSUME BridgeInstance
  PROVE  /\ Bridge!Spec => []Bridge!ExitIsTold
         /\ SessionsSpec => []ExitIsTold
PROOF
  <1>1. BridgeInv => Bridge!ExitIsTold
    BY DEF BridgeInv, BridgeSound, BridgeTold, Bridge!ExitIsTold
  <1>2. Bridge!Spec => []Bridge!ExitIsTold
    BY <1>1, BridgeInvariance, PTL
  <1>3. QED BY <1>2, SessionsIsBridge, PTL DEF ExitIsTold

\* Whatever can be sent to the portal and is not is being polled for: no frame,
\* size or disconnect waits for an event that may not come.
THEOREM BridgePollsWork ==
  ASSUME BridgeInstance
  PROVE  /\ Bridge!Spec => []Bridge!WorkIsPolled
         /\ SessionsSpec => []WorkIsPolled
PROOF
  <1>1. BridgeInv => Bridge!WorkIsPolled
    BY DEF BridgeInv, Polled, Bridge!WorkIsPolled
  <1>2. Bridge!Spec => []Bridge!WorkIsPolled
    BY <1>1, BridgeInvariance, PTL
  <1>3. QED BY <1>2, SessionsIsBridge, PTL DEF WorkIsPolled
=============================================================================
