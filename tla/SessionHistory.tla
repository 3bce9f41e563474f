---------------------------- MODULE SessionHistory ----------------------------
(***************************************************************************)
(* The history of SSH sessions (electron/session-history-store.js): records *)
(* in memory, written to one JSON file after every session that ends, every *)
(* clearing, and five seconds after other changes.                         *)
(*                                                                         *)
(* Every operation is synchronous, so it is one step; what its file         *)
(* operations may come to makes the set of its outcomes.  The file may be   *)
(* unreadable for a time, damaged, or refuse to be written; the program may *)
(* end between any two operations.                                         *)
(*                                                                         *)
(* Abstracted: counters, times and reasons of a record.  A sequence of      *)
(* records is in the order _prune sorts them in: what happened to a record  *)
(* last moves it to the end.  No record grows older than the retention.     *)
(***************************************************************************)
EXTENDS Naturals, Sequences, FiniteSets

CONSTANTS
  Profiles,      \* the profiles sessions belong to
  MaxSessions,   \* MAX_HISTORY_SESSIONS
  MaxIds         \* bound: sessions in a behaviour

VARIABLES
  up,        \* the program runs
  h,         \* the store, its file and the backup of the file
  next,      \* the next session
  erased,    \* sessions that this process was asked to clear
  confirmed  \* those of them whose clearing was reported done

vars == <<up, h, next, erased, confirmed>>

Absent == [kind |-> "absent", records |-> <<>>]
Damaged == [kind |-> "corrupt", records |-> <<>>]
Document(records) == [kind |-> "document", records |-> records]

\* A store that was just created beside a file.
New(file, backup) ==
  [sessions |-> <<>>, registered |-> {}, cleared |-> {}, failed |-> FALSE,
   dirty |-> FALSE, timer |-> FALSE, needsRead |-> FALSE, pending |-> FALSE,
   file |-> file, backup |-> backup]

Ids(records) == {records[i].id : i \in DOMAIN records}
OpenIds(records) == {records[i].id : i \in {i \in DOMAIN records : records[i].open}}
IdsOf(records, profiles) ==
  {records[i].id : i \in {i \in DOMAIN records : records[i].profile \in profiles}}

Before(places, i) == Cardinality({j \in places : j < i})

\* The other records in their order; no two records have one id.
Without(records, ids) ==
  LET left == {i \in DOMAIN records : records[i].id \notin ids}
  IN  [k \in 1..Cardinality(left) |->
         records[CHOOSE i \in left : Before(left, i) + 1 = k]]

\* _prune: the oldest records that have ended give way.
Pruned(records) ==
  LET ended == {i \in DOMAIN records : ~records[i].open}
      old == {i \in ended : Before(ended, i) + MaxSessions < Len(records)}
  IN  Without(records, {records[i].id : i \in old})

-----------------------------------------------------------------------------
(* What the operations come to: sets of stores.                            *)

\* flush: the file may be replaced, not replaced, or replaced with an error.
Flush(s) ==
  LET p == [s EXCEPT !.timer = FALSE, !.sessions = Pruned(@),
                     !.dirty = @ \/ Pruned(s.sessions) # s.sessions]
      written == [p EXCEPT !.file = Document(p.sessions)]
  IN  IF p.needsRead \/ p.pending \/ ~(p.dirty \/ p.failed) THEN {p}
      ELSE {[written EXCEPT !.dirty = FALSE, !.cleared = {}, !.failed = FALSE],
            [written EXCEPT !.dirty = TRUE, !.failed = TRUE],
            [p EXCEPT !.dirty = TRUE, !.failed = TRUE]}

\* _load of a damaged file: it is copied before it is replaced.  Text that is
\* not UTF-8 marks the store dirty even if the copy fails.
LoadCorrupt(s) ==
  LET read == [s EXCEPT !.needsRead = FALSE]
      kept == [read EXCEPT !.pending = TRUE, !.failed = TRUE]
  IN  Flush([read EXCEPT !.backup = TRUE, !.dirty = TRUE])
        \cup {kept, [kept EXCEPT !.dirty = TRUE]}

\* _load of a document: records of cleared profiles are left out, and sessions
\* that an earlier process left open were interrupted.
LoadDocument(s) ==
  LET old == s.file.records
      taken == Without(old, IdsOf(old, s.cleared) \cup Ids(s.sessions))
      ended == Without(taken, OpenIds(taken))
      open == Without(taken, Ids(ended))
      interrupted == [i \in DOMAIN open |-> [open[i] EXCEPT !.open = FALSE]]
      merged == ended \o s.sessions \o interrupted
      changed == IdsOf(old, s.cleared) # {} \/ open # <<>> \/ Pruned(merged) # merged
      read == [s EXCEPT !.needsRead = FALSE, !.sessions = Pruned(merged),
                        !.dirty = @ \/ changed]
  IN  IF read.dirty THEN Flush(read) ELSE {read}

Load(s) ==
  LET unread == [s EXCEPT !.needsRead = TRUE, !.failed = TRUE]
  IN  CASE s.file.kind = "absent" -> {[s EXCEPT !.needsRead = FALSE]}
        [] s.file.kind = "corrupt" -> LoadCorrupt(s) \cup {unread}
        [] s.file.kind = "document" -> LoadDocument(s) \cup {unread}

\* retry: read what could not be read, copy what could not be copied, write.
Retry(s) ==
  LET loaded == IF s.needsRead THEN Load(s) ELSE {s}
      Copied(l) == IF ~l.pending THEN {l}
                   ELSE {[l EXCEPT !.pending = FALSE, !.backup = TRUE, !.dirty = TRUE],
                         [l EXCEPT !.failed = TRUE]}
  IN  UNION {Flush(c) : c \in UNION {Copied(l) : l \in loaded}}

-----------------------------------------------------------------------------
Scheduled(s) == [s EXCEPT !.dirty = TRUE, !.timer = TRUE]

\* The store of a new process.
Start ==
  /\ ~up /\ up' = TRUE
  /\ h' \in Load(h)
  /\ UNCHANGED <<next, erased, confirmed>>

\* register: a session opens, unless open sessions alone exceed the limit.
Register(p) ==
  LET all == Append(h.sessions, [id |-> next, profile |-> p, open |-> TRUE])
      kept == Pruned(all)
  IN  /\ up /\ next <= MaxIds /\ next' = next + 1
      /\ h' = IF Len(kept) > MaxSessions
              THEN [h EXCEPT !.sessions = Without(kept, {next}),
                             !.dirty = @ \/ kept # all]
              ELSE Scheduled([h EXCEPT !.sessions = kept, !.registered = @ \cup {next}])
      /\ UNCHANGED <<up, erased, confirmed>>

\* sample: its counters have changed.
Sample(id) ==
  /\ up /\ id \in h.registered
  /\ h' = Scheduled(h)
  /\ UNCHANGED <<up, next, erased, confirmed>>

\* finalize: it ends, and that is written at once.
Finalize(id) ==
  LET record == CHOOSE r \in {h.sessions[i] : i \in DOMAIN h.sessions} : r.id = id
      rest == Without(h.sessions, {id})
  IN  /\ up /\ id \in h.registered
      /\ h' \in Flush([h EXCEPT !.sessions = Append(rest, [record EXCEPT !.open = FALSE]),
                                !.registered = @ \ {id}, !.dirty = TRUE])
      /\ UNCHANGED <<up, next, erased, confirmed>>

\* The sessions of a profile that exist at all, in memory or in the file.
Of(p) == IdsOf(h.sessions, {p}) \cup IdsOf(h.file.records, {p})

\* A plausible error: what could not be read yet is not remembered as cleared.
ClearingMemory(p) ==
  [h EXCEPT !.dirty = TRUE, !.registered = @ \ Of(p),
            !.sessions = Without(@, IdsOf(@, {p}))]

\* The store that clear writes.
Clearing(p) ==
  [h EXCEPT !.cleared = @ \cup {p}, !.dirty = TRUE,
            !.registered = @ \ Of(p),
            !.sessions = Without(@, IdsOf(@, {p}))]

\* clear: the caller takes the error code it returns for the outcome.
Clear(p) ==
  /\ up
  /\ h' \in Flush(Clearing(p))
  /\ erased' = erased \cup Of(p)
  /\ confirmed' = IF h'.failed THEN confirmed ELSE confirmed \cup Of(p)
  /\ UNCHANGED <<up, next>>

\* The timer of _schedule.
Timer ==
  /\ up /\ h.timer
  /\ h' \in Flush(h)
  /\ UNCHANGED <<up, next, erased, confirmed>>

\* history:get, which tries again what has failed before.
Get ==
  LET seen == [h EXCEPT !.sessions = Pruned(@), !.dirty = @ \/ Pruned(h.sessions) # h.sessions]
  IN  /\ up
      /\ h' \in IF seen.failed THEN Retry(seen) ELSE {seen}
      /\ UNCHANGED <<up, next, erased, confirmed>>

\* The process ends: after dispose, or without it.  Only the files are left, and
\* a clearing that was reported as failed need not have happened.
End ==
  /\ up /\ up' = FALSE
  /\ \E s \in Flush(h) \cup {h} : h' = New(s.file, s.backup)
  /\ erased' = confirmed
  /\ UNCHANGED <<next, confirmed>>

Next ==
  \/ Start \/ Timer \/ Get \/ End
  \/ \E p \in Profiles : Register(p) \/ Clear(p)
  \/ \E id \in 1..MaxIds : Sample(id) \/ Finalize(id)

\* The file that an earlier process left, with a session it did not finish.
Left(p) == Document(<<[id |-> 1, profile |-> p, open |-> FALSE],
                      [id |-> 2, profile |-> p, open |-> TRUE]>>)

Init ==
  /\ up = FALSE /\ next = 3 /\ erased = {} /\ confirmed = {}
  /\ \E file \in {Absent, Damaged} \cup {Left(p) : p \in Profiles} : h = New(file, FALSE)

Spec == Init /\ [][Next]_vars

-----------------------------------------------------------------------------
TypeOK ==
  /\ up \in BOOLEAN /\ next \in 3..MaxIds + 1
  /\ erased \subseteq 1..MaxIds /\ confirmed \subseteq erased
  /\ h.registered \subseteq Ids(h.sessions)
  /\ Len(h.sessions) <= MaxSessions + 1

\* No session that was cleared is shown again by the process that was asked to
\* clear it, and none whose clearing was reported done is found by a later one,
\* although the file may be unreadable or refuse to be written meanwhile; and a
\* session is shown as open exactly while it is registered.
ClearedStaysCleared ==
  /\ up => Ids(h.sessions) \cap erased = {}
  /\ (Ids(h.file.records) \cup Ids(h.sessions)) \cap confirmed = {}
  /\ \A i \in DOMAIN h.sessions : h.sessions[i].open => h.sessions[i].id \in h.registered

\* Nothing is lost but what was cleared or had to give way to the limit: memory
\* drops nothing else, a file that was read holds nothing that memory has not
\* dropped, an unread one is not replaced, nor a damaged one before it is copied.
NothingOverwritten ==
  LET gone == erased \cup erased'
      Full == Len(h'.sessions) >= MaxSessions
  IN  /\ up /\ up' => Full \/ Ids(h.sessions) \subseteq Ids(h'.sessions) \cup gone
      /\ h'.file # h.file =>
           /\ h.file.kind = "corrupt" => h'.backup
           /\ \/ Full
              \/ Ids(h.file.records) \subseteq Ids(h'.file.records) \cup gone
              \/ /\ up /\ ~h.needsRead
                 /\ Ids(h.file.records) \cap Ids(h.sessions)
                      \subseteq Ids(h'.file.records) \cup gone

\* The history keeps what it holds and forgets what it was told to forget.
HistoryHolds == [][ClearedStaysCleared' /\ NothingOverwritten]_vars
=============================================================================
