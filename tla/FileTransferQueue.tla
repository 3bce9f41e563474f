------------------------- MODULE FileTransferQueue -------------------------
(***************************************************************************)
(* The queue of file transfers (electron/file-transfer/controller.js): a   *)
(* transfer is chosen in native dialogs, waits in a queue, runs (at most   *)
(* MaxInflight at a time) and stays in a bounded list.                     *)
(*                                                                         *)
(* The whole list belongs to one context: profile, epoch, authentication   *)
(* and cluster (electron/portal-services.js).  The application publishes   *)
(* every change of it in the stretch that makes it, so that the controller *)
(* is told at once; while any other operation runs there is no context.    *)
(* But the dialogs and the transfers are awaited and end when they like.   *)
(*                                                                         *)
(* Abstracted: directions, paths, progress and error codes; a transfer     *)
(* itself is its outcome.  list changes nothing, since the list is adopted *)
(* whenever the context changes (OwnContextOnly).                          *)
(***************************************************************************)
EXTENDS Naturals, FiniteSets

CONSTANTS
  Contexts,      \* the contexts in which transfers may be made
  None,          \* no context, or no dialog
  MaxInflight, MaxQueued, MaxHistory,   \* the limits of the code
  MaxJobs        \* bound on the transfers (not in the code)

ASSUME ContextAssumption == None \notin Contexts
ASSUME LimitAssumption ==
  /\ MaxInflight \in Nat /\ MaxQueued \in Nat /\ MaxHistory \in Nat
  /\ MaxJobs \in Nat

\* Transfers in the order in which they enter the list.
Jobs == 1..MaxJobs
Ended == {"completed", "failed", "cancelled"}
Statuses == {"unlisted", "queued", "running"} \cup Ended

VARIABLES
  context,      \* what getContext returns, or None if it throws
  currentKey,   \* the context of the list
  status,       \* of each transfer; "unlisted" if it is not in the list
  key,          \* the context each transfer was started in
  running,      \* transfers whose execute has not returned
  created,      \* the last transfer that was created
  dialog,       \* the dialog that is open: the context it was opened in,
                \* and whether a confirmation must follow
  disposed

vars == <<context, currentKey, status, key, running, created, dialog, disposed>>

NoDialog == [key |-> None, at |-> "none", overwrite |-> FALSE]

-----------------------------------------------------------------------------
Queued(st) == {j \in Jobs : st[j] = "queued"}
Settled(st, run) == {j \in Jobs : st[j] \in Ended} \ run

\* A transfer whose signal was aborted: cancelled, or cleared from the list.
Aborted(j) == status[j] # "running"

\* pump: queued transfers start in their order while there are free places.
Pumped(st, run) ==
  {j \in Queued(st) :
     Cardinality({i \in Queued(st) : i < j}) + Cardinality(run) < MaxInflight}

\* trim: of the settled transfers only the latest stay in the list.
Trimmed(st, run) ==
  [j \in Jobs |->
     IF /\ j \in Settled(st, run)
        /\ Cardinality({i \in Settled(st, run) : i > j}) >= MaxHistory
     THEN "unlisted" ELSE st[j]]

\* The queue advances from the list st and the transfers run.
Advance(st, run) ==
  LET begun == IF disposed THEN {} ELSE Pumped(st, run)
  IN /\ status' = [j \in Jobs |-> IF j \in begun THEN "running" ELSE st[j]]
     /\ running' = run \cup begun

Cleared == [j \in Jobs |-> "unlisted"]

\* adopt: the list of another context is cleared and its transfers aborted.
Adopted == IF context = currentKey THEN status ELSE Cleared

-----------------------------------------------------------------------------
(* start                                                                   *)

\* start, up to the first dialog; it is refused while a dialog is open or
\* the queue is full.
Open(overwrite) ==
  /\ context # None /\ ~disposed
  /\ dialog = NoDialog
  /\ Cardinality(Queued(Adopted)) < MaxQueued
  /\ dialog' = [key |-> context, at |-> "select", overwrite |-> overwrite]
  /\ status' = Adopted /\ currentKey' = context
  /\ UNCHANGED <<context, key, running, created, disposed>>

\* The dialog is cancelled, or answered in another context than its own.
Dismiss ==
  /\ dialog # NoDialog
  /\ dialog' = NoDialog
  /\ UNCHANGED <<context, currentKey, status, key, running, created, disposed>>

\* A file to be replaced needs a confirmation too.
Selected ==
  /\ dialog.at = "select" /\ dialog.overwrite
  /\ context = dialog.key /\ ~disposed
  /\ dialog' = [dialog EXCEPT !.at = "confirm"]
  /\ UNCHANGED <<context, currentKey, status, key, running, created, disposed>>

Enqueue ==
  /\ created < MaxJobs /\ created' = created + 1
  /\ key' = [key EXCEPT ![created'] = dialog.key]
  /\ Advance([status EXCEPT ![created'] = "queued"], running)
  /\ dialog' = NoDialog
  /\ UNCHANGED <<context, currentKey, disposed>>

Confirmed == dialog.at = "confirm" \/ (dialog.at = "select" /\ ~dialog.overwrite)

\* A plausible error: the answer is not checked against the context.
ChosenAnywhere ==
  /\ Confirmed
  /\ ~disposed
  /\ Cardinality(Queued(status)) < MaxQueued
  /\ Enqueue

\* The last dialog is answered: the transfer enters the list.
Chosen ==
  /\ Confirmed
  /\ context = dialog.key /\ ~disposed
  /\ Cardinality(Queued(status)) < MaxQueued
  /\ Enqueue

-----------------------------------------------------------------------------
(* execute, cancel and the application                                     *)

\* What becomes of a transfer: whatever its outcome, it counts as cancelled
\* if its signal was aborted, and it completes only in its own context; if it
\* has left the list it is forgotten.
Verdict(j, outcome) ==
  IF status[j] = "unlisted" THEN "unlisted"
  ELSE IF Aborted(j) \/ (outcome = "completed" /\ context # key[j])
  THEN "cancelled" ELSE outcome

\* A plausible error: the queue waits for the next start.
EndsWithoutPump(j, outcome) ==
  /\ j \in running
  /\ running' = running \ {j}
  /\ status' = Trimmed([status EXCEPT ![j] = Verdict(j, outcome)], running \ {j})
  /\ UNCHANGED <<context, currentKey, key, created, dialog, disposed>>

Ends(j, outcome) ==
  /\ j \in running
  /\ Advance(Trimmed([status EXCEPT ![j] = Verdict(j, outcome)], running \ {j}),
             running \ {j})
  /\ UNCHANGED <<context, currentKey, key, created, dialog, disposed>>

\* cancel: a transfer that runs keeps its place until it has ended.
Cancel(j) ==
  /\ context # None /\ ~disposed
  /\ Adopted[j] \in {"queued", "running"}
  /\ status' = Trimmed([Adopted EXCEPT ![j] = "cancelled"], running)
  /\ currentKey' = context
  /\ UNCHANGED <<context, key, running, created, dialog, disposed>>

\* A change of the context, and update.
Change(value) ==
  /\ value # context
  /\ context' = value
  /\ IF disposed THEN UNCHANGED <<currentKey, status>>
     ELSE /\ currentKey' = value
          /\ status' = IF value = currentKey THEN status ELSE Cleared
  /\ UNCHANGED <<key, running, created, dialog, disposed>>

Dispose ==
  /\ ~disposed
  /\ disposed' = TRUE
  /\ status' = Cleared /\ currentKey' = None
  /\ UNCHANGED <<context, key, running, created, dialog>>

-----------------------------------------------------------------------------
Init ==
  /\ context \in Contexts \cup {None} /\ currentKey = context
  /\ status = Cleared
  /\ key = [j \in Jobs |-> None]
  /\ running = {} /\ created = 0
  /\ dialog = NoDialog /\ disposed = FALSE

End == \E j \in Jobs, outcome \in Ended : Ends(j, outcome)

Next ==
  \/ (\E overwrite \in BOOLEAN : Open(overwrite))
  \/ Dismiss \/ Selected \/ Chosen \/ End
  \/ \E j \in Jobs : Cancel(j)
  \/ \E value \in Contexts \cup {None} : Change(value)
  \/ Dispose

\* A transfer ends: every request of it has a time-out, and an aborted one
\* is given up.  Nothing forces the user to answer a dialog.
Fairness == \A j \in Jobs : WF_vars(\E outcome \in Ended : Ends(j, outcome))

Spec == Init /\ [][Next]_vars /\ Fairness

-----------------------------------------------------------------------------
\* The shape of the state; only what execute holds is shown as running.
TypeOK ==
  /\ context \in Contexts \cup {None} /\ currentKey \in Contexts \cup {None}
  /\ status \in [Jobs -> Statuses]
  /\ key \in [Jobs -> Contexts \cup {None}]
  /\ running \subseteq Jobs /\ created \in 0..MaxJobs
  /\ \A j \in Jobs : status[j] = "running" => j \in running
  /\ dialog \in [key : Contexts \cup {None}, at : {"none", "select", "confirm"},
                 overwrite : BOOLEAN]
  /\ disposed \in BOOLEAN

\* MAX_INFLIGHT counts the transfers that are really at work, the cancelled
\* ones and those of an earlier context included (execute's finally).
InflightBound == Cardinality(running) <= MaxInflight

\* No place is left idle while a transfer waits: whoever frees a place, or
\* puts a transfer into the queue, lets the queue advance (pump).
NoIdlePlace == Queued(status) # {} => Cardinality(running) >= MaxInflight

\* Both: as many transfers are at work as may be, and no more.
PlacesUsed == InflightBound /\ NoIdlePlace

\* Every transfer in the list was started in the context that the list is
\* for, and that is the context of the application: nothing is ever sent with
\* the credentials of one profile for the list of another (adopt, isCurrent,
\* assertCurrent after each dialog).
OwnContextOnly ==
  ~disposed =>
    /\ currentKey = context
    /\ \A j \in Jobs : status[j] # "unlisted" => key[j] = context
    /\ \A j \in running : Aborted(j) \/ key[j] = context

\* Every transfer in the queue is started, cancelled or cleared some day.
QueueMoves == \A j \in Jobs : status[j] = "queued" ~> status[j] # "queued"
=============================================================================
