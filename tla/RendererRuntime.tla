--------------------------- MODULE RendererRuntime ---------------------------
(***************************************************************************)
(* What the window knows of the program (RuntimeContext.jsx, with the draft  *)
(* of SettingsView.jsx and the navigation of App.jsx), and what the program   *)
(* knows of the window's draft (app-controller.js: set-dirty, confirm,        *)
(* consume).                                                               *)
(*                                                                         *)
(* Snapshots and statistics come as events and as answers, in any order.      *)
(* The window tells each change of its draft in a call; calls arrive in       *)
(* order, their answers some time later.  An operation that would lose a     *)
(* draft asks first, and consumes the draft at its end; a save asks nothing   *)
(* and consumes nothing.  The user goes to the settings and leaves them, and  *)
(* what the view that was left had begun comes to nothing.  The document may  *)
(* be loaded anew at any time, while operations of the old one go on.         *)
(*                                                                         *)
(* Abstracted: of a snapshot only revision and scope; statistics are sampled  *)
(* with every snapshot and numbered like it; rates; what a draft contains; of *)
(* the views only the settings, the one with a draft; the parts of a save      *)
(* (profile, program, password), each of which is a Save of its own.          *)
(***************************************************************************)
EXTENDS Naturals, Sequences

CONSTANTS
  Profiles,      \* a scope is a profile and an epoch
  MaxRevision,   \* bound: snapshots
  MaxEdits,      \* bound: edits of a draft
  MaxDocs,       \* bound: documents
  MaxViews,      \* bound: settings opened in a document
  MaxCalls       \* bound: calls under way when the user does something

VARIABLES
  server,   \* the application controller; given: the edits the user gave up
            \* there; settled: those saved, or given up on leaving the view
  doc,      \* the document in the window
  calls,    \* calls of the window that have not arrived
  task      \* the operation of the controller

vars == <<server, doc, calls, task>>

Newer(a, b) == IF a < b THEN b ELSE a
NoTask == [at |-> "none"]
Scope(n) == server.published[n]
Now == Scope(Len(server.published))
Profile(scope) == scope[1]

-----------------------------------------------------------------------------
(* The draft: told by the document, asked about and consumed by operations.  *)

\* A report of the draft; wanted: who waits for the answer.
Report(scope, d, wanted) ==
  [kind |-> "dirty", scope |-> scope, dirty |-> d.dirty, revision |-> d.revision,
   edit |-> d.edit, doc |-> doc.id, wanted |-> wanted]

\* An answer reaches only the document that called.
Answered(call, ok) ==
  IF call.wanted # "nobody" /\ call.doc = doc.id
  THEN [doc EXCEPT !.answer = [to |-> call.wanted, ok |-> ok]] ELSE doc

\* set-dirty accepts a report for its scope that is not older than the last.
Accepts(call) == call.scope = Now /\ call.revision >= server.draft.revision

SetDirty ==
  LET call == Head(calls)
  IN  /\ calls # <<>> /\ call.kind = "dirty" /\ calls' = Tail(calls)
      /\ server' = IF ~Accepts(call) THEN server
                   ELSE [server EXCEPT !.draft = [dirty |-> call.dirty, edit |-> call.edit,
                                       revision |-> call.revision, doc |-> call.doc]]
      /\ doc' = Answered(call, Accepts(call))
      /\ UNCHANGED task

\* confirm: it asks if there is a draft, or for another reason.
Confirm(owner, view) ==
  \E asks \in BOOLEAN :
    /\ server.draft.dirty => asks
    /\ task' = [at |-> IF asks THEN "asks" ELSE "works", doc |-> owner, by |-> view,
                about |-> server.draft]

\* An operation of a view of the document, or of the menu and the tray (0).
Act ==
  LET call == Head(calls)
  IN  /\ calls # <<>> /\ call.kind = "act" /\ calls' = Tail(calls)
      /\ IF task = NoTask /\ call.scope = Now THEN Confirm(call.doc, call.by) ELSE UNCHANGED task
      /\ UNCHANGED <<server, doc>>
ActOfMenu == task = NoTask /\ Confirm(0, 0) /\ UNCHANGED <<server, doc, calls>>

\* save-settings, save-app-settings, save-credentials of the same account: not
\* while an operation works; all of the draft is saved, or not all.
SaveSettings ==
  LET call == Head(calls)
  IN  /\ calls # <<>> /\ call.kind = "save" /\ calls' = Tail(calls)
      /\ \/ /\ task = NoTask /\ call.scope = Now
            /\ server' = [server EXCEPT !.settled = @ \cup {call.edit}]
            /\ doc' = Answered(call, TRUE)
         \/ doc' = Answered(call, FALSE) /\ UNCHANGED server
      /\ UNCHANGED task

\* assertToken: another revision of the draft ends the operation.
Current == server.draft.revision = task.about.revision

UserAnswers ==
  /\ task.at = "asks"
  /\ \/ /\ Current /\ task' = [task EXCEPT !.at = "works"]
        /\ server' = [server EXCEPT !.given = @ \cup {task.about.edit}]
     \/ task' = NoTask /\ UNCHANGED server
  /\ UNCHANGED <<doc, calls>>

\* publish, of the operation or of anything else; an operation changes the
\* scope.
Publish ==
  /\ Len(server.published) < MaxRevision
  /\ \/ server' = [server EXCEPT !.published = Append(@, Now)] /\ UNCHANGED task
     \/ /\ task.at = "works" /\ Current
        /\ \E p \in Profiles :
             server' = [server EXCEPT !.published = Append(@, <<p, Now[2] + 1>>)]
        /\ UNCHANGED task
  /\ UNCHANGED <<doc, calls>>

\* consume; the answer names the revision, and counts for the view that asked.
Consume ==
  /\ task.at = "works" /\ task' = NoTask
  /\ IF Current
     THEN /\ server' = [server EXCEPT !.draft.dirty = FALSE]
          /\ doc' = IF task.doc = doc.id /\ task.by = doc.view /\ doc.view # 0
                    THEN [doc EXCEPT !.consumed = task.about] ELSE doc
     ELSE UNCHANGED <<server, doc>>
  /\ UNCHANGED calls

-----------------------------------------------------------------------------
(* The document.                                                           *)

Clean == [dirty |-> FALSE, revision |-> 0, edit |-> 0]
NoAnswer == [to |-> "nobody", ok |-> FALSE]

\* latest, shown, stats, pending: numbers of snapshots and of samples, 0 for
\* none.  shown is what was rendered last, and with it the effects that follow;
\* asked is the snapshot at which the statistics were asked for whose answer still
\* counts (statsRequest is the number of that question).  view is the number of the
\* settings view on the screen, 0 while another one is there (views: how many there
\* were); awaiting: the profile was not found in the list of profiles yet; by is the
\* view that began the action.
Loaded(id) ==
  [id |-> id, since |-> Len(server.published), ready |-> FALSE, boot |-> "none", next |-> Clean,
   pending |-> 0, latest |-> 0, shown |-> 0, draft |-> Clean, answer |-> NoAnswer,
   stats |-> 0, loading |-> TRUE, asked |-> 0,
   view |-> 0, views |-> 0, awaiting |-> TRUE,
   action |-> "none", from |-> 0, by |-> 0, consumed |-> Clean, reset |-> 0]

\* accept, once the draft is ready.  A new profile has no draft; a draft is
\* told anew for a new scope.  Statistics of the old scope go.
Accepted(d, n) ==
  LET changedScope == d.latest = 0 \/ Scope(n) # Scope(d.latest)
      changedProfile == d.latest # 0 /\ Profile(Scope(n)) # Profile(Scope(d.latest))
      a == [d EXCEPT !.latest = n,
                     !.draft.dirty = @ /\ ~changedProfile]
      b == [a EXCEPT !.stats = 0, !.asked = 0, !.loading = TRUE]
  IN  IF n <= d.latest THEN [doc |-> d, call |-> <<>>]
      ELSE IF ~changedScope THEN [doc |-> a, call |-> <<>>]
      ELSE [doc |-> b,
            call |-> IF b.draft.dirty \/ changedProfile
                     THEN <<Report(Scope(n), b.draft, "nobody")>> ELSE <<>>]

\* A plausible error: the last to come is shown.
DeliverAny(n) ==
  /\ n \in doc.since..Len(server.published)
  /\ IF doc.ready
     THEN doc' = Accepted([doc EXCEPT !.latest = IF n < @ THEN 0 ELSE @], n).doc /\ UNCHANGED calls
     ELSE doc' = [doc EXCEPT !.pending = Newer(@, n)] /\ UNCHANGED calls
  /\ UNCHANGED <<server, task>>

\* A snapshot comes, as an event or as the answer to a question for it.
Deliver(n) ==
  /\ n \in doc.since..Len(server.published)
  /\ IF doc.ready
     THEN LET a == Accepted(doc, n) IN doc' = a.doc /\ calls' = calls \o a.call
     ELSE doc' = [doc EXCEPT !.pending = Newer(@, n)] /\ UNCHANGED calls
  /\ UNCHANGED <<server, task>>

\* prepareDraft: it asks for the revision the program has, ...
Bootstrap ==
  /\ ~doc.ready /\ doc.boot = "none"
  /\ calls' = Append(calls, [kind |-> "info", doc |-> doc.id])
  /\ doc' = [doc EXCEPT !.boot = "info"]
  /\ UNCHANGED <<server, task>>

\* A plausible error: the revision is taken over, not advanced.
Advanced(revision) == revision

\* ... goes beyond it, since an old document's confirmed action must not consume
\* a draft of this one, ...
NextRevision(revision) == Newer(revision, doc.draft.revision) + 1

\* runtime:get-info, and what prepareDraft does with the answer.
Info ==
  LET draft == [doc.draft EXCEPT !.revision = NextRevision(server.draft.revision)]
  IN  /\ calls # <<>> /\ Head(calls).kind = "info"
      /\ IF Head(calls).doc = doc.id
         THEN /\ doc' = [doc EXCEPT !.boot = "ack", !.next = draft]
              /\ calls' = Append(Tail(calls), Report(Now, draft, "boot"))
         ELSE calls' = Tail(calls) /\ UNCHANGED doc
      /\ UNCHANGED <<server, task>>

\* ... and is ready when that was accepted; else somebody tries again.
Ready ==
  LET a == [doc EXCEPT !.answer = NoAnswer, !.boot = "none"]
      b == [a EXCEPT !.ready = TRUE, !.draft = doc.next, !.next = Clean, !.pending = 0]
      c == Accepted(b, doc.pending)
  IN  /\ doc.answer.to = "boot"
      /\ IF doc.answer.ok THEN doc' = c.doc /\ calls' = calls \o c.call
         ELSE doc' = a /\ UNCHANGED calls
      /\ UNCHANGED <<server, task>>

\* The view on the screen is left, or another takes its place: what it had has
\* gone, and it tells so.
Gone(d, view) ==
  [d EXCEPT !.view = view, !.views = Newer(@, view), !.draft.dirty = FALSE,
            !.consumed = Clean, !.reset = 0]

\* React renders the latest snapshot; the effect of a new scope asks for
\* statistics, and a view of another profile starts clean.
Render ==
  LET changed == doc.shown = 0 \/ Scope(doc.shown) # Scope(doc.latest)
      profile == doc.shown = 0 \/ Profile(Scope(doc.shown)) # Profile(Scope(doc.latest))
      a == [doc EXCEPT !.shown = doc.latest, !.awaiting = @ \/ profile]
      b == [a EXCEPT !.asked = doc.latest, !.loading = TRUE]
      remount == profile /\ doc.view # 0
      c == Gone(b, doc.views + 1)
  IN  /\ doc.latest # doc.shown
      /\ doc' = IF remount THEN c ELSE IF changed THEN b ELSE a
      /\ calls' = IF remount THEN Append(calls, Report(Scope(doc.latest), c.draft, "nobody"))
                  ELSE calls
      /\ UNCHANGED <<server, task>>

\* A save of the view on the screen, whose fields are disabled meanwhile.
Saving == doc.action \in {"save", "saving"} /\ doc.by = doc.view

\* handleNavigate, to the settings, ...
Enter ==
  /\ doc.shown # 0 /\ doc.view = 0 /\ doc.views < MaxViews /\ Len(calls) < MaxCalls
  /\ doc' = Gone(doc, doc.views + 1)
  /\ calls' = Append(calls, Report(Scope(doc.latest), doc'.draft, "nobody"))
  /\ UNCHANGED <<server, task>>

\* ... and away from them: not while the view is busy, and not with a draft unless
\* the user agrees.
Leave ==
  /\ doc.view # 0 /\ ~Saving /\ doc.reset = 0 /\ Len(calls) < MaxCalls
  /\ server' = IF doc.draft.dirty
               THEN [server EXCEPT !.settled = @ \cup {doc.draft.edit}] ELSE server
  /\ doc' = Gone(doc, 0)
  /\ calls' = Append(calls, Report(Scope(doc.latest), doc'.draft, "nobody"))
  /\ UNCHANGED task

\* The profile is found in the list; the setup of a new one opens, whatever was on
\* the screen.
ProfilesLoaded ==
  LET a == [doc EXCEPT !.awaiting = FALSE]
  IN  /\ doc.shown # 0 /\ doc.awaiting
      /\ \/ doc' = a /\ UNCHANGED calls
         \/ /\ doc.view # 0 /\ doc' = Gone(a, 0)
            /\ calls' = Append(calls, Report(Scope(doc.latest), doc'.draft, "nobody"))
      /\ UNCHANGED <<server, task>>

\* acceptStats
AcceptStats(d, n) ==
  IF d.latest # 0 /\ Scope(n) = Scope(d.latest) /\ n > d.stats
  THEN [d EXCEPT !.stats = n, !.loading = FALSE] ELSE d

StatsEvent(n) ==
  /\ n \in doc.since..Len(server.published)
  /\ doc' = AcceptStats(doc, n) /\ UNCHANGED <<server, calls, task>>

\* The answer to retryStats, or its failure.
StatsAnswer(n) ==
  LET a == [doc EXCEPT !.asked = 0]
      b == IF n = 0 THEN a ELSE AcceptStats(a, n)
  IN  /\ doc.asked # 0 /\ n \in {0} \cup doc.asked..Len(server.published)
      /\ doc' = IF Scope(doc.asked) = Scope(doc.latest) THEN [b EXCEPT !.loading = FALSE] ELSE a
      /\ UNCHANGED <<server, calls, task>>

\* The user edits the draft, or takes an edit back: markEdited, reportDraft.
Edit ==
  \E dirty \in BOOLEAN :
    LET d == [dirty |-> dirty, revision |-> doc.draft.revision + 1, edit |-> server.edits + 1]
    IN  /\ doc.view # 0 /\ ~Saving /\ server.edits < MaxEdits /\ Len(calls) < MaxCalls
        /\ server' = [server EXCEPT !.edits = @ + 1]
        /\ doc' = [doc EXCEPT !.draft = d]
        /\ calls' = Append(calls, Report(Scope(doc.latest), d, "nobody"))
        /\ UNCHANGED task

\* runAction, and handleSave of a draft: the draft is told before the operation is
\* called for, ...
RunAction ==
  \E kind \in {"act", "save"} :
    /\ doc.shown # 0 /\ Len(calls) < MaxCalls
    /\ doc.action = "none" /\ doc.consumed = Clean /\ doc.reset = 0
    /\ kind = "save" => doc.view # 0 /\ doc.draft.dirty
    /\ doc' = [doc EXCEPT !.action = kind, !.from = doc.latest, !.by = doc.view]
    /\ calls' = Append(calls, Report(Scope(doc.latest), doc.draft, "flush"))
    /\ UNCHANGED <<server, task>>

Unchanged == Scope(doc.from) = Scope(doc.latest)
Done == [doc EXCEPT !.answer = NoAnswer, !.action = "none", !.from = 0, !.by = 0]

\* ... and it is not called for in another scope, nor if an earlier report that
\* had no answer yet was refused, ...
Flushed ==
  /\ doc.answer.to = "flush" /\ doc.action = "act" /\ doc' = Done
  /\ \/ UNCHANGED calls
     \/ /\ doc.answer.ok /\ Unchanged
        /\ calls' = Append(calls, [kind |-> "act", doc |-> doc.id, by |-> doc.by,
                                   scope |-> Scope(doc.from)])
  /\ UNCHANGED <<server, task>>

\* ... nor, to save, once the view has gone.
SendSave ==
  /\ doc.answer.to = "flush" /\ doc.action = "save"
  /\ doc.answer.ok /\ Unchanged /\ doc.by = doc.view
  /\ doc' = [doc EXCEPT !.answer = NoAnswer, !.action = "saving"]
  /\ calls' = Append(calls, [kind |-> "save", doc |-> doc.id, scope |-> Scope(doc.from),
                             edit |-> doc.draft.edit, wanted |-> "save"])
  /\ UNCHANGED <<server, task>>

\* The end of handleSave: the view, if it is there, tells what remains.
Saved ==
  LET remaining == [doc.draft EXCEPT !.dirty =
                      @ /\ ~(doc.action = "saving" /\ doc.answer.ok /\ Unchanged)]
      there == doc.by = doc.view /\ Profile(Scope(doc.from)) = Profile(Scope(doc.latest))
  IN  /\ \/ doc.answer.to = "save" /\ doc.action = "saving"
         \/ doc.answer.to = "flush" /\ doc.action = "save"
      /\ doc' = IF there THEN [Done EXCEPT !.draft = remaining] ELSE Done
      /\ calls' = IF there THEN Append(calls, Report(Scope(doc.latest), remaining, "nobody"))
                  ELSE calls
      /\ UNCHANGED <<server, task>>

\* consumeDraft: if the draft is the one consumed, load anew; ...
ConsumeDraft ==
  /\ doc.consumed # Clean /\ doc.reset = 0
  /\ doc' = IF doc.consumed.revision = doc.draft.revision THEN [doc EXCEPT !.reset = doc.latest]
            ELSE [doc EXCEPT !.consumed = Clean]
  /\ UNCHANGED <<server, calls, task>>

\* ... if nothing has changed since, ...
Unedited ==
  /\ Profile(Scope(doc.reset)) = Profile(Scope(doc.latest))
  /\ doc.draft.revision = doc.consumed.revision

\* ... the view is as the program has it.
Reset ==
  LET clean == [doc.draft EXCEPT !.dirty = FALSE]
      a == [doc EXCEPT !.reset = 0, !.consumed = Clean]
  IN  /\ doc.reset # 0
      /\ IF Unedited
         THEN /\ doc' = [a EXCEPT !.draft = clean]
              /\ calls' = Append(calls, Report(Scope(doc.latest), clean, "nobody"))
         ELSE doc' = a /\ UNCHANGED calls
      /\ UNCHANGED <<server, task>>

\* The document is loaded anew.
Reload ==
  /\ doc.id < MaxDocs /\ doc' = Loaded(doc.id + 1)
  /\ UNCHANGED <<server, calls, task>>

Next ==
  \/ SetDirty \/ Act \/ ActOfMenu \/ SaveSettings \/ UserAnswers \/ Publish \/ Consume
  \/ \E n \in 1..MaxRevision : Deliver(n) \/ StatsEvent(n)
  \/ \E n \in 0..MaxRevision : StatsAnswer(n)
  \/ Bootstrap \/ Info \/ Ready \/ Render \/ Enter \/ Leave \/ ProfilesLoaded \/ Edit
  \/ RunAction \/ Flushed \/ SendSave \/ Saved
  \/ ConsumeDraft \/ Reset \/ Reload

Init ==
  /\ server = [published |-> <<<<CHOOSE p \in Profiles : TRUE, 0>>>>, edits |-> 0,
               given |-> {}, settled |-> {},
               draft |-> [dirty |-> FALSE, revision |-> 0, edit |-> 0, doc |-> 0]]
  /\ doc = Loaded(1) /\ calls = <<>> /\ task = NoTask

Spec == Init /\ [][Next]_vars

-----------------------------------------------------------------------------
TypeOK ==
  /\ doc.latest \in 0..Len(server.published) /\ doc.shown <= doc.latest
  /\ doc.stats \in 0..Len(server.published)
  /\ task.at \in {"none", "asks", "works"}

\* What the window shows never goes back to an older snapshot or sample, the
\* statistics it shows are of the scope it shows, and it waits for statistics
\* only while somebody will bring them: an answer that counts is to come, or the
\* effect that asks for one.
ViewIsCurrent ==
  /\ [](doc.stats # 0 => Scope(doc.stats) = Scope(doc.latest))
  /\ [](doc.loading /\ doc.latest # 0 =>
          \/ doc.asked # 0
          \/ doc.shown = 0 \/ Scope(doc.shown) # Scope(doc.latest))
  /\ [][doc'.id = doc.id =>
          /\ doc'.latest >= doc.latest
          /\ doc'.latest # 0 /\ doc.latest # 0 /\ server'.published[doc'.latest] = Scope(doc.latest)
               => doc'.stats >= doc.stats]_vars

\* An operation consumes only the draft it was asked about, of the same
\* document ("an old document's confirmed action must not consume a new
\* document's draft"); and the settings view gives up edits only if the user has
\* agreed to just these, in the program's dialog or on leaving, or if they are
\* saved, or to another profile, or when the setup of a new profile opens.
EditsNeedConsent ==
  [][/\ task.at = "works" /\ task' = NoTask /\ Current =>
          /\ server.draft.doc = task.about.doc
          /\ server.draft.dirty => server.draft.edit \in server.given
     /\ doc'.id = doc.id /\ doc.draft.dirty /\ ~doc'.draft.dirty =>
          \/ doc'.draft.edit # doc.draft.edit
          \/ doc.draft.edit \in server'.given \cup server'.settled
          \/ Profile(Scope(doc'.latest)) # Profile(Scope(doc.latest))
          \/ Profile(Scope(doc'.shown)) # Profile(Scope(doc.shown))
          \/ doc.awaiting /\ ~doc'.awaiting]_vars
=============================================================================
