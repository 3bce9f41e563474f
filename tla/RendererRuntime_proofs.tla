------------------------ MODULE RendererRuntime_proofs ------------------------
(***************************************************************************)
(* Theorems about the window and what the program knows of its draft       *)
(* (RendererRuntime).                                                      *)
(*                                                                         *)
(* IInv is the inductive invariant.  Of the view: scopes only go           *)
(* forward, and statistics, and the question for them that counts, are of  *)
(* the scope of the latest snapshot.  Of the draft: reports under way are  *)
(* in the order of the drafts they tell, the program's draft comes before  *)
(* all of them, and all of them before the draft of the document; of one   *)
(* revision there is one draft, which only loses its edits.  A document    *)
(* that is not ready has one call under way; an operation is about a draft *)
(* that the program knew, and while that revision lasts it is this draft.  *)
(* Of a save: one is on its way at a time, and what is saved is the draft  *)
(* of the view that sent it while that view is there (Kept).               *)
(***************************************************************************)
EXTENDS RendererRuntime, Integers, SequenceTheorems, TLAPS

-----------------------------------------------------------------------------
(* The window (RendererRuntime).                                           *)

Scopes == (Profiles \cup {CHOOSE p \in Profiles : TRUE}) \X Nat
Drafts == [dirty : BOOLEAN, revision : Nat, edit : Nat]
Tokens == [dirty : BOOLEAN, revision : Nat, edit : Nat, doc : Nat]
Callers == {"nobody", "boot", "flush"}
Answers == [to : Callers \cup {"save"}, ok : BOOLEAN]
Servers ==
  [published : Seq(Scopes), edits : Nat, given : SUBSET Nat, settled : SUBSET Nat,
   draft : Tokens]
Tasks == {NoTask} \cup [at : {"asks", "works"}, doc : Nat, by : Nat, about : Tokens]
Docs ==
  [id : Nat, since : Nat, ready : BOOLEAN, boot : {"none", "info", "ack"}, next : Drafts,
   pending : Nat, latest : Nat, shown : Nat, draft : Drafts,
   answer : Answers, stats : Nat, loading : BOOLEAN, asked : Nat,
   view : Nat, views : Nat, awaiting : BOOLEAN,
   action : {"none", "act", "save", "saving"}, from : Nat, by : Nat,
   consumed : Tokens \cup {Clean}, reset : Nat]
Reports ==
  [kind : {"dirty"}, scope : Scopes, dirty : BOOLEAN, revision : Nat, edit : Nat, doc : Nat,
   wanted : Callers]
Saves == [kind : {"save"}, doc : Nat, scope : Scopes, edit : Nat, wanted : {"save"}]
Calls ==
  Reports \cup Saves \cup [kind : {"info"}, doc : Nat]
  \cup [kind : {"act"}, doc : Nat, by : Nat, scope : Scopes]

\* A scope that was left does not come back.
Onward(p) ==
  /\ Len(p) >= 1
  /\ \A i, j \in 1..Len(p) : i <= j =>
       p[i][2] <= p[j][2] /\ (p[i][2] = p[j][2] => p[i] = p[j])

\* Statistics, and the question for them that counts, are of the latest scope, and
\* who waits for them has asked or is about to.
Viewed(p, d) ==
  /\ d.latest \in 0..Len(p) /\ d.shown <= d.latest /\ d.since \in 1..Len(p)
  /\ d.reset <= d.latest
  /\ d.pending \in 0..Len(p)
  /\ d.stats # 0 => d.stats \in 1..Len(p) /\ d.latest # 0 /\ p[d.stats] = p[d.latest]
  /\ d.asked # 0 => d.asked \in 1..Len(p) /\ d.latest # 0 /\ p[d.asked] = p[d.latest]
  /\ d.loading /\ d.latest # 0 =>
       d.asked # 0 \/ d.shown = 0 \/ p[d.shown] # p[d.latest]

WindowTyped ==
  server \in Servers /\ doc \in Docs /\ task \in Tasks /\ calls \in Seq(Calls)

\* The draft d of a document is t or came after it.
Follows(t, d, id) ==
  IF t.doc = id
  THEN t.revision <= d.revision /\ (t.revision = d.revision => t.edit = d.edit)
  ELSE t.revision < d.revision

\* A report c comes before the draft d of its document, which, of the same
\* revision, is dirty only if the report is.
Precedes(c, d, id) ==
  c.doc = id /\ Follows(c, d, id) /\ (c.revision = d.revision /\ d.dirty => c.dirty)

\* What the program knows comes before d, and of the same revision d has no edits
\* that it neither knows of nor may give up.
Covers(sv, d, id) ==
  /\ Follows(sv.draft, d, id)
  /\ sv.draft.revision = d.revision /\ d.dirty =>
       sv.draft.dirty \/ sv.draft.edit \in sv.given

\* What was consumed comes before d, and of the same revision d has no edits that
\* the user did not give up.
Consumed(sv, c, d, id) ==
  Follows(c, d, id) /\ (c.revision = d.revision /\ d.dirty => c.edit \in sv.given)

\* Calls under way are in the order in which they were made.
Queued(sv, d, cs) ==
  /\ \A i \in DOMAIN cs : cs[i].doc <= d.id
  /\ \A i \in DOMAIN cs : cs[i].kind = "dirty" => Covers(sv, cs[i], cs[i].doc)
  /\ \A i, j \in DOMAIN cs : i < j =>
       /\ cs[i].doc <= cs[j].doc
       /\ cs[i].kind = "dirty" /\ cs[j].kind = "dirty" => Precedes(cs[i], cs[j], cs[j].doc)

\* The draft of a document that has told one comes after all that is known of it.
Mine(d) == IF d.ready THEN d.draft ELSE d.next
Drafted(sv, d, cs, t) ==
  d.ready \/ d.boot = "ack" =>
    /\ Covers(sv, Mine(d), d.id)
    /\ \A i \in DOMAIN cs : cs[i].kind = "dirty" => Precedes(cs[i], Mine(d), d.id)
    /\ t # NoTask => Follows(t.about, Mine(d), d.id)
    /\ d.consumed # Clean => Consumed(sv, d.consumed, Mine(d), d.id)
    /\ Mine(d).edit <= sv.edits

\* A document that is not ready has one call under way, or its answer.
Booted(d, cs) ==
  IF d.ready
  THEN /\ d.answer.to # "boot"
       /\ d.answer.to = "flush" => d.latest # 0
       /\ \A i \in DOMAIN cs : cs[i].doc = d.id =>
            /\ cs[i].kind # "info"
            /\ cs[i].kind = "dirty" =>
                 cs[i].wanted # "boot" /\ (cs[i].wanted = "flush" => d.latest # 0)
  ELSE /\ d.draft = Clean /\ d.latest = 0 /\ d.shown = 0 /\ d.reset = 0
       /\ d.answer.to # "nobody" => d.answer.to = "boot" /\ d.boot = "ack"
       /\ \A i \in DOMAIN cs : cs[i].doc = d.id =>
            /\ d.answer.to = "nobody"
            /\ \/ d.boot = "info" /\ cs[i].kind = "info"
               \/ d.boot = "ack" /\ cs[i].kind = "dirty" /\ cs[i].wanted = "boot"
            /\ \A j \in DOMAIN cs : cs[j].doc = d.id => i = j

\* An operation is about a draft that the program knew; while that is the
\* revision it knows, it is the same draft, and one at work may lose it.
Confirmed(sv, d, t) ==
  /\ t # NoTask =>
       /\ t.about.revision <= sv.draft.revision
       /\ t.about.revision = sv.draft.revision =>
            /\ t.about.doc = sv.draft.doc /\ t.about.edit = sv.draft.edit
            /\ t.at = "works" /\ sv.draft.dirty => sv.draft.edit \in sv.given
  /\ d.consumed # Clean => d.consumed.revision <= sv.draft.revision
  /\ d.reset # 0 => d.consumed # Clean

WindowInv ==
  /\ WindowTyped
  /\ Onward(server.published) /\ Viewed(server.published, doc)
  /\ Queued(server, doc, calls) /\ Drafted(server, doc, calls, task)
  /\ Booted(doc, calls) /\ Confirmed(server, doc, task)

\* One save of the document is on its way at a time, or its answer; while the view
\* that sent it is there, what is saved is its draft.  Without a view there are no
\* edits.
Sends(c, d) == c.kind = "save" /\ c.doc = d.id
Kept(sv, d, cs) ==
  /\ d.view # 0 \/ d.action # "none" => d.shown # 0
  /\ d.view <= d.views /\ d.by <= d.views
  /\ d.action \in {"save", "saving"} => d.by # 0
  /\ d.action # "saving" => d.answer.to # "save"
  /\ d.draft.dirty => d.view # 0
  /\ ~d.next.dirty
  /\ \A i \in DOMAIN cs : Sends(cs[i], d) =>
       /\ d.action = "saving" /\ d.answer.to # "save"
       /\ d.by = d.view => cs[i].edit = d.draft.edit
       /\ \A j \in DOMAIN cs : Sends(cs[j], d) => i = j
  /\ d.action = "saving" /\ d.by = d.view /\ d.answer.to = "save" /\ d.answer.ok =>
       d.draft.edit \in sv.settled

-----------------------------------------------------------------------------
(* The window: sequences and what goes on.                                 *)

LEMMA AppendedCall ==
  ASSUME NEW cs \in Seq(Calls), NEW c \in Calls
  PROVE  /\ Append(cs, c) \in Seq(Calls)
         /\ cs \o <<>> = cs /\ cs \o <<c>> = Append(cs, c)
         /\ DOMAIN Append(cs, c) = DOMAIN cs \cup {Len(cs) + 1}
         /\ DOMAIN cs = 1..Len(cs) /\ Len(cs) \in Nat
         /\ \A i \in DOMAIN cs : Append(cs, c)[i] = cs[i]
         /\ Append(cs, c)[Len(cs) + 1] = c
PROOF
  <1>1. cs \o <<>> = cs
    BY ConcatEmptySeq
  <1>2. cs \o <<c>> = Append(cs, c)
    OBVIOUS
  <1>3. QED BY <1>1, <1>2

LEMMA ArrivedCall ==
  ASSUME NEW cs \in Seq(Calls), cs # <<>>
  PROVE  /\ Head(cs) \in Calls /\ Tail(cs) \in Seq(Calls)
         /\ 1 \in DOMAIN cs /\ Head(cs) = cs[1]
         /\ \A i \in DOMAIN Tail(cs) :
              i \in Nat /\ i + 1 \in DOMAIN cs /\ 1 < i + 1 /\ Tail(cs)[i] = cs[i + 1]
PROOF OBVIOUS

LEMMA CallFacts ==
  /\ \A c \in Calls : c.doc \in Nat
  /\ \A c \in Calls : c.kind = "dirty" => c \in Reports
  /\ \A c \in Calls : c.kind = "save" => c \in Saves
  /\ \A c \in Calls : c.kind = "act" => c.by \in Nat
  /\ \A c \in Saves : c.kind = "save" /\ c.edit \in Nat /\ c.wanted = "save"
  /\ \A c \in Reports : /\ c.kind = "dirty" /\ c.scope \in Scopes /\ c.dirty \in BOOLEAN
                        /\ c.revision \in Nat /\ c.edit \in Nat /\ c.wanted \in Callers
PROOF
  <1>1. /\ \A c \in Reports : c.kind = "dirty" /\ c.doc \in Nat
        /\ \A c \in Saves : c.kind = "save" /\ c.doc \in Nat
    BY DEF Reports, Saves
  <1>2. QED BY <1>1 DEF Calls, Reports, Saves

LEMMA ReportFacts ==
  ASSUME doc \in Docs, NEW scope \in Scopes, NEW d \in Drafts, NEW wanted \in Callers
  PROVE  LET r == Report(scope, d, wanted) IN
         /\ r \in Reports /\ r \in Calls
         /\ r.doc = doc.id /\ r.wanted = wanted
         /\ r.dirty = d.dirty /\ r.revision = d.revision /\ r.edit = d.edit
PROOF
  <1>1. Report(scope, d, wanted) \in Reports
    BY DEF Report, Reports, Docs, Drafts
  <1>2. QED BY <1>1 DEF Report, Calls

\* A later draft of the same document.
Goes(d, e) ==
  \/ e.revision = d.revision /\ e.edit = d.edit /\ (e.dirty => d.dirty)
  \/ e.revision > d.revision

LEMMA FollowsOn ==
  ASSUME NEW d \in Drafts, NEW e \in Drafts, Goes(d, e), NEW id
  PROVE  /\ \A t \in Tokens \cup Reports : Follows(t, d, id) => Follows(t, e, id)
         /\ \A c \in Reports : Precedes(c, d, id) => Precedes(c, e, id)
         /\ \A sv \in Servers : Covers(sv, d, id) => Covers(sv, e, id)
         /\ \A sv : \A t \in Tokens : Consumed(sv, t, d, id) => Consumed(sv, t, e, id)
PROOF
  <1>1. /\ d.revision \in Nat /\ e.revision \in Nat /\ d.edit \in Nat /\ e.edit \in Nat
    BY DEF Drafts
  <1>2. \A t \in Tokens \cup Reports : t.revision \in Nat
    BY DEF Tokens, Reports
  <1>3. \A t \in Tokens \cup Reports : Follows(t, d, id) => Follows(t, e, id)
    BY <1>1, <1>2 DEF Follows, Goes
  <1>4. ASSUME NEW c \in Reports, Precedes(c, d, id) PROVE Precedes(c, e, id)
    <2>1. Follows(c, d, id) /\ Follows(c, e, id) /\ c.doc = id
      BY <1>3, <1>4 DEF Precedes
    <2>2. c.revision = e.revision /\ e.dirty => c.dirty
      BY <1>1, <1>2, <1>4, <2>1 DEF Goes, Precedes, Follows
    <2>3. QED BY <2>1, <2>2 DEF Precedes
  <1>5. ASSUME NEW sv \in Servers, Covers(sv, d, id) PROVE Covers(sv, e, id)
    <2>1. sv.draft \in Tokens
      BY DEF Servers
    <2>2. Follows(sv.draft, d, id) /\ Follows(sv.draft, e, id)
      BY <1>3, <1>5, <2>1 DEF Covers
    <2>3. sv.draft.revision = e.revision /\ e.dirty =>
            sv.draft.dirty \/ sv.draft.edit \in sv.given
      BY <1>1, <1>2, <1>5, <2>1, <2>2 DEF Goes, Covers, Follows
    <2>4. QED BY <2>2, <2>3 DEF Covers
  <1>6. ASSUME NEW sv, NEW t \in Tokens, Consumed(sv, t, d, id) PROVE Consumed(sv, t, e, id)
    <2>1. Follows(t, d, id) /\ Follows(t, e, id)
      BY <1>3, <1>6 DEF Consumed
    <2>2. t.revision = e.revision /\ e.dirty => t.edit \in sv.given
      BY <1>1, <1>2, <1>6, <2>1 DEF Goes, Consumed, Follows
    <2>3. QED BY <2>1, <2>2 DEF Consumed
  <1>7. QED BY <1>3, <1>4, <1>5, <1>6

LEMMA MineFacts ==
  ASSUME WindowInv
  PROVE  Mine(doc) \in Drafts /\ doc.id \in Nat
PROOF BY DEF WindowInv, WindowTyped, Docs, Mine

\* The document goes on with its draft, and may tell it.
LEMMA Tells ==
  ASSUME WindowInv, doc.ready \/ doc.boot = "ack",
         NEW e \in Docs, e.id = doc.id, e.ready, Goes(Mine(doc), e.draft),
         e.consumed \in {doc.consumed, Clean},
         NEW sv \in Servers, sv.draft = server.draft, sv.given = server.given,
         e.draft.edit <= sv.edits,
         NEW cs,
         \/ cs = calls
         \/ \E r \in Reports : /\ cs = Append(calls, r) /\ r.doc = e.id
                               /\ r.dirty = e.draft.dirty /\ r.revision = e.draft.revision
                               /\ r.edit = e.draft.edit
  PROVE  Queued(sv, e, cs) /\ Drafted(sv, e, cs, task)
PROOF
  <1> DEFINE d == e.draft
  <1>1. d \in Drafts /\ Mine(doc) \in Drafts /\ doc.id \in Nat /\ Mine(e) = d
    BY MineFacts DEF Docs, Mine
  <1>2. /\ \A t \in Tokens : Follows(t, Mine(doc), e.id) => Follows(t, d, e.id)
        /\ \A c \in Reports : Precedes(c, Mine(doc), e.id) => Precedes(c, d, e.id)
        /\ Covers(sv, Mine(doc), e.id) => Covers(sv, d, e.id)
        /\ \A t \in Tokens : Consumed(sv, t, Mine(doc), e.id) => Consumed(sv, t, d, e.id)
    BY <1>1, FollowsOn
  <1> HIDE DEF d
  <1>3. calls \in Seq(Calls) /\ task \in Tasks /\ doc \in Docs
    BY DEF WindowInv, WindowTyped
  <1>4. \A i \in DOMAIN calls : calls[i] \in Calls
    BY <1>3
  <1>5. Covers(sv, d, e.id)
    BY <1>2 DEF WindowInv, Drafted, Covers
  <1>6. \A i \in DOMAIN calls : calls[i].kind = "dirty" =>
          calls[i] \in Reports /\ Precedes(calls[i], d, e.id)
    BY <1>2, <1>4, CallFacts DEF WindowInv, Drafted
  <1>7. task # NoTask => Follows(task.about, d, e.id)
    <2>1. task # NoTask => task.about \in Tokens
      BY <1>3 DEF Tasks
    <2>2. QED BY <1>2, <2>1 DEF WindowInv, Drafted
  <1>8. e.consumed # Clean => Consumed(sv, e.consumed, d, e.id)
    <2>1. doc.consumed # Clean => doc.consumed \in Tokens
      BY <1>3 DEF Docs
    <2>2. doc.consumed # Clean => Consumed(sv, doc.consumed, Mine(doc), e.id)
      BY DEF WindowInv, Drafted, Consumed
    <2>3. QED BY <1>2, <2>1, <2>2
  <1>9. /\ \A i \in DOMAIN calls : calls[i].doc <= e.id
        /\ \A i \in DOMAIN calls : calls[i].kind = "dirty" =>
             Covers(sv, calls[i], calls[i].doc)
        /\ \A i, j \in DOMAIN calls : i < j =>
             /\ calls[i].doc <= calls[j].doc
             /\ calls[i].kind = "dirty" /\ calls[j].kind = "dirty" =>
                  Precedes(calls[i], calls[j], calls[j].doc)
    BY DEF WindowInv, Queued, Covers
  <1>10. CASE cs = calls
    BY <1>1, <1>5, <1>6, <1>7, <1>8, <1>9, <1>10 DEF Queued, Drafted, d
  <1>11. CASE cs # calls
    <2>1. PICK r \in Reports : /\ cs = Append(calls, r) /\ r.doc = e.id
                               /\ r.dirty = d.dirty /\ r.revision = d.revision
                               /\ r.edit = d.edit
      BY <1>11 DEF d
    <2> DEFINE k == Len(calls) + 1
    <2>2. /\ DOMAIN cs = DOMAIN calls \cup {k} /\ k \notin DOMAIN calls
          /\ \A i \in DOMAIN calls : cs[i] = calls[i] /\ i < k
          /\ cs[k] = r
      <3>1. r \in Calls
        BY DEF Calls
      <3>2. DOMAIN calls = 1..Len(calls) /\ Len(calls) \in Nat
        BY <1>3
      <3>3. /\ DOMAIN cs = DOMAIN calls \cup {k} /\ cs[k] = r
            /\ \A i \in DOMAIN calls : cs[i] = calls[i]
        BY <1>3, <2>1, <3>1, AppendedCall
      <3>4. \A i \in DOMAIN calls : i < k
        BY <3>2
      <3>5. QED BY <3>2, <3>3, <3>4
    <2>3. \A t : Follows(t, d, e.id) => Follows(t, r, e.id)
      BY <2>1 DEF Follows
    <2>4. Covers(sv, r, r.doc) /\ Precedes(r, d, e.id) /\ r.doc <= e.id /\ r.kind = "dirty"
      <3>1. r.revision \in Nat /\ e.id \in Nat
        BY <1>1 DEF Reports
      <3>2. QED BY <1>5, <2>1, <2>3, <3>1, CallFacts DEF Covers, Precedes, Follows
    <2>5. \A i \in DOMAIN calls : calls[i].kind = "dirty" => Precedes(calls[i], r, r.doc)
      BY <1>6, <2>1, <2>3 DEF Precedes
    <2> HIDE DEF k
    <2>6. ASSUME NEW i \in DOMAIN cs
          PROVE  cs[i].doc <= e.id /\ (cs[i].kind = "dirty" => Covers(sv, cs[i], cs[i].doc))
      BY <1>9, <2>2, <2>4
    <2>7. ASSUME NEW i \in DOMAIN cs, NEW j \in DOMAIN cs, i < j
          PROVE  /\ cs[i].doc <= cs[j].doc
                 /\ cs[i].kind = "dirty" /\ cs[j].kind = "dirty" =>
                      Precedes(cs[i], cs[j], cs[j].doc)
      <3>1. i \in DOMAIN calls
        <4>1. i # k
          BY <1>3, <2>2, <2>7 DEF k
        <4>2. QED BY <2>2, <4>1
      <3>2. CASE j = k
        BY <1>9, <2>1, <2>2, <2>5, <3>1, <3>2
      <3>3. CASE j # k
        BY <1>9, <2>2, <2>7, <3>1, <3>3
      <3>4. QED BY <3>2, <3>3
    <2>8. Queued(sv, e, cs)
      BY <2>6, <2>7 DEF Queued
    <2>9. \A i \in DOMAIN cs : cs[i].kind = "dirty" => Precedes(cs[i], d, e.id)
      BY <1>6, <2>2, <2>4
    <2>10. QED BY <1>1, <1>5, <1>7, <1>8, <2>8, <2>9 DEF Drafted, d
  <1>12. QED BY <1>10, <1>11

-----------------------------------------------------------------------------
(* The window: what a document shows.                                      *)

\* Where nothing of the view has changed.
SameView(d, e) ==
  /\ e.latest = d.latest /\ e.shown = d.shown /\ e.stats = d.stats /\ e.asked = d.asked
  /\ e.loading = d.loading /\ e.since = d.since /\ e.pending = d.pending

\* Where the view that is on the screen, and the action, are the same.
SamePlace(d, e) ==
  /\ e.view = d.view /\ e.views = d.views /\ e.by = d.by /\ e.action = d.action
  /\ d.shown # 0 => e.shown # 0

LEMMA SameViewed ==
  ASSUME NEW p, NEW d, NEW e, Viewed(p, d), SameView(d, e),
         e.reset \in {d.reset, 0, d.latest},
         d \in Docs
  PROVE  Viewed(p, e)
PROOF BY DEF Viewed, SameView, Docs

\* What accept makes of a document.
LEMMA AcceptedFacts ==
  ASSUME WindowInv, NEW d \in Docs, d.id = doc.id, Viewed(server.published, d),
         NEW n \in 0..Len(server.published)
  PROVE  LET p == server.published
             a == Accepted(d, n).doc
             told == Accepted(d, n).call
         IN /\ a \in Docs /\ Viewed(p, a)
            /\ a.id = d.id /\ a.ready = d.ready /\ a.consumed = d.consumed
            /\ a.reset = d.reset
            /\ a.answer = d.answer /\ a.boot = d.boot /\ a.next = d.next
            /\ SamePlace(d, a)
            /\ a.latest >= d.latest
            /\ a.latest # 0 /\ d.latest # 0 /\ p[a.latest] = p[d.latest] =>
                 a.stats >= d.stats
            /\ a.draft.revision = d.draft.revision /\ a.draft.edit = d.draft.edit
            /\ a.draft.dirty => d.draft.dirty
            /\ d.draft.dirty /\ ~a.draft.dirty =>
                 d.latest # 0 /\ Profile(p[a.latest]) # Profile(p[d.latest])
            /\ \/ told = <<>>
               \/ a.latest # 0 /\ told = <<Report(p[a.latest], a.draft, "nobody")>>
PROOF
  <1> DEFINE p == server.published
             changed == d.latest = 0 \/ p[n] # p[d.latest]
             apart == d.latest # 0 /\ Profile(p[n]) # Profile(p[d.latest])
             dirty == d.draft.dirty /\ ~apart
             draft == [d.draft EXCEPT !.dirty = dirty]
             a == [d EXCEPT !.latest = n, !.draft = draft]
             b == [a EXCEPT !.stats = 0, !.asked = 0, !.loading = TRUE]
             told == IF b.draft.dirty \/ apart
                     THEN <<Report(p[n], b.draft, "nobody")>> ELSE <<>>
  <1>1. /\ Onward(p) /\ Len(p) \in Nat /\ n \in Nat /\ d.latest \in Nat /\ d.shown \in Nat
        /\ d.stats \in Nat /\ d.reset \in Nat /\ d.draft \in Drafts
    BY DEF WindowInv, WindowTyped, Servers, Docs
  <1>2. /\ draft \in Drafts /\ draft.dirty = dirty /\ draft.revision = d.draft.revision
        /\ draft.edit = d.draft.edit
    BY <1>1 DEF Drafts
  <1>3. dirty => d.draft.dirty
    OBVIOUS
  <1>4. a = [d EXCEPT !.latest = n, !.draft.dirty = @ /\ ~apart]
    BY <1>1 DEF Docs, Drafts
  <1>5. Accepted(d, n) = IF n <= d.latest THEN [doc |-> d, call |-> <<>>]
                         ELSE IF ~changed THEN [doc |-> a, call |-> <<>>]
                         ELSE [doc |-> b, call |-> told]
    BY <1>4 DEF Accepted, Scope
  <1> HIDE DEF draft
  <1>6. /\ a \in Docs /\ a.latest = n /\ a.draft = draft /\ a.shown = d.shown
        /\ a.stats = d.stats /\ a.asked = d.asked /\ a.loading = d.loading
        /\ a.since = d.since /\ a.pending = d.pending /\ a.reset = d.reset
        /\ a.id = d.id /\ a.ready = d.ready /\ a.consumed = d.consumed
        /\ a.answer = d.answer /\ a.boot = d.boot /\ a.next = d.next
        /\ SamePlace(d, a) /\ SamePlace(d, d)
    BY <1>1, <1>2 DEF Docs, SamePlace
  <1>7. /\ b \in Docs /\ b.latest = n /\ b.draft = draft /\ b.shown = d.shown
        /\ b.stats = 0 /\ b.asked = 0 /\ b.loading
        /\ b.since = d.since /\ b.pending = d.pending /\ b.reset = d.reset
        /\ b.id = d.id /\ b.ready = d.ready /\ b.consumed = d.consumed
        /\ b.answer = d.answer /\ b.boot = d.boot /\ b.next = d.next
        /\ SamePlace(d, b)
    <2> HIDE DEF a
    <2>1. QED BY <1>6 DEF Docs, SamePlace
  <1>8. CASE n <= d.latest
    BY <1>1, <1>5, <1>6, <1>8
  <1>9. CASE n > d.latest /\ ~changed
    <2>1. Accepted(d, n).doc = a /\ Accepted(d, n).call = <<>>
      BY <1>1, <1>5, <1>9
    <2> HIDE DEF a, b
    <2>2. Viewed(p, a)
      BY <1>1, <1>6, <1>9 DEF Viewed
    <2>3. ~apart
      BY <1>9
    <2>4. draft.dirty <=> d.draft.dirty
      BY <1>2, <2>3
    <2>5. QED BY <1>1, <1>2, <1>6, <1>9, <2>1, <2>2, <2>4
  <1>10. CASE n > d.latest /\ changed
    <2>1. Accepted(d, n).doc = b /\ Accepted(d, n).call = told
      BY <1>1, <1>5, <1>10
    <2>2. told = <<>> \/ told = <<Report(p[n], draft, "nobody")>>
      BY <1>7
    <2> HIDE DEF a, b, told
    <2>3. d.shown # 0 => p[d.shown] # p[n]
      <3>1. d.shown # 0 => d.shown \in 1..Len(p) /\ d.latest \in 1..Len(p)
                           /\ n \in 1..Len(p) /\ d.shown <= d.latest /\ d.latest <= n
        BY <1>1, <1>10 DEF Viewed
      <3>2. d.shown # 0 => /\ p[d.shown][2] <= p[d.latest][2] /\ p[d.latest][2] <= p[n][2]
                           /\ p[d.latest][2] # p[n][2]
        BY <1>1, <1>10, <3>1 DEF Onward
      <3>3. \A i \in 1..Len(p) : p[i][2] \in Nat
        BY DEF WindowInv, WindowTyped, Servers, Scopes
      <3>4. d.shown # 0 => p[d.shown][2] < p[n][2]
        <4>1. d.shown # 0 =>
                p[d.shown][2] \in Nat /\ p[d.latest][2] \in Nat /\ p[n][2] \in Nat
          BY <3>1, <3>3
        <4> HIDE DEF p
        <4>2. QED BY <3>2, <4>1
      <3>5. QED BY <3>1, <3>3, <3>4
    <2>4. Viewed(p, b)
      BY <1>1, <1>7, <1>10, <2>3 DEF Viewed
    <2>5. d.latest # 0 => p[n] # p[d.latest]
      BY <1>10
    <2>6. /\ d.draft.dirty /\ ~draft.dirty => apart
          /\ draft.dirty => d.draft.dirty
      BY <1>2
    <2>7. n >= d.latest /\ n # 0
      BY <1>1, <1>10
    <2>8. b.latest # 0 /\ d.latest # 0 => p[b.latest] # p[d.latest]
      BY <1>7, <2>5
    <2> HIDE DEF apart, dirty, changed
    <2>9. d.draft.dirty /\ ~b.draft.dirty =>
            d.latest # 0 /\ Profile(p[b.latest]) # Profile(p[d.latest])
      BY <1>7, <2>6 DEF apart
    <2>10. \/ told = <<>>
           \/ b.latest # 0 /\ told = <<Report(p[b.latest], b.draft, "nobody")>>
      BY <1>7, <2>2, <2>7
    <2>11. QED BY <1>2, <1>7, <2>1, <2>4, <2>6, <2>7, <2>8, <2>9, <2>10
  <1>11. QED BY <1>1, <1>8, <1>9, <1>10

\* Statistics of the latest scope that are newer than those shown.
LEMMA AcceptedStats ==
  ASSUME WindowInv, NEW d \in Docs, Viewed(server.published, d),
         NEW n \in 1..Len(server.published)
  PROVE  LET a == AcceptStats(d, n) IN
         /\ a \in Docs /\ Viewed(server.published, a)
         /\ a = [d EXCEPT !.stats = a.stats, !.loading = a.loading]
         /\ a.stats >= d.stats /\ (a.loading => d.loading)
PROOF
  <1> DEFINE a == [d EXCEPT !.stats = n, !.loading = FALSE]
  <1>1. /\ Len(server.published) \in Nat /\ n \in Nat /\ d.stats \in Nat
    BY DEF WindowInv, WindowTyped, Servers, Docs
  <1>2. /\ a \in Docs /\ a.stats = n /\ ~a.loading /\ a.latest = d.latest
        /\ a.shown = d.shown /\ a.since = d.since /\ a.pending = d.pending
        /\ a.reset = d.reset /\ a.asked = d.asked
    BY <1>1 DEF Docs
  <1>3. CASE AcceptStats(d, n) = d
    <2>1. d = [d EXCEPT !.stats = d.stats, !.loading = d.loading]
      BY DEF Docs
    <2>2. QED BY <1>1, <1>3, <2>1
  <1>4. CASE AcceptStats(d, n) # d
    <2>1. /\ AcceptStats(d, n) = a /\ d.latest # 0 /\ n > d.stats
          /\ server.published[n] = server.published[d.latest]
      BY <1>4 DEF AcceptStats, Scope
    <2>2. a = [d EXCEPT !.stats = a.stats, !.loading = a.loading]
      BY <1>2 DEF Docs
    <2> HIDE DEF a
    <2>3. Viewed(server.published, a)
      BY <1>1, <1>2, <2>1 DEF Viewed
    <2>4. a.stats >= d.stats /\ (a.loading => d.loading)
      BY <1>1, <1>2, <2>1
    <2>5. QED BY <1>2, <2>1, <2>2, <2>3, <2>4
  <1>5. QED BY <1>3, <1>4

-----------------------------------------------------------------------------
(* The window: what arrives at the program.                                *)

\* What else the document is but its view and its answers.
SameDraft(d, e) ==
  /\ e.id = d.id /\ e.ready = d.ready /\ e.boot = d.boot /\ e.next = d.next
  /\ e.draft = d.draft /\ e.consumed = d.consumed /\ e.reset = d.reset

LEMMA SameDrafted ==
  ASSUME NEW d, NEW e, SameDraft(d, e), NEW sv, NEW cs, NEW t
  PROVE  /\ Queued(sv, d, cs) => Queued(sv, e, cs)
         /\ Drafted(sv, d, cs, t) => Drafted(sv, e, cs, t)
         /\ Confirmed(sv, d, t) => Confirmed(sv, e, t)
PROOF BY DEF SameDraft, Queued, Drafted, Confirmed, Mine

LEMMA WindowFacts ==
  ASSUME WindowInv
  PROVE  /\ server \in Servers /\ doc \in Docs /\ task \in Tasks /\ calls \in Seq(Calls)
         /\ server.published \in Seq(Scopes) /\ Len(server.published) \in Nat
         /\ server.edits \in Nat /\ server.given \subseteq Nat /\ server.draft \in Tokens
         /\ server.settled \subseteq Nat
         /\ server.draft.revision \in Nat /\ server.draft.edit \in Nat
         /\ doc.id \in Nat /\ doc.latest \in Nat /\ doc.shown \in Nat
         /\ doc.draft \in Drafts
         /\ doc.draft.revision \in Nat /\ doc.draft.edit \in Nat
         /\ doc.answer.to \in Callers \cup {"save"}
         /\ \A i \in DOMAIN calls : calls[i] \in Calls
         /\ \A n \in 1..Len(server.published) : server.published[n] \in Scopes
         /\ Len(server.published) >= 1
         /\ task # NoTask => task.about \in Tokens /\ task.at \in {"asks", "works"}
PROOF
  <1>1. server \in Servers /\ doc \in Docs /\ task \in Tasks /\ calls \in Seq(Calls)
    BY DEF WindowInv, WindowTyped
  <1>2. Len(server.published) >= 1
    BY DEF WindowInv, Onward
  <1>3. /\ server.published \in Seq(Scopes)
        /\ server.edits \in Nat /\ server.given \subseteq Nat /\ server.draft \in Tokens
        /\ server.settled \subseteq Nat
        /\ server.draft.revision \in Nat /\ server.draft.edit \in Nat
    BY <1>1 DEF Servers, Tokens
  <1>4. /\ doc.id \in Nat /\ doc.latest \in Nat /\ doc.shown \in Nat /\ doc.draft \in Drafts
        /\ doc.draft.revision \in Nat /\ doc.draft.edit \in Nat
        /\ doc.answer.to \in Callers \cup {"save"}
    BY <1>1 DEF Docs, Drafts, Answers
  <1>5. task # NoTask => task.about \in Tokens /\ task.at \in {"asks", "works"}
    BY <1>1 DEF Tasks
  <1>6. QED BY <1>1, <1>2, <1>3, <1>4, <1>5

LEMMA CleanFacts ==
  /\ Clean \in Drafts /\ Clean \notin Tokens
  /\ ~Clean.dirty /\ Clean.revision = 0 /\ Clean.edit = 0
PROOF
  <1>1. \A t \in Tokens : DOMAIN t = {"dirty", "revision", "edit", "doc"}
    BY DEF Tokens
  <1>2. DOMAIN Clean = {"dirty", "revision", "edit"}
    BY DEF Clean
  <1>3. QED BY <1>1, <1>2 DEF Clean, Drafts

\* The calls that are left when the first has arrived.
LEMMA Arrived ==
  ASSUME WindowInv, calls # <<>>
  PROVE  LET cs == Tail(calls) IN
         /\ Head(calls) = calls[1] /\ calls[1] \in Calls /\ cs \in Seq(Calls)
         /\ 1 \in DOMAIN calls
         /\ Queued(server, doc, cs) /\ Drafted(server, doc, cs, task) /\ Booted(doc, cs)
         /\ \A i \in DOMAIN cs : calls[1].doc <= cs[i].doc
         /\ ~doc.ready /\ calls[1].doc = doc.id => \A i \in DOMAIN cs : cs[i].doc # doc.id
         /\ \A i \in DOMAIN cs : calls[1].kind = "dirty" /\ cs[i].kind = "dirty" =>
              Precedes(calls[1], cs[i], cs[i].doc) /\ cs[i] \in Reports
PROOF
  <1> DEFINE cs == Tail(calls)
  <1>1. /\ calls \in Seq(Calls) /\ Head(calls) = calls[1] /\ calls[1] \in Calls
        /\ cs \in Seq(Calls) /\ 1 \in DOMAIN calls
        /\ \A i \in DOMAIN cs :
             i \in Nat /\ i + 1 \in DOMAIN calls /\ 1 < i + 1 /\ cs[i] = calls[i + 1]
               /\ cs[i] \in Calls
    BY WindowFacts, ArrivedCall
  <1> HIDE DEF cs
  <1>2. \A i, j \in DOMAIN cs : i < j => i + 1 < j + 1
    BY <1>1
  <1>3. Queued(server, doc, cs)
    BY <1>1, <1>2 DEF WindowInv, Queued
  <1>4. Drafted(server, doc, cs, task)
    BY <1>1 DEF WindowInv, Drafted
  <1>5. \A i, j \in DOMAIN cs : i + 1 = j + 1 => i = j
    BY <1>1
  <1>6. Booted(doc, cs)
    <2>1. CASE doc.ready
      BY <1>1, <2>1 DEF WindowInv, Booted
    <2>2. CASE ~doc.ready
      BY <1>1, <1>5, <2>2 DEF WindowInv, Booted
    <2>3. QED BY <2>1, <2>2
  <1>7. \A i \in DOMAIN cs : calls[1].doc <= cs[i].doc
    BY <1>1 DEF WindowInv, Queued
  <1>8. ASSUME ~doc.ready, calls[1].doc = doc.id, NEW i \in DOMAIN cs
        PROVE  cs[i].doc # doc.id
    <2>1. i + 1 \in DOMAIN calls /\ 1 # i + 1 /\ cs[i] = calls[i + 1]
      BY <1>1
    <2>2. \A j \in DOMAIN calls : calls[j].doc = doc.id => 1 = j
      BY <1>1, <1>8 DEF WindowInv, Booted
    <2>3. QED BY <2>1, <2>2
  <1>9. \A i \in DOMAIN cs : calls[1].kind = "dirty" /\ cs[i].kind = "dirty" =>
          Precedes(calls[1], cs[i], cs[i].doc) /\ cs[i] \in Reports
    BY <1>1, CallFacts DEF WindowInv, Queued
  <1>10. QED BY <1>1, <1>3, <1>4, <1>6, <1>7, <1>8, <1>9 DEF cs

\* Nobody waits for the answer, or the document is told.
LEMMA AnsweredFacts ==
  ASSUME WindowInv, NEW call \in Reports \cup Saves, NEW ok \in BOOLEAN
  PROVE  LET e == Answered(call, ok) IN
         /\ e \in Docs /\ SameView(doc, e) /\ SameDraft(doc, e)
         /\ SamePlace(doc, e)
         /\ \/ e.answer = doc.answer
            \/ call.doc = doc.id /\ e.answer.to = call.wanted /\ e.answer.ok = ok
PROOF
  <1> DEFINE answer == [to |-> call.wanted, ok |-> ok]
             e == [doc EXCEPT !.answer = answer]
  <1>1. doc \in Docs /\ call.wanted \in Callers \cup {"save"}
    BY WindowFacts, CallFacts
  <1>2. answer \in Answers /\ answer.to = call.wanted /\ answer.ok = ok
    BY <1>1 DEF Answers
  <1>3. (Answered(call, ok) = e /\ call.doc = doc.id)
          \/ Answered(call, ok) = doc
    BY DEF Answered
  <1> HIDE DEF answer
  <1>4. /\ e \in Docs /\ SameView(doc, e) /\ SameDraft(doc, e) /\ SamePlace(doc, e)
        /\ e.answer = answer
    BY <1>1, <1>2 DEF Docs, SameView, SameDraft, SamePlace
  <1>5. SameView(doc, doc) /\ SameDraft(doc, doc) /\ SamePlace(doc, doc)
    BY DEF SameView, SameDraft, SamePlace
  <1> HIDE DEF e
  <1>6. QED BY <1>1, <1>2, <1>3, <1>4, <1>5

LEMMA SetDirtyKeeps == ASSUME WindowInv, SetDirty PROVE WindowInv'
PROOF
  <1> DEFINE call == Head(calls)
             cs == Tail(calls)
             heard == [dirty |-> call.dirty, edit |-> call.edit, revision |-> call.revision,
                       doc |-> call.doc]
             told == [server EXCEPT !.draft = heard]
             e == Answered(call, Accepts(call))
  <1>1. /\ calls # <<>> /\ call.kind = "dirty" /\ calls' = cs /\ task' = task
        /\ server' = (IF ~Accepts(call) THEN server ELSE told) /\ doc' = e
    BY DEF SetDirty
  <1>2. /\ call = calls[1] /\ call \in Calls /\ cs \in Seq(Calls) /\ 1 \in DOMAIN calls
        /\ Queued(server, doc, cs) /\ Drafted(server, doc, cs, task) /\ Booted(doc, cs)
        /\ ~doc.ready /\ call.doc = doc.id => \A i \in DOMAIN cs : cs[i].doc # doc.id
        /\ \A i \in DOMAIN cs : cs[i].kind = "dirty" =>
             Precedes(call, cs[i], cs[i].doc) /\ cs[i] \in Reports
    BY <1>1, Arrived
  <1>3. call \in Reports /\ call.doc \in Nat /\ call.revision \in Nat /\ call.edit \in Nat
        /\ call.dirty \in BOOLEAN
    BY <1>1, <1>2, CallFacts
  <1>4. Covers(server, call, call.doc)
    BY <1>1, <1>2 DEF WindowInv, Queued
  <1>5. heard \in Tokens /\ heard.dirty = call.dirty /\ heard.edit = call.edit
        /\ heard.revision = call.revision /\ heard.doc = call.doc
    BY <1>3 DEF Tokens
  <1> HIDE DEF heard
  <1>6. /\ told \in Servers /\ told.draft = heard /\ told.given = server.given
        /\ told.edits = server.edits /\ told.published = server.published
    BY <1>5, WindowFacts DEF Servers
  <1> HIDE DEF told, call, cs
  <1>7. /\ e \in Docs /\ SameView(doc, e) /\ SameDraft(doc, e)
        /\ e.answer = doc.answer \/ (call.doc = doc.id /\ e.answer.to = call.wanted)
    BY <1>3, AnsweredFacts DEF Accepts
  <1> HIDE DEF e
  <1>8. Booted(e, cs)
    <2>1. CASE e.answer = doc.answer
      BY <1>2, <1>7, <2>1 DEF Booted, SameDraft, SameView
    <2>2. CASE call.doc = doc.id /\ e.answer.to = call.wanted
      <3>1. CASE doc.ready
        <4>1. call.wanted # "boot" /\ (call.wanted = "flush" => doc.latest # 0)
          BY <1>1, <1>2, <2>2, <3>1 DEF WindowInv, Booted
        <4>2. QED BY <1>2, <1>7, <2>2, <3>1, <4>1 DEF Booted, SameDraft, SameView
      <3>2. CASE ~doc.ready
        <4>1. call.wanted = "boot" /\ doc.boot = "ack"
          BY <1>1, <1>2, <2>2, <3>2 DEF WindowInv, Booted
        <4>2. QED BY <1>2, <1>7, <2>2, <3>2, <4>1 DEF Booted, SameDraft, SameView
      <3>3. QED BY <3>1, <3>2
    <2>3. QED BY <1>7, <2>1, <2>2
  <1>9. Viewed(server.published, e)
    <2>1. e.reset = doc.reset /\ doc \in Docs /\ Viewed(server.published, doc)
      BY <1>7, WindowFacts DEF SameDraft, WindowInv
    <2>2. QED BY <1>7, <2>1, SameViewed
  <1>10. Queued(server, e, cs) /\ Drafted(server, e, cs, task) /\ Confirmed(server, e, task)
    BY <1>2, <1>7, SameDrafted DEF WindowInv
  <1>11. CASE server' = server
    BY <1>1, <1>2, <1>7, <1>8, <1>9, <1>10, <1>11 DEF WindowInv, WindowTyped
  <1>12. CASE server' = told /\ Accepts(call)
    <2>1. \A d, id : Precedes(call, d, id) => Covers(told, d, id)
      BY <1>5, <1>6 DEF Precedes, Covers, Follows
    <2>2. Queued(told, e, cs)
      BY <1>2, <1>10, <2>1 DEF Queued
    <2>3. Drafted(told, e, cs, task)
      <3>1. e.ready \/ e.boot = "ack" => Precedes(call, Mine(e), e.id)
        BY <1>1, <1>2, <1>7 DEF WindowInv, Drafted, SameDraft, Mine
      <3>2. QED BY <1>6, <1>10, <2>1, <3>1 DEF Drafted, Consumed
    <2>4. Confirmed(told, e, task)
      <3>1. server.draft.revision \in Nat /\ server.draft.revision <= call.revision
        BY <1>12, WindowFacts DEF Accepts
      <3>2. task # NoTask => task.about.revision \in Nat
        BY WindowFacts DEF Tokens
      <3>3. e.consumed # Clean => e.consumed.revision \in Nat
        BY <1>7 DEF Docs, Tokens
      <3>4. \A n \in Nat : n <= server.draft.revision => n <= call.revision
        BY <1>3, <3>1
      <3>5. \A n \in Nat : n <= server.draft.revision /\ n = call.revision =>
              n = server.draft.revision
        BY <1>3, <3>1
      <3>6. server.draft.revision = call.revision =>
              /\ server.draft.doc = call.doc /\ server.draft.edit = call.edit
              /\ call.dirty => server.draft.dirty \/ server.draft.edit \in server.given
        BY <1>3, <1>4, <3>1 DEF Covers, Follows
      <3>7. ASSUME task # NoTask
            PROVE  /\ task.about.revision <= told.draft.revision
                   /\ task.about.revision = told.draft.revision =>
                        /\ task.about.doc = told.draft.doc
                        /\ task.about.edit = told.draft.edit
                        /\ task.at = "works" /\ told.draft.dirty =>
                             told.draft.edit \in told.given
        <4>1. task.about.revision <= server.draft.revision
          BY <1>10, <3>7 DEF Confirmed
        <4>2. task.about.revision <= told.draft.revision
          BY <1>5, <1>6, <3>2, <3>4, <3>7, <4>1
        <4>3. ASSUME task.about.revision = told.draft.revision
              PROVE  /\ task.about.doc = told.draft.doc /\ task.about.edit = told.draft.edit
                     /\ task.at = "works" /\ told.draft.dirty =>
                          told.draft.edit \in told.given
          <5>1. task.about.revision = server.draft.revision
                /\ server.draft.revision = call.revision
            BY <1>5, <1>6, <3>2, <3>5, <3>7, <4>1, <4>3
          <5>2. QED BY <1>5, <1>6, <1>10, <3>6, <3>7, <5>1 DEF Confirmed
        <4>4. QED BY <4>2, <4>3
      <3>8. e.consumed # Clean => e.consumed.revision <= told.draft.revision
        BY <1>5, <1>6, <1>10, <3>3, <3>4 DEF Confirmed
      <3>9. QED BY <1>10, <3>7, <3>8 DEF Confirmed
    <2>5. QED
      BY <1>1, <1>2, <1>6, <1>7, <1>8, <1>9, <1>12, <2>2, <2>3, <2>4
      DEF WindowInv, WindowTyped
  <1>13. QED BY <1>1, <1>11, <1>12

LEMMA ConfirmFacts ==
  ASSUME WindowInv, NEW owner \in Nat, NEW view \in Nat, Confirm(owner, view), NEW cs,
         Drafted(server, doc, cs, task)
  PROVE  /\ task' \in Tasks
         /\ Drafted(server, doc, cs, task') /\ Confirmed(server, doc, task')
PROOF
  <1>1. PICK asks \in BOOLEAN :
          /\ server.draft.dirty => asks
          /\ task' = [at |-> IF asks THEN "asks" ELSE "works", doc |-> owner, by |-> view,
                      about |-> server.draft]
    BY DEF Confirm
  <1>2. /\ task' \in Tasks /\ task'.about = server.draft
        /\ task'.at = "works" => ~server.draft.dirty
    BY <1>1, WindowFacts DEF Tasks
  <1>3. Drafted(server, doc, cs, task')
    BY <1>2 DEF Drafted, Covers
  <1>4. Confirmed(server, doc, task')
    BY <1>2, WindowFacts DEF WindowInv, Confirmed
  <1>5. QED BY <1>2, <1>3, <1>4

LEMMA ActKeeps == ASSUME WindowInv, Act \/ ActOfMenu PROVE WindowInv'
PROOF
  <1>1. CASE Act
    <2> DEFINE cs == Tail(calls)
    <2>1. /\ calls # <<>> /\ calls' = cs /\ server' = server /\ doc' = doc
          /\ task' = task \/ Confirm(calls[1].doc, calls[1].by)
          /\ calls[1].kind = "act"
      BY <1>1, Arrived DEF Act
    <2>2. /\ cs \in Seq(Calls) /\ Queued(server, doc, cs) /\ Drafted(server, doc, cs, task)
          /\ Booted(doc, cs) /\ calls[1].doc \in Nat /\ calls[1].by \in Nat
      BY <2>1, Arrived, CallFacts
    <2> HIDE DEF cs
    <2>3. /\ task' \in Tasks
          /\ Drafted(server, doc, cs, task') /\ Confirmed(server, doc, task')
      <3>1. CASE task' = task
        BY <2>2, <3>1 DEF WindowInv, WindowTyped
      <3>2. CASE Confirm(calls[1].doc, calls[1].by)
        BY <2>2, <3>2, ConfirmFacts
      <3>3. QED BY <2>1, <3>1, <3>2
    <2>4. QED BY <2>1, <2>2, <2>3 DEF WindowInv, WindowTyped
  <1>2. CASE ActOfMenu
    <2>1. Confirm(0, 0) /\ server' = server /\ doc' = doc /\ calls' = calls
      BY <1>2 DEF ActOfMenu
    <2>2. /\ task' \in Tasks
          /\ Drafted(server, doc, calls, task') /\ Confirmed(server, doc, task')
      BY <2>1, ConfirmFacts DEF WindowInv
    <2>3. QED BY <2>1, <2>2 DEF WindowInv, WindowTyped
  <1>3. QED BY <1>1, <1>2

\* The program knows the draft it knew, and may give up more.
LEMMA KnowsMore ==
  ASSUME NEW sv, sv.draft = server.draft, sv.edits = server.edits,
         server.given \subseteq sv.given, NEW d, NEW cs, NEW t
  PROVE  /\ Queued(server, d, cs) => Queued(sv, d, cs)
         /\ Drafted(server, d, cs, t) => Drafted(sv, d, cs, t)
         /\ Confirmed(server, d, t) => Confirmed(sv, d, t)
PROOF
  <1>1. \A c, id : Covers(server, c, id) => Covers(sv, c, id)
    BY DEF Covers
  <1>2. \A c, e, id : Consumed(server, c, e, id) => Consumed(sv, c, e, id)
    BY DEF Consumed
  <1>3. QED BY <1>1, <1>2 DEF Queued, Drafted, Confirmed

LEMMA UserAnswersKeeps == ASSUME WindowInv, UserAnswers PROVE WindowInv'
PROOF
  <1>1. CASE task' = NoTask /\ server' = server
    <2>1. doc' = doc /\ calls' = calls
      BY DEF UserAnswers
    <2>2. Drafted(server, doc, calls, NoTask)
            /\ Confirmed(server, doc, NoTask)
      BY DEF WindowInv, Drafted, Confirmed
    <2>3. NoTask \in Tasks
      BY DEF Tasks
    <2>4. QED BY <1>1, <2>1, <2>2, <2>3 DEF WindowInv, WindowTyped
  <1>2. CASE ~(task' = NoTask /\ server' = server)
    <2> DEFINE given == server.given \cup {task.about.edit}
               sv == [server EXCEPT !.given = given]
               work == [task EXCEPT !.at = "works"]
    <2>1. /\ task.at = "asks" /\ Current /\ task' = work /\ server' = sv
          /\ doc' = doc /\ calls' = calls
      BY <1>2 DEF UserAnswers
    <2>2. task # NoTask /\ task \in Tasks
      BY <2>1, WindowFacts DEF NoTask
    <2>3. task.about \in Tokens /\ task.about.edit \in Nat /\ given \subseteq Nat
          /\ server.given \subseteq given /\ task.about.edit \in given
      BY <2>2, WindowFacts DEF Tokens
    <2> HIDE DEF given
    <2>4. /\ sv \in Servers /\ sv.draft = server.draft /\ sv.edits = server.edits
          /\ sv.given = given /\ sv.published = server.published
      BY <2>3, WindowFacts DEF Servers
    <2>5. work \in Tasks /\ work.about = task.about /\ work # NoTask
      BY <2>2 DEF Tasks, NoTask
    <2> HIDE DEF sv, work
    <2>6. /\ Queued(sv, doc, calls) /\ Drafted(sv, doc, calls, task)
          /\ Confirmed(sv, doc, task)
      BY <2>3, <2>4, KnowsMore DEF WindowInv
    <2>7. Drafted(sv, doc, calls, work)
      BY <2>2, <2>5, <2>6 DEF Drafted
    <2>8. Confirmed(sv, doc, work)
      BY <2>2, <2>3, <2>4, <2>5, <2>6 DEF Confirmed
    <2>9. QED
      BY <2>1, <2>4, <2>5, <2>6, <2>7, <2>8 DEF WindowInv, WindowTyped
  <1>3. QED BY <1>1, <1>2

\* A snapshot of the same scope or of the next.
LEMMA PublishKeeps == ASSUME WindowInv, Publish PROVE WindowInv'
PROOF
  <1> DEFINE p == server.published
  <1>1. Now \in Scopes /\ Now = p[Len(p)] /\ Len(p) \in 1..Len(p)
          /\ p \in Seq(Scopes)
        /\ Len(p) \in Nat
    BY WindowFacts DEF Now, Scope
  <1>2. PICK x : /\ x = Now \/ \E q \in Profiles : x = <<q, Now[2] + 1>>
                 /\ server' = [server EXCEPT !.published = Append(p, x)]
                 /\ task' = task /\ doc' = doc /\ calls' = calls
    BY DEF Publish
  <1>3. Now[2] \in Nat
    BY <1>1 DEF Scopes
  <1>4. x \in Scopes /\ x[2] >= Now[2] /\ (x[2] = Now[2] => x = Now)
    <2>1. CASE x = Now
      BY <1>1, <1>3, <2>1
    <2>2. CASE \E q \in Profiles : x = <<q, Now[2] + 1>>
      <3>1. PICK q \in Profiles : x = <<q, Now[2] + 1>>
        BY <2>2
      <3>2. Now[2] + 1 \in Nat
        BY <1>3
      <3>3. x \in Scopes /\ x[2] = Now[2] + 1
        BY <3>1, <3>2 DEF Scopes
      <3>4. QED BY <1>3, <3>3
    <2>3. QED BY <1>2, <2>1, <2>2
  <1> DEFINE ps == Append(p, x)
             sv == [server EXCEPT !.published = ps]
  <1>5. /\ ps \in Seq(Scopes) /\ Len(ps) = Len(p) + 1
        /\ \A i \in 1..Len(p) : ps[i] = p[i]
        /\ ps[Len(p) + 1] = x
    BY <1>1, <1>4
  <1>6. server' = sv
    BY <1>2
  <1> HIDE DEF ps
  <1>7. /\ sv \in Servers /\ sv.draft = server.draft /\ sv.edits = server.edits
        /\ sv.given = server.given /\ sv.published = ps
    BY <1>5, WindowFacts DEF Servers
  <1> HIDE DEF sv, p
  <1>8. Onward(p) /\ Viewed(p, doc) /\ \A i \in 1..Len(p) : p[i][2] \in Nat
    BY <1>1 DEF WindowInv, p, Scopes
  <1>9. Onward(ps)
    <2>1. ASSUME NEW i \in 1..Len(ps), NEW j \in 1..Len(ps), i <= j
          PROVE  ps[i][2] <= ps[j][2] /\ (ps[i][2] = ps[j][2] => ps[i] = ps[j])
      <3>1. CASE j \in 1..Len(p)
        <4>1. i \in 1..Len(p)
          BY <1>1, <1>5, <2>1, <3>1
        <4>2. QED BY <1>5, <1>8, <2>1, <3>1, <4>1 DEF Onward
      <3>2. CASE i \in 1..Len(p) /\ j = Len(p) + 1
        <4>1. p[i][2] <= Now[2] /\ (p[i][2] = Now[2] => p[i] = Now)
          BY <1>1, <1>8, <3>2 DEF Onward
        <4>2. p[i][2] \in Nat /\ x[2] \in Nat
          BY <1>4, <1>8, <3>2 DEF Scopes
        <4>3. p[i][2] <= x[2] /\ (p[i][2] = x[2] => p[i] = x)
          BY <1>3, <1>4, <4>1, <4>2
        <4>4. QED BY <1>5, <3>2, <4>3
      <3>3. CASE i = Len(p) + 1 /\ j = Len(p) + 1
        <4>1. x[2] \in Nat
          BY <1>4 DEF Scopes
        <4>2. QED BY <1>5, <3>3, <4>1
      <3>4. QED BY <1>1, <1>5, <2>1, <3>1, <3>2, <3>3
    <2>2. QED BY <1>1, <1>5, <2>1 DEF Onward
  <1>10. Viewed(ps, doc)
    <2>1. /\ doc.latest \in Nat /\ doc.shown \in Nat /\ doc.stats \in Nat
          /\ doc.asked \in Nat
      BY WindowFacts DEF Docs
    <2>2. doc.latest # 0 => doc.latest \in 1..Len(p)
      BY <1>8, <2>1 DEF Viewed
    <2>3. doc.shown # 0 => doc.shown \in 1..Len(p) /\ doc.latest # 0
      BY <1>8, <2>1, <2>2 DEF Viewed
    <2>4. \A i \in 0..Len(p) : i \in 0..Len(ps) /\ (i # 0 => ps[i] = p[i])
      BY <1>1, <1>5
    <2>5. \A i \in 1..Len(p) : i \in 0..Len(p) /\ i \in 1..Len(ps) /\ i # 0
      BY <1>1, <1>5
    <2> HIDE DEF p
    <2>6. QED BY <1>8, <2>2, <2>3, <2>4, <2>5 DEF Viewed
  <1>11. /\ Queued(sv, doc, calls) /\ Drafted(sv, doc, calls, task)
         /\ Confirmed(sv, doc, task)
    BY <1>7, KnowsMore DEF WindowInv
  <1>12. QED
    BY <1>2, <1>6, <1>7, <1>9, <1>10, <1>11 DEF WindowInv, WindowTyped

LEMMA ConsumeKeeps == ASSUME WindowInv, Consume PROVE WindowInv'
PROOF
  <1>1. task.at = "works" /\ task' = NoTask /\ calls' = calls
    BY DEF Consume
  <1>2. task # NoTask /\ task.about \in Tokens /\ NoTask \in Tasks
    BY <1>1, WindowFacts DEF NoTask, Tasks
  <1>3. CASE ~Current
    <2>1. server' = server /\ doc' = doc
      BY <1>3 DEF Consume
    <2>2. Drafted(server, doc, calls, NoTask)
            /\ Confirmed(server, doc, NoTask)
      BY DEF WindowInv, Drafted, Confirmed
    <2>3. QED BY <1>1, <1>2, <2>1, <2>2 DEF WindowInv, WindowTyped
  <1>4. CASE Current
    <2> DEFINE left == [server.draft EXCEPT !.dirty = FALSE]
               sv == [server EXCEPT !.draft = left]
               e == [doc EXCEPT !.consumed = task.about]
    <2>1. /\ sv = [server EXCEPT !.draft.dirty = FALSE]
          /\ left \in Tokens /\ ~left.dirty /\ left.revision = server.draft.revision
          /\ left.edit = server.draft.edit /\ left.doc = server.draft.doc
      BY WindowFacts DEF Servers, Tokens
    <2>2. server' = sv /\ doc' \in {doc, e}
      BY <1>4, <2>1 DEF Consume
    <2> HIDE DEF left
    <2>3. /\ sv \in Servers /\ sv.draft = left /\ sv.edits = server.edits
          /\ sv.given = server.given /\ sv.published = server.published
      BY <2>1, WindowFacts DEF Servers
    <2>4. /\ e \in Docs /\ e.consumed = task.about /\ SameView(doc, e)
          /\ e.reset = doc.reset
          /\ e.id = doc.id /\ e.ready = doc.ready /\ e.boot = doc.boot /\ e.next = doc.next
          /\ e.draft = doc.draft /\ e.answer = doc.answer
      BY <1>2, WindowFacts DEF Docs, SameView
    <2> HIDE DEF sv, e
    <2>5. server.draft.dirty => server.draft.edit \in server.given
      BY <1>1, <1>2, <1>4 DEF Current, WindowInv, Confirmed
    <2>6. \A d, id : Covers(server, d, id) => Covers(sv, d, id)
      BY <2>1, <2>3, <2>5 DEF Covers, Follows
    <2>7. Queued(sv, doc, calls)
      BY <2>6 DEF WindowInv, Queued
    <2>8. Drafted(sv, doc, calls, NoTask) /\ Confirmed(sv, doc, NoTask)
      BY <2>1, <2>3, <2>6 DEF WindowInv, Drafted, Confirmed, Consumed
    <2>9. Queued(sv, e, calls)
      BY <2>4, <2>7 DEF Queued
    <2>10. Drafted(sv, e, calls, NoTask)
      <3>1. Mine(e) = Mine(doc)
        BY <2>4 DEF Mine
      <3>2. doc.ready \/ doc.boot = "ack" => Follows(task.about, Mine(doc), doc.id)
        BY <1>2 DEF WindowInv, Drafted
      <3>3. task.about.revision = server.draft.revision /\ task.about.edit = server.draft.edit
        BY <1>2, <1>4 DEF Current, WindowInv, Confirmed
      <3>4. doc.ready \/ doc.boot = "ack" => Consumed(sv, task.about, Mine(doc), doc.id)
        BY <2>1, <2>3, <2>8, <3>2, <3>3 DEF Drafted, Covers, Consumed
      <3>5. QED BY <2>4, <2>8, <3>1, <3>4 DEF Drafted
    <2>11. Confirmed(sv, e, NoTask)
      <3>1. task.about.revision <= server.draft.revision
        BY <1>2 DEF WindowInv, Confirmed
      <3>2. task.about # Clean
        BY <1>2, CleanFacts
      <3>3. QED BY <2>1, <2>3, <2>4, <3>1, <3>2 DEF Confirmed
    <2>12. Viewed(server.published, e)
      BY <2>4, SameViewed, WindowFacts DEF WindowInv
    <2>13. Booted(e, calls)
      BY <2>4 DEF WindowInv, Booted, SameView
    <2>14. CASE doc' = doc
      BY <1>1, <1>2, <2>2, <2>3, <2>7, <2>8, <2>14 DEF WindowInv, WindowTyped
    <2>15. CASE doc' = e
      BY <1>1, <1>2, <2>2, <2>3, <2>4, <2>9, <2>10, <2>11, <2>12, <2>13, <2>15
      DEF WindowInv, WindowTyped
    <2>16. QED BY <2>2, <2>14, <2>15
  <1>5. QED BY <1>3, <1>4

-----------------------------------------------------------------------------
(* The window: what the document does.                                     *)

\* A document that is ready shows something else or goes on with its draft, and
\* may tell it to nobody in particular.
LEMMA ReadyKeeps ==
  ASSUME WindowInv, doc.ready, NEW e \in Docs, doc' = e, task' = task,
         e.id = doc.id, e.ready, Goes(doc.draft, e.draft),
         e.consumed \in {doc.consumed, Clean},
         e.consumed = Clean => e.reset = 0,
         e.answer.to \in {doc.answer.to, "nobody"}, e.latest >= doc.latest,
         NEW sv \in Servers, server' = sv, sv.draft = server.draft, sv.given = server.given,
         sv.published = server.published, Viewed(server.published, e),
         e.draft.edit <= sv.edits,
         NEW cs \in Seq(Calls), calls' = cs,
         \/ cs = calls
         \/ \E r \in Reports : /\ cs = Append(calls, r) /\ r.doc = e.id
                               /\ r.dirty = e.draft.dirty /\ r.revision = e.draft.revision
                               /\ r.edit = e.draft.edit
                               /\ \/ r.wanted = "nobody"
                                  \/ r.wanted = "flush" /\ e.latest # 0
  PROVE  WindowInv'
PROOF
  <1>1. Goes(Mine(doc), e.draft)
    BY DEF Mine
  <1>2. Queued(sv, e, cs) /\ Drafted(sv, e, cs, task)
    <2>1. \/ cs = calls
          \/ \E r \in Reports : /\ cs = Append(calls, r) /\ r.doc = e.id
                                /\ r.dirty = e.draft.dirty /\ r.revision = e.draft.revision
                                /\ r.edit = e.draft.edit
      OBVIOUS
    <2>2. QED BY <1>1, <2>1, Tells
  <1>3. Confirmed(sv, e, task)
    BY DEF WindowInv, Confirmed
  <1>4. e.latest \in Nat /\ doc.latest \in Nat /\ (doc.latest # 0 => e.latest # 0)
    <2>1. e.latest \in Nat /\ doc.latest \in Nat
      BY WindowFacts DEF Docs
    <2>2. QED BY <2>1
  <1>5. Booted(e, calls)
    BY <1>4 DEF WindowInv, Booted
  <1>6. Booted(e, cs)
    <2>1. CASE cs = calls
      BY <1>5, <2>1
    <2>2. CASE cs # calls
      <3>1. PICK r \in Reports : /\ cs = Append(calls, r) /\ r.doc = e.id
                                 /\ \/ r.wanted = "nobody"
                                    \/ r.wanted = "flush" /\ e.latest # 0
        BY <2>2
      <3>2. r \in Calls /\ r.kind = "dirty"
        BY CallFacts DEF Calls
      <3>3. /\ DOMAIN cs = DOMAIN calls \cup {Len(calls) + 1}
            /\ \A i \in DOMAIN calls : cs[i] = calls[i]
            /\ cs[Len(calls) + 1] = r
        BY <3>1, <3>2, WindowFacts, AppendedCall
      <3>4. QED BY <1>5, <3>1, <3>2, <3>3 DEF Booted
    <2>3. QED BY <2>1, <2>2
  <1>7. QED
    BY <1>2, <1>3, <1>6, WindowFacts DEF WindowInv, WindowTyped

\* The statistics and the clicks of a document change nothing else.
LEMMA ViewKeeps ==
  ASSUME WindowInv, NEW e \in Docs, doc' = e, SameDraft(doc, e),
         e.answer = doc.answer, e.latest = doc.latest, e.shown = doc.shown,
         Viewed(server.published, e), UNCHANGED <<server, calls, task>>
  PROVE  WindowInv'
PROOF
  <1>1. /\ Queued(server, e, calls) /\ Drafted(server, e, calls, task)
        /\ Confirmed(server, e, task)
    BY SameDrafted DEF WindowInv
  <1>2. Booted(e, calls)
    BY DEF WindowInv, Booted, SameDraft
  <1>3. QED BY <1>1, <1>2 DEF WindowInv, WindowTyped

\* A report of the draft of a document with a snapshot.
LEMMA Reported ==
  ASSUME WindowInv, NEW e \in Docs, e.id = doc.id, NEW n \in 1..Len(server.published),
         NEW wanted \in Callers
  PROVE  LET r == Report(Scope(n), e.draft, wanted)
             cs == Append(calls, r)
         IN /\ r \in Reports /\ r.doc = e.id /\ r.dirty = e.draft.dirty
            /\ r.revision = e.draft.revision /\ r.edit = e.draft.edit /\ r.wanted = wanted
            /\ cs \in Seq(Calls) /\ calls \o <<r>> = cs /\ calls \o <<>> = calls
PROOF
  <1> DEFINE r == Report(Scope(n), e.draft, wanted)
  <1>1. Scope(n) \in Scopes /\ e.draft \in Drafts
    BY WindowFacts DEF Scope, Docs
  <1>2. /\ r \in Reports /\ r \in Calls /\ r.doc = doc.id /\ r.wanted = wanted
        /\ r.dirty = e.draft.dirty /\ r.revision = e.draft.revision /\ r.edit = e.draft.edit
    BY <1>1, ReportFacts, WindowFacts
  <1> HIDE DEF r
  <1>3. Append(calls, r) \in Seq(Calls) /\ calls \o <<r>> = Append(calls, r)
        /\ calls \o <<>> = calls
    BY <1>2, AppendedCall, WindowFacts
  <1>4. QED BY <1>2, <1>3 DEF r

LEMMA DraftEdit ==
  ASSUME WindowInv, doc.ready
  PROVE  doc.draft.edit <= server.edits /\ Mine(doc) = doc.draft
PROOF BY DEF WindowInv, Drafted, Mine

LEMMA DeliverKeeps ==
  ASSUME WindowInv, NEW n \in Nat \ {0}, Deliver(n)
  PROVE  WindowInv'
PROOF
  <1>1. n \in 1..Len(server.published) /\ server' = server /\ task' = task
    BY WindowFacts DEF Deliver
  <1>2. CASE ~doc.ready
    <2> DEFINE new == Newer(doc.pending, n)
               e == [doc EXCEPT !.pending = new]
    <2>1. doc' = e /\ calls' = calls
      BY <1>2 DEF Deliver
    <2>2. new \in 0..Len(server.published)
      BY <1>1 DEF Newer, WindowInv, Viewed
    <2>3. new \in Nat
      BY <2>2, WindowFacts
    <2> HIDE DEF new
    <2>4. /\ e \in Docs /\ SameDraft(doc, e) /\ e.answer = doc.answer
          /\ e.latest = doc.latest /\ e.shown = doc.shown /\ e.stats = doc.stats
          /\ e.asked = doc.asked /\ e.loading = doc.loading /\ e.since = doc.since
          /\ e.pending = new
      BY <2>3, WindowFacts DEF Docs, SameDraft
    <2> HIDE DEF e
    <2>5. Viewed(server.published, e)
      BY <2>2, <2>4 DEF WindowInv, Viewed, SameDraft
    <2>6. QED BY <1>1, <2>1, <2>4, <2>5, ViewKeeps
  <1>3. CASE doc.ready
    <2> DEFINE a == Accepted(doc, n)
               p == server.published
    <2>1. doc' = a.doc /\ calls' = calls \o a.call
      BY <1>3 DEF Deliver
    <2>2. n \in 0..Len(p) /\ Viewed(p, doc) /\ doc \in Docs
      BY <1>1, WindowFacts DEF WindowInv
    <2>3. /\ a.doc \in Docs /\ Viewed(p, a.doc) /\ a.doc.id = doc.id /\ a.doc.ready
          /\ a.doc.consumed = doc.consumed /\ a.doc.reset = doc.reset
          /\ a.doc.answer = doc.answer /\ a.doc.latest >= doc.latest
          /\ a.doc.draft.revision = doc.draft.revision
          /\ a.doc.draft.edit = doc.draft.edit
          /\ a.doc.draft.dirty => doc.draft.dirty
          /\ \/ a.call = <<>>
             \/ /\ a.doc.latest # 0
                /\ a.call = <<Report(p[a.doc.latest], a.doc.draft, "nobody")>>
      BY <1>3, <2>2, AcceptedFacts
    <2> HIDE DEF a
    <2>4. Goes(doc.draft, a.doc.draft)
      BY <2>3 DEF Goes
    <2>5. a.doc.draft.edit <= server.edits
      BY <1>3, <2>3, DraftEdit
    <2>6. a.doc.consumed = Clean => a.doc.reset = 0
      BY <2>3 DEF WindowInv, Confirmed
    <2>7. CASE a.call = <<>>
      <3>1. calls' = calls
        BY <2>1, <2>7, WindowFacts, ConcatEmptySeq
      <3>2. QED
        BY <1>1, <1>3, <2>1, <2>3, <2>4, <2>5, <2>6, <3>1, ReadyKeeps, WindowFacts
    <2>8. CASE a.call # <<>>
      <3> DEFINE r == Report(p[a.doc.latest], a.doc.draft, "nobody")
      <3>1. a.doc.latest \in 1..Len(p) /\ a.call = <<r>>
              /\ Scope(a.doc.latest) = p[a.doc.latest]
        BY <2>3, <2>8 DEF Viewed, Scope
      <3>2. /\ r \in Reports /\ r.doc = a.doc.id /\ r.dirty = a.doc.draft.dirty
            /\ r.revision = a.doc.draft.revision /\ r.edit = a.doc.draft.edit
            /\ r.wanted = "nobody"
            /\ Append(calls, r) \in Seq(Calls) /\ calls \o <<r>> = Append(calls, r)
        <4>1. "nobody" \in Callers
          BY DEF Callers
        <4>2. QED BY <2>3, <3>1, <4>1, Reported
      <3> HIDE DEF r
      <3>3. calls' = Append(calls, r)
        BY <2>1, <3>1, <3>2
      <3>4. QED
        BY <1>1, <1>3, <2>1, <2>3, <2>4, <2>5, <2>6, <3>2, <3>3, ReadyKeeps, WindowFacts
    <2>9. QED BY <2>7, <2>8
  <1>4. QED BY <1>2, <1>3

\* A call of the document that tells no draft.
LEMMA OtherCall ==
  ASSUME WindowInv, NEW c \in Calls, c.kind # "dirty", c.doc = doc.id
  PROVE  LET cs == Append(calls, c) IN
         /\ cs \in Seq(Calls) /\ Queued(server, doc, cs) /\ Drafted(server, doc, cs, task)
         /\ DOMAIN cs = DOMAIN calls \cup {Len(calls) + 1}
         /\ \A i \in DOMAIN calls : cs[i] = calls[i]
         /\ cs[Len(calls) + 1] = c
PROOF
  <1> DEFINE cs == Append(calls, c)
             k == Len(calls) + 1
  <1>1. /\ cs \in Seq(Calls) /\ DOMAIN cs = DOMAIN calls \cup {k}
        /\ \A i \in DOMAIN calls : cs[i] = calls[i]
        /\ cs[k] = c /\ DOMAIN calls = 1..Len(calls) /\ Len(calls) \in Nat
    BY AppendedCall, WindowFacts
  <1> HIDE DEF cs
  <1>2. \A i \in DOMAIN calls : i < k /\ ~(k < i) /\ ~(k < k)
    BY <1>1
  <1> HIDE DEF k
  <1>3. \A i \in DOMAIN calls : calls[i].doc <= doc.id
    BY DEF WindowInv, Queued
  <1>4. doc.id <= doc.id
    BY WindowFacts
  <1>5. ASSUME NEW i \in DOMAIN cs, NEW j \in DOMAIN cs, i < j
        PROVE  /\ cs[i].doc <= cs[j].doc
               /\ cs[i].kind = "dirty" /\ cs[j].kind = "dirty" =>
                    Precedes(cs[i], cs[j], cs[j].doc)
    <2>1. i \in DOMAIN calls
      <3>1. k \in Nat
        BY <1>1 DEF k
      <3>2. QED BY <1>1, <1>2, <1>5, <3>1
    <2>2. CASE j = k
      BY <1>1, <1>3, <2>1, <2>2
    <2>3. CASE j # k
      BY <1>1, <1>5, <2>1, <2>3 DEF WindowInv, Queued
    <2>4. QED BY <2>2, <2>3
  <1>6. Queued(server, doc, cs)
    BY <1>1, <1>3, <1>4, <1>5 DEF WindowInv, Queued
  <1>7. Drafted(server, doc, cs, task)
    BY <1>1 DEF WindowInv, Drafted
  <1>8. QED BY <1>1, <1>6, <1>7 DEF cs, k

LEMMA BootstrapKeeps == ASSUME WindowInv, Bootstrap PROVE WindowInv'
PROOF
  <1> DEFINE c == [kind |-> "info", doc |-> doc.id]
             cs == Append(calls, c)
             e == [doc EXCEPT !.boot = "info"]
  <1>1. /\ ~doc.ready /\ doc.boot = "none" /\ calls' = cs /\ doc' = e
        /\ server' = server /\ task' = task
    BY DEF Bootstrap
  <1>2. c \in Calls /\ c.kind = "info" /\ c.doc = doc.id
    BY WindowFacts DEF Calls
  <1> HIDE DEF c
  <1>3. /\ cs \in Seq(Calls) /\ Queued(server, doc, cs)
        /\ DOMAIN cs = DOMAIN calls \cup {Len(calls) + 1}
        /\ \A i \in DOMAIN calls : cs[i] = calls[i]
        /\ cs[Len(calls) + 1] = c
    BY <1>2, OtherCall
  <1> HIDE DEF cs
  <1>4. /\ e \in Docs /\ e.boot = "info" /\ SameView(doc, e) /\ e.reset = doc.reset
        /\ e.id = doc.id /\ ~e.ready /\ e.draft = doc.draft /\ e.answer = doc.answer
        /\ e.consumed = doc.consumed
    BY <1>1, WindowFacts DEF Docs, SameView
  <1> HIDE DEF e
  <1>5. Viewed(server.published, e)
    BY <1>4, SameViewed, WindowFacts DEF WindowInv
  <1>6. Queued(server, e, cs) /\ Drafted(server, e, cs, task) /\ Confirmed(server, e, task)
    BY <1>3, <1>4 DEF WindowInv, Queued, Drafted, Confirmed
  <1>7. Booted(e, cs)
    <2>1. \A i \in DOMAIN calls : calls[i].doc # doc.id
      BY <1>1 DEF WindowInv, Booted
    <2>2. doc.answer.to = "nobody"
      BY <1>1 DEF WindowInv, Booted
    <2>3. QED BY <1>1, <1>2, <1>3, <1>4, <2>1, <2>2 DEF WindowInv, Booted, SameView
  <1>8. QED BY <1>1, <1>3, <1>4, <1>5, <1>6, <1>7 DEF WindowInv, WindowTyped

LEMMA InfoKeeps == ASSUME WindowInv, Info PROVE WindowInv'
PROOF
  <1> DEFINE cs == Tail(calls)
  <1>1. /\ calls # <<>> /\ calls[1].kind = "info" /\ server' = server /\ task' = task
        /\ Head(calls) = calls[1]
    BY Arrived DEF Info
  <1>2. /\ cs \in Seq(Calls) /\ Queued(server, doc, cs) /\ Drafted(server, doc, cs, task)
        /\ Booted(doc, cs) /\ 1 \in DOMAIN calls
        /\ \A i \in DOMAIN cs : calls[1].doc <= cs[i].doc
        /\ ~doc.ready /\ calls[1].doc = doc.id => \A i \in DOMAIN cs : cs[i].doc # doc.id
    BY <1>1, Arrived
  <1> HIDE DEF cs
  <1>3. CASE calls[1].doc # doc.id
    <2>1. doc' = doc /\ calls' = cs
      BY <1>1, <1>3 DEF Info, cs
    <2>2. QED BY <1>1, <1>2, <2>1 DEF WindowInv, WindowTyped
  <1>4. CASE calls[1].doc = doc.id
    <2> DEFINE revision == NextRevision(server.draft.revision)
               draft == [doc.draft EXCEPT !.revision = revision]
               e == [doc EXCEPT !.boot = "ack", !.next = draft]
               r == Report(Now, draft, "boot")
    <2>1. doc' = e /\ calls' = Append(cs, r)
      BY <1>1, <1>4 DEF Info, cs
    <2>2. ~doc.ready /\ doc.answer.to = "nobody" /\ doc.draft = Clean
      BY <1>1, <1>2, <1>4 DEF WindowInv, Booted
    <2>3. revision \in Nat /\ revision > server.draft.revision
      <3>1. server.draft.revision \in Nat /\ doc.draft.revision \in Nat
        BY WindowFacts
      <3>2. QED BY <3>1 DEF NextRevision, Newer
    <2>4. /\ draft \in Drafts /\ draft.revision = revision /\ ~draft.dirty /\ draft.edit = 0
      BY <2>2, <2>3, CleanFacts DEF Drafts
    <2> HIDE DEF revision, draft
    <2>5. cs = <<>>
      <3>1. \A i \in DOMAIN cs : cs[i].doc = doc.id
        <4>1. \A i \in DOMAIN cs : cs[i].doc <= doc.id /\ cs[i].doc >= doc.id
          BY <1>2, <1>4 DEF Queued
        <4>2. \A i \in DOMAIN cs : cs[i].doc \in Nat
          BY <1>2, CallFacts
        <4>3. QED BY <4>1, <4>2, WindowFacts
      <3>2. DOMAIN cs = {}
        BY <1>2, <1>4, <2>2, <3>1
      <3>3. QED BY <1>2, <3>2
    <2>6. Now \in Scopes
      BY WindowFacts DEF Now, Scope
    <2>7. /\ r \in Reports /\ r \in Calls /\ r.doc = doc.id /\ r.wanted = "boot"
          /\ ~r.dirty /\ r.revision = revision /\ r.edit = 0 /\ r.kind = "dirty"
      <3>1. "boot" \in Callers
        BY DEF Callers
      <3>2. QED BY <2>4, <2>6, <3>1, ReportFacts, CallFacts, WindowFacts
    <2> HIDE DEF r
    <2>8. calls' = <<r>> /\ calls' \in Seq(Calls) /\ DOMAIN calls' = {1} /\ calls'[1] = r
      BY <2>1, <2>5, <2>7
    <2>9. /\ e \in Docs /\ e.boot = "ack" /\ e.next = draft /\ SameView(doc, e)
          /\ e.reset = doc.reset /\ e.id = doc.id /\ ~e.ready /\ e.draft = doc.draft
          /\ e.answer = doc.answer /\ e.consumed = doc.consumed
      BY <2>2, <2>4, WindowFacts DEF Docs, SameView
    <2> HIDE DEF e
    <2>10. Viewed(server.published, e)
      BY <2>9, SameViewed, WindowFacts DEF WindowInv
    <2>11. Mine(e) = draft
      BY <2>9 DEF Mine
    <2>12. \A t \in Tokens : t.revision <= server.draft.revision =>
             Follows(t, draft, doc.id) /\ t.revision # revision
      <3>1. \A t \in Tokens : t.revision \in Nat
        BY DEF Tokens
      <3>2. QED BY <2>3, <2>4, <3>1, WindowFacts DEF Follows
    <2>13. Covers(server, draft, doc.id) /\ Follows(server.draft, r, doc.id)
      BY <2>4, <2>7, <2>12, WindowFacts DEF Covers, Follows
    <2>14. Queued(server, e, calls')
      <3>1. doc.id <= doc.id /\ ~(1 < 1)
        BY WindowFacts
      <3>2. Covers(server, r, doc.id)
        BY <2>7, <2>13 DEF Covers
      <3>3. QED BY <2>7, <2>8, <2>9, <3>1, <3>2 DEF Queued
    <2>15. Drafted(server, e, calls', task)
      <3>1. task # NoTask => Follows(task.about, draft, doc.id)
        BY <2>12, WindowFacts DEF WindowInv, Confirmed
      <3>2. doc.consumed # Clean => Consumed(server, doc.consumed, draft, doc.id)
        BY <2>4, <2>12, WindowFacts DEF WindowInv, Confirmed, Docs, Consumed
      <3>3. Precedes(r, draft, doc.id)
        BY <2>3, <2>4, <2>7 DEF Precedes, Follows
      <3>4. draft.edit <= server.edits
        BY <2>4, WindowFacts
      <3>5. QED BY <2>8, <2>9, <2>11, <2>13, <3>1, <3>2, <3>3, <3>4 DEF Drafted
    <2>16. Confirmed(server, e, task)
      BY <2>9 DEF WindowInv, Confirmed
    <2>17. Booted(e, calls')
      BY <2>2, <2>7, <2>8, <2>9 DEF WindowInv, Booted, SameView
    <2>18. QED
      BY <1>1, <2>1, <2>8, <2>9, <2>10, <2>14, <2>15, <2>16, <2>17
      DEF WindowInv, WindowTyped
  <1>5. QED BY <1>3, <1>4

\* The document as it is ready, with no snapshot yet.
Begun ==
  [doc EXCEPT !.answer = NoAnswer, !.boot = "none", !.ready = TRUE,
              !.draft = doc.next, !.next = Clean, !.pending = 0]

\* A document is ready with the draft that the program knows.
LEMMA ReadyAnswered ==
  ASSUME WindowInv, Ready, doc.answer.ok
  PROVE  LET c == Accepted(Begun, doc.pending)
         IN /\ doc' = c.doc /\ calls' = calls \o c.call
            /\ ~doc.ready /\ doc.boot = "ack" /\ doc.latest = 0 /\ ~doc.draft.dirty
            /\ \A i \in DOMAIN calls : calls[i].doc # doc.id
            /\ c.doc \in Docs /\ Viewed(server.published, c.doc)
            /\ c.doc.id = doc.id /\ c.doc.ready /\ c.doc.consumed = doc.consumed
            /\ c.doc.reset = doc.reset /\ c.doc.answer = NoAnswer /\ c.doc.next = Clean
            /\ SamePlace(doc, c.doc)
            /\ c.doc.draft.revision = Mine(doc).revision
            /\ c.doc.draft.edit = Mine(doc).edit
            /\ c.doc.draft.dirty => Mine(doc).dirty
            /\ \/ c.call = <<>>
               \/ /\ c.doc.latest # 0
                  /\ c.call = <<Report(server.published[c.doc.latest],
                                       c.doc.draft, "nobody")>>
PROOF
  <1> DEFINE a == [doc EXCEPT !.answer = NoAnswer, !.boot = "none"]
             b == [a EXCEPT !.ready = TRUE, !.draft = doc.next, !.next = Clean,
                            !.pending = 0]
             e == Begun
             c == Accepted(e, doc.pending)
  <1>1. b = e /\ doc.answer.to = "boot"
    BY DEF Ready, Begun
  <1>2. doc' = c.doc /\ calls' = calls \o c.call
    BY <1>1 DEF Ready
  <1>3. /\ ~doc.ready /\ doc.boot = "ack" /\ doc.latest = 0 /\ doc.draft = Clean
        /\ \A i \in DOMAIN calls : calls[i].doc # doc.id
    BY <1>1 DEF WindowInv, Booted
  <1>4. NoAnswer \in Answers
    BY DEF NoAnswer, Callers, Answers
  <1>5. /\ e \in Docs /\ e.answer = NoAnswer /\ e.ready /\ e.draft = doc.next
        /\ e.pending = 0 /\ e.next = Clean
        /\ e.id = doc.id /\ e.since = doc.since /\ e.latest = doc.latest
        /\ e.shown = doc.shown /\ e.stats = doc.stats /\ e.loading = doc.loading
        /\ e.asked = doc.asked /\ e.consumed = doc.consumed /\ e.reset = doc.reset
        /\ SamePlace(doc, e)
    BY <1>4, WindowFacts, CleanFacts DEF Docs, Begun, SamePlace
  <1> HIDE DEF e
  <1>6. Viewed(server.published, e)
    BY <1>5, WindowFacts DEF WindowInv, Viewed
  <1>7. doc.pending \in 0..Len(server.published)
    BY DEF WindowInv, Viewed
  <1>8. Mine(doc) = doc.next
    BY <1>3 DEF Mine
  <1>9. /\ c.doc \in Docs /\ Viewed(server.published, c.doc)
        /\ c.doc.id = e.id /\ c.doc.ready = e.ready /\ c.doc.consumed = e.consumed
        /\ c.doc.reset = e.reset /\ c.doc.answer = e.answer /\ SamePlace(e, c.doc)
        /\ c.doc.next = e.next
        /\ c.doc.draft.revision = e.draft.revision /\ c.doc.draft.edit = e.draft.edit
        /\ c.doc.draft.dirty => e.draft.dirty
        /\ \/ c.call = <<>>
           \/ /\ c.doc.latest # 0
              /\ c.call = <<Report(server.published[c.doc.latest],
                                   c.doc.draft, "nobody")>>
    BY <1>5, <1>6, <1>7, AcceptedFacts
  <1> HIDE DEF c
  <1>10. ~doc.draft.dirty
    BY <1>3, CleanFacts
  <1>11. /\ c.doc.id = doc.id /\ c.doc.ready /\ c.doc.consumed = doc.consumed
         /\ c.doc.reset = doc.reset /\ c.doc.answer = NoAnswer /\ SamePlace(doc, c.doc)
         /\ c.doc.next = Clean
         /\ c.doc.draft.revision = Mine(doc).revision /\ c.doc.draft.edit = Mine(doc).edit
         /\ c.doc.draft.dirty => Mine(doc).dirty
    BY <1>5, <1>8, <1>9 DEF SamePlace
  <1>12. c = Accepted(Begun, doc.pending)
    BY DEF c, e
  <1>13. QED BY <1>2, <1>3, <1>9, <1>10, <1>11, <1>12

LEMMA ReadyActionKeeps == ASSUME WindowInv, Ready PROVE WindowInv'
PROOF
  <1>1. server' = server /\ task' = task /\ doc.answer.to = "boot"
    BY DEF Ready
  <1>2. CASE ~doc.answer.ok
    <2> DEFINE e == [doc EXCEPT !.answer = NoAnswer, !.boot = "none"]
    <2>1. doc' = e /\ calls' = calls
      BY <1>2 DEF Ready
    <2>2. /\ ~doc.ready /\ \A i \in DOMAIN calls : calls[i].doc # doc.id
      BY <1>1 DEF WindowInv, Booted
    <2>3. NoAnswer \in Answers /\ NoAnswer.to = "nobody"
      BY DEF NoAnswer, Callers, Answers
    <2>4. /\ e \in Docs /\ SameView(doc, e) /\ e.reset = doc.reset /\ e.id = doc.id
          /\ ~e.ready /\ e.boot = "none" /\ e.draft = doc.draft /\ e.consumed = doc.consumed
          /\ e.answer.to = "nobody"
      BY <2>2, <2>3, WindowFacts DEF Docs, SameView
    <2> HIDE DEF e
    <2>5. Viewed(server.published, e)
      BY <2>4, SameViewed, WindowFacts DEF WindowInv
    <2>6. Queued(server, e, calls) /\ Drafted(server, e, calls, task)
          /\ Confirmed(server, e, task)
      BY <2>4 DEF WindowInv, Queued, Drafted, Confirmed
    <2>7. Booted(e, calls)
      BY <2>2, <2>4 DEF WindowInv, Booted, SameView
    <2>8. QED BY <1>1, <2>1, <2>4, <2>5, <2>6, <2>7 DEF WindowInv, WindowTyped
  <1>3. CASE doc.answer.ok
    <2> DEFINE c == Accepted(Begun, doc.pending)
               e == c.doc
    <2>1. /\ doc' = e /\ calls' = calls \o c.call
          /\ ~doc.ready /\ doc.boot = "ack" /\ doc.latest = 0
          /\ \A i \in DOMAIN calls : calls[i].doc # doc.id
          /\ e \in Docs /\ Viewed(server.published, e)
          /\ e.id = doc.id /\ e.ready /\ e.consumed = doc.consumed
          /\ e.reset = doc.reset /\ e.answer = NoAnswer
          /\ e.draft.revision = Mine(doc).revision /\ e.draft.edit = Mine(doc).edit
          /\ e.draft.dirty => Mine(doc).dirty
          /\ \/ c.call = <<>>
             \/ e.latest # 0
                /\ c.call = <<Report(server.published[e.latest], e.draft, "nobody")>>
      BY <1>3, ReadyAnswered
    <2> HIDE DEF c
    <2>2. Goes(Mine(doc), e.draft) /\ e.draft.edit <= server.edits
      BY <2>1 DEF Goes, WindowInv, Drafted
    <2>3. Confirmed(server, e, task)
      BY <2>1 DEF WindowInv, Confirmed
    <2>4. NoAnswer.to = "nobody"
      BY DEF NoAnswer
    <2>5. Booted(e, calls)
      BY <2>1, <2>4 DEF Booted
    <2>6. CASE c.call = <<>>
      <3>1. calls' = calls
        BY <2>1, <2>6, WindowFacts, ConcatEmptySeq
      <3>2. Queued(server, e, calls) /\ Drafted(server, e, calls, task)
        <4> HIDE DEF e
        <4>1. QED BY <2>1, <2>2, Tells, WindowFacts
      <3>3. QED
        BY <1>1, <2>1, <2>3, <2>5, <3>1, <3>2 DEF WindowInv, WindowTyped
    <2>7. CASE c.call # <<>>
      <3> DEFINE r == Report(server.published[e.latest], e.draft, "nobody")
                 cs == Append(calls, r)
      <3>1. e.latest \in 1..Len(server.published) /\ c.call = <<r>>
            /\ Scope(e.latest) = server.published[e.latest]
        BY <2>1, <2>7 DEF Viewed, Scope
      <3>2. /\ r \in Reports /\ r.doc = e.id /\ r.dirty = e.draft.dirty
            /\ r.revision = e.draft.revision /\ r.edit = e.draft.edit
            /\ r.wanted = "nobody"
            /\ cs \in Seq(Calls) /\ calls \o <<r>> = cs
        <4>1. "nobody" \in Callers
          BY DEF Callers
        <4> HIDE DEF e
        <4>2. QED BY <2>1, <3>1, <4>1, Reported
      <3> HIDE DEF r, e
      <3>3. calls' = cs
        BY <2>1, <3>1, <3>2
      <3>4. Queued(server, e, cs) /\ Drafted(server, e, cs, task)
        <4>1. \E x \in Reports : /\ cs = Append(calls, x) /\ x.doc = e.id
                                 /\ x.dirty = e.draft.dirty /\ x.revision = e.draft.revision
                                 /\ x.edit = e.draft.edit
          BY <3>2
        <4> HIDE DEF cs
        <4>2. e.consumed \in {doc.consumed, Clean}
          BY <2>1
        <4>3. QED BY <2>1, <2>2, <4>1, <4>2, Tells, WindowFacts
      <3>5. Booted(e, cs)
        <4>1. r \in Calls /\ r.kind = "dirty"
          BY <3>2, CallFacts DEF Calls
        <4>2. /\ DOMAIN cs = DOMAIN calls \cup {Len(calls) + 1}
              /\ \A i \in DOMAIN calls : cs[i] = calls[i]
              /\ cs[Len(calls) + 1] = r
          BY <4>1, WindowFacts, AppendedCall
        <4> HIDE DEF cs
        <4>3. QED BY <2>1, <2>5, <3>2, <4>1, <4>2 DEF Booted
      <3>6. QED
        BY <1>1, <2>1, <2>3, <3>2, <3>3, <3>4, <3>5 DEF WindowInv, WindowTyped
    <2>8. QED BY <2>6, <2>7
  <1>4. QED BY <1>2, <1>3

\* A document with a snapshot is ready.
LEMMA ViewsFacts ==
  ASSUME WindowInv
  PROVE  doc \in Docs /\ doc.views + 1 \in Nat
PROOF
  <1>1. doc \in Docs
    BY DEF WindowInv, WindowTyped
  <1>2. doc.views \in Nat
    BY <1>1 DEF Docs
  <1>3. QED BY <1>1, <1>2

LEMMA ShownFacts ==
  ASSUME WindowInv
  PROVE  /\ doc.latest # 0 => doc.ready /\ doc.latest \in 1..Len(server.published)
         /\ doc.shown # 0 => doc.latest # 0 /\ doc.shown \in 1..Len(server.published)
         /\ doc.reset # 0 => doc.latest # 0 /\ doc.consumed # Clean
         /\ doc.latest # doc.shown => doc.latest # 0
         /\ doc.latest \in Nat /\ doc.shown \in Nat
PROOF
  <1>1. /\ doc.latest \in Nat /\ doc.shown \in Nat /\ doc.reset \in Nat
        /\ Len(server.published) \in Nat
    BY WindowFacts DEF Docs
  <1>2. /\ doc.latest \in 0..Len(server.published) /\ doc.shown <= doc.latest
        /\ doc.reset <= doc.latest
    BY DEF WindowInv, Viewed
  <1>3. doc.latest # 0 => doc.ready
    BY DEF WindowInv, Booted
  <1>4. doc.reset # 0 => doc.consumed # Clean
    BY DEF WindowInv, Confirmed
  <1>5. QED BY <1>1, <1>2, <1>3, <1>4

\* What a document is whose view has gone.
LEMMA GoneFacts ==
  ASSUME NEW d \in Docs, NEW view \in Nat
  PROVE  LET e == Gone(d, view) IN
         /\ e \in Docs /\ SameView(d, e) /\ e.view = view /\ e.views \in Nat
         /\ e.views >= d.views /\ e.views >= view
         /\ ~e.draft.dirty /\ e.draft.revision = d.draft.revision
         /\ e.draft.edit = d.draft.edit /\ e.consumed = Clean /\ e.reset = 0
         /\ e.id = d.id /\ e.ready = d.ready /\ e.boot = d.boot /\ e.next = d.next
         /\ e.answer = d.answer /\ e.action = d.action /\ e.by = d.by
         /\ e.awaiting = d.awaiting
PROOF
  <1> DEFINE left == [d.draft EXCEPT !.dirty = FALSE]
             views == Newer(d.views, view)
             e == [d EXCEPT !.view = view, !.views = views, !.draft = left,
                            !.consumed = Clean, !.reset = 0]
  <1>1. d.draft \in Drafts /\ d.views \in Nat
    BY DEF Docs
  <1>2. /\ left \in Drafts /\ ~left.dirty /\ left.revision = d.draft.revision
        /\ left.edit = d.draft.edit
    BY <1>1 DEF Drafts
  <1>3. views \in Nat /\ views >= d.views /\ views >= view
    BY <1>1 DEF Newer
  <1>4. Gone(d, view) = e
    BY DEF Gone
  <1> HIDE DEF left, views
  <1>5. /\ e \in Docs /\ e.view = view /\ e.views = views /\ e.draft = left
        /\ e.consumed = Clean /\ e.reset = 0
    BY <1>2, <1>3 DEF Docs
  <1>6. /\ SameView(d, e)
        /\ e.id = d.id /\ e.ready = d.ready /\ e.boot = d.boot /\ e.next = d.next
        /\ e.answer = d.answer /\ e.action = d.action /\ e.by = d.by
        /\ e.awaiting = d.awaiting
    BY DEF Docs, SameView
  <1> HIDE DEF e
  <1>7. QED BY <1>2, <1>3, <1>4, <1>5, <1>6

\* The view goes, whatever else the document shows then, and the draft is told.
LEMMA GoneKeeps ==
  ASSUME WindowInv, doc.latest # 0,
         NEW d \in Docs, Viewed(server.published, d), SameDraft(doc, d),
         d.answer = doc.answer, d.latest = doc.latest,
         NEW view \in Nat, doc' = Gone(d, view), task' = task,
         calls' = Append(calls, Report(Scope(doc.latest), Gone(d, view).draft, "nobody")),
         NEW sv \in Servers, server' = sv, sv.draft = server.draft, sv.given = server.given,
         sv.published = server.published, sv.edits = server.edits
  PROVE  WindowInv'
PROOF
  <1> DEFINE e == Gone(d, view)
             r == Report(Scope(doc.latest), e.draft, "nobody")
             cs == Append(calls, r)
  <1>1. /\ e \in Docs /\ SameView(d, e) /\ ~e.draft.dirty
        /\ e.draft.revision = d.draft.revision
        /\ e.draft.edit = d.draft.edit /\ e.consumed = Clean /\ e.reset = 0
        /\ e.id = d.id /\ e.ready = d.ready /\ e.answer = d.answer
    BY GoneFacts
  <1>2. doc' = e /\ calls' = cs
    OBVIOUS
  <1> HIDE DEF e
  <1>3. doc.ready /\ doc.latest \in 1..Len(server.published) /\ doc.latest \in Nat
    BY ShownFacts
  <1>4. /\ e.id = doc.id /\ e.ready /\ Goes(doc.draft, e.draft)
        /\ e.draft.edit = doc.draft.edit
    BY <1>1, <1>3 DEF SameDraft, Goes
  <1>5. e.answer.to \in {doc.answer.to, "nobody"} /\ e.latest >= doc.latest
    BY <1>1, <1>3 DEF SameView
  <1>6. Viewed(server.published, e)
    BY <1>1, SameViewed
  <1>7. /\ r \in Reports /\ r.doc = e.id /\ r.dirty = e.draft.dirty
        /\ r.revision = e.draft.revision /\ r.edit = e.draft.edit
        /\ r.wanted = "nobody" /\ cs \in Seq(Calls)
    <2>1. "nobody" \in Callers
      BY DEF Callers
    <2> HIDE DEF r
    <2>2. r = Report(Scope(doc.latest), e.draft, "nobody")
      BY DEF r
    <2>3. QED BY <1>1, <1>3, <1>4, <2>1, <2>2, Reported
  <1> HIDE DEF r
  <1>8. e.draft.edit <= sv.edits
    BY <1>3, <1>4, DraftEdit
  <1>9. QED
    BY <1>1, <1>2, <1>3, <1>4, <1>5, <1>6, <1>7, <1>8, ReadyKeeps

LEMMA RenderKeeps == ASSUME WindowInv, Render PROVE WindowInv'
PROOF
  <1> DEFINE p == server.published
             changed == doc.shown = 0 \/ p[doc.shown] # p[doc.latest]
             profile == \/ doc.shown = 0
                        \/ Profile(p[doc.shown]) # Profile(p[doc.latest])
             remount == profile /\ doc.view # 0
             awaiting == doc.awaiting \/ profile
             a == [doc EXCEPT !.shown = doc.latest, !.awaiting = awaiting]
             b == [a EXCEPT !.asked = doc.latest, !.loading = TRUE]
             m == Gone(b, doc.views + 1)
             r == Report(Scope(doc.latest), m.draft, "nobody")
  <1>1. /\ doc.latest # doc.shown /\ server' = server /\ task' = task
        /\ doc' = (IF remount THEN m ELSE IF changed THEN b ELSE a)
        /\ calls' = (IF remount THEN Append(calls, r) ELSE calls)
    BY DEF Render, Scope
  <1>2. doc.ready /\ doc.latest # 0 /\ doc.latest \in 1..Len(p) /\ doc.latest \in Nat
    BY <1>1, ShownFacts
  <1>3. remount => changed
    OBVIOUS
  <1>4. awaiting \in BOOLEAN /\ doc.views + 1 \in Nat
    BY ViewsFacts
  <1> HIDE DEF awaiting
  <1>5. /\ a \in Docs /\ a.shown = doc.latest /\ a.latest = doc.latest
        /\ a.stats = doc.stats /\ a.asked = doc.asked /\ a.loading = doc.loading
        /\ a.since = doc.since /\ a.pending = doc.pending
        /\ SameDraft(doc, a) /\ a.answer = doc.answer
    BY <1>2, <1>4, WindowFacts DEF Docs, SameDraft
  <1> HIDE DEF a
  <1>6. /\ b \in Docs /\ b.shown = doc.latest /\ b.latest = doc.latest
        /\ b.stats = doc.stats /\ b.asked = doc.latest
        /\ b.since = doc.since /\ b.pending = doc.pending
        /\ SameDraft(doc, b) /\ b.answer = doc.answer
    BY <1>2, <1>5 DEF Docs, SameDraft
  <1> HIDE DEF b
  <1>7. Viewed(p, doc)
    BY DEF WindowInv
  <1>8. Viewed(p, b)
    BY <1>2, <1>6, <1>7 DEF Viewed, SameDraft
  <1>9. ~changed => Viewed(p, a)
    BY <1>2, <1>5, <1>7 DEF Viewed, SameDraft
  <1> HIDE DEF m
  <1>10. CASE remount
    <2>1. /\ doc' = Gone(b, doc.views + 1)
          /\ calls' = Append(calls, Report(Scope(doc.latest), Gone(b, doc.views + 1).draft,
                                           "nobody"))
      BY <1>1, <1>10 DEF m
    <2>2. Viewed(server.published, b) /\ server \in Servers
      BY <1>8, WindowFacts
    <2>3. QED BY <1>1, <1>2, <1>4, <1>6, <2>1, <2>2, GoneKeeps
  <1>11. CASE ~remount
    <2>1. calls' = calls /\ doc' \in {a, b} /\ (doc' = a => Viewed(p, a))
      BY <1>1, <1>8, <1>9, <1>11
    <2>2. /\ doc.consumed = Clean => doc.reset = 0
          /\ doc.draft.edit <= server.edits /\ Goes(doc.draft, doc.draft)
      BY <1>2, DraftEdit DEF Goes, WindowInv, Confirmed
    <2>3. doc.latest >= doc.latest
      BY <1>2
    <2> DEFINE e == doc'
    <2>4. /\ e \in Docs /\ e.latest = doc.latest /\ SameDraft(doc, e)
          /\ e.answer = doc.answer /\ Viewed(p, e)
      BY <1>5, <1>6, <1>8, <2>1
    <2> HIDE DEF e, p
    <2>5. doc' = e /\ server.published = p
      BY DEF e, p
    <2>6. /\ e.id = doc.id /\ e.ready /\ e.draft = doc.draft /\ e.consumed = doc.consumed
          /\ e.reset = doc.reset
      BY <1>2, <2>4 DEF SameDraft
    <2>7. QED
      BY <1>1, <1>2, <2>1, <2>2, <2>3, <2>4, <2>5, <2>6, ReadyKeeps, WindowFacts
  <1>12. QED BY <1>10, <1>11

LEMMA EnterKeeps == ASSUME WindowInv, Enter PROVE WindowInv'
PROOF
  <1> DEFINE e == Gone(doc, doc.views + 1)
  <1>1. /\ doc.shown # 0 /\ doc' = e /\ server' = server /\ task' = task
        /\ calls' = Append(calls, Report(Scope(doc.latest), e.draft, "nobody"))
    BY DEF Enter
  <1>2. doc.latest # 0 /\ doc.views + 1 \in Nat /\ doc \in Docs /\ server \in Servers
    <2>1. doc.latest # 0
      BY <1>1, ShownFacts
    <2>2. server \in Servers
      BY WindowFacts
    <2>3. QED BY <2>1, <2>2, ViewsFacts
  <1>3. Viewed(server.published, doc) /\ SameDraft(doc, doc)
    BY DEF WindowInv, SameDraft
  <1>4. QED BY <1>1, <1>2, <1>3, GoneKeeps

LEMMA LeaveKeeps ==
  ASSUME WindowInv, Kept(server, doc, calls), Leave
  PROVE  WindowInv'
PROOF
  <1> DEFINE e == Gone(doc, 0)
             settled == server.settled \cup {doc.draft.edit}
             sv == [server EXCEPT !.settled = settled]
  <1>1. /\ doc.view # 0 /\ doc' = e /\ task' = task
        /\ server' = (IF doc.draft.dirty THEN sv ELSE server)
        /\ calls' = Append(calls, Report(Scope(doc.latest), e.draft, "nobody"))
    BY DEF Leave
  <1>2. doc.latest # 0 /\ 0 \in Nat /\ doc \in Docs /\ server \in Servers
    BY <1>1, ShownFacts, WindowFacts DEF Kept
  <1>3. Viewed(server.published, doc) /\ SameDraft(doc, doc)
    BY DEF WindowInv, SameDraft
  <1>4. settled \subseteq Nat
    BY WindowFacts
  <1> HIDE DEF settled
  <1>5. /\ sv \in Servers /\ sv.draft = server.draft /\ sv.given = server.given
        /\ sv.published = server.published /\ sv.edits = server.edits
    BY <1>2, <1>4 DEF Servers
  <1> HIDE DEF sv
  <1>6. CASE server' = sv
    BY <1>1, <1>2, <1>3, <1>5, <1>6, GoneKeeps
  <1>7. CASE server' = server
    BY <1>1, <1>2, <1>3, <1>7, GoneKeeps
  <1>8. QED BY <1>1, <1>6, <1>7

LEMMA ProfilesLoadedKeeps == ASSUME WindowInv, ProfilesLoaded PROVE WindowInv'
PROOF
  <1> DEFINE a == [doc EXCEPT !.awaiting = FALSE]
             e == Gone(a, 0)
  <1>1. /\ doc.shown # 0 /\ server' = server /\ task' = task
        /\ \/ doc' = a /\ calls' = calls
           \/ /\ doc' = e
              /\ calls' = Append(calls, Report(Scope(doc.latest), e.draft, "nobody"))
    BY DEF ProfilesLoaded
  <1>2. doc.latest # 0 /\ 0 \in Nat /\ doc \in Docs /\ server \in Servers
    BY <1>1, ShownFacts, WindowFacts
  <1>3. /\ a \in Docs /\ SameView(doc, a) /\ SameDraft(doc, a) /\ a.answer = doc.answer
        /\ a.latest = doc.latest /\ a.shown = doc.shown
    BY <1>2 DEF Docs, SameView, SameDraft
  <1> HIDE DEF a
  <1>4. Viewed(server.published, a)
    BY <1>2, <1>3, SameViewed DEF WindowInv, SameDraft
  <1>5. CASE doc' = a /\ calls' = calls
    BY <1>1, <1>3, <1>4, <1>5, ViewKeeps
  <1>6. CASE ~(doc' = a /\ calls' = calls)
    BY <1>1, <1>2, <1>3, <1>4, <1>6, GoneKeeps
  <1>7. QED BY <1>5, <1>6

LEMMA StatsEventKeeps ==
  ASSUME WindowInv, NEW n \in Nat \ {0}, StatsEvent(n)
  PROVE  WindowInv'
PROOF
  <1> DEFINE a == AcceptStats(doc, n)
  <1>1. n \in 1..Len(server.published) /\ doc' = a /\ UNCHANGED <<server, calls, task>>
    BY WindowFacts DEF StatsEvent
  <1>2. Viewed(server.published, doc) /\ doc \in Docs
    BY WindowFacts DEF WindowInv
  <1>3. /\ a \in Docs /\ Viewed(server.published, a)
        /\ a = [doc EXCEPT !.stats = a.stats, !.loading = a.loading]
    BY <1>1, <1>2, AcceptedStats
  <1> HIDE DEF a
  <1>4. SameDraft(doc, a) /\ a.answer = doc.answer /\ a.latest = doc.latest
        /\ a.shown = doc.shown
    BY <1>2, <1>3 DEF Docs, SameDraft
  <1>5. QED BY <1>1, <1>3, <1>4, ViewKeeps

\* The question that counts was of the latest scope.
LEMMA StatsAnswered ==
  ASSUME WindowInv, NEW n \in Nat, StatsAnswer(n)
  PROVE  /\ UNCHANGED <<server, calls, task>>
         /\ doc' \in Docs /\ Viewed(server.published, doc') /\ SameDraft(doc, doc')
         /\ doc'.answer = doc.answer /\ doc'.latest = doc.latest /\ doc'.shown = doc.shown
         /\ doc'.stats >= doc.stats /\ SamePlace(doc, doc')
PROOF
  <1> DEFINE p == server.published
             a == [doc EXCEPT !.asked = 0]
             b == IF n = 0 THEN a ELSE AcceptStats(a, n)
             x == [doc EXCEPT !.asked = 0, !.loading = FALSE]
             y == [doc EXCEPT !.asked = 0, !.stats = n, !.loading = FALSE]
  <1>1. /\ doc.asked # 0 /\ n \in {0} \cup doc.asked..Len(p)
        /\ UNCHANGED <<server, calls, task>>
        /\ doc' = IF p[doc.asked] = p[doc.latest] THEN [b EXCEPT !.loading = FALSE] ELSE a
    BY DEF StatsAnswer, Scope
  <1>2. /\ doc \in Docs /\ Viewed(p, doc) /\ Len(p) \in Nat /\ doc.stats \in Nat
        /\ doc.asked \in Nat /\ doc.latest \in Nat
    BY WindowFacts DEF WindowInv, Docs
  <1>3. /\ p[doc.asked] = p[doc.latest] /\ doc.latest # 0
        /\ n = 0 \/ n \in 1..Len(p)
    BY <1>1, <1>2 DEF Viewed
  <1>4. a.latest = doc.latest /\ a.stats = doc.stats
    BY <1>2 DEF Docs
  <1>5. b = a \/ (/\ n \in 1..Len(p) /\ p[n] = p[doc.latest] /\ n > doc.stats
                  /\ b = [a EXCEPT !.stats = n, !.loading = FALSE])
    BY <1>3, <1>4 DEF AcceptStats, Scope
  <1>6. [a EXCEPT !.loading = FALSE] = x
    BY <1>2 DEF Docs
  <1>7. [[a EXCEPT !.stats = n, !.loading = FALSE] EXCEPT !.loading = FALSE] = y
    BY <1>2 DEF Docs
  <1>8. doc' = x \/ (doc' = y /\ n \in 1..Len(p) /\ p[n] = p[doc.latest] /\ n > doc.stats)
    BY <1>1, <1>3, <1>5, <1>6, <1>7
  <1>9. CASE doc' = x
    <2>1. /\ x \in Docs /\ SameDraft(doc, x) /\ x.answer = doc.answer
          /\ SamePlace(doc, x)
          /\ x.latest = doc.latest
          /\ x.shown = doc.shown /\ x.stats = doc.stats /\ x.asked = 0 /\ ~x.loading
          /\ x.since = doc.since /\ x.pending = doc.pending
      BY <1>2 DEF Docs, SameDraft, SamePlace
    <2> HIDE DEF x
    <2>2. Viewed(p, x)
      BY <1>2, <2>1 DEF Viewed, SameDraft
    <2>3. x.stats >= doc.stats
      BY <1>2, <2>1
    <2>4. QED BY <1>1, <1>9, <2>1, <2>2, <2>3
  <1>10. CASE doc' = y /\ n \in 1..Len(p) /\ p[n] = p[doc.latest] /\ n > doc.stats
    <2>1. /\ y \in Docs /\ SameDraft(doc, y) /\ y.answer = doc.answer
          /\ SamePlace(doc, y)
          /\ y.latest = doc.latest
          /\ y.shown = doc.shown /\ y.stats = n /\ y.asked = 0 /\ ~y.loading
          /\ y.since = doc.since /\ y.pending = doc.pending
      BY <1>2 DEF Docs, SameDraft, SamePlace
    <2> HIDE DEF y
    <2>2. Viewed(p, y)
      BY <1>2, <1>3, <1>10, <2>1 DEF Viewed, SameDraft
    <2>3. y.stats >= doc.stats
      BY <1>2, <1>10, <2>1
    <2>4. QED BY <1>1, <1>10, <2>1, <2>2, <2>3
  <1>11. QED BY <1>8, <1>9, <1>10

LEMMA StatsAnswerKeeps ==
  ASSUME WindowInv, NEW n \in Nat, StatsAnswer(n)
  PROVE  WindowInv'
PROOF
  <1> DEFINE e == doc'
  <1>1. /\ UNCHANGED <<server, calls, task>>
        /\ e \in Docs /\ Viewed(server.published, e) /\ SameDraft(doc, e)
        /\ e.answer = doc.answer /\ e.latest = doc.latest /\ e.shown = doc.shown
    BY StatsAnswered
  <1>2. doc' = e
    OBVIOUS
  <1> HIDE DEF e
  <1>3. QED BY <1>1, <1>2, ViewKeeps

LEMMA EditKeeps ==
  ASSUME WindowInv, Kept(server, doc, calls), Edit
  PROVE  WindowInv'
PROOF
  <1>1. PICK dirty \in BOOLEAN :
          LET d == [dirty |-> dirty, revision |-> doc.draft.revision + 1,
                    edit |-> server.edits + 1]
          IN  /\ doc.view # 0
              /\ server' = [server EXCEPT !.edits = @ + 1]
              /\ doc' = [doc EXCEPT !.draft = d]
              /\ calls' = Append(calls,
                   Report(Scope(doc.latest), d, "nobody"))
              /\ task' = task
    BY DEF Edit
  <1> DEFINE d == [dirty |-> dirty, revision |-> doc.draft.revision + 1,
                   edit |-> server.edits + 1]
             e == [doc EXCEPT !.draft = d]
             sv == [server EXCEPT !.edits = @ + 1]
             r == Report(Scope(doc.latest), d, "nobody")
             cs == Append(calls, r)
  <1>2. /\ doc.ready /\ doc.latest \in 1..Len(server.published) /\ doc.latest \in Nat
        /\ doc.latest # 0
    BY <1>1, ShownFacts DEF Kept
  <1>3. /\ d \in Drafts /\ d.revision > doc.draft.revision /\ d.edit = server.edits + 1
    BY WindowFacts DEF Drafts
  <1>4. server' = sv /\ doc' = e /\ calls' = cs /\ task' = task
    BY <1>1
  <1> HIDE DEF d
  <1>5. /\ sv \in Servers /\ sv.draft = server.draft /\ sv.edits = server.edits + 1
        /\ sv.given = server.given /\ sv.published = server.published
    <2>1. server.edits + 1 \in Nat /\ server \in Servers
      BY WindowFacts
    <2>2. QED BY <2>1 DEF Servers
  <1>6. /\ e \in Docs /\ e.draft = d /\ SameView(doc, e) /\ e.reset = doc.reset
        /\ e.id = doc.id /\ e.ready /\ e.consumed = doc.consumed /\ e.answer = doc.answer
    BY <1>2, <1>3, WindowFacts DEF Docs, SameView
  <1> HIDE DEF sv, e
  <1>7. Viewed(server.published, e)
    BY <1>6, SameViewed, WindowFacts DEF WindowInv
  <1>8. /\ r \in Reports /\ r.doc = e.id /\ r.dirty = e.draft.dirty
        /\ r.revision = e.draft.revision /\ r.edit = e.draft.edit
        /\ r.wanted = "nobody" /\ cs \in Seq(Calls)
    <2>1. "nobody" \in Callers
      BY DEF Callers
    <2>2. r = Report(Scope(doc.latest), e.draft, "nobody")
      BY <1>6
    <2> HIDE DEF r
    <2>3. QED BY <1>2, <1>6, <2>1, <2>2, Reported
  <1> HIDE DEF r
  <1>9. Goes(doc.draft, e.draft)
    BY <1>3, <1>6 DEF Goes
  <1>10. e.draft.edit <= sv.edits
    BY <1>3, <1>5, <1>6, WindowFacts
  <1>11. e.consumed = Clean => e.reset = 0
    BY <1>6 DEF WindowInv, Confirmed
  <1>12. e.latest >= doc.latest
    BY <1>2, <1>6 DEF SameView
  <1>13. QED
    BY <1>2, <1>4, <1>5, <1>6, <1>7, <1>8, <1>9, <1>10, <1>11, <1>12, ReadyKeeps

LEMMA RunActionKeeps == ASSUME WindowInv, RunAction PROVE WindowInv'
PROOF
  <1>0. PICK kind \in {"act", "save"} :
          /\ doc.shown # 0 /\ server' = server /\ task' = task
          /\ doc' = [doc EXCEPT !.action = kind, !.from = doc.latest, !.by = doc.view]
          /\ calls' = Append(calls, Report(Scope(doc.latest), doc.draft, "flush"))
    BY DEF RunAction
  <1> DEFINE e == [doc EXCEPT !.action = kind, !.from = doc.latest, !.by = doc.view]
             r == Report(Scope(doc.latest), doc.draft, "flush")
             cs == Append(calls, r)
  <1>1. /\ doc.shown # 0 /\ doc' = e /\ calls' = cs /\ server' = server /\ task' = task
    BY <1>0
  <1>2. /\ doc.ready /\ doc.latest \in 1..Len(server.published) /\ doc.latest \in Nat
        /\ doc.latest # 0
    BY <1>1, ShownFacts
  <1>3. /\ e \in Docs /\ e.draft = doc.draft /\ SameView(doc, e) /\ e.reset = doc.reset
        /\ e.id = doc.id /\ e.ready /\ e.consumed = doc.consumed /\ e.answer = doc.answer
    BY <1>2, WindowFacts DEF Docs, SameView
  <1> HIDE DEF e
  <1>4. Viewed(server.published, e)
    BY <1>3, SameViewed, WindowFacts DEF WindowInv
  <1>5. /\ r \in Reports /\ r.doc = e.id /\ r.dirty = e.draft.dirty
        /\ r.revision = e.draft.revision /\ r.edit = e.draft.edit
        /\ r.wanted = "flush" /\ cs \in Seq(Calls)
    <2>1. "flush" \in Callers
      BY DEF Callers
    <2>2. r = Report(Scope(doc.latest), e.draft, "flush")
      BY <1>3
    <2> HIDE DEF r
    <2>3. QED BY <1>2, <1>3, <2>1, <2>2, Reported
  <1> HIDE DEF r
  <1>6. Goes(doc.draft, e.draft) /\ e.draft.edit <= server.edits
    BY <1>2, <1>3, DraftEdit DEF Goes
  <1>7. e.consumed = Clean => e.reset = 0
    BY <1>3 DEF WindowInv, Confirmed
  <1>8. e.latest = doc.latest /\ e.latest >= doc.latest /\ e.latest # 0
    BY <1>2, <1>3 DEF SameView
  <1>9. QED
    BY <1>1, <1>2, <1>3, <1>4, <1>5, <1>6, <1>7, <1>8, ReadyKeeps, WindowFacts

\* A document whose action is over, or goes on.
LEMMA DoneFacts ==
  ASSUME WindowInv, NEW e \in Docs, SameView(doc, e), SameDraft(doc, e),
         e.answer.to = "nobody"
  PROVE  /\ Viewed(server.published, e) /\ Confirmed(server, e, task)
         /\ doc.ready => Booted(e, calls)
PROOF
  <1>1. Viewed(server.published, e)
    BY SameViewed, WindowFacts DEF WindowInv, SameDraft
  <1>2. Confirmed(server, e, task)
    BY SameDrafted DEF WindowInv
  <1>3. doc.ready => Booted(e, calls)
    BY DEF WindowInv, Booted, SameDraft, SameView
  <1>4. QED BY <1>1, <1>2, <1>3

LEMMA DoneIs ==
  ASSUME WindowInv
  PROVE  /\ Done \in Docs /\ SameView(doc, Done) /\ SameDraft(doc, Done)
         /\ Done.answer.to = "nobody"
         /\ Viewed(server.published, Done) /\ Confirmed(server, Done, task)
         /\ doc.ready => Booted(Done, calls)
PROOF
  <1>1. NoAnswer \in Answers /\ NoAnswer.to = "nobody"
    BY DEF NoAnswer, Callers, Answers
  <1>2. /\ Done \in Docs /\ SameView(doc, Done) /\ SameDraft(doc, Done)
        /\ Done.answer.to = "nobody"
    BY <1>1, WindowFacts DEF Done, Docs, SameView, SameDraft
  <1>3. QED BY <1>2, DoneFacts

\* A document that is ready goes on, and calls for something.
LEMMA CallKeeps ==
  ASSUME WindowInv, doc.ready, NEW e \in Docs, doc' = e, server' = server, task' = task,
         SameView(doc, e), SameDraft(doc, e), e.answer.to = "nobody",
         Viewed(server.published, e), Confirmed(server, e, task), Booted(e, calls),
         NEW c \in Calls, c.kind \in {"act", "save"}, c.doc = doc.id,
         calls' \in {calls, Append(calls, c)}
  PROVE  WindowInv'
PROOF
  <1> DEFINE cs == Append(calls, c)
  <1>1. /\ cs \in Seq(Calls) /\ Queued(server, doc, cs) /\ Drafted(server, doc, cs, task)
        /\ DOMAIN cs = DOMAIN calls \cup {Len(calls) + 1}
        /\ \A i \in DOMAIN calls : cs[i] = calls[i]
        /\ cs[Len(calls) + 1] = c
    BY OtherCall
  <1> HIDE DEF cs
  <1>2. Booted(e, cs)
    BY <1>1 DEF Booted, SameDraft, SameView
  <1>3. /\ Queued(server, e, calls) /\ Drafted(server, e, calls, task)
        /\ Queued(server, e, cs) /\ Drafted(server, e, cs, task)
    BY <1>1, SameDrafted DEF WindowInv
  <1>4. CASE calls' = calls
    BY <1>3, <1>4 DEF WindowInv, WindowTyped
  <1>5. CASE calls' = cs
    BY <1>1, <1>2, <1>3, <1>5 DEF WindowInv, WindowTyped
  <1>6. QED BY <1>4, <1>5 DEF cs

LEMMA FlushFacts ==
  ASSUME WindowInv, doc.answer.to = "flush"
  PROVE  /\ doc.ready /\ doc.latest # 0 /\ doc.latest \in 1..Len(server.published)
         /\ Scope(doc.latest) \in Scopes
PROOF
  <1>1. /\ doc.ready /\ doc.latest # 0
    BY DEF WindowInv, Booted
  <1>2. QED BY <1>1, ShownFacts, WindowFacts DEF Scope

LEMMA FlushedKeeps == ASSUME WindowInv, Flushed PROVE WindowInv'
PROOF
  <1> DEFINE e == Done
             c == [kind |-> "act", doc |-> doc.id, by |-> doc.by, scope |-> Scope(doc.latest)]
  <1>1. /\ doc.answer.to = "flush" /\ doc' = e /\ server' = server /\ task' = task
        /\ calls' \in {calls, Append(calls, c)}
    BY DEF Flushed, Unchanged
  <1>2. doc.ready /\ Scope(doc.latest) \in Scopes
    BY <1>1, FlushFacts
  <1>3. /\ e \in Docs /\ SameView(doc, e) /\ SameDraft(doc, e) /\ e.answer.to = "nobody"
        /\ Viewed(server.published, e) /\ Confirmed(server, e, task) /\ Booted(e, calls)
    BY <1>2, DoneIs
  <1>4. c \in Calls /\ c.kind = "act" /\ c.doc = doc.id
    <2>1. doc.id \in Nat /\ doc.by \in Nat
      BY WindowFacts DEF Docs
    <2>2. QED BY <1>2, <2>1 DEF Calls
  <1> HIDE DEF e, c
  <1>5. QED BY <1>1, <1>2, <1>3, <1>4, CallKeeps

LEMMA SendSaveKeeps == ASSUME WindowInv, SendSave PROVE WindowInv'
PROOF
  <1> DEFINE e == [doc EXCEPT !.answer = NoAnswer, !.action = "saving"]
             c == [kind |-> "save", doc |-> doc.id, scope |-> Scope(doc.latest),
                   edit |-> doc.draft.edit, wanted |-> "save"]
  <1>1. /\ doc.answer.to = "flush" /\ doc' = e /\ server' = server /\ task' = task
        /\ calls' \in {calls, Append(calls, c)}
    BY DEF SendSave, Unchanged
  <1>2. doc.ready /\ Scope(doc.latest) \in Scopes
    BY <1>1, FlushFacts
  <1>3. NoAnswer \in Answers /\ NoAnswer.to = "nobody"
    BY DEF NoAnswer, Callers, Answers
  <1>4. /\ e \in Docs /\ SameView(doc, e) /\ SameDraft(doc, e) /\ e.answer.to = "nobody"
        /\ Viewed(server.published, e) /\ Confirmed(server, e, task) /\ Booted(e, calls)
    <2>1. e \in Docs /\ SameView(doc, e) /\ SameDraft(doc, e) /\ e.answer.to = "nobody"
      BY <1>3, WindowFacts DEF Docs, SameView, SameDraft
    <2> HIDE DEF e
    <2>2. QED BY <1>2, <2>1, DoneFacts
  <1>5. c \in Calls /\ c.kind = "save" /\ c.doc = doc.id
    <2>1. doc.id \in Nat /\ doc.draft.edit \in Nat
      BY WindowFacts
    <2>2. QED BY <1>2, <2>1 DEF Calls, Saves
  <1> HIDE DEF c, e
  <1>6. QED BY <1>1, <1>2, <1>4, <1>5, CallKeeps

LEMMA SavedKeeps ==
  ASSUME WindowInv, Kept(server, doc, calls), Saved
  PROVE  WindowInv'
PROOF
  <1> DEFINE remaining == [doc.draft EXCEPT !.dirty =
                             @ /\ ~(doc.action = "saving" /\ doc.answer.ok /\ Unchanged)]
             a == Done
             b == [a EXCEPT !.draft = remaining]
             r == Report(Scope(doc.latest), remaining, "nobody")
             cs == Append(calls, r)
  <1>1. /\ server' = server /\ task' = task
        /\ doc.action = "saving" \/ doc.answer.to = "flush"
        /\ (doc' = a /\ calls' = calls) \/ (doc' = b /\ calls' = cs)
    BY DEF Saved
  <1>2. /\ doc.latest # 0 /\ doc.ready /\ doc.latest \in 1..Len(server.published)
        /\ doc.latest \in Nat
    BY <1>1, FlushFacts, ShownFacts DEF Kept
  <1>3. /\ remaining \in Drafts /\ (remaining.dirty => doc.draft.dirty)
        /\ remaining.revision = doc.draft.revision /\ remaining.edit = doc.draft.edit
    <2>1. doc.answer.ok \in BOOLEAN /\ Unchanged \in BOOLEAN /\ doc.draft \in Drafts
      BY WindowFacts DEF Docs, Answers, Unchanged
    <2>2. QED BY <2>1 DEF Drafts
  <1> HIDE DEF remaining
  <1>4. /\ a \in Docs /\ SameView(doc, a) /\ SameDraft(doc, a) /\ a.answer.to = "nobody"
        /\ Viewed(server.published, a)
    BY <1>2, DoneIs
  <1> HIDE DEF a
  <1>5. /\ b \in Docs /\ SameView(a, b) /\ b.draft = remaining /\ b.reset = a.reset
        /\ b.id = a.id /\ b.ready = a.ready /\ b.consumed = a.consumed /\ b.answer = a.answer
    BY <1>3, <1>4 DEF Docs, SameView
  <1> HIDE DEF b
  <1>6. Viewed(server.published, b)
    BY <1>4, <1>5, SameViewed
  <1>7. /\ Goes(doc.draft, doc.draft) /\ doc.draft.edit <= server.edits
        /\ Goes(doc.draft, b.draft) /\ b.draft.edit <= server.edits
    BY <1>2, <1>3, <1>5, DraftEdit DEF Goes
  <1>8. a.latest >= doc.latest /\ b.latest >= doc.latest
    BY <1>2, <1>4, <1>5 DEF SameView
  <1>9. doc.consumed = Clean => doc.reset = 0
    BY DEF WindowInv, Confirmed
  <1>10. /\ a.id = doc.id /\ a.ready /\ a.draft = doc.draft /\ a.consumed = doc.consumed
         /\ a.reset = doc.reset
    BY <1>2, <1>4 DEF SameDraft
  <1>11. CASE doc' = a /\ calls' = calls
    BY <1>1, <1>2, <1>4, <1>7, <1>8, <1>9, <1>10, <1>11, ReadyKeeps, WindowFacts
  <1>12. CASE doc' = b /\ calls' = cs
    <2>1. /\ r \in Reports /\ r.doc = b.id /\ r.dirty = b.draft.dirty
          /\ r.revision = b.draft.revision /\ r.edit = b.draft.edit
          /\ r.wanted = "nobody" /\ cs \in Seq(Calls)
      <3>1. "nobody" \in Callers
        BY DEF Callers
      <3>2. r = Report(Scope(doc.latest), b.draft, "nobody")
        BY <1>5
      <3> HIDE DEF r
      <3>3. QED BY <1>2, <1>5, <1>10, <3>1, <3>2, Reported
    <2> HIDE DEF r
    <2>2. QED
      BY <1>1, <1>2, <1>4, <1>5, <1>6, <1>7, <1>8, <1>9, <1>10, <1>12, <2>1, ReadyKeeps,
         WindowFacts
  <1>13. QED BY <1>1, <1>11, <1>12

LEMMA SaveSettingsKeeps == ASSUME WindowInv, SaveSettings PROVE WindowInv'
PROOF
  <1> DEFINE call == Head(calls)
             cs == Tail(calls)
             settled == server.settled \cup {call.edit}
             sv == [server EXCEPT !.settled = settled]
  <1>1. /\ calls # <<>> /\ call.kind = "save" /\ calls' = cs /\ task' = task
        /\ server' = server \/ server' = sv
        /\ \E ok \in BOOLEAN : doc' = Answered(call, ok)
    BY DEF SaveSettings
  <1>2. /\ call = calls[1] /\ call \in Calls /\ cs \in Seq(Calls) /\ 1 \in DOMAIN calls
        /\ Queued(server, doc, cs) /\ Drafted(server, doc, cs, task) /\ Booted(doc, cs)
    BY <1>1, Arrived
  <1>3. call \in Saves /\ call.edit \in Nat /\ call.wanted = "save"
    BY <1>1, <1>2, CallFacts
  <1>4. settled \subseteq Nat
    BY <1>3, WindowFacts
  <1> HIDE DEF settled
  <1>5. /\ sv \in Servers /\ sv.draft = server.draft /\ sv.given = server.given
        /\ sv.published = server.published /\ sv.edits = server.edits
    BY <1>4, WindowFacts DEF Servers
  <1> HIDE DEF sv, call, cs
  <1>6. PICK ok \in BOOLEAN : doc' = Answered(call, ok)
    BY <1>1
  <1> DEFINE e == Answered(call, ok)
  <1>7. /\ e \in Docs /\ SameView(doc, e) /\ SameDraft(doc, e)
        /\ e.answer = doc.answer \/ (call.doc = doc.id /\ e.answer.to = "save")
    BY <1>3, AnsweredFacts
  <1> HIDE DEF e
  <1>8. Booted(e, cs)
    <2>1. CASE e.answer = doc.answer
      BY <1>2, <1>7, <2>1 DEF Booted, SameDraft, SameView
    <2>2. CASE call.doc = doc.id /\ e.answer.to = "save"
      <3>1. doc.ready
        BY <1>1, <1>2, <2>2 DEF WindowInv, Booted
      <3>2. QED BY <1>2, <1>7, <2>2, <3>1 DEF Booted, SameDraft, SameView
    <2>3. QED BY <1>7, <2>1, <2>2
  <1>9. Viewed(server.published, e)
    BY <1>7, SameViewed, WindowFacts DEF WindowInv, SameDraft
  <1>10. Queued(server, e, cs) /\ Drafted(server, e, cs, task) /\ Confirmed(server, e, task)
    BY <1>2, <1>7, SameDrafted DEF WindowInv
  <1>11. doc' = e
    BY <1>6 DEF e
  <1>12. CASE server' = server
    BY <1>1, <1>2, <1>7, <1>8, <1>9, <1>10, <1>11, <1>12 DEF WindowInv, WindowTyped
  <1>13. CASE server' = sv
    <2>1. Queued(sv, e, cs) /\ Drafted(sv, e, cs, task) /\ Confirmed(sv, e, task)
      BY <1>5, <1>10, KnowsMore
    <2>2. QED
      BY <1>1, <1>2, <1>5, <1>7, <1>8, <1>9, <1>11, <1>13, <2>1 DEF WindowInv, WindowTyped
  <1>14. QED BY <1>1, <1>12, <1>13

LEMMA ConsumeDraftKeeps == ASSUME WindowInv, ConsumeDraft PROVE WindowInv'
PROOF
  <1> DEFINE a == [doc EXCEPT !.reset = doc.latest]
             b == [doc EXCEPT !.consumed = Clean]
  <1>1. /\ doc.consumed # Clean /\ doc.reset = 0 /\ (doc' = a \/ doc' = b)
        /\ server' = server /\ calls' = calls /\ task' = task
    BY DEF ConsumeDraft
  <1>2. /\ a \in Docs /\ SameView(doc, a) /\ a.reset = doc.latest /\ a.id = doc.id
        /\ a.ready = doc.ready /\ a.boot = doc.boot /\ a.next = doc.next
        /\ a.draft = doc.draft /\ a.consumed = doc.consumed /\ a.answer = doc.answer
    BY WindowFacts DEF Docs, SameView
  <1>3. /\ b \in Docs /\ SameView(doc, b) /\ b.reset = doc.reset /\ b.id = doc.id
        /\ b.ready = doc.ready /\ b.boot = doc.boot /\ b.next = doc.next
        /\ b.draft = doc.draft /\ b.consumed = Clean /\ b.answer = doc.answer
    BY WindowFacts DEF Docs, SameView
  <1> HIDE DEF a, b
  <1>4. Viewed(server.published, a) /\ Viewed(server.published, b)
    BY <1>2, <1>3, SameViewed, WindowFacts DEF WindowInv
  <1>5. Mine(a) = Mine(doc) /\ Mine(b) = Mine(doc)
    BY <1>2, <1>3 DEF Mine
  <1>6. CASE doc' = a
    <2>1. Queued(server, a, calls) /\ Drafted(server, a, calls, task)
      BY <1>2, <1>5 DEF WindowInv, Queued, Drafted
    <2>2. Confirmed(server, a, task)
      <3>1. Confirmed(server, doc, task)
        BY DEF WindowInv
      <3>2. QED BY <1>1, <1>2, <3>1 DEF Confirmed
    <2>3. Booted(a, calls)
      BY <1>2 DEF WindowInv, Booted, SameView
    <2>4. QED BY <1>1, <1>2, <1>4, <1>6, <2>1, <2>2, <2>3 DEF WindowInv, WindowTyped
  <1>7. CASE doc' = b
    <2>1. Queued(server, b, calls) /\ Drafted(server, b, calls, task)
      BY <1>3, <1>5 DEF WindowInv, Queued, Drafted
    <2>2. Confirmed(server, b, task)
      <3>1. Confirmed(server, doc, task)
        BY DEF WindowInv
      <3>2. QED BY <1>1, <1>3, <3>1 DEF Confirmed
    <2>3. Booted(b, calls)
      BY <1>3 DEF WindowInv, Booted, SameView
    <2>4. QED BY <1>1, <1>3, <1>4, <1>7, <2>1, <2>2, <2>3 DEF WindowInv, WindowTyped
  <1>8. QED BY <1>1, <1>6, <1>7

LEMMA ResetKeeps == ASSUME WindowInv, Reset PROVE WindowInv'
PROOF
  <1> DEFINE clean == [doc.draft EXCEPT !.dirty = FALSE]
             a == [doc EXCEPT !.reset = 0, !.consumed = Clean]
             b == [a EXCEPT !.draft = clean]
             r == Report(Scope(doc.latest), clean, "nobody")
             cs == Append(calls, r)
  <1>1. /\ doc.reset # 0 /\ server' = server /\ task' = task
        /\ (doc' = a /\ calls' = calls) \/ (doc' = b /\ calls' = cs)
    BY DEF Reset
  <1>2. /\ doc.ready /\ doc.latest \in 1..Len(server.published) /\ doc.latest \in Nat
    BY <1>1, ShownFacts
  <1>3. /\ clean \in Drafts /\ ~clean.dirty /\ clean.revision = doc.draft.revision
        /\ clean.edit = doc.draft.edit
    BY WindowFacts DEF Drafts
  <1> HIDE DEF clean
  <1>4. /\ a \in Docs /\ SameView(doc, a) /\ a.reset = 0 /\ a.id = doc.id /\ a.ready
        /\ a.draft = doc.draft /\ a.consumed = Clean /\ a.answer = doc.answer
    BY <1>2, WindowFacts DEF Docs, SameView
  <1> HIDE DEF a
  <1>5. /\ b \in Docs /\ SameView(doc, b) /\ b.reset = 0 /\ b.id = doc.id /\ b.ready
        /\ b.draft = clean /\ b.consumed = Clean /\ b.answer = doc.answer
    BY <1>3, <1>4 DEF Docs, SameView
  <1> HIDE DEF b
  <1>6. Viewed(server.published, a) /\ Viewed(server.published, b)
    BY <1>4, <1>5, SameViewed, WindowFacts DEF WindowInv
  <1>7. /\ Goes(doc.draft, a.draft) /\ a.draft.edit <= server.edits
        /\ Goes(doc.draft, b.draft) /\ b.draft.edit <= server.edits
    BY <1>2, <1>3, <1>4, <1>5, DraftEdit DEF Goes
  <1>8. /\ a.latest >= doc.latest /\ b.latest >= doc.latest
    BY <1>2, <1>4, <1>5 DEF SameView
  <1>9. CASE doc' = a /\ calls' = calls
    BY <1>1, <1>2, <1>4, <1>6, <1>7, <1>8, <1>9, ReadyKeeps, WindowFacts
  <1>10. CASE doc' = b /\ calls' = cs
    <2>1. /\ r \in Reports /\ r.doc = b.id /\ r.dirty = b.draft.dirty
          /\ r.revision = b.draft.revision /\ r.edit = b.draft.edit
          /\ r.wanted = "nobody" /\ cs \in Seq(Calls)
      <3>1. "nobody" \in Callers
        BY DEF Callers
      <3>2. r = Report(Scope(doc.latest), b.draft, "nobody")
        BY <1>5
      <3> HIDE DEF r
      <3>3. QED BY <1>2, <1>5, <3>1, <3>2, Reported
    <2> HIDE DEF r
    <2>2. QED
      BY <1>1, <1>2, <1>5, <1>6, <1>7, <1>8, <1>10, <2>1, ReadyKeeps, WindowFacts
  <1>11. QED BY <1>1, <1>9, <1>10

LEMMA LoadedFacts ==
  ASSUME NEW id \in Nat, Len(server.published) \in Nat \ {0}
  PROVE  LET e == Loaded(id) IN
         /\ e \in Docs /\ e.id = id /\ ~e.ready /\ e.boot = "none" /\ e.answer.to = "nobody"
         /\ e.consumed = Clean /\ e.draft = Clean /\ e.latest = 0
         /\ e.shown = 0
         /\ e.reset = 0 /\ Viewed(server.published, e)
         /\ e.view = 0 /\ e.views = 0 /\ e.by = 0 /\ e.action = "none" /\ e.next = Clean
PROOF
  <1> DEFINE e == Loaded(id)
  <1>1. NoAnswer \in Answers /\ NoAnswer.to = "nobody"
    BY DEF NoAnswer, Callers, Answers
  <1>2. /\ e \in Docs /\ e.id = id /\ ~e.ready /\ e.boot = "none"
        /\ e.answer = NoAnswer
        /\ e.consumed = Clean /\ e.draft = Clean /\ e.latest = 0
        /\ e.shown = 0
        /\ e.reset = 0 /\ e.since = Len(server.published) /\ e.pending = 0 /\ e.stats = 0
        /\ e.asked = 0
        /\ e.view = 0 /\ e.views = 0 /\ e.by = 0 /\ e.action = "none" /\ e.next = Clean
    BY <1>1, CleanFacts DEF Loaded, Docs
  <1> HIDE DEF e
  <1>3. Viewed(server.published, e)
    BY <1>2 DEF Viewed
  <1>4. QED BY <1>1, <1>2, <1>3 DEF e

LEMMA ReloadKeeps == ASSUME WindowInv, Reload PROVE WindowInv'
PROOF
  <1> DEFINE e == Loaded(doc.id + 1)
  <1>1. doc' = e /\ server' = server /\ calls' = calls /\ task' = task
    BY DEF Reload
  <1>2. doc.id \in Nat /\ doc.id + 1 \in Nat /\ Len(server.published) \in Nat \ {0}
    BY WindowFacts
  <1>3. /\ e \in Docs /\ e.id = doc.id + 1 /\ ~e.ready /\ e.boot = "none"
        /\ e.answer.to = "nobody"
        /\ e.consumed = Clean /\ e.draft = Clean /\ e.latest = 0
        /\ e.shown = 0
        /\ e.reset = 0 /\ Viewed(server.published, e)
    BY <1>2, LoadedFacts
  <1> HIDE DEF e
  <1>4. \A i \in DOMAIN calls : calls[i].doc <= e.id /\ calls[i].doc # e.id
    <2>1. \A i \in DOMAIN calls : calls[i].doc \in Nat /\ calls[i].doc <= doc.id
      BY WindowFacts, CallFacts DEF WindowInv, Queued
    <2>2. QED BY <1>2, <1>3, <2>1
  <1>5. Queued(server, e, calls)
    BY <1>4 DEF WindowInv, Queued
  <1>6. Drafted(server, e, calls, task)
    BY <1>3 DEF Drafted
  <1>7. Booted(e, calls)
    BY <1>3, <1>4 DEF Booted
  <1>8. Confirmed(server, e, task)
    BY <1>3 DEF WindowInv, Confirmed
  <1>9. QED BY <1>1, <1>3, <1>5, <1>6, <1>7, <1>8 DEF WindowInv, WindowTyped

LEMMA WindowStarts == Init => WindowInv
PROOF
  <1> SUFFICES ASSUME Init PROVE WindowInv
    OBVIOUS
  <1> DEFINE first == CHOOSE q \in Profiles : TRUE
             p == <<<<first, 0>>>>
             unset == [dirty |-> FALSE, revision |-> 0, edit |-> 0, doc |-> 0]
             sv == [published |-> p, edits |-> 0, given |-> {}, settled |-> {}, draft |-> unset]
             e == Loaded(1)
  <1>1. server = sv /\ doc = e /\ calls = <<>> /\ task = NoTask
    BY DEF Init
  <1>2. <<first, 0>> \in Scopes
    BY DEF Scopes
  <1>3. p \in Seq(Scopes) /\ Len(p) = 1 /\ Onward(p)
    <2>1. p \in Seq(Scopes) /\ Len(p) = 1 /\ p[1] = <<first, 0>>
      BY <1>2
    <2>2. \A i, j \in 1..Len(p) : i = 1 /\ j = 1
      BY <2>1
    <2>3. p[1][2] = 0
      BY <2>1
    <2> HIDE DEF p
    <2>4. \A i, j \in 1..Len(p) : p[i][2] <= p[j][2] /\ p[i] = p[j]
      BY <2>2, <2>3
    <2>5. Len(p) >= 1
      BY <2>1
    <2>6. QED BY <2>1, <2>4, <2>5 DEF Onward
  <1>4. unset \in Tokens /\ ~unset.dirty /\ unset.revision = 0
    BY DEF Tokens
  <1> HIDE DEF p, unset
  <1>5. sv \in Servers /\ sv.published = p /\ sv.draft = unset
    BY <1>3, <1>4 DEF Servers
  <1> HIDE DEF sv, e
  <1>6. /\ e \in Docs /\ e.id = 1 /\ ~e.ready /\ e.boot = "none" /\ e.answer.to = "nobody"
        /\ e.consumed = Clean /\ e.draft = Clean /\ e.latest = 0
        /\ e.shown = 0
        /\ e.reset = 0 /\ Viewed(p, e)
    <2>1. server.published = p
      BY <1>1, <1>5
    <2>2. Len(p) \in Nat \ {0} /\ 1 \in Nat
      BY <1>3
    <2>3. Len(server.published) \in Nat \ {0}
      BY <2>1, <2>2
    <2>4. QED BY <2>1, <2>2, <2>3, LoadedFacts DEF e
  <1>7. calls \in Seq(Calls) /\ DOMAIN calls = {} /\ NoTask \in Tasks
    BY <1>1 DEF Tasks
  <1>8. Queued(sv, e, calls)
    BY <1>7 DEF Queued
  <1>9. Drafted(sv, e, calls, task)
    BY <1>6 DEF Drafted
  <1>10. Booted(e, calls)
    BY <1>6, <1>7 DEF Booted
  <1>11. Confirmed(sv, e, task)
    BY <1>1, <1>6 DEF Confirmed
  <1>12. QED
    BY <1>1, <1>3, <1>5, <1>6, <1>7, <1>8, <1>9, <1>10, <1>11 DEF WindowInv, WindowTyped

LEMMA WindowStep == WindowInv /\ Kept(server, doc, calls) /\ [Next]_vars => WindowInv'
PROOF
  <1> SUFFICES ASSUME WindowInv, Kept(server, doc, calls), [Next]_vars PROVE WindowInv'
    OBVIOUS
  <1>1. CASE SetDirty
    BY <1>1, SetDirtyKeeps
  <1>2. CASE Act \/ ActOfMenu
    BY <1>2, ActKeeps
  <1>3. CASE UserAnswers
    BY <1>3, UserAnswersKeeps
  <1>4. CASE Publish
    BY <1>4, PublishKeeps
  <1>5. CASE Consume
    BY <1>5, ConsumeKeeps
  <1>6. CASE \E n \in 1..MaxRevision : Deliver(n) \/ StatsEvent(n)
    <2>1. PICK n \in 1..MaxRevision : Deliver(n) \/ StatsEvent(n)
      BY <1>6
    <2>2. n \in Nat \ {0}
      <3>1. n \in 1..Len(server.published)
        BY <2>1, WindowFacts DEF Deliver, StatsEvent, WindowInv, Viewed
      <3>2. QED BY <3>1
    <2>3. QED BY <2>1, <2>2, DeliverKeeps, StatsEventKeeps
  <1>7. CASE \E n \in 0..MaxRevision : StatsAnswer(n)
    <2>1. PICK n \in 0..MaxRevision : StatsAnswer(n)
      BY <1>7
    <2>2. n \in Nat
      <3>1. n \in {0} \cup doc.asked..Len(server.published) /\ doc.asked \in Nat
        BY <2>1, WindowFacts DEF StatsAnswer, Docs
      <3>2. QED BY <3>1, WindowFacts
    <2>3. QED BY <2>1, <2>2, StatsAnswerKeeps
  <1>8. CASE Bootstrap
    BY <1>8, BootstrapKeeps
  <1>9. CASE Info
    BY <1>9, InfoKeeps
  <1>10. CASE Ready
    BY <1>10, ReadyActionKeeps
  <1>11. CASE Render
    BY <1>11, RenderKeeps
  <1>12. CASE Edit
    BY <1>12, EditKeeps
  <1>13. CASE RunAction
    BY <1>13, RunActionKeeps
  <1>14. CASE Flushed
    BY <1>14, FlushedKeeps
  <1>15. CASE ConsumeDraft
    BY <1>15, ConsumeDraftKeeps
  <1>16. CASE Reset
    BY <1>16, ResetKeeps
  <1>17. CASE Reload
    BY <1>17, ReloadKeeps
  <1>18. CASE UNCHANGED vars
    BY <1>18
    DEF vars, WindowInv, WindowTyped, Onward, Viewed, Queued, Drafted, Mine, Booted,
        Confirmed
  <1>19. CASE Enter
    BY <1>19, EnterKeeps
  <1>20. CASE Leave
    BY <1>20, LeaveKeeps
  <1>21. CASE ProfilesLoaded
    BY <1>21, ProfilesLoadedKeeps
  <1>22. CASE SendSave
    BY <1>22, SendSaveKeeps
  <1>23. CASE Saved
    BY <1>23, SavedKeeps
  <1>24. CASE SaveSettings
    BY <1>24, SaveSettingsKeeps
  <1>25. QED
    BY <1>1, <1>2, <1>3, <1>4, <1>5, <1>6, <1>7, <1>8, <1>9, <1>10, <1>11, <1>12,
       <1>13, <1>14, <1>15, <1>16, <1>17, <1>18, <1>19, <1>20, <1>21, <1>22, <1>23, <1>24
    DEF Next

-----------------------------------------------------------------------------
(* The window: the saves of a document.                                    *)

IInv == WindowInv /\ Kept(server, doc, calls)

\* The saves of the document among cs are some of those under way.
Rests(cs) ==
  \A i \in DOMAIN cs : Sends(cs[i], doc) =>
    /\ \E k \in DOMAIN calls : Sends(calls[k], doc) /\ calls[k] = cs[i]
    /\ \A j \in DOMAIN cs : Sends(cs[j], doc) => i = j

LEMMA RestsFacts ==
  ASSUME WindowInv, Kept(server, doc, calls)
  PROVE  /\ Rests(calls)
         /\ \A c \in Calls : c.kind # "save" => Rests(Append(calls, c))
         /\ calls # <<>> => Rests(Tail(calls))
         /\ calls # <<>> => \A c \in Calls : c.kind # "save" => Rests(Append(Tail(calls), c))
PROOF
  <1>1. calls \in Seq(Calls)
    BY WindowFacts
  <1>2. Rests(calls)
    BY DEF Rests, Kept
  <1>3. ASSUME NEW cs \in Seq(Calls), Rests(cs), NEW c \in Calls, c.kind # "save"
        PROVE  Rests(Append(cs, c))
    <2> DEFINE longer == Append(cs, c)
               k == Len(cs) + 1
    <2>1. /\ DOMAIN longer = DOMAIN cs \cup {k} /\ longer[k] = c
          /\ \A i \in DOMAIN cs : longer[i] = cs[i]
      BY <1>3, AppendedCall
    <2> HIDE DEF longer, k
    <2>2. \A i \in DOMAIN longer : Sends(longer[i], doc) => i \in DOMAIN cs /\ longer[i] = cs[i]
      BY <1>3, <2>1 DEF Sends
    <2>3. QED BY <1>3, <2>2 DEF Rests, longer
  <1>4. ASSUME calls # <<>> PROVE Tail(calls) \in Seq(Calls) /\ Rests(Tail(calls))
    <2> DEFINE cs == Tail(calls)
    <2>1. /\ cs \in Seq(Calls)
          /\ \A i \in DOMAIN cs : i \in Nat /\ i + 1 \in DOMAIN calls /\ cs[i] = calls[i + 1]
      BY <1>1, <1>4, ArrivedCall
    <2> HIDE DEF cs
    <2>2. ASSUME NEW i \in DOMAIN cs, Sends(cs[i], doc)
          PROVE  /\ \E k \in DOMAIN calls : Sends(calls[k], doc) /\ calls[k] = cs[i]
                 /\ \A j \in DOMAIN cs : Sends(cs[j], doc) => i = j
      <3>1. i + 1 \in DOMAIN calls /\ Sends(calls[i + 1], doc) /\ calls[i + 1] = cs[i]
        BY <2>1, <2>2
      <3>2. ASSUME NEW j \in DOMAIN cs, Sends(cs[j], doc) PROVE i = j
        <4>1. j + 1 \in DOMAIN calls /\ Sends(calls[j + 1], doc)
          BY <2>1, <3>2
        <4>2. i + 1 = j + 1
          BY <1>2, <3>1, <4>1 DEF Rests
        <4>3. QED BY <2>1, <4>2
      <3>3. QED BY <3>1, <3>2
    <2>3. QED BY <2>1, <2>2 DEF Rests, cs
  <1>5. QED BY <1>1, <1>2, <1>3, <1>4

\* A document whose action goes on, on the screen or not.
LEMMA KeptOn ==
  ASSUME WindowInv, Kept(server, doc, calls),
         NEW e \in Docs, e.id = doc.id, e.action = doc.action, e.by = doc.by,
         e.views >= doc.views, doc.shown # 0 => e.shown # 0,
         \/ e.view = doc.view
         \/ e.view \in {0, doc.views + 1} /\ e.view <= e.views /\ e.shown # 0,
         e.draft.dirty => e.view # 0, ~e.next.dirty,
         doc.action = "saving" /\ doc.by = doc.view => e.draft.edit = doc.draft.edit,
         e.answer = doc.answer \/ e.answer.to # "save",
         NEW sv, server.settled \subseteq sv.settled,
         NEW cs, Rests(cs)
  PROVE  Kept(sv, e, cs)
PROOF
  <1>1. /\ doc.view \in Nat /\ doc.views \in Nat /\ doc.by \in Nat /\ e.views \in Nat
        /\ doc.shown \in Nat /\ e.view \in Nat
    BY WindowFacts DEF Docs
  <1>2. doc.view <= doc.views /\ doc.by <= doc.views
    BY DEF Kept
  <1>3. e.view # 0 \/ e.action # "none" => e.shown # 0
    BY DEF Kept
  <1>4. e.view <= e.views /\ e.by <= e.views
    BY <1>1, <1>2
  <1>5. e.action = "saving" /\ e.by = e.view => doc.by = doc.view
    <2>1. e.action = "saving" => doc.by # 0
      BY DEF Kept
    <2>2. doc.by # doc.views + 1
      BY <1>1, <1>2
    <2>3. QED BY <2>1, <2>2
  <1>6. ASSUME NEW i \in DOMAIN cs, Sends(cs[i], e)
        PROVE  /\ e.action = "saving" /\ e.answer.to # "save"
               /\ e.by = e.view => cs[i].edit = e.draft.edit
               /\ \A j \in DOMAIN cs : Sends(cs[j], e) => i = j
    <2>1. \A c : Sends(c, e) <=> Sends(c, doc)
      BY DEF Sends
    <2>2. PICK k \in DOMAIN calls : Sends(calls[k], doc) /\ calls[k] = cs[i]
      BY <1>6, <2>1 DEF Rests
    <2>3. /\ doc.action = "saving" /\ doc.answer.to # "save"
          /\ doc.by = doc.view => cs[i].edit = doc.draft.edit
      BY <2>2 DEF Kept
    <2>4. \A j \in DOMAIN cs : Sends(cs[j], e) => i = j
      BY <1>6, <2>1 DEF Rests
    <2>5. QED BY <1>5, <2>3, <2>4
  <1>7. e.action = "saving" /\ e.by = e.view /\ e.answer.to = "save" /\ e.answer.ok =>
          e.draft.edit \in sv.settled
    BY <1>5 DEF Kept
  <1>8. /\ e.action \in {"save", "saving"} => e.by # 0
        /\ e.action # "saving" => e.answer.to # "save"
    BY DEF Kept
  <1>9. QED BY <1>3, <1>4, <1>6, <1>7, <1>8 DEF Kept

\* A document that has no save on its way.
LEMMA KeptAnew ==
  ASSUME NEW e \in Docs, e.view # 0 \/ e.action # "none" => e.shown # 0,
         e.view <= e.views, e.by <= e.views, e.action = "save" => e.by # 0,
         e.action # "saving", e.answer.to # "save", e.draft.dirty => e.view # 0,
         ~e.next.dirty,
         NEW sv, NEW cs, \A i \in DOMAIN cs : ~Sends(cs[i], e)
  PROVE  Kept(sv, e, cs)
PROOF BY DEF Kept

LEMMA NotSent ==
  ASSUME WindowInv, Kept(server, doc, calls), NEW e, e.id = doc.id,
         doc.action # "saving" \/ doc.answer.to = "save"
  PROVE  /\ \A i \in DOMAIN calls : ~Sends(calls[i], e)
         /\ \A c \in Calls : c.kind # "save" =>
              \A i \in DOMAIN Append(calls, c) : ~Sends(Append(calls, c)[i], e)
PROOF
  <1>1. \A i \in DOMAIN calls : ~Sends(calls[i], e)
    BY DEF Kept, Sends
  <1>2. ASSUME NEW c \in Calls, c.kind # "save", NEW i \in DOMAIN Append(calls, c)
        PROVE  ~Sends(Append(calls, c)[i], e)
    <2>1. /\ DOMAIN Append(calls, c) = DOMAIN calls \cup {Len(calls) + 1}
          /\ \A j \in DOMAIN calls : Append(calls, c)[j] = calls[j]
          /\ Append(calls, c)[Len(calls) + 1] = c
      BY WindowFacts, AppendedCall
    <2>2. CASE i \in DOMAIN calls
      BY <1>1, <2>1, <2>2
    <2>3. CASE i = Len(calls) + 1
      BY <1>2, <2>1, <2>3 DEF Sends
    <2>4. QED BY <2>1, <2>2, <2>3
  <1>3. QED BY <1>1, <1>2

\* A report that the document makes is no save.
LEMMA ReportRests ==
  ASSUME WindowInv, Kept(server, doc, calls), NEW n, Scope(n) \in Scopes,
         NEW d \in Drafts, NEW wanted \in Callers
  PROVE  LET r == Report(Scope(n), d, wanted) IN
         r \in Calls /\ r.kind # "save" /\ Rests(Append(calls, r))
PROOF
  <1> DEFINE r == Report(Scope(n), d, wanted)
  <1>1. r \in Calls /\ r \in Reports
    BY WindowFacts, ReportFacts
  <1> HIDE DEF r
  <1>2. r.kind # "save"
    BY <1>1, CallFacts
  <1>3. QED BY <1>1, <1>2, RestsFacts DEF r

\* What was so, is so of a document that shows something else.
LEMMA KeptFacts ==
  ASSUME WindowInv, Kept(server, doc, calls)
  PROVE  /\ doc.draft.dirty => doc.view # 0
         /\ ~doc.next.dirty /\ doc.views \in Nat /\ doc.views >= doc.views
         /\ doc.view \in Nat /\ doc.by \in Nat /\ doc.view <= doc.views
         /\ doc.shown # 0 => Scope(doc.latest) \in Scopes
         /\ doc.view # 0 => doc.shown # 0
         /\ "nobody" \in Callers /\ "flush" \in Callers /\ "boot" \in Callers
PROOF
  <1>1. doc.views \in Nat /\ doc.view \in Nat /\ doc.by \in Nat
    BY WindowFacts DEF Docs
  <1>2. doc.shown # 0 => Scope(doc.latest) \in Scopes
    BY WindowFacts, ShownFacts DEF Scope
  <1>3. QED BY <1>1, <1>2 DEF Kept, Callers

\* The document but for what it shows, and whether somebody waits.
LEMMA SameKept ==
  ASSUME WindowInv, Kept(server, doc, calls), NEW e \in Docs,
         SameDraft(doc, e), SamePlace(doc, e), e.answer = doc.answer \/ e.answer.to # "save",
         NEW sv, server.settled \subseteq sv.settled, NEW cs, Rests(cs)
  PROVE  Kept(sv, e, cs)
PROOF
  <1>1. /\ e.id = doc.id /\ e.action = doc.action /\ e.by = doc.by /\ e.views = doc.views
        /\ doc.shown # 0 => e.shown # 0
        /\ e.view = doc.view /\ e.draft = doc.draft /\ e.next = doc.next
    BY DEF SameDraft, SamePlace
  <1>2. /\ e.views >= doc.views
        /\ e.draft.dirty => e.view # 0
        /\ ~e.next.dirty
    BY <1>1, KeptFacts
  <1>3. QED BY <1>1, <1>2, KeptOn

\* The view has gone, and has told so.
LEMMA GoneKept ==
  ASSUME WindowInv, Kept(server, doc, calls), doc.shown # 0,
         NEW d \in Docs, SameDraft(doc, d), d.view = doc.view, d.views = doc.views,
         d.by = doc.by, d.action = doc.action, d.shown # 0, d.answer = doc.answer,
         NEW view \in {0, doc.views + 1}, doc' = Gone(d, view),
         calls' = Append(calls, Report(Scope(doc.latest), Gone(d, view).draft, "nobody")),
         NEW sv, server' = sv, server.settled \subseteq sv.settled
  PROVE  Kept(server, doc, calls)'
PROOF
  <1> DEFINE e == Gone(d, view)
             cs == Append(calls, Report(Scope(doc.latest), e.draft, "nobody"))
  <1>1. view \in Nat /\ doc.views \in Nat
    BY KeptFacts
  <1>2. /\ e \in Docs /\ SameView(d, e) /\ e.view = view /\ e.views >= d.views
        /\ e.views >= view /\ ~e.draft.dirty /\ e.draft.edit = d.draft.edit
        /\ e.id = d.id /\ e.next = d.next /\ e.answer = d.answer /\ e.action = d.action
        /\ e.by = d.by
    BY <1>1, GoneFacts
  <1>3. doc' = e /\ calls' = cs
    OBVIOUS
  <1> HIDE DEF e
  <1>4. e.draft \in Drafts /\ e.views \in Nat
    BY <1>2 DEF Docs
  <1>5. Rests(cs)
    BY <1>4, KeptFacts, ReportRests
  <1> HIDE DEF cs
  <1>6. /\ e.id = doc.id /\ e.next = doc.next /\ e.draft.edit = doc.draft.edit
        /\ e.shown # 0 /\ e.action = doc.action /\ e.by = doc.by /\ e.answer = doc.answer
        /\ e.views >= doc.views /\ e.view \in {0, doc.views + 1}
    BY <1>2 DEF SameDraft, SameView
  <1>7. ~e.next.dirty /\ e.view <= e.views
    BY <1>1, <1>2, <1>4, <1>6, KeptFacts
  <1>8. Kept(sv, e, cs)
    BY <1>2, <1>5, <1>6, <1>7, KeptOn
  <1>9. QED BY <1>3, <1>8

LEMMA ProgramKept ==
  ASSUME WindowInv, Kept(server, doc, calls),
         SetDirty \/ Act \/ ActOfMenu \/ UserAnswers \/ Publish \/ Consume
  PROVE  Kept(server, doc, calls)'
PROOF
  <1>1. doc \in Docs /\ SameDraft(doc, doc) /\ SamePlace(doc, doc)
    BY WindowFacts DEF SameDraft, SamePlace
  <1>2. Rests(calls) /\ (calls # <<>> => Rests(Tail(calls)))
    BY RestsFacts
  <1>3. CASE SetDirty
    <2> DEFINE e == Answered(Head(calls), Accepts(Head(calls)))
               cs == Tail(calls)
    <2>1. doc' = e /\ calls' = cs /\ calls # <<>>
      BY <1>3 DEF SetDirty
    <2>2. Head(calls) \in Reports
      BY <1>3, Arrived, CallFacts DEF SetDirty
    <2>3. /\ e \in Docs /\ SameDraft(doc, e) /\ SamePlace(doc, e)
          /\ e.answer = doc.answer \/ e.answer.to = Head(calls).wanted
      BY <2>2, AnsweredFacts DEF Accepts
    <2>4. Head(calls).wanted # "save"
      BY <2>2, CallFacts DEF Callers
    <2>5. server'.settled = server.settled
      BY <1>3, WindowFacts DEF SetDirty, Servers
    <2>6. server.settled \subseteq server'.settled /\ Rests(cs)
      BY <1>2, <2>1, <2>5
    <2> HIDE DEF e, cs
    <2>7. QED BY <2>1, <2>3, <2>4, <2>6, SameKept
  <1>4. CASE Act \/ ActOfMenu \/ UserAnswers \/ Publish
    <2>1. doc' = doc /\ Rests(calls')
      BY <1>2, <1>4 DEF Act, ActOfMenu, UserAnswers, Publish
    <2>2. server'.settled = server.settled
      BY <1>4, WindowFacts DEF Act, ActOfMenu, UserAnswers, Publish, Servers
    <2>3. server.settled \subseteq server'.settled
      BY <2>2
    <2>4. QED BY <1>1, <2>1, <2>3, SameKept
  <1>5. CASE Consume
    <2> DEFINE e == [doc EXCEPT !.consumed = task.about]
    <2>1. calls' = calls /\ (doc' = doc \/ (doc' = e /\ Current))
      BY <1>5 DEF Consume
    <2>2. server'.settled = server.settled
      BY <1>5, WindowFacts DEF Consume, Servers
    <2>3. task.about \in Tokens
      BY <1>5, WindowFacts DEF Consume, NoTask
    <2>4. /\ e \in Docs /\ e.id = doc.id /\ e.action = doc.action /\ e.by = doc.by
          /\ e.views = doc.views /\ e.shown = doc.shown /\ e.view = doc.view
          /\ e.draft = doc.draft /\ e.next = doc.next /\ e.answer = doc.answer
      BY <1>1, <2>3 DEF Docs
    <2>5. server.settled \subseteq server'.settled
      BY <2>2
    <2> HIDE DEF e
    <2>6. CASE doc' = doc
      BY <1>1, <1>2, <2>1, <2>5, <2>6, SameKept
    <2>7. CASE doc' = e
      BY <1>2, <2>1, <2>4, <2>5, <2>7, KeptFacts, KeptOn
    <2>8. QED BY <2>1, <2>6, <2>7
  <1>6. QED BY <1>3, <1>4, <1>5

LEMMA SaveSettingsKept ==
  ASSUME WindowInv, Kept(server, doc, calls), SaveSettings
  PROVE  Kept(server, doc, calls)'
PROOF
  <1> DEFINE call == Head(calls)
             cs == Tail(calls)
             settled == server.settled \cup {call.edit}
  <1>1. /\ calls # <<>> /\ call.kind = "save" /\ calls' = cs
        /\ \E ok \in BOOLEAN :
             /\ doc' = Answered(call, ok)
             /\ IF ok THEN server'.settled = settled ELSE server'.settled = server.settled
    BY WindowFacts DEF SaveSettings, Servers
  <1>2. PICK ok \in BOOLEAN :
          /\ doc' = Answered(call, ok)
          /\ IF ok THEN server'.settled = settled ELSE server'.settled = server.settled
    BY <1>1
  <1>3. call = calls[1] /\ call \in Saves /\ 1 \in DOMAIN calls /\ Rests(cs)
    BY <1>1, Arrived, CallFacts, RestsFacts
  <1>4. /\ server.settled \subseteq server'.settled
        /\ ok => call.edit \in server'.settled
    BY <1>2
  <1> DEFINE e == Answered(call, ok)
  <1>5. /\ e \in Docs /\ SameDraft(doc, e) /\ SamePlace(doc, e)
        /\ \/ e.answer = doc.answer
           \/ call.doc = doc.id /\ e.answer.to = call.wanted /\ e.answer.ok = ok
    BY <1>3, AnsweredFacts
  <1>6. doc' = e
    BY <1>2
  <1> HIDE DEF e
  <1>7. CASE e.answer = doc.answer
    BY <1>1, <1>3, <1>4, <1>5, <1>6, <1>7, SameKept
  <1>8. CASE call.doc = doc.id /\ e.answer.to = call.wanted /\ e.answer.ok = ok
    <2>1. Sends(calls[1], doc)
      BY <1>1, <1>3, <1>8 DEF Sends
    <2>2. /\ doc.action = "saving"
          /\ doc.by = doc.view => call.edit = doc.draft.edit
      BY <1>3, <2>1 DEF Kept
    <2>3. \A i \in DOMAIN cs : ~Sends(cs[i], doc)
      <3>1. \A i \in DOMAIN cs : i \in Nat /\ i + 1 \in DOMAIN calls /\ 1 # i + 1
                                 /\ cs[i] = calls[i + 1]
        BY <1>1, WindowFacts, ArrivedCall
      <3>2. \A j \in DOMAIN calls : Sends(calls[j], doc) => 1 = j
        BY <1>3, <2>1 DEF Kept
      <3> HIDE DEF cs
      <3>3. QED BY <3>1, <3>2
    <2>4. /\ e.id = doc.id /\ e.action = doc.action /\ e.by = doc.by /\ e.view = doc.view
          /\ e.views = doc.views /\ (doc.shown # 0 => e.shown # 0)
          /\ e.draft = doc.draft /\ e.next = doc.next
      BY <1>5 DEF SameDraft, SamePlace
    <2>5. /\ e.view # 0 \/ e.action # "none" => e.shown # 0
          /\ e.view <= e.views /\ e.by <= e.views
          /\ e.by # 0 /\ e.action = "saving"
          /\ e.draft.dirty => e.view # 0
          /\ ~e.next.dirty
      BY <2>2, <2>4 DEF Kept
    <2>6. \A i \in DOMAIN cs : ~Sends(cs[i], e)
      BY <2>3, <2>4 DEF Sends
    <2>7. e.by = e.view /\ e.answer.ok => e.draft.edit \in server'.settled
      BY <1>4, <1>8, <2>2, <2>4
    <2> HIDE DEF cs
    <2>8. Kept(server', e, cs)
      BY <2>5, <2>6, <2>7 DEF Kept
    <2>9. QED BY <1>1, <1>6, <2>8
  <1>9. QED BY <1>5, <1>7, <1>8

LEMMA ShowsKept ==
  ASSUME WindowInv, Kept(server, doc, calls),
         \/ \E n \in 1..MaxRevision : Deliver(n) \/ StatsEvent(n)
         \/ \E n \in 0..MaxRevision : StatsAnswer(n)
         \/ Bootstrap
  PROVE  Kept(server, doc, calls)'
PROOF
  <1>1. /\ doc \in Docs /\ server' = server /\ server.settled \subseteq server'.settled
        /\ Len(server.published) \in Nat /\ Viewed(server.published, doc)
    BY WindowFacts DEF WindowInv, Deliver, StatsEvent, StatsAnswer, Bootstrap
  <1>2. Rests(calls)
    BY RestsFacts
  <1>3. ASSUME NEW n \in 1..MaxRevision, Deliver(n) PROVE Kept(server, doc, calls)'
    <2>1. n \in 0..Len(server.published)
      BY <1>1, <1>3 DEF Deliver, Viewed
    <2>2. CASE doc.ready
      <3> DEFINE a == Accepted(doc, n)
                 e == a.doc
                 cs == calls \o a.call
      <3>1. doc' = e /\ calls' = cs
        BY <1>3, <2>2 DEF Deliver
      <3>2. /\ e \in Docs /\ e.id = doc.id /\ e.answer = doc.answer /\ e.next = doc.next
            /\ SamePlace(doc, e) /\ e.draft.edit = doc.draft.edit
            /\ e.draft.dirty => doc.draft.dirty
            /\ \/ a.call = <<>>
               \/ /\ e.latest # 0
                  /\ a.call = <<Report(server.published[e.latest], e.draft, "nobody")>>
            /\ Viewed(server.published, e)
        BY <1>1, <2>1, AcceptedFacts
      <3> HIDE DEF e
      <3>3. Rests(cs)
        <4>1. CASE a.call = <<>>
          <5>1. cs = calls
            BY <4>1, WindowFacts, ConcatEmptySeq
          <5>2. QED BY <1>2, <5>1
        <4>2. CASE e.latest # 0 /\ a.call = <<Report(Scope(e.latest), e.draft, "nobody")>>
          <5> DEFINE r == Report(Scope(e.latest), e.draft, "nobody")
          <5>1. Scope(e.latest) \in Scopes /\ e.draft \in Drafts
            <6>1. e.latest \in 0..Len(server.published)
              BY <3>2 DEF Viewed
            <6>2. e.latest \in 1..Len(server.published)
              BY <1>1, <4>2, <6>1
            <6>3. e.draft \in Drafts
              BY <3>2 DEF Docs
            <6>4. QED BY <6>2, <6>3, WindowFacts DEF Scope
          <5>2. r \in Calls /\ r.kind # "save" /\ Rests(Append(calls, r))
            BY <5>1, KeptFacts, ReportRests
          <5>3. cs = calls \o <<r>>
            BY <4>2
          <5> HIDE DEF r, cs
          <5>4. cs = Append(calls, r)
            BY <5>2, <5>3, WindowFacts, AppendedCall
          <5>5. QED BY <5>2, <5>4
        <4>3. QED BY <3>2, <4>1, <4>2 DEF Scope
      <3> HIDE DEF cs
      <3>4. /\ e.views = doc.views /\ e.view = doc.view /\ e.by = doc.by
            /\ e.action = doc.action /\ (doc.shown # 0 => e.shown # 0)
        BY <3>2 DEF SamePlace
      <3>5. e.views >= doc.views /\ (e.draft.dirty => e.view # 0) /\ ~e.next.dirty
        BY <3>2, <3>4, KeptFacts
      <3>6. QED BY <1>1, <3>1, <3>2, <3>3, <3>4, <3>5, KeptOn
    <2>3. CASE ~doc.ready
      <3> DEFINE new == Newer(doc.pending, n)
                 e == [doc EXCEPT !.pending = new]
      <3>1. doc' = e /\ calls' = calls
        BY <1>3, <2>3 DEF Deliver
      <3>2. new \in Nat
        BY <1>1, <2>1 DEF Newer, Docs
      <3> HIDE DEF new
      <3>3. e \in Docs /\ SameDraft(doc, e) /\ SamePlace(doc, e) /\ e.answer = doc.answer
        BY <1>1, <3>2 DEF Docs, SameDraft, SamePlace
      <3> HIDE DEF e
      <3>4. QED BY <1>1, <1>2, <3>1, <3>3, SameKept
    <2>4. QED BY <2>2, <2>3
  <1>4. ASSUME NEW n \in 1..MaxRevision, StatsEvent(n) PROVE Kept(server, doc, calls)'
    <2> DEFINE e == AcceptStats(doc, n)
    <2>1. n \in 1..Len(server.published) /\ doc' = e /\ calls' = calls
      BY <1>1, <1>4 DEF StatsEvent, Viewed
    <2>2. e \in Docs /\ e = [doc EXCEPT !.stats = e.stats, !.loading = e.loading]
      BY <1>1, <2>1, AcceptedStats
    <2> HIDE DEF e
    <2>3. SameDraft(doc, e) /\ SamePlace(doc, e) /\ e.answer = doc.answer
      BY <1>1, <2>2 DEF Docs, SameDraft, SamePlace
    <2>4. QED BY <1>1, <1>2, <2>1, <2>2, <2>3, SameKept
  <1>5. ASSUME NEW n \in 0..MaxRevision, StatsAnswer(n) PROVE Kept(server, doc, calls)'
    <2>1. n \in Nat
      <3>1. n \in {0} \cup doc.asked..Len(server.published) /\ doc.asked \in Nat
        BY <1>1, <1>5 DEF StatsAnswer, Docs
      <3>2. QED BY <1>1, <3>1
    <2> DEFINE e == doc'
    <2>2. /\ calls' = calls /\ e \in Docs /\ SameDraft(doc, e) /\ SamePlace(doc, e)
          /\ e.answer = doc.answer
      BY <1>5, <2>1, StatsAnswered
    <2>3. doc' = e
      OBVIOUS
    <2> HIDE DEF e
    <2>4. QED BY <1>1, <1>2, <2>2, <2>3, SameKept
  <1>6. CASE Bootstrap
    <2> DEFINE c == [kind |-> "info", doc |-> doc.id]
               e == [doc EXCEPT !.boot = "info"]
    <2>1. doc' = e /\ calls' = Append(calls, c)
      BY <1>6 DEF Bootstrap
    <2>2. c \in Calls /\ c.kind # "save"
      BY WindowFacts DEF Calls
    <2> HIDE DEF c
    <2>3. Rests(Append(calls, c))
      BY <2>2, RestsFacts
    <2>4. /\ e \in Docs /\ e.id = doc.id /\ e.action = doc.action /\ e.by = doc.by
          /\ e.views = doc.views /\ e.shown = doc.shown /\ e.view = doc.view
          /\ e.draft = doc.draft /\ e.next = doc.next /\ e.answer = doc.answer
      BY <1>1 DEF Docs
    <2> HIDE DEF e
    <2>5. QED BY <1>1, <2>1, <2>3, <2>4, KeptFacts, KeptOn
  <1>7. QED BY <1>3, <1>4, <1>5, <1>6

LEMMA InfoKept ==
  ASSUME WindowInv, Kept(server, doc, calls), Info
  PROVE  Kept(server, doc, calls)'
PROOF
  <1> DEFINE cs == Tail(calls)
  <1>1. /\ calls # <<>> /\ Head(calls) = calls[1] /\ calls[1].kind = "info" /\ doc \in Docs
        /\ server' = server /\ server.settled \subseteq server'.settled /\ 1 \in DOMAIN calls
    BY Arrived, WindowFacts DEF Info
  <1>2. /\ Rests(cs) /\ cs \in Seq(Calls)
        /\ \A c \in Calls : c.kind # "save" => Rests(Append(cs, c))
    BY <1>1, RestsFacts, Arrived
  <1> HIDE DEF cs
  <1>3. CASE calls[1].doc # doc.id
    <2>1. doc' = doc /\ calls' = cs
      BY <1>1, <1>3 DEF Info, cs
    <2>2. SameDraft(doc, doc) /\ SamePlace(doc, doc)
      BY DEF SameDraft, SamePlace
    <2>3. QED BY <1>1, <1>2, <2>1, <2>2, SameKept
  <1>4. CASE calls[1].doc = doc.id
    <2> DEFINE revision == NextRevision(server.draft.revision)
               draft == [doc.draft EXCEPT !.revision = revision]
               e == [doc EXCEPT !.boot = "ack", !.next = draft]
               r == Report(Now, draft, "boot")
    <2>1. doc' = e /\ calls' = Append(cs, r)
      BY <1>1, <1>4 DEF Info, cs
    <2>2. ~doc.ready /\ doc.draft = Clean
      BY <1>1, <1>4 DEF WindowInv, Booted
    <2>3. revision \in Nat
      BY WindowFacts DEF NextRevision, Newer
    <2> HIDE DEF revision
    <2>4. draft \in Drafts /\ ~draft.dirty
      BY <2>2, <2>3, CleanFacts DEF Drafts
    <2> HIDE DEF draft
    <2>5. Now \in Scopes
      BY WindowFacts DEF Now, Scope
    <2>6. r \in Calls /\ r \in Reports
      BY <2>4, <2>5, WindowFacts, KeptFacts, ReportFacts
    <2> HIDE DEF r
    <2>7. Rests(Append(cs, r))
      BY <1>2, <2>6, CallFacts
    <2>8. /\ e \in Docs /\ e.id = doc.id /\ e.action = doc.action /\ e.by = doc.by
          /\ e.views = doc.views /\ e.shown = doc.shown /\ e.view = doc.view
          /\ e.draft = doc.draft /\ e.next = draft /\ e.answer = doc.answer
      BY <1>1, <2>4 DEF Docs
    <2> HIDE DEF e
    <2>9. QED BY <1>1, <2>1, <2>4, <2>7, <2>8, KeptFacts, KeptOn
  <1>5. QED BY <1>3, <1>4

LEMMA ReadyKept ==
  ASSUME WindowInv, Kept(server, doc, calls), Ready
  PROVE  Kept(server, doc, calls)'
PROOF
  <1>1. /\ doc \in Docs /\ server' = server /\ server.settled \subseteq server'.settled
        /\ doc.answer.to = "boot"
    BY WindowFacts DEF Ready
  <1>2. ~doc.ready /\ doc.shown = 0
    BY <1>1 DEF WindowInv, Booted
  <1>3. doc.action = "none" /\ doc.view = 0
    BY <1>2 DEF Kept
  <1>4. NoAnswer \in Answers /\ NoAnswer.to # "save"
    BY DEF NoAnswer, Answers, Callers
  <1>5. CASE ~doc.answer.ok
    <2> DEFINE e == [doc EXCEPT !.answer = NoAnswer, !.boot = "none"]
    <2>1. doc' = e /\ calls' = calls
      BY <1>5 DEF Ready
    <2>2. /\ e \in Docs /\ e.id = doc.id /\ e.action = doc.action /\ e.by = doc.by
          /\ e.views = doc.views /\ e.shown = doc.shown /\ e.view = doc.view
          /\ e.draft = doc.draft /\ e.next = doc.next /\ e.answer = NoAnswer
      BY <1>1, <1>4 DEF Docs
    <2> HIDE DEF e
    <2>3. QED BY <1>1, <1>4, <2>1, <2>2, KeptFacts, KeptOn, RestsFacts
  <1>6. CASE doc.answer.ok
    <2> DEFINE c == Accepted(Begun, doc.pending)
               e == c.doc
               cs == calls \o c.call
    <2>1. /\ doc' = e /\ calls' = cs /\ e \in Docs /\ Viewed(server.published, e)
          /\ e.id = doc.id /\ e.answer = NoAnswer /\ SamePlace(doc, e)
          /\ e.draft.dirty => Mine(doc).dirty
          /\ e.next = Clean
          /\ \/ c.call = <<>>
             \/ /\ e.latest # 0
                /\ c.call = <<Report(server.published[e.latest], e.draft, "nobody")>>
      BY <1>6, ReadyAnswered
    <2> HIDE DEF e
    <2>2. Rests(cs)
      <3>1. CASE c.call = <<>>
        <4>1. cs = calls
          BY <3>1, WindowFacts, ConcatEmptySeq
        <4>2. QED BY <4>1, RestsFacts
      <3>2. CASE e.latest # 0 /\ c.call = <<Report(Scope(e.latest), e.draft, "nobody")>>
        <4> DEFINE r == Report(Scope(e.latest), e.draft, "nobody")
        <4>1. Scope(e.latest) \in Scopes /\ e.draft \in Drafts
          <5>1. e.latest \in 0..Len(server.published)
            BY <2>1 DEF Viewed
          <5>2. e.latest \in 1..Len(server.published)
            BY <3>2, <5>1, WindowFacts
          <5>3. e.draft \in Drafts
            BY <2>1 DEF Docs
          <5>4. QED BY <5>2, <5>3, WindowFacts DEF Scope
        <4>2. r \in Calls /\ r.kind # "save" /\ Rests(Append(calls, r))
          BY <4>1, KeptFacts, ReportRests
        <4>3. cs = calls \o <<r>>
          BY <3>2
        <4> HIDE DEF r, cs
        <4>4. cs = Append(calls, r)
          BY <4>2, <4>3, WindowFacts, AppendedCall
        <4>5. QED BY <4>2, <4>4
      <3>3. QED BY <2>1, <3>1, <3>2 DEF Scope
    <2> HIDE DEF cs, c
    <2>3. /\ e.views = doc.views /\ e.view = doc.view /\ e.by = doc.by
          /\ e.action = doc.action /\ (doc.shown # 0 => e.shown # 0)
      BY <2>1 DEF SamePlace
    <2>4. Mine(doc) = doc.next /\ ~doc.next.dirty
      BY <1>2, KeptFacts DEF Mine
    <2>5. e.views >= doc.views /\ ~e.draft.dirty /\ ~e.next.dirty
      BY <2>1, <2>3, <2>4, KeptFacts, CleanFacts
    <2>6. QED BY <1>1, <1>3, <1>4, <2>1, <2>2, <2>3, <2>5, KeptOn
  <1>7. QED BY <1>5, <1>6

LEMMA ViewsKept ==
  ASSUME WindowInv, Kept(server, doc, calls), Render \/ Enter \/ Leave \/ ProfilesLoaded
  PROVE  Kept(server, doc, calls)'
PROOF
  <1>1. doc \in Docs /\ SameDraft(doc, doc) /\ Rests(calls)
    BY WindowFacts, RestsFacts DEF SameDraft
  <1>2. CASE Render
    <2> DEFINE profile == \/ doc.shown = 0
                          \/ Profile(Scope(doc.shown)) # Profile(Scope(doc.latest))
               w == doc.awaiting \/ profile
               a == [doc EXCEPT !.shown = doc.latest, !.awaiting = w]
               d == [a EXCEPT !.asked = doc.latest, !.loading = TRUE]
               remount == profile /\ doc.view # 0
    <2>1. /\ server' = server /\ doc.latest # doc.shown
          /\ ~remount => calls' = calls /\ doc' \in {a, d}
          /\ remount =>
               /\ doc' = Gone(d, doc.views + 1)
               /\ calls' = Append(calls, Report(Scope(doc.latest),
                                                Gone(d, doc.views + 1).draft, "nobody"))
      BY <1>2 DEF Render
    <2>2. doc.latest \in Nat \ {0} /\ w \in BOOLEAN
      BY <1>1, <2>1, ShownFacts DEF Docs
    <2> HIDE DEF w
    <2>3. /\ a \in Docs /\ SameDraft(doc, a) /\ SamePlace(doc, a) /\ a.answer = doc.answer
      BY <1>1, <2>2 DEF Docs, SameDraft, SamePlace
    <2>4. /\ d \in Docs /\ SameDraft(doc, d) /\ SamePlace(doc, d) /\ d.answer = doc.answer
      BY <1>1, <2>2 DEF Docs, SameDraft, SamePlace
    <2> HIDE DEF a, d
    <2>5. CASE ~remount
      BY <1>1, <2>1, <2>3, <2>4, <2>5, SameKept
    <2>6. CASE remount
      <3>1. doc.shown # 0
        BY <2>6, KeptFacts
      <3>2. /\ d.view = doc.view /\ d.views = doc.views /\ d.by = doc.by
            /\ d.action = doc.action /\ d.shown # 0
        BY <2>4, <3>1 DEF SamePlace
      <3>3. QED BY <2>1, <2>4, <2>6, <3>1, <3>2, GoneKept
    <2>7. QED BY <2>5, <2>6
  <1>3. CASE Enter
    BY <1>1, <1>3, GoneKept DEF Enter
  <1>4. CASE Leave
    <2>1. server.settled \subseteq server'.settled
      <3>1. doc.draft.dirty =>
              server'.settled = server.settled \cup {doc.draft.edit}
        <4> DEFINE settled == server.settled \cup {doc.draft.edit}
        <4>1. doc.draft.dirty => server' = [server EXCEPT !.settled = settled]
          BY <1>4 DEF Leave
        <4> HIDE DEF settled
        <4>2. doc.draft.dirty => server'.settled = settled
          BY <4>1, WindowFacts DEF Servers
        <4>3. QED BY <4>2 DEF settled
      <3>2. ~doc.draft.dirty => server' = server
        BY <1>4 DEF Leave
      <3>3. QED BY <3>1, <3>2
    <2>2. doc.shown # 0
      BY <1>4, KeptFacts DEF Leave
    <2>3. QED BY <1>1, <1>4, <2>1, <2>2, GoneKept DEF Leave
  <1>5. CASE ProfilesLoaded
    <2> DEFINE a == [doc EXCEPT !.awaiting = FALSE]
    <2>1. /\ doc.shown # 0 /\ server' = server
          /\ \/ doc' = a /\ calls' = calls
             \/ /\ doc' = Gone(a, 0)
                /\ calls' = Append(calls, Report(Scope(doc.latest), Gone(a, 0).draft, "nobody"))
      BY <1>5 DEF ProfilesLoaded
    <2>2. /\ a \in Docs /\ SameDraft(doc, a) /\ SamePlace(doc, a) /\ a.answer = doc.answer
      BY <1>1 DEF Docs, SameDraft, SamePlace
    <2> HIDE DEF a
    <2>3. /\ a.view = doc.view /\ a.views = doc.views /\ a.by = doc.by
          /\ a.action = doc.action /\ a.shown # 0
      BY <2>1, <2>2 DEF SamePlace
    <2>4. CASE doc' = a /\ calls' = calls
      BY <1>1, <2>1, <2>2, <2>4, SameKept
    <2>5. CASE doc' = Gone(a, 0)
               /\ calls' = Append(calls, Report(Scope(doc.latest), Gone(a, 0).draft, "nobody"))
      BY <2>1, <2>2, <2>3, <2>5, GoneKept
    <2>6. QED BY <2>1, <2>4, <2>5
  <1>6. QED BY <1>2, <1>3, <1>4, <1>5

LEMMA EditKept ==
  ASSUME WindowInv, Kept(server, doc, calls), Edit
  PROVE  Kept(server, doc, calls)'
PROOF
  <1>1. PICK dirty \in BOOLEAN :
          LET d == [dirty |-> dirty, revision |-> doc.draft.revision + 1,
                    edit |-> server.edits + 1]
          IN  /\ doc.view # 0 /\ ~Saving
              /\ server' = [server EXCEPT !.edits = @ + 1]
              /\ doc' = [doc EXCEPT !.draft = d]
              /\ calls' = Append(calls, Report(Scope(doc.latest), d, "nobody"))
    BY DEF Edit
  <1> DEFINE d == [dirty |-> dirty, revision |-> doc.draft.revision + 1,
                   edit |-> server.edits + 1]
             e == [doc EXCEPT !.draft = d]
             cs == Append(calls, Report(Scope(doc.latest), d, "nobody"))
  <1>2. /\ doc.view # 0 /\ ~Saving /\ doc' = e /\ calls' = cs
        /\ server'.settled = server.settled
    BY <1>1, WindowFacts DEF Servers
  <1>3. d \in Drafts
    <2>1. doc.draft.revision + 1 \in Nat /\ server.edits + 1 \in Nat
      BY WindowFacts
    <2>2. QED BY <2>1 DEF Drafts
  <1> HIDE DEF d
  <1>4. /\ e \in Docs /\ e.id = doc.id /\ e.action = doc.action /\ e.by = doc.by
        /\ e.views = doc.views /\ e.shown = doc.shown /\ e.view = doc.view
        /\ e.next = doc.next /\ e.answer = doc.answer
    BY <1>3, WindowFacts DEF Docs
  <1> HIDE DEF e
  <1>5. Rests(cs)
    BY <1>2, <1>3, KeptFacts, ReportRests
  <1> HIDE DEF cs
  <1>6. ~(doc.action = "saving" /\ doc.by = doc.view)
    BY <1>2 DEF Saving
  <1>7. server.settled \subseteq server'.settled
    BY <1>2
  <1>8. QED BY <1>2, <1>4, <1>5, <1>6, <1>7, KeptFacts, KeptOn

LEMMA RunActionKept ==
  ASSUME WindowInv, Kept(server, doc, calls), RunAction
  PROVE  Kept(server, doc, calls)'
PROOF
  <1>1. PICK kind \in {"act", "save"} :
          /\ doc.shown # 0 /\ doc.action = "none" /\ (kind = "save" => doc.view # 0)
          /\ doc' = [doc EXCEPT !.action = kind, !.from = doc.latest, !.by = doc.view]
          /\ calls' = Append(calls, Report(Scope(doc.latest), doc.draft, "flush"))
    BY DEF RunAction
  <1> DEFINE e == [doc EXCEPT !.action = kind, !.from = doc.latest, !.by = doc.view]
             r == Report(Scope(doc.latest), doc.draft, "flush")
             cs == Append(calls, r)
  <1>2. doc' = e /\ calls' = cs
    BY <1>1
  <1>3. /\ e \in Docs /\ e.id = doc.id /\ e.action = kind /\ e.by = doc.view
        /\ e.views = doc.views /\ e.shown = doc.shown /\ e.view = doc.view
        /\ e.draft = doc.draft /\ e.next = doc.next /\ e.answer = doc.answer
    BY WindowFacts DEF Docs
  <1> HIDE DEF e
  <1>4. r \in Calls /\ r.kind # "save"
    BY <1>1, KeptFacts, WindowFacts, ReportRests
  <1> HIDE DEF r
  <1>5. \A i \in DOMAIN cs : ~Sends(cs[i], e)
    BY <1>1, <1>3, <1>4, NotSent
  <1> HIDE DEF cs
  <1>6. /\ e.answer.to # "save" /\ e.view <= e.views /\ e.by <= e.views /\ e.shown # 0
        /\ (e.draft.dirty => e.view # 0) /\ ~e.next.dirty
    BY <1>1, <1>3 DEF Kept
  <1>7. (e.action = "save" => e.by # 0) /\ e.action # "saving"
    BY <1>1, <1>3
  <1>8. Kept(server', e, cs)
    BY <1>3, <1>5, <1>6, <1>7, KeptAnew
  <1>9. QED BY <1>2, <1>8

\* The document when an action is over.
LEMMA DoneKept ==
  ASSUME WindowInv, Kept(server, doc, calls)
  PROVE  /\ Done \in Docs /\ Done.id = doc.id /\ Done.action = "none" /\ Done.by = 0
         /\ Done.views = doc.views /\ Done.shown = doc.shown /\ Done.view = doc.view
         /\ Done.draft = doc.draft /\ Done.next = doc.next /\ Done.answer.to # "save"
PROOF
  <1>1. NoAnswer \in Answers /\ NoAnswer.to # "save"
    BY DEF NoAnswer, Answers, Callers
  <1>2. QED BY <1>1, WindowFacts DEF Done, Docs

LEMMA EndsKept ==
  ASSUME WindowInv, Kept(server, doc, calls), Flushed \/ Saved
  PROVE  Kept(server, doc, calls)'
PROOF
  <1>1. CASE Flushed
    <2> DEFINE c == [kind |-> "act", doc |-> doc.id, by |-> doc.by, scope |-> Scope(doc.latest)]
    <2>1. /\ doc' = Done /\ calls' \in {calls, Append(calls, c)} /\ doc.action = "act"
      BY <1>1 DEF Flushed, Unchanged
    <2>2. c \in Calls /\ c.kind # "save"
      <3>1. Scope(doc.latest) \in Scopes /\ doc.id \in Nat /\ doc.by \in Nat
        BY <1>1, FlushFacts, WindowFacts, KeptFacts DEF Flushed
      <3>2. QED BY <3>1 DEF Calls
    <2> HIDE DEF c
    <2> DEFINE e == Done
    <2>3. /\ e \in Docs /\ e.id = doc.id /\ e.action = "none" /\ e.by = 0
          /\ e.views = doc.views /\ e.shown = doc.shown /\ e.view = doc.view
          /\ e.draft = doc.draft /\ e.next = doc.next /\ e.answer.to # "save"
      BY DoneKept
    <2>4. doc' = e
      BY <2>1
    <2> HIDE DEF e
    <2>5. \A i \in DOMAIN calls' : ~Sends(calls'[i], e)
      BY <2>1, <2>2, <2>3, NotSent
    <2>6. /\ e.view <= e.views /\ e.by <= e.views /\ (e.view # 0 => e.shown # 0)
          /\ (e.draft.dirty => e.view # 0) /\ ~e.next.dirty
      BY <2>3, KeptFacts
    <2>7. QED BY <2>3, <2>4, <2>5, <2>6, KeptAnew
  <1>2. CASE Saved
    <2> DEFINE remaining == [doc.draft EXCEPT !.dirty =
                               @ /\ ~(doc.action = "saving" /\ doc.answer.ok /\ Unchanged)]
               a == Done
               b == [a EXCEPT !.draft = remaining]
               r == Report(Scope(doc.latest), remaining, "nobody")
    <2>1. /\ doc.action = "save" \/ (doc.action = "saving" /\ doc.answer.to = "save")
          /\ (doc' = a /\ calls' = calls) \/ (doc' = b /\ calls' = Append(calls, r))
      BY <1>2 DEF Saved
    <2>2. remaining \in Drafts /\ (remaining.dirty => doc.draft.dirty)
      <3>1. doc.answer.ok \in BOOLEAN /\ Unchanged \in BOOLEAN /\ doc.draft \in Drafts
        BY WindowFacts DEF Docs, Answers, Unchanged
      <3>2. QED BY <3>1 DEF Drafts
    <2> HIDE DEF remaining
    <2>3. /\ a \in Docs /\ a.id = doc.id /\ a.action = "none" /\ a.by = 0
          /\ a.views = doc.views /\ a.shown = doc.shown /\ a.view = doc.view
          /\ a.draft = doc.draft /\ a.next = doc.next /\ a.answer.to # "save"
      BY DoneKept
    <2> HIDE DEF a
    <2>4. /\ b \in Docs /\ b.id = doc.id /\ b.action = "none" /\ b.by = 0
          /\ b.views = doc.views /\ b.shown = doc.shown /\ b.view = doc.view
          /\ b.draft = remaining /\ b.next = doc.next /\ b.answer.to # "save"
      BY <2>2, <2>3 DEF Docs
    <2> HIDE DEF b
    <2>5. r \in Calls /\ r.kind # "save"
      <3>1. doc.shown # 0
        BY <2>1 DEF Kept
      <3>2. QED BY <2>2, <3>1, KeptFacts, ReportRests
    <2> HIDE DEF r
    <2>6. /\ \A i \in DOMAIN calls : ~Sends(calls[i], a)
          /\ \A i \in DOMAIN Append(calls, r) : ~Sends(Append(calls, r)[i], b)
      BY <2>1, <2>3, <2>4, <2>5, NotSent
    <2>7. /\ doc.view <= doc.views /\ 0 <= doc.views /\ (doc.view # 0 => doc.shown # 0)
          /\ (doc.draft.dirty => doc.view # 0) /\ (remaining.dirty => doc.view # 0)
          /\ ~doc.next.dirty
      BY <2>2, KeptFacts
    <2>8. Kept(server', a, calls)
      BY <2>3, <2>6, <2>7, KeptAnew
    <2>9. Kept(server', b, Append(calls, r))
      BY <2>4, <2>6, <2>7, KeptAnew
    <2>10. QED BY <2>1, <2>8, <2>9
  <1>3. QED BY <1>1, <1>2

LEMMA SendSaveKept ==
  ASSUME WindowInv, Kept(server, doc, calls), SendSave
  PROVE  Kept(server, doc, calls)'
PROOF
  <1> DEFINE e == [doc EXCEPT !.answer = NoAnswer, !.action = "saving"]
             c == [kind |-> "save", doc |-> doc.id, scope |-> Scope(doc.from),
                   edit |-> doc.draft.edit, wanted |-> "save"]
             cs == Append(calls, c)
             k == Len(calls) + 1
  <1>1. doc.answer.to = "flush" /\ doc.action = "save" /\ doc' = e /\ calls' = cs
    BY DEF SendSave
  <1>2. NoAnswer \in Answers /\ NoAnswer.to # "save"
    BY DEF NoAnswer, Answers, Callers
  <1>3. /\ e \in Docs /\ e.id = doc.id /\ e.action = "saving" /\ e.by = doc.by
        /\ e.views = doc.views /\ e.shown = doc.shown /\ e.view = doc.view
        /\ e.draft = doc.draft /\ e.next = doc.next /\ e.answer.to # "save"
    BY <1>2, WindowFacts DEF Docs
  <1> HIDE DEF e
  <1>4. c \in Calls
    <2>1. Scope(doc.from) \in Scopes
      BY <1>1, FlushFacts DEF SendSave, Unchanged
    <2>2. QED BY <2>1, WindowFacts DEF Calls, Saves
  <1>5. c.edit = doc.draft.edit
    OBVIOUS
  <1> HIDE DEF c
  <1>6. /\ DOMAIN cs = DOMAIN calls \cup {k} /\ cs[k] = c
        /\ \A i \in DOMAIN calls : cs[i] = calls[i]
    BY <1>4, WindowFacts, AppendedCall
  <1> HIDE DEF cs, k
  <1>7. \A i \in DOMAIN calls : ~Sends(calls[i], e)
    BY <1>1, <1>3, NotSent
  <1>8. \A i \in DOMAIN cs : Sends(cs[i], e) => i = k /\ cs[i].edit = e.draft.edit
    BY <1>3, <1>5, <1>6, <1>7
  <1>9. /\ e.view # 0 \/ e.action # "none" => e.shown # 0
        /\ e.view <= e.views /\ e.by <= e.views /\ e.by # 0
        /\ e.draft.dirty => e.view # 0
        /\ ~e.next.dirty
    BY <1>1, <1>3 DEF Kept
  <1>10. Kept(server', e, cs)
    BY <1>3, <1>8, <1>9 DEF Kept
  <1>11. QED BY <1>1, <1>10

LEMMA ResetsKept ==
  ASSUME WindowInv, Kept(server, doc, calls), ConsumeDraft \/ Reset
  PROVE  Kept(server, doc, calls)'
PROOF
  <1>1. doc \in Docs /\ Clean \in Drafts /\ doc.latest \in Nat
    BY WindowFacts, CleanFacts
  <1>2. server' = server /\ server.settled \subseteq server'.settled /\ Rests(calls)
    BY RestsFacts DEF ConsumeDraft, Reset
  <1>3. PICK reset \in Nat, consumed \in Tokens \cup {Clean}, draft \in Drafts :
          /\ doc' = [doc EXCEPT !.reset = reset, !.consumed = consumed, !.draft = draft]
          /\ draft.edit = doc.draft.edit /\ (draft.dirty => doc.draft.dirty)
          /\ Rests(calls')
    <2>1. CASE ConsumeDraft
      <3>1. /\ calls' = calls
            /\ \/ doc' = [doc EXCEPT !.reset = doc.latest]
               \/ doc' = [doc EXCEPT !.consumed = Clean]
        BY <2>1 DEF ConsumeDraft
      <3>2. /\ [doc EXCEPT !.reset = doc.latest] =
                 [doc EXCEPT !.reset = doc.latest, !.consumed = doc.consumed,
                             !.draft = doc.draft]
            /\ [doc EXCEPT !.consumed = Clean] =
                 [doc EXCEPT !.reset = doc.reset, !.consumed = Clean, !.draft = doc.draft]
            /\ doc.reset \in Nat /\ doc.consumed \in Tokens \cup {Clean} /\ doc.draft \in Drafts
        BY <1>1 DEF Docs
      <3>3. PICK r \in Nat, c \in Tokens \cup {Clean} :
              doc' = [doc EXCEPT !.reset = r, !.consumed = c, !.draft = doc.draft]
        <4>1. CASE doc' = [doc EXCEPT !.reset = doc.latest]
          <5>1. doc' = [doc EXCEPT !.reset = doc.latest, !.consumed = doc.consumed,
                                   !.draft = doc.draft]
            BY <3>2, <4>1
          <5>2. QED BY <1>1, <3>2, <5>1
        <4>2. CASE doc' = [doc EXCEPT !.consumed = Clean]
          <5>1. doc' = [doc EXCEPT !.reset = doc.reset, !.consumed = Clean, !.draft = doc.draft]
            BY <3>2, <4>2
          <5>2. Clean \in Tokens \cup {Clean}
            OBVIOUS
          <5>3. QED BY <3>2, <5>1, <5>2
        <4>3. QED BY <3>1, <4>1, <4>2
      <3>4. QED BY <1>2, <3>1, <3>2, <3>3
    <2>2. CASE Reset
      <3> DEFINE clean == [doc.draft EXCEPT !.dirty = FALSE]
                 r == Report(Scope(doc.latest), clean, "nobody")
                 a == [doc EXCEPT !.reset = 0, !.consumed = Clean]
      <3>1. \/ doc' = a /\ calls' = calls
            \/ doc' = [a EXCEPT !.draft = clean] /\ calls' = Append(calls, r)
        BY <2>2 DEF Reset
      <3>2. clean \in Drafts /\ clean.edit = doc.draft.edit /\ ~clean.dirty
        BY WindowFacts DEF Drafts
      <3> HIDE DEF clean
      <3>3. /\ a = [doc EXCEPT !.reset = 0, !.consumed = Clean, !.draft = doc.draft]
            /\ [a EXCEPT !.draft = clean] =
                 [doc EXCEPT !.reset = 0, !.consumed = Clean, !.draft = clean]
            /\ doc.draft \in Drafts
        BY <1>1 DEF Docs
      <3>4. Rests(Append(calls, r))
        <4>1. Scope(doc.latest) \in Scopes
          BY <2>2, ShownFacts, WindowFacts DEF Reset, Scope
        <4>2. QED BY <3>2, <4>1, KeptFacts, ReportRests
      <3> HIDE DEF a, r
      <3>5. PICK d \in Drafts :
              /\ doc' = [doc EXCEPT !.reset = 0, !.consumed = Clean, !.draft = d]
              /\ d.edit = doc.draft.edit /\ (d.dirty => doc.draft.dirty)
        BY <3>1, <3>2, <3>3
      <3>6. Rests(calls')
        BY <1>2, <3>1, <3>4
      <3>7. 0 \in Nat /\ Clean \in Tokens \cup {Clean}
        OBVIOUS
      <3>8. QED BY <3>5, <3>6, <3>7
    <2>3. QED BY <2>1, <2>2
  <1> DEFINE e == [doc EXCEPT !.reset = reset, !.consumed = consumed, !.draft = draft]
  <1>4. /\ e \in Docs /\ e.id = doc.id /\ e.action = doc.action /\ e.by = doc.by
        /\ e.views = doc.views /\ e.shown = doc.shown /\ e.view = doc.view
        /\ e.draft = draft /\ e.next = doc.next /\ e.answer = doc.answer
    BY <1>1 DEF Docs
  <1>5. doc' = e
    BY <1>3
  <1> HIDE DEF e
  <1>6. e.draft.dirty => e.view # 0
    BY <1>3, <1>4, KeptFacts
  <1>7. QED BY <1>2, <1>3, <1>4, <1>5, <1>6, KeptFacts, KeptOn

LEMMA ReloadKept ==
  ASSUME WindowInv, Kept(server, doc, calls), Reload
  PROVE  Kept(server, doc, calls)'
PROOF
  <1> DEFINE e == Loaded(doc.id + 1)
  <1>1. doc' = e /\ calls' = calls
    BY DEF Reload
  <1>2. doc.id + 1 \in Nat /\ Len(server.published) \in Nat \ {0} /\ doc.id \in Nat
    BY WindowFacts
  <1>3. /\ e \in Docs /\ e.id = doc.id + 1 /\ e.answer.to = "nobody" /\ e.draft = Clean
        /\ e.view = 0 /\ e.views = 0 /\ e.by = 0 /\ e.action = "none" /\ e.next = Clean
    BY <1>2, LoadedFacts
  <1> HIDE DEF e
  <1>4. \A i \in DOMAIN calls : ~Sends(calls[i], e)
    <2>1. \A i \in DOMAIN calls : calls[i].doc \in Nat /\ calls[i].doc <= doc.id
      BY WindowFacts, CallFacts DEF WindowInv, Queued
    <2>2. QED BY <1>2, <1>3, <2>1 DEF Sends
  <1>5. Kept(server', e, calls)
    BY <1>3, <1>4, CleanFacts, KeptAnew
  <1>6. QED BY <1>1, <1>5

LEMMA KeptStep == IInv /\ [Next]_vars => Kept(server, doc, calls)'
PROOF
  <1> SUFFICES ASSUME WindowInv, Kept(server, doc, calls), [Next]_vars
               PROVE  Kept(server, doc, calls)'
    BY DEF IInv
  <1>1. CASE SetDirty \/ Act \/ ActOfMenu \/ UserAnswers \/ Publish \/ Consume
    BY <1>1, ProgramKept
  <1>2. CASE SaveSettings
    BY <1>2, SaveSettingsKept
  <1>3. CASE \/ \E n \in 1..MaxRevision : Deliver(n) \/ StatsEvent(n)
             \/ \E n \in 0..MaxRevision : StatsAnswer(n)
             \/ Bootstrap
    BY <1>3, ShowsKept
  <1>4. CASE Info
    BY <1>4, InfoKept
  <1>5. CASE Ready
    BY <1>5, ReadyKept
  <1>6. CASE Render \/ Enter \/ Leave \/ ProfilesLoaded
    BY <1>6, ViewsKept
  <1>7. CASE Edit
    BY <1>7, EditKept
  <1>8. CASE RunAction
    BY <1>8, RunActionKept
  <1>9. CASE Flushed \/ Saved
    BY <1>9, EndsKept
  <1>10. CASE SendSave
    BY <1>10, SendSaveKept
  <1>11. CASE ConsumeDraft \/ Reset
    BY <1>11, ResetsKept
  <1>12. CASE Reload
    BY <1>12, ReloadKept
  <1>13. CASE UNCHANGED vars
    BY <1>13 DEF vars, Kept, Sends
  <1>14. QED
    BY <1>1, <1>2, <1>3, <1>4, <1>5, <1>6, <1>7, <1>8, <1>9, <1>10, <1>11, <1>12, <1>13
    DEF Next

LEMMA KeptStarts == Init => Kept(server, doc, calls)
PROOF
  <1> SUFFICES ASSUME Init PROVE Kept(server, doc, calls)
    OBVIOUS
  <1>1. Len(server.published) \in Nat \ {0} /\ 1 \in Nat /\ doc = Loaded(1) /\ calls = <<>>
    <2>1. WindowInv
      BY WindowStarts
    <2>2. Len(server.published) \in Nat /\ Len(server.published) >= 1
      BY <2>1, WindowFacts
    <2>3. doc = Loaded(1) /\ calls = <<>>
      BY DEF Init
    <2>4. QED BY <2>2, <2>3
  <1> DEFINE e == Loaded(1)
  <1>2. /\ e \in Docs /\ e.id = 1 /\ e.answer.to = "nobody" /\ e.draft = Clean
        /\ e.view = 0 /\ e.views = 0 /\ e.by = 0 /\ e.action = "none" /\ e.next = Clean
    BY <1>1, LoadedFacts
  <1>3. doc = e
    BY <1>1
  <1> HIDE DEF e
  <1>4. \A i \in DOMAIN calls : ~Sends(calls[i], e)
    BY <1>1
  <1>5. QED BY <1>2, <1>3, <1>4, CleanFacts, KeptAnew

LEMMA WindowIsKept == Spec => []IInv
PROOF
  <1>1. Init => IInv
    BY WindowStarts, KeptStarts DEF IInv
  <1>2. IInv /\ [Next]_vars => IInv'
    BY WindowStep, KeptStep DEF IInv
  <1>3. QED BY <1>1, <1>2, PTL DEF Spec


-----------------------------------------------------------------------------
(* The window: what is promised of the view and of the draft.              *)

\* Steps that show no other snapshot and no other sample.
LEMMA ViewStays ==
  ASSUME WindowInv,
         \/ SetDirty \/ Act \/ ActOfMenu \/ SaveSettings \/ UserAnswers \/ Publish \/ Consume
         \/ Bootstrap \/ Info \/ Render \/ Enter \/ Leave \/ ProfilesLoaded \/ Edit
         \/ RunAction \/ Flushed \/ SendSave \/ Saved \/ ConsumeDraft \/ Reset
         \/ UNCHANGED vars
  PROVE  doc'.latest = doc.latest /\ doc'.stats = doc.stats
PROOF
  <1>1. doc \in Docs
    BY WindowFacts
  <1>2. CASE SetDirty
    <2>1. Head(calls) \in Reports
      BY <1>2, Arrived, CallFacts DEF SetDirty
    <2>2. SameView(doc, Answered(Head(calls), Accepts(Head(calls))))
      BY <2>1, AnsweredFacts DEF Accepts
    <2>3. QED BY <1>2, <2>2 DEF SetDirty, SameView
  <1>3. CASE Act \/ ActOfMenu \/ UserAnswers \/ Publish
               \/ UNCHANGED vars
    BY <1>3 DEF Act, ActOfMenu, UserAnswers, Publish,
       vars
  <1>4. CASE Consume
    BY <1>1, <1>4 DEF Consume, Docs
  <1>5. CASE Bootstrap \/ Info
    BY <1>1, <1>5 DEF Bootstrap, Info, Docs
  <1>6. CASE Render
    <2>1. PICK shown, awaiting, asked, loading :
            LET d == [doc EXCEPT !.shown = shown, !.awaiting = awaiting, !.asked = asked,
                                 !.loading = loading]
            IN  doc' = d \/ doc' = Gone(d, doc.views + 1)
      <3> DEFINE w == doc.awaiting \/ doc.shown = 0
                                   \/ Profile(Scope(doc.shown)) # Profile(Scope(doc.latest))
      <3>1. CASE doc' = [doc EXCEPT !.shown = doc.latest, !.awaiting = w]
        <4>1. doc' = [doc EXCEPT !.shown = doc.latest, !.awaiting = w, !.asked = doc.asked,
                                 !.loading = doc.loading]
          BY <1>1, <3>1 DEF Docs
        <4>2. QED BY <4>1
      <3>2. CASE doc' # [doc EXCEPT !.shown = doc.latest, !.awaiting = w]
        <4> DEFINE d == [doc EXCEPT !.shown = doc.latest, !.awaiting = w,
                                    !.asked = doc.latest, !.loading = TRUE]
        <4>1. doc' = d \/ doc' = Gone(d, doc.views + 1)
          BY <1>6, <3>2 DEF Render
        <4> HIDE DEF w
        <4>2. QED BY <4>1
      <3>3. QED BY <3>1, <3>2
    <2> DEFINE d == [doc EXCEPT !.shown = shown, !.awaiting = awaiting, !.asked = asked,
                                !.loading = loading]
    <2>2. d.latest = doc.latest /\ d.stats = doc.stats
      BY <1>1 DEF Docs
    <2>3. Gone(d, doc.views + 1).latest = d.latest /\ Gone(d, doc.views + 1).stats = d.stats
      BY <1>1 DEF Gone, Docs
    <2>4. QED BY <2>1, <2>2, <2>3
  <1>7. CASE Edit
    BY <1>1, <1>7 DEF Edit, Docs
  <1>8. CASE RunAction \/ Flushed \/ SendSave
    BY <1>1, <1>8 DEF RunAction, Flushed, SendSave, Done, Docs
  <1>9. CASE ConsumeDraft
    BY <1>1, <1>9 DEF ConsumeDraft, Docs
  <1>10. CASE Reset
    BY <1>1, <1>10 DEF Reset, Docs
  <1>11. CASE Saved
    <2>1. Done.latest = doc.latest /\ Done.stats = doc.stats /\ Done.draft = doc.draft
          /\ \A draft : [Done EXCEPT !.draft = draft].latest = doc.latest
                        /\ [Done EXCEPT !.draft = draft].stats = doc.stats
      BY <1>1 DEF Done, Docs
    <2>2. QED BY <1>11, <2>1 DEF Saved
  <1>12. CASE SaveSettings
    <2>1. Head(calls) \in Saves
      BY <1>12, Arrived, CallFacts DEF SaveSettings
    <2>2. \E ok \in BOOLEAN : doc' = Answered(Head(calls), ok)
      BY <1>12 DEF SaveSettings
    <2>3. SameView(doc, doc')
      BY <2>1, <2>2, AnsweredFacts
    <2>4. QED BY <2>3 DEF SameView
  <1>13. CASE Enter \/ Leave \/ ProfilesLoaded
    <2>1. PICK awaiting, view :
            \/ doc' = Gone(doc, view) \/ doc' = [doc EXCEPT !.awaiting = awaiting]
            \/ doc' = Gone([doc EXCEPT !.awaiting = awaiting], view)
      BY <1>13 DEF Enter, Leave, ProfilesLoaded
    <2>2. QED BY <1>1, <2>1 DEF Gone, Docs
  <1>14. QED
    BY <1>2, <1>3, <1>4, <1>5, <1>6, <1>7, <1>8, <1>9, <1>10, <1>11, <1>12, <1>13

LEMMA ViewGoesOn ==
  ASSUME WindowInv, [Next]_vars, doc'.id = doc.id
  PROVE  /\ doc'.latest >= doc.latest
         /\ (/\ doc'.latest # 0 /\ doc.latest # 0
             /\ server'.published[doc'.latest] = Scope(doc.latest))
              => doc'.stats >= doc.stats
PROOF
  <1>1. /\ doc \in Docs /\ doc.latest \in Nat /\ doc.stats \in Nat /\ doc.id \in Nat
        /\ Viewed(server.published, doc)
    BY WindowFacts DEF Docs, WindowInv
  <1>2. CASE doc'.latest = doc.latest /\ doc'.stats >= doc.stats
    BY <1>1, <1>2
  <1>3. CASE \/ SetDirty \/ Act \/ ActOfMenu \/ SaveSettings \/ UserAnswers \/ Publish
             \/ Consume \/ Bootstrap \/ Info \/ Render \/ Enter \/ Leave \/ ProfilesLoaded
             \/ Edit \/ RunAction \/ Flushed \/ SendSave \/ Saved \/ ConsumeDraft \/ Reset
             \/ UNCHANGED vars
    <2>1. doc'.latest = doc.latest /\ doc'.stats = doc.stats
      BY <1>3, ViewStays
    <2>2. QED BY <1>1, <1>2, <2>1
  <1>4. ASSUME NEW n \in 1..MaxRevision, Deliver(n)
        PROVE  /\ doc'.latest >= doc.latest
               /\ doc'.latest # 0 /\ doc.latest # 0
                  /\ server'.published[doc'.latest] = Scope(doc.latest)
                    => doc'.stats >= doc.stats
    <2>1. CASE ~doc.ready
      <3>1. doc'.latest = doc.latest /\ doc'.stats = doc.stats
        BY <1>1, <1>4, <2>1 DEF Deliver, Docs
      <3>2. QED BY <1>1, <3>1
    <2>2. CASE doc.ready
      <3>1. n \in 0..Len(server.published) /\ server' = server
        BY <1>1, <1>4, WindowFacts DEF Deliver, Viewed
      <3>2. doc' = Accepted(doc, n).doc
        BY <1>4, <2>2 DEF Deliver
      <3>3. QED BY <1>1, <3>1, <3>2, AcceptedFacts DEF Scope
    <2>3. QED BY <2>1, <2>2
  <1>5. ASSUME NEW n \in 1..MaxRevision, StatsEvent(n)
        PROVE  doc'.latest = doc.latest /\ doc'.stats >= doc.stats
    <2>1. n \in 1..Len(server.published) /\ doc' = AcceptStats(doc, n)
      BY <1>1, <1>5, WindowFacts DEF StatsEvent, Viewed
    <2>2. /\ doc' = [doc EXCEPT !.stats = doc'.stats, !.loading = doc'.loading]
          /\ doc'.stats >= doc.stats
      BY <1>1, <2>1, AcceptedStats
    <2>3. doc'.latest = doc.latest
      BY <1>1, <2>2 DEF Docs
    <2>4. QED BY <2>2, <2>3
  <1>6. ASSUME NEW n \in 0..MaxRevision, StatsAnswer(n)
        PROVE  doc'.latest = doc.latest /\ doc'.stats >= doc.stats
    <2>1. n \in Nat
      <3>1. n \in {0} \cup doc.asked..Len(server.published) /\ doc.asked \in Nat
        BY <1>1, <1>6 DEF StatsAnswer, Docs
      <3>2. QED BY <3>1, WindowFacts
    <2>2. QED BY <1>6, <2>1, StatsAnswered
  <1>7. CASE Ready
    <2>1. CASE ~doc.answer.ok
      <3>1. doc'.latest = doc.latest /\ doc'.stats = doc.stats
        BY <1>1, <1>7, <2>1 DEF Ready, Docs
      <3>2. QED BY <1>1, <3>1
    <2>2. CASE doc.answer.ok
      <3>1. doc' \in Docs /\ doc.latest = 0
        BY <1>7, <2>2, ReadyAnswered
      <3>2. doc'.latest \in Nat
        BY <3>1 DEF Docs
      <3>3. QED BY <3>1, <3>2
    <2>3. QED BY <2>1, <2>2
  <1>8. CASE Reload
    <2>1. doc'.id = doc.id + 1
      BY <1>8 DEF Reload, Loaded
    <2>2. QED BY <1>1, <2>1
  <1>9. QED BY <1>2, <1>3, <1>4, <1>5, <1>6, <1>7, <1>8 DEF Next

LEMMA ViewKept == Spec => ViewIsCurrent
PROOF
  <1> DEFINE Counted == doc.stats # 0 => Scope(doc.stats) = Scope(doc.latest)
             Asked == doc.loading /\ doc.latest # 0 =>
                        \/ doc.asked # 0
                        \/ doc.shown = 0
                           \/ Scope(doc.shown) # Scope(doc.latest)
             Forth == doc'.id = doc.id =>
                        /\ doc'.latest >= doc.latest
                        /\ doc'.latest # 0 /\ doc.latest # 0
                           /\ server'.published[doc'.latest] = Scope(doc.latest)
                             => doc'.stats >= doc.stats
  <1>1. IInv => Counted /\ Asked
    BY DEF IInv, WindowInv, Viewed, Scope
  <1>2. IInv /\ [Next]_vars => [Forth]_vars
    <2>1. ASSUME IInv, [Next]_vars PROVE Forth
      BY <2>1, ViewGoesOn DEF IInv
    <2>2. QED BY <2>1
  <1>3. Spec => []Counted /\ []Asked /\ [][Forth]_vars
    <2> HIDE DEF Counted, Asked, Forth
    <2>1. QED BY <1>1, <1>2, WindowIsKept, PTL DEF Spec
  <1>4. QED BY <1>3 DEF ViewIsCurrent

\* Steps that leave the draft as it is.
LEMMA DraftStays ==
  ASSUME WindowInv,
         \/ SetDirty \/ Act \/ ActOfMenu \/ SaveSettings \/ UserAnswers \/ Publish \/ Consume
         \/ Bootstrap \/ Info \/ RunAction \/ Flushed \/ SendSave \/ ConsumeDraft
         \/ UNCHANGED vars
  PROVE  doc'.draft = doc.draft
PROOF
  <1>1. doc \in Docs
    BY WindowFacts
  <1>2. CASE SetDirty
    <2>1. Head(calls) \in Reports
      BY <1>2, Arrived, CallFacts DEF SetDirty
    <2>2. SameDraft(doc, Answered(Head(calls), Accepts(Head(calls))))
      BY <2>1, AnsweredFacts DEF Accepts
    <2>3. QED BY <1>2, <2>2 DEF SetDirty, SameDraft
  <1>3. CASE Act \/ ActOfMenu \/ UserAnswers \/ Publish
               \/ UNCHANGED vars
    BY <1>3 DEF Act, ActOfMenu, UserAnswers, Publish,
       vars
  <1>4. CASE Consume
    BY <1>1, <1>4 DEF Consume, Docs
  <1>5. CASE Bootstrap \/ Info
    BY <1>1, <1>5 DEF Bootstrap, Info, Docs
  <1>6. CASE RunAction \/ Flushed \/ SendSave
    BY <1>1, <1>6 DEF RunAction, Flushed, SendSave, Done, Docs
  <1>7. CASE ConsumeDraft
    BY <1>1, <1>7 DEF ConsumeDraft, Docs
  <1>8. CASE SaveSettings
    <2>1. Head(calls) \in Saves
      BY <1>8, Arrived, CallFacts DEF SaveSettings
    <2>2. \E ok \in BOOLEAN : doc' = Answered(Head(calls), ok)
      BY <1>8 DEF SaveSettings
    <2>3. SameDraft(doc, doc')
      BY <2>1, <2>2, AnsweredFacts
    <2>4. QED BY <2>3 DEF SameDraft
  <1>9. QED
    BY <1>2, <1>3, <1>4, <1>5, <1>6, <1>7, <1>8

LEMMA EditsAreGivenUp ==
  ASSUME WindowInv, Kept(server, doc, calls), [Next]_vars, doc'.id = doc.id,
         doc.draft.dirty, ~doc'.draft.dirty
  PROVE  \/ doc'.draft.edit # doc.draft.edit
         \/ doc.draft.edit \in server'.given \cup server'.settled
         \/ Profile(Scope(doc'.latest)) #
              Profile(Scope(doc.latest))
         \/ Profile(Scope(doc'.shown)) #
              Profile(Scope(doc.shown))
         \/ doc.awaiting /\ ~doc'.awaiting
PROOF
  <1>1. /\ doc \in Docs /\ doc.id \in Nat /\ doc.draft \in Drafts
        /\ Viewed(server.published, doc)
    BY WindowFacts DEF WindowInv
  <1>2. doc'.draft # doc.draft
    OBVIOUS
  <1>3. ASSUME NEW n \in 1..MaxRevision, Deliver(n)
        PROVE  Profile(Scope(doc'.latest)) #
                 Profile(Scope(doc.latest))
    <2>1. doc.ready
      BY <1>1, <1>2, <1>3 DEF Deliver, Docs
    <2>2. n \in 0..Len(server.published)
      BY <1>1, <1>3, WindowFacts DEF Deliver, Viewed
    <2>3. doc' = Accepted(doc, n).doc
      BY <1>3, <2>1 DEF Deliver
    <2>4. QED BY <1>1, <2>2, <2>3, AcceptedFacts DEF Scope
  <1>4. ASSUME NEW n \in 1..MaxRevision, StatsEvent(n) PROVE FALSE
    <2>1. n \in 1..Len(server.published) /\ doc' = AcceptStats(doc, n)
      BY <1>1, <1>4, WindowFacts DEF StatsEvent, Viewed
    <2>2. doc' = [doc EXCEPT !.stats = doc'.stats, !.loading = doc'.loading]
      BY <1>1, <2>1, AcceptedStats
    <2>3. doc'.draft = doc.draft
      BY <1>1, <2>2 DEF Docs
    <2>4. QED BY <1>2, <2>3
  <1>5. ASSUME NEW n \in 0..MaxRevision, StatsAnswer(n) PROVE FALSE
    <2>1. n \in Nat
      <3>1. n \in {0} \cup doc.asked..Len(server.published) /\ doc.asked \in Nat
        BY <1>1, <1>5 DEF StatsAnswer, Docs
      <3>2. QED BY <3>1, WindowFacts
    <2>2. SameDraft(doc, doc')
      BY <1>5, <2>1, StatsAnswered
    <2>3. QED BY <1>2, <2>2 DEF SameDraft
  <1>6. CASE Ready
    <2>1. CASE ~doc.answer.ok
      <3>1. doc'.draft = doc.draft
        BY <1>1, <1>6, <2>1 DEF Ready, Docs
      <3>2. QED BY <1>2, <3>1
    <2>2. CASE doc.answer.ok
      BY <1>6, <2>2, ReadyAnswered
    <2>3. QED BY <2>1, <2>2
  <1>7. CASE Render
    <2> DEFINE profile == \/ doc.shown = 0
                          \/ Profile(Scope(doc.shown)) # Profile(Scope(doc.latest))
               w == doc.awaiting \/ profile
               a == [doc EXCEPT !.shown = doc.latest, !.awaiting = w]
               d == [a EXCEPT !.asked = doc.latest, !.loading = TRUE]
    <2>1. \/ doc' \in {a, d}
          \/ profile /\ doc.view # 0 /\ doc' = Gone(d, doc.views + 1)
      BY <1>7 DEF Render
    <2>2. doc.shown # 0
      BY DEF Kept
    <2>3. /\ a.draft = doc.draft /\ d.draft = doc.draft
          /\ Gone(d, doc.views + 1).shown = doc.latest
      <3> HIDE DEF w
      <3>1. QED BY <1>1 DEF Gone, Docs
    <2>4. doc'.shown = doc.latest /\ profile
      BY <1>2, <2>1, <2>3
    <2>5. QED BY <2>2, <2>4
  <1>8. CASE Edit
    <2>1. doc'.draft.edit = server.edits + 1
      BY <1>1, <1>8 DEF Edit, Docs
    <2>2. doc.ready
      BY <1>8, ShownFacts DEF Edit, Kept
    <2>3. doc.draft.edit <= server.edits /\ doc.draft.edit \in Nat /\ server.edits \in Nat
      BY <2>2, DraftEdit, WindowFacts
    <2>4. QED BY <2>1, <2>3
  <1>9. CASE Reset
    <2>1. doc.reset # 0 /\ doc.ready /\ doc.consumed # Clean
      BY <1>9, ShownFacts DEF Reset
    <2>2. doc.draft.revision = doc.consumed.revision
      <3>1. CASE Unedited
        BY <3>1 DEF Unedited
      <3>2. CASE ~Unedited
        <4>1. doc'.draft = doc.draft
          BY <1>1, <1>9, <3>2 DEF Reset, Docs
        <4>2. QED BY <1>2, <4>1
      <3>3. QED BY <3>1, <3>2
    <2>3. Follows(doc.consumed, doc.draft, doc.id)
      BY <2>1 DEF WindowInv, Drafted, Mine, Consumed
    <2>4. doc.consumed.edit = doc.draft.edit
      <3>1. doc.draft.revision \in Nat
        BY <1>1 DEF Drafts
      <3>2. QED BY <2>2, <2>3, <3>1 DEF Follows
    <2>5. doc.consumed.edit \in server.given /\ server'.given = server.given
      BY <1>9, <2>1, <2>2 DEF Reset, WindowInv, Drafted, Mine, Consumed
    <2>6. QED BY <2>4, <2>5
  <1>10. CASE Reload
    <2>1. doc'.id = doc.id + 1
      BY <1>10 DEF Reload, Loaded
    <2>2. QED BY <1>1, <2>1
  <1>11. CASE \/ SetDirty \/ Act \/ ActOfMenu \/ SaveSettings \/ UserAnswers \/ Publish
              \/ Consume \/ Bootstrap \/ Info \/ RunAction \/ Flushed \/ SendSave
              \/ ConsumeDraft \/ UNCHANGED vars
    BY <1>2, <1>11, DraftStays
  <1>12. CASE Enter
    BY <1>12 DEF Enter, Kept
  <1>13. CASE Leave
    <2>1. server' = [server EXCEPT !.settled = server.settled \cup {doc.draft.edit}]
      BY <1>13 DEF Leave
    <2>2. server'.settled = server.settled \cup {doc.draft.edit}
      BY <2>1, WindowFacts DEF Servers
    <2>3. QED BY <2>2
  <1>14. CASE ProfilesLoaded
    <2> DEFINE a == [doc EXCEPT !.awaiting = FALSE]
    <2>1. doc.awaiting /\ (doc' = a \/ doc' = Gone(a, 0))
      BY <1>14 DEF ProfilesLoaded
    <2>2. a \in Docs /\ ~a.awaiting
      BY <1>1 DEF Docs
    <2> HIDE DEF a
    <2>3. ~Gone(a, 0).awaiting
      BY <2>2, GoneFacts
    <2>4. QED BY <2>1, <2>2, <2>3
  <1>15. CASE Saved
    <2>1. Done.draft = doc.draft /\ \A draft : [Done EXCEPT !.draft = draft].draft = draft
      BY <1>1 DEF Done, Docs
    <2>2. /\ doc.by = doc.view
          /\ \/ doc'.draft = doc.draft
             \/ /\ doc.action = "saving" /\ doc.answer.ok
                /\ doc.answer.to = "save" \/ doc.action = "save"
      <3>1. PICK b \in BOOLEAN :
              /\ b = (doc.action = "saving" /\ doc.answer.ok /\ Unchanged)
              /\ \/ doc' = Done
                 \/ /\ doc.by = doc.view
                    /\ doc' = [Done EXCEPT !.draft = [doc.draft EXCEPT !.dirty = @ /\ ~b]]
              /\ doc.answer.to = "save" \/ doc.action = "save"
        BY <1>15 DEF Saved
      <3>2. ~b => [doc.draft EXCEPT !.dirty = @ /\ ~b] = doc.draft
        BY <1>1 DEF Drafts
      <3>3. QED BY <1>2, <2>1, <3>1, <3>2
    <2>3. doc.draft.edit \in server.settled /\ server' = server
      BY <1>2, <1>15, <2>2 DEF Kept, Saved
    <2>4. QED BY <2>3
  <1>16. QED
    BY <1>3, <1>4, <1>5, <1>6, <1>7, <1>8, <1>9, <1>10, <1>11, <1>12, <1>13, <1>14, <1>15
    DEF Next

LEMMA EditsKept == Spec => EditsNeedConsent
PROOF
  <1> DEFINE Agreed ==
        /\ task.at = "works" /\ task' = NoTask /\ Current =>
             /\ server.draft.doc = task.about.doc
             /\ server.draft.dirty => server.draft.edit \in server.given
        /\ doc'.id = doc.id /\ doc.draft.dirty /\ ~doc'.draft.dirty =>
             \/ doc'.draft.edit # doc.draft.edit
             \/ doc.draft.edit \in server'.given \cup server'.settled
             \/ Profile(Scope(doc'.latest)) #
                  Profile(Scope(doc.latest))
             \/ Profile(Scope(doc'.shown)) #
                  Profile(Scope(doc.shown))
             \/ doc.awaiting /\ ~doc'.awaiting
  <1>1. IInv /\ [Next]_vars => [Agreed]_vars
    <2>1. ASSUME IInv, [Next]_vars PROVE Agreed
      <3>1. ASSUME task.at = "works", Current
            PROVE  /\ server.draft.doc = task.about.doc
                   /\ server.draft.dirty => server.draft.edit \in server.given
        <4>1. task # NoTask
          BY <3>1 DEF NoTask
        <4>2. Confirmed(server, doc, task)
          BY <2>1 DEF IInv, WindowInv
        <4>3. QED BY <3>1, <4>1, <4>2 DEF Confirmed, Current
      <3>2. QED BY <2>1, <3>1, EditsAreGivenUp DEF IInv
    <2>2. QED BY <2>1
  <1>2. Spec => [][Agreed]_vars
    <2> HIDE DEF Agreed
    <2>1. QED BY <1>1, WindowIsKept, PTL DEF Spec
  <1>3. QED BY <1>2 DEF EditsNeedConsent

\* Whatever order snapshots, samples and answers come in, what the window shows never
\* goes back, its statistics are of the scope it shows, and it waits for them only
\* while somebody will bring them, for all profiles and numbers of snapshots,
\* documents, views and calls (accept, acceptStats, retryStats).
THEOREM ViewStaysCurrent == Spec => ViewIsCurrent
PROOF BY ViewKept

\* However calls, answers, operations, views and documents overlap, an operation
\* consumes only the draft it was asked about, and the view gives up edits only if
\* the user has agreed to just these, or they are saved, or to another profile or to
\* the setup of a new one, for all numbers of edits, documents, views and calls
\* (set-dirty, confirm, consume, consumeDraft, handleNavigate, handleSave).
THEOREM EditsNeedTheirConsent == Spec => EditsNeedConsent
PROOF BY EditsKept
=============================================================================
