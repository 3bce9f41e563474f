---------------------- MODULE RecoveryController_proofs ----------------------
(***************************************************************************)
(* Whatever changes, is cancelled, held, suspended or answered late, no    *)
(* round goes on that must not, and a start is asked for only where it is  *)
(* wanted; for any connections and any number of attempts.                 *)
(***************************************************************************)
EXTENDS RecoveryController, TLAPS

-----------------------------------------------------------------------------
(* The invariant.                                                          *)

News == [scope : Scopes, status : {"checking", "settled"}]
Transports == {Transport(c) : c \in Contexts}
Apps == [busy : BOOLEAN, stopped : BOOLEAN, prefers : BOOLEAN]
States ==
  [active : Rounds \cup {None}, stale : SUBSET Rounds,
   observed : Contexts \cup {None}, blocked : Contexts \cup {None},
   inhibited : Transports \cup {None}, last : News \cup {None},
   suspended : BOOLEAN, disposed : BOOLEAN, enabled : BOOLEAN,
   paused : BOOLEAN, rearm : BOOLEAN, checking : BOOLEAN, updating : BOOLEAN,
   asleep : BOOLEAN, held : BOOLEAN, resume : BOOLEAN, others : BOOLEAN]

\* A superseded round awaits something; an update is queued only while it may
\* run, and sleep suspends.
Proper(t) ==
  /\ \A x \in t.stale : x.at \in Awaiting
  /\ t.updating => ~t.held /\ ~t.asleep
  /\ t.asleep => t.suspended

\* The round at work is one of the context that was observed last.
Restful(t) ==
  t.active # None =>
    /\ ~t.paused /\ ~t.suspended /\ ~t.disposed
    /\ t.active.context = t.observed

\* "Checking" is shown only if it was published last: then what is published
\* next replaces it.
Shown(t) == t.checking => t.last \in News /\ t.last.status = "checking"

Checks(t) ==
  t.checking /\ ~t.disposed =>
    t.active # None /\ t.active.at \in {"preflight", "probe"}

Verdict(t) ==
  t.active # None /\ ~t.active.manual =>
    t.inhibited # Transport(t.active.context) /\ t.blocked # t.active.context

Good(t) ==
  /\ t \in States /\ Proper(t) /\ Restful(t)
  /\ Shown(t) /\ Checks(t) /\ Verdict(t)

\* What was observed last is current, unless an update is queued.
Followed(t, c) == t.active # None => t.observed = c

Inv ==
  /\ context \in Contexts /\ app \in Apps
  /\ Good(s)
  /\ ~s.updating => Followed(s, context)

\* No round came to await a start.
Quiet(t, u) ==
  (t.active # None => t.active.at # "start") =>
    /\ u.active # None => u.active.at # "start"
    /\ \A x \in u.stale : x.at = "start" => x \in t.stale

-----------------------------------------------------------------------------
(* Publication and cancellation.                                           *)

LEMMA QuietOn ==
  ASSUME NEW t, NEW u, NEW v, Quiet(t, u), Quiet(u, v)
  PROVE  Quiet(t, v)
PROOF BY DEF Quiet

\* Fields that a publication leaves alone, the round apart.
Kept(t, u) ==
  /\ u.observed = t.observed /\ u.blocked = t.blocked
  /\ u.inhibited = t.inhibited /\ u.suspended = t.suspended
  /\ u.disposed = t.disposed /\ u.enabled = t.enabled
  /\ u.asleep = t.asleep /\ u.held = t.held /\ u.resume = t.resume

LEMMA FirstAttempt == 1 \in 1..MaxAttempts
PROOF
  <1>1. \A n \in Nat \ {0} : 1 \in 1..n
    OBVIOUS
  <1>2. QED BY <1>1, RecoveryAssumption

LEMMA ShownTyped ==
  ASSUME NEW t \in States, NEW a \in BOOLEAN, NEW b \in BOOLEAN,
         NEW d \in BOOLEAN
  PROVE  /\ [t EXCEPT !.paused = b, !.rearm = d] \in States
         /\ [t EXCEPT !.checking = a, !.others = b] \in States
PROOF
  <1>1. [t EXCEPT !.paused = b, !.rearm = d] \in States
    BY DEF States
  <1>2. [t EXCEPT !.checking = a, !.others = b] \in States
    BY DEF States
  <1>3. QED BY <1>1, <1>2

LEMMA QueuedLemma ==
  ASSUME NEW t \in States, Proper(t)
  PROVE  LET u == Queued(t) IN
         /\ u \in States /\ Proper(u) /\ Kept(t, u)
         /\ u.active = t.active /\ u.stale = t.stale /\ u.last = t.last
         /\ u.checking = t.checking /\ u.paused = t.paused
         /\ u.rearm = t.rearm
         /\ ~t.asleep /\ ~t.held => u.updating
PROOF
  <1> DEFINE u == Queued(t)
  <1>1. u \in States /\ Kept(t, u)
    BY DEF Queued, States, Kept
  <1>2. /\ u.active = t.active /\ u.stale = t.stale /\ u.last = t.last
        /\ u.checking = t.checking /\ u.paused = t.paused
        /\ u.rearm = t.rearm
        /\ u.updating <=> t.updating \/ (~t.asleep /\ ~t.held)
    BY DEF Queued, States
  <1>3. Proper(u)
    BY <1>1, <1>2 DEF Proper, Kept
  <1>4. QED BY <1>1, <1>2, <1>3

\* A publication about the current scope.
LEMMA ToldLemma ==
  ASSUME NEW t \in States, Proper(t), Shown(t), NEW c \in Contexts,
         NEW scope, scope = c.scope, NEW status \in {"checking", "settled"}
  PROVE  LET u == Told(t, c, scope, status) IN
         /\ u \in States /\ Proper(u) /\ Shown(u) /\ Kept(t, u)
         /\ u.active = t.active /\ u.stale = t.stale
         /\ u.paused => t.paused \/ (t.held /\ u # t /\ ~Repeats(t, status))
         /\ t.paused => u.paused
         /\ status = "settled" /\ u.checking => t.checking /\ t.disposed
PROOF
  <1> DEFINE news == [scope |-> scope, status |-> status]
             n == [t EXCEPT !.last = news]
             w == [n EXCEPT !.checking = (status = "checking"), !.others = FALSE]
             a == w.paused \/ t.held
             b == w.rearm /\ ~t.held
             v == [w EXCEPT !.paused = a, !.rearm = b]
             u == Told(t, c, scope, status)
  <1>1. news \in News /\ news.status = status
    BY DEF News, Contexts
  <1>2. CASE t.disposed \/ t.last = news
    <2>1. u = t
      BY <1>2 DEF Told
    <2>2. t.last = news /\ t.checking => status = "checking"
      BY <1>1 DEF Shown
    <2>3. QED BY <1>2, <2>1, <2>2 DEF Kept
  <1>3. CASE ~(t.disposed \/ t.last = news)
    <2>1. n \in States
      BY <1>1 DEF States
    <2>2. w \in States
      <3>1. (status = "checking") \in BOOLEAN /\ FALSE \in BOOLEAN
        OBVIOUS
      <3> HIDE DEF n
      <3>2. QED BY <2>1, <3>1, ShownTyped
    <2>3. /\ w.active = t.active /\ w.stale = t.stale /\ w.last = news
          /\ Kept(t, w) /\ w.updating = t.updating /\ w.paused = t.paused
          /\ w.rearm = t.rearm
      BY DEF States, Kept
    <2>4. w.checking <=> status = "checking"
      BY DEF States
    <2>5. w # t
      BY <1>3, <2>3
    <2>6. u = IF Repeats(t, status) THEN w ELSE Queued(v)
      <3>1. Told(t, c, scope, status) =
              IF Repeats(t, status) THEN w
              ELSE Queued([w EXCEPT !.paused = @ \/ t.held,
                                    !.rearm = @ /\ ~t.held])
        BY <1>3 DEF Told
      <3>2. [w EXCEPT !.paused = @ \/ t.held, !.rearm = @ /\ ~t.held] = v
        OBVIOUS
      <3>3. QED BY <3>1, <3>2
    <2>7. Proper(w) /\ Shown(w)
      BY <1>1, <2>3, <2>4 DEF Proper, Shown, Kept
    <2> HIDE DEF w
    <2>8. CASE Repeats(t, status)
      <3>1. u = w
        BY <2>6, <2>8
      <3>2. status = "checking"
        BY <2>8 DEF Repeats
      <3>3. QED BY <2>2, <2>3, <2>4, <2>7, <3>1, <3>2
    <2>9. CASE ~Repeats(t, status)
      <3>1. u = Queued(v)
        BY <2>6, <2>9
      <3>2. a \in BOOLEAN /\ b \in BOOLEAN /\ (a <=> t.paused \/ t.held)
        BY <2>3
      <3> HIDE DEF a, b
      <3>3. v \in States
        BY <2>2, <3>2, ShownTyped
      <3>4. /\ v.active = w.active /\ v.stale = w.stale /\ v.last = news
            /\ Kept(w, v) /\ v.updating = w.updating /\ v.paused = a
            /\ v.checking = w.checking
        BY <2>2, <2>3 DEF States, Kept
      <3>5. Proper(v)
        BY <2>7, <3>4 DEF Proper, Kept
      <3> HIDE DEF v
      <3>6. /\ u \in States /\ Proper(u) /\ Kept(v, u)
            /\ u.active = v.active /\ u.stale = v.stale /\ u.last = v.last
            /\ u.checking = v.checking /\ u.paused = v.paused
        BY <3>1, <3>3, <3>5, QueuedLemma
      <3>7. u # t
        BY <1>3, <3>4, <3>6
      <3>8. Shown(u)
        BY <1>1, <2>4, <3>4, <3>6 DEF Shown
      <3>9. Kept(t, u)
        BY <2>3, <3>4, <3>6 DEF Kept
      <3>10. QED
        BY <2>3, <2>4, <2>9, <3>2, <3>4, <3>6, <3>7, <3>8, <3>9
    <2>10. QED BY <2>8, <2>9
  <1>4. QED BY <1>2, <1>3

LEMMA EndedLemma ==
  ASSUME NEW t \in States, Proper(t), NEW c
  PROVE  LET u == Ended(t, c) IN
         /\ u \in States /\ Proper(u) /\ Kept(t, u) /\ Quiet(t, u)
         /\ u.active = None /\ u.last = t.last
         /\ u.checking = t.checking
PROOF
  <1> DEFINE u == Ended(t, c)
             more == {[y EXCEPT !.attempt = 1, !.manual = FALSE,
                                !.at = IF @ = "start" THEN "run" ELSE @] :
                       y \in {t.active} \ {None}}
             rest == {x \in t.stale \cup more :
                       x.at \in Awaiting /\ x.context.scope = c.scope}
  <1>1. ASSUME NEW x \in more
        PROVE  x \in Rounds /\ x.at # "start"
    <2>1. /\ t.active # None
          /\ x = [t.active EXCEPT !.attempt = 1, !.manual = FALSE,
                                  !.at = IF @ = "start" THEN "run" ELSE @]
      OBVIOUS
    <2>2. t.active \in Rounds
      BY <2>1 DEF States
    <2>3. 1 \in 1..MaxAttempts
      BY FirstAttempt
    <2>4. x \in Rounds /\ x.at # "start"
      BY <2>1, <2>2, <2>3 DEF Rounds, Awaiting
    <2>5. QED BY <2>4
  <1>2. rest \in SUBSET Rounds
    BY <1>1 DEF States
  <1> HIDE DEF more
  <1>3. u = [t EXCEPT !.active = None, !.stale = rest]
    BY DEF Ended, more
  <1>4. \A x \in rest : x.at \in Awaiting /\ (x \in t.stale \/ x \in more)
    OBVIOUS
  <1> HIDE DEF rest, u
  <1>5. u \in States
    BY <1>2, <1>3 DEF States
  <1>6. /\ Kept(t, u) /\ u.active = None /\ u.stale = rest /\ u.last = t.last
        /\ u.checking = t.checking /\ u.updating = t.updating
    BY <1>3 DEF States, Kept
  <1>7. Proper(u)
    BY <1>4, <1>6 DEF Proper, Kept
  <1>8. Quiet(t, u)
    BY <1>1, <1>4, <1>6 DEF Quiet
  <1>9. QED BY <1>5, <1>6, <1>7, <1>8 DEF u

\* Whatever was at work and shown is not any more.
LEMMA CancelledLemma ==
  ASSUME NEW t \in States, Proper(t), Shown(t), NEW c \in Contexts
  PROVE  LET u == Cancelled(t, c) IN
         /\ u \in States /\ Proper(u) /\ Shown(u) /\ Kept(t, u) /\ Quiet(t, u)
         /\ u.active = None /\ u.paused
         /\ u.checking => t.checking /\ (t.disposed \/ t.active = None)
PROOF
  <1> DEFINE e == Ended(t, c)
             w == [e EXCEPT !.paused = TRUE]
             u == Cancelled(t, c)
  <1>1. /\ e \in States /\ Proper(e) /\ Kept(t, e) /\ Quiet(t, e)
        /\ e.active = None /\ e.last = t.last /\ e.checking = t.checking
    BY EndedLemma
  <1> HIDE DEF e
  <1>2. w \in States
    <2>1. e \in States
      BY <1>1
    <2>2. QED BY <2>1 DEF States
  <1>3. /\ Kept(e, w) /\ w.active = e.active /\ w.last = e.last /\ w.paused
        /\ w.checking = e.checking /\ w.updating = e.updating
        /\ w.stale = e.stale
    BY <1>1 DEF States, Kept
  <1>4. u = IF t.active # None /\ (t.checking \/ t.others)
            THEN Told(w, c, c.scope, "settled") ELSE w
    BY DEF Cancelled, e
  <1> HIDE DEF w, u
  <1>5. Proper(w) /\ Shown(w) /\ Kept(t, w) /\ Quiet(t, w)
    BY <1>1, <1>3 DEF Proper, Shown, Kept, Quiet
  <1>6. CASE t.active # None /\ (t.checking \/ t.others)
    <2>1. u = Told(w, c, c.scope, "settled")
      BY <1>4, <1>6
    <2>2. /\ u \in States /\ Proper(u) /\ Shown(u) /\ Kept(w, u)
          /\ u.active = w.active /\ u.stale = w.stale
          /\ u.paused /\ (u.checking => w.checking /\ w.disposed)
      BY <1>2, <1>3, <1>5, <2>1, ToldLemma
    <2>3. Kept(t, u) /\ Quiet(t, u)
      BY <1>5, <2>2 DEF Kept, Quiet
    <2>4. QED BY <1>1, <1>3, <1>5, <2>2, <2>3 DEF Kept, u
  <1>7. CASE ~(t.active # None /\ (t.checking \/ t.others))
    <2>1. u = w
      BY <1>4, <1>7
    <2>2. QED BY <1>1, <1>2, <1>3, <1>5, <1>7, <2>1 DEF u
  <1>8. QED BY <1>6, <1>7

\* Nothing that is left is about the round that was cancelled.
LEMMA CancelledIsGood ==
  ASSUME NEW t \in States, Proper(t), Shown(t), Checks(t), NEW c \in Contexts
  PROVE  LET u == Cancelled(t, c) IN
         /\ Good(u) /\ Kept(t, u) /\ Quiet(t, u)
         /\ u.active = None /\ u.paused
PROOF
  <1>1. LET u == Cancelled(t, c) IN
        /\ u \in States /\ Proper(u) /\ Shown(u) /\ Kept(t, u) /\ Quiet(t, u)
        /\ u.active = None /\ u.paused
        /\ u.checking => t.checking /\ (t.disposed \/ t.active = None)
    BY CancelledLemma
  <1>2. QED BY <1>1 DEF Good, Checks, Restful, Verdict, Kept

LEMMA CancelCallLemma ==
  ASSUME NEW t \in States, Proper(t), Shown(t), Checks(t), NEW c \in Contexts,
         NEW byUser \in BOOLEAN
  PROVE  LET u == CancelCall(t, c, byUser) IN
         /\ Good(u) /\ Kept(t, u) /\ Quiet(t, u)
         /\ u.active = None /\ u.paused
PROOF
  <1> DEFINE w == [t EXCEPT !.rearm = byUser]
  <1>1. w \in States
    BY DEF States
  <1>2. /\ Kept(t, w) /\ w.active = t.active /\ w.last = t.last
        /\ w.checking = t.checking /\ w.updating = t.updating
        /\ w.stale = t.stale
    BY DEF States, Kept
  <1>3. CancelCall(t, c, byUser) = Cancelled(w, c)
    BY DEF CancelCall
  <1> HIDE DEF w
  <1>4. Proper(w) /\ Shown(w) /\ Checks(w) /\ Quiet(t, w)
    BY <1>2 DEF Proper, Shown, Checks, Kept, Quiet
  <1>5. LET u == Cancelled(w, c) IN
        Good(u) /\ Kept(w, u) /\ Quiet(w, u) /\ u.active = None /\ u.paused
    BY <1>1, <1>4, CancelledIsGood
  <1>6. QED BY <1>2, <1>3, <1>4, <1>5, QuietOn DEF Kept

\* What a round publishes.
LEMMA PublishedLemma ==
  ASSUME NEW t \in States, Proper(t), Restful(t), Shown(t), ~t.disposed,
         NEW c \in Contexts, NEW x, x.context.scope = c.scope,
         NEW status \in {"checking", "settled"}
  PROVE  LET u == Published(t, c, x, status) IN
         /\ u \in States /\ Proper(u) /\ Restful(u) /\ Shown(u)
         /\ Kept(t, u) /\ Quiet(t, u)
         /\ u.active # None => u.active = t.active
         /\ status = "settled" => ~u.checking
         /\ t.active # None /\ u.active = None => ~u.checking
PROOF
  <1> DEFINE v == Told(t, c, x.context.scope, status)
             u == Published(t, c, x, status)
  <1>1. /\ v \in States /\ Proper(v) /\ Shown(v) /\ Kept(t, v)
        /\ v.active = t.active /\ v.stale = t.stale
        /\ v.paused => t.paused \/ (t.held /\ v # t /\ ~Repeats(t, status))
        /\ status = "settled" => ~v.checking
    BY ToldLemma
  <1>2. u = IF t.held /\ v # t /\ ~Repeats(t, status) THEN Cancelled(v, c) ELSE v
    BY DEF Published
  <1>3. Quiet(t, v)
    BY <1>1 DEF Quiet
  <1> HIDE DEF v, u
  <1>4. CASE t.held /\ v # t /\ ~Repeats(t, status)
    <2>1. /\ u \in States /\ Proper(u) /\ Shown(u) /\ Kept(v, u) /\ Quiet(v, u)
          /\ u.active = None
          /\ u.checking => v.checking /\ (v.disposed \/ v.active = None)
      BY <1>1, <1>2, <1>4, CancelledLemma
    <2>2. Quiet(t, u)
      BY <1>3, <2>1, QuietOn
    <2>3. QED BY <1>1, <2>1, <2>2 DEF Kept, Restful, u
  <1>5. CASE ~(t.held /\ v # t /\ ~Repeats(t, status))
    <2>1. u = v
      BY <1>2, <1>5
    <2>2. Restful(u)
      BY <1>1, <1>5, <2>1 DEF Kept, Restful
    <2>3. QED BY <1>1, <1>3, <2>1, <2>2 DEF u
  <1>6. QED BY <1>4, <1>5

-----------------------------------------------------------------------------
(* The beginning of a round.                                               *)

LEMMA BegunLemma ==
  ASSUME NEW t, Good(t), ~t.disposed, ~t.suspended,
         NEW c \in Contexts, NEW manual \in BOOLEAN
  PROVE  LET u == Begun(t, c, manual) IN
         /\ Good(u) /\ Quiet(t, u) /\ u.observed = c
         /\ u.suspended = t.suspended /\ u.asleep = t.asleep
PROOF
  <1> DEFINE seen == [t EXCEPT !.observed = c]
             k == Cancelled(seen, c)
             i == IF manual THEN None ELSE k.inhibited
             w == [k EXCEPT !.paused = FALSE, !.inhibited = i]
             x == [context |-> c, attempt |-> 1, manual |-> manual,
                   at |-> "timer"]
             b == IF manual THEN None ELSE w.blocked
             r == [w EXCEPT !.active = x, !.blocked = b]
             z == [w EXCEPT !.blocked = c]
             p == Published(z, c, x, "settled")
             u == Begun(t, c, manual)
  <1>1. seen \in States
    BY DEF Good, States
  <1>2. /\ seen.observed = c /\ seen.active = t.active /\ seen.last = t.last
        /\ seen.stale = t.stale /\ seen.suspended = t.suspended
        /\ seen.disposed = t.disposed /\ seen.asleep = t.asleep
        /\ seen.held = t.held /\ seen.checking = t.checking
        /\ seen.paused = t.paused /\ seen.updating = t.updating
        /\ seen.inhibited = t.inhibited /\ seen.blocked = t.blocked
    BY DEF Good, States
  <1>3. u = IF t.active # None /\ t.active.context = c THEN seen
            ELSE IF Refused(w, c, manual) THEN w
            ELSE IF c.connection = Unusable THEN p ELSE r
    BY DEF Begun
  <1> HIDE DEF seen
  <1>4. Proper(seen) /\ Shown(seen) /\ Checks(seen) /\ Quiet(t, seen)
    BY <1>2 DEF Good, Proper, Shown, Checks, Quiet
  <1>5. CASE t.active # None /\ t.active.context = c
    <2>1. u = seen
      BY <1>3, <1>5
    <2>2. Restful(seen) /\ Verdict(seen)
      BY <1>2, <1>5 DEF Good, Restful, Verdict
    <2> HIDE DEF u
    <2>3. QED BY <1>1, <1>2, <1>4, <2>1, <2>2 DEF Good, u
  <1>6. CASE ~(t.active # None /\ t.active.context = c)
    <2>1. /\ Good(k) /\ Kept(seen, k) /\ Quiet(seen, k) /\ k.active = None
      BY <1>1, <1>4, CancelledIsGood
    <2> HIDE DEF k
    <2>2. i \in Transports \cup {None} /\ (manual \/ i = k.inhibited)
      BY <2>1 DEF Good, States
    <2> HIDE DEF i
    <2>3. w \in States
      <3>1. k \in States
        BY <2>1 DEF Good
      <3>2. QED BY <2>2, <3>1 DEF States
    <2>4. /\ w.active = None /\ w.stale = k.stale /\ w.last = k.last
          /\ w.checking = k.checking /\ w.updating = k.updating
          /\ w.observed = c /\ w.suspended = t.suspended
          /\ w.disposed = t.disposed /\ w.asleep = t.asleep
          /\ w.held = k.held /\ ~w.paused
          /\ w.inhibited = i
      BY <1>2, <2>1 DEF Good, States, Kept
    <2> HIDE DEF w
    <2>5. Good(w) /\ Quiet(t, w)
      <3>1. Proper(w) /\ Shown(w) /\ Checks(w) /\ Quiet(k, w)
        BY <1>2, <2>1, <2>4 DEF Good, Proper, Shown, Checks, Quiet, Kept
      <3>2. Restful(w) /\ Verdict(w)
        BY <2>4 DEF Restful, Verdict
      <3>3. Quiet(t, w)
        BY <1>4, <2>1, <3>1, QuietOn
      <3>4. QED BY <2>3, <3>1, <3>2, <3>3 DEF Good
    <2>6. x \in Rounds /\ x.context = c /\ x.manual = manual /\ x.at = "timer"
      BY FirstAttempt DEF Rounds
    <2>7. x # None
      BY <2>6, NoneAssumption
    <2> HIDE DEF x
    <2>8. CASE Refused(w, c, manual)
      <3>1. u = w
        BY <1>3, <1>6, <2>8
      <3> HIDE DEF u
      <3>2. QED BY <2>4, <2>5, <3>1 DEF u
    <2>9. CASE ~Refused(w, c, manual) /\ c.connection = Unusable
      <3>1. u = p
        BY <1>3, <1>6, <2>9
      <3>2. z \in States
        BY <2>3 DEF States
      <3>3. /\ Kept(w, [z EXCEPT !.blocked = w.blocked])
            /\ z.observed = c /\ z.suspended = t.suspended
            /\ z.asleep = t.asleep /\ z.disposed = t.disposed
            /\ z.active = None /\ z.stale = w.stale /\ z.last = w.last
            /\ z.checking = w.checking /\ z.updating = w.updating
            /\ z.held = w.held
        BY <2>3, <2>4 DEF States, Kept
      <3> HIDE DEF z
      <3>4. Proper(z) /\ Restful(z) /\ Shown(z) /\ Quiet(w, z)
        BY <2>4, <2>5, <3>3 DEF Good, Proper, Restful, Shown, Quiet, Kept
      <3>5. /\ p \in States /\ Proper(p) /\ Restful(p) /\ Shown(p)
            /\ Kept(z, p) /\ Quiet(z, p)
            /\ (p.active # None => p.active = z.active) /\ ~p.checking
        BY <2>6, <3>2, <3>3, <3>4, PublishedLemma
      <3> HIDE DEF p, u
      <3>6. Good(p)
        BY <3>3, <3>5 DEF Good, Checks, Verdict
      <3>7. Quiet(t, p)
        BY <2>5, <3>4, <3>5, QuietOn
      <3>8. QED BY <3>1, <3>3, <3>5, <3>6, <3>7 DEF Kept, u
    <2>10. CASE ~Refused(w, c, manual) /\ c.connection # Unusable
      <3>1. u = r
        BY <1>3, <1>6, <2>10
      <3>2. b \in Contexts \cup {None} /\ (manual \/ b = w.blocked)
        BY <2>3 DEF States
      <3> HIDE DEF b
      <3>3. r \in States
        BY <2>3, <2>6, <3>2 DEF States
      <3>4. /\ r.active = x /\ r.stale = w.stale /\ r.last = w.last
            /\ r.checking = w.checking /\ r.updating = w.updating
            /\ r.observed = c /\ r.suspended = t.suspended
            /\ r.disposed = t.disposed /\ r.asleep = t.asleep
            /\ r.held = w.held /\ ~r.paused
            /\ r.inhibited = w.inhibited /\ r.blocked = b
        BY <2>3, <2>4 DEF States
      <3> HIDE DEF r, u
      <3>5. Proper(r) /\ Shown(r) /\ Restful(r)
        BY <2>4, <2>5, <2>6, <3>4 DEF Good, Proper, Shown, Restful
      <3>6. Checks(r)
        BY <2>4, <2>5, <3>4 DEF Good, Checks
      <3>7. Verdict(r)
        BY <2>6, <2>10, <3>2, <3>4 DEF Verdict, Refused
      <3>8. Quiet(w, r)
        BY <2>6, <3>4 DEF Quiet
      <3>9. Quiet(t, r)
        BY <2>5, <3>8, QuietOn
      <3>10. QED
        BY <3>1, <3>3, <3>4, <3>5, <3>6, <3>7, <3>9 DEF Good, u
    <2>11. QED BY <2>8, <2>9, <2>10
  <1>7. QED BY <1>5, <1>6

LEMMA QuietSame == ASSUME NEW t PROVE Quiet(t, t)
PROOF BY DEF Quiet

LEMMA AutomaticLemma ==
  ASSUME NEW t, Good(t), NEW c \in Contexts
  PROVE  LET u == Automatic(t, c) IN
         /\ Good(u) /\ Quiet(t, u)
         /\ u = t \/ u.observed = c
         /\ u.asleep = t.asleep
PROOF
  <1> DEFINE off == t.disposed \/ t.suspended \/ ~t.enabled \/ t.paused \/ ~c.desired
  <1>1. CASE off
    <2>1. Automatic(t, c) = t
      BY <1>1 DEF Automatic
    <2>2. QED BY <2>1, QuietSame
  <1>2. CASE ~off
    <2>1. Automatic(t, c) = Begun(t, c, FALSE)
      BY <1>2 DEF Automatic
    <2>2. ~t.disposed /\ ~t.suspended
      BY <1>2
    <2>3. LET u == Begun(t, c, FALSE) IN
          /\ Good(u) /\ Quiet(t, u) /\ u.observed = c
          /\ u.suspended = t.suspended /\ u.asleep = t.asleep
      BY <2>2, BegunLemma
    <2>4. QED BY <2>1, <2>3
  <1>3. QED BY <1>1, <1>2

LEMMA UpdatedLemma ==
  ASSUME NEW t, Good(t), NEW c \in Contexts, app \in Apps
  PROVE  LET u == Updated(t, c) IN
         /\ Good(u) /\ Quiet(t, u) /\ Followed(u, c) /\ u.asleep = t.asleep
PROOF
  <1> DEFINE changed == t.observed # c
             seen == [t EXCEPT !.observed = c, !.enabled = app.prefers]
             ends == changed \/ (t.enabled /\ ~app.prefers)
             k == IF ends THEN Cancelled(seen, c) ELSE seen
             b == IF changed THEN None ELSE k.blocked
             l == IF t.observed # None /\ t.observed.scope # c.scope
                  THEN None ELSE k.last
             i == IF k.inhibited = Transport(c) THEN k.inhibited ELSE None
             v == [k EXCEPT !.blocked = b, !.last = l, !.inhibited = i]
             a == v.rearm /\ ~Rearms(v)
             w == [v EXCEPT !.rearm = a, !.paused = FALSE]
             u == Updated(t, c)
  <1>1. CASE t.disposed
    <2>1. u = t /\ t.active = None
      BY <1>1 DEF Updated, Good, Restful
    <2>2. QED BY <2>1, QuietSame DEF Followed
  <1>2. CASE ~t.disposed
    <2>1. \/ u = v
          \/ ~t.suspended /\ u = Automatic(w, c)
      BY <1>2 DEF Updated
    <2>2. app.prefers \in BOOLEAN
      BY DEF Apps
    <2>3. seen \in States
      BY <2>2 DEF Good, States
    <2>4. /\ seen.observed = c /\ seen.active = t.active /\ seen.last = t.last
          /\ seen.stale = t.stale /\ seen.suspended = t.suspended
          /\ seen.disposed = t.disposed /\ seen.asleep = t.asleep
          /\ seen.held = t.held /\ seen.checking = t.checking
          /\ seen.paused = t.paused /\ seen.updating = t.updating
          /\ seen.inhibited = t.inhibited /\ seen.blocked = t.blocked
      BY DEF Good, States
    <2> HIDE DEF seen
    <2>5. Proper(seen) /\ Shown(seen) /\ Checks(seen) /\ Quiet(t, seen)
      BY <2>4 DEF Good, Proper, Shown, Checks, Quiet
    <2>6. /\ Good(k) /\ Quiet(t, k) /\ (changed => k.active = None)
          /\ k.observed = c /\ k.asleep = t.asleep
          /\ k.suspended = t.suspended /\ k.disposed = t.disposed
      <3>1. CASE ends
        <4>1. /\ Good(k) /\ Kept(seen, k) /\ Quiet(seen, k) /\ k.active = None
          BY <2>3, <2>5, <3>1, CancelledIsGood
        <4> HIDE DEF k
        <4>2. QED BY <2>4, <2>5, <4>1, QuietOn DEF Kept
      <3>2. CASE ~ends
        <4>1. k = seen /\ ~changed
          BY <3>2
        <4>2. Restful(seen) /\ Verdict(seen)
          BY <2>4, <4>1 DEF Good, Restful, Verdict
        <4> HIDE DEF k
        <4>3. QED BY <2>3, <2>4, <2>5, <4>1, <4>2 DEF Good
      <3>3. QED BY <3>1, <3>2
    <2> HIDE DEF k
    <2>7. /\ b \in Contexts \cup {None} /\ (changed \/ b = k.blocked)
          /\ l \in News \cup {None} /\ (changed \/ l = k.last)
          /\ i \in Transports \cup {None}
          /\ i = k.inhibited \/ (i = None /\ k.inhibited # Transport(c))
      BY <2>6 DEF Good, States
    <2> HIDE DEF b, l, i
    <2>8. v \in States
      <3>1. k \in States
        BY <2>6 DEF Good
      <3>2. QED BY <2>7, <3>1 DEF States
    <2>9. /\ v.active = k.active /\ v.stale = k.stale /\ v.last = l
          /\ v.checking = k.checking /\ v.updating = k.updating
          /\ v.observed = c /\ v.suspended = t.suspended
          /\ v.disposed = t.disposed /\ v.asleep = t.asleep
          /\ v.held = k.held /\ v.paused = k.paused
          /\ v.inhibited = i /\ v.blocked = b
      BY <2>6 DEF Good, States
    <2> HIDE DEF v
    <2>10. Good(v) /\ Quiet(t, v) /\ Followed(v, c)
      <3>1. Proper(v) /\ Restful(v) /\ Checks(v) /\ Quiet(k, v)
        BY <2>6, <2>9 DEF Good, Proper, Restful, Checks, Quiet
      <3>2. Shown(v)
        BY <1>2, <2>6, <2>7, <2>9 DEF Good, Shown, Checks
      <3>3. Verdict(v)
        <4>1. SUFFICES ASSUME v.active # None, ~v.active.manual
              PROVE  /\ v.inhibited # Transport(v.active.context)
                     /\ v.blocked # v.active.context
          BY DEF Verdict
        <4>2. /\ k.active # None /\ ~changed /\ k.active.context = c
              /\ k.inhibited # Transport(c) /\ k.blocked # c
          BY <2>6, <2>9, <4>1 DEF Good, Restful, Verdict
        <4>3. QED BY <2>7, <2>9, <4>2, NoneAssumption
      <3>4. Quiet(t, v)
        BY <2>6, <3>1, QuietOn
      <3>5. QED BY <2>8, <2>9, <3>1, <3>2, <3>3, <3>4 DEF Good, Followed
    <2>11. CASE u = v
      <3> HIDE DEF u
      <3>1. QED BY <2>9, <2>10, <2>11 DEF u
    <2>12. CASE ~t.suspended /\ u = Automatic(w, c)
      <3>1. a \in BOOLEAN
        OBVIOUS
      <3> HIDE DEF a
      <3>2. w \in States
        BY <2>8, <3>1 DEF States
      <3>3. /\ w.active = v.active /\ w.stale = v.stale /\ w.last = v.last
            /\ w.checking = v.checking /\ w.updating = v.updating
            /\ w.observed = v.observed /\ w.suspended = v.suspended
            /\ w.disposed = v.disposed /\ w.asleep = v.asleep
            /\ w.held = v.held /\ ~w.paused
            /\ w.inhibited = v.inhibited /\ w.blocked = v.blocked
        BY <2>8 DEF States
      <3> HIDE DEF w, u
      <3>4. Good(w) /\ Quiet(v, w) /\ Followed(w, c)
        BY <2>10, <3>2, <3>3
           DEF Good, Proper, Restful, Shown, Checks, Verdict, Quiet, Followed
      <3>5. /\ Good(u) /\ Quiet(w, u)
            /\ u = w \/ u.observed = c
            /\ u.asleep = w.asleep
        BY <2>12, <3>4, AutomaticLemma
      <3>6. Quiet(t, u)
        BY <2>10, <3>4, <3>5, QuietOn
      <3>7. QED BY <2>9, <3>3, <3>4, <3>5, <3>6 DEF Followed, u
    <2>13. QED BY <2>1, <2>11, <2>12
  <1>3. QED BY <1>1, <1>2

LEMMA ResumedLemma ==
  ASSUME NEW t, Good(t), ~t.asleep, NEW c \in Contexts, Followed(t, c)
  PROVE  LET u == Resumed(t, c) IN Good(u) /\ Quiet(t, u) /\ Followed(u, c)
PROOF
  <1> DEFINE w == [t EXCEPT !.suspended = FALSE, !.paused = FALSE]
             u == Resumed(t, c)
  <1>1. CASE t.disposed
    <2>1. u = t
      BY <1>1 DEF Resumed
    <2>2. QED BY <2>1, QuietSame
  <1>2. CASE ~t.disposed
    <2>1. u = Automatic(w, c)
      BY <1>2 DEF Resumed
    <2>2. w \in States
      BY DEF Good, States
    <2>3. /\ w.active = t.active /\ w.stale = t.stale /\ w.last = t.last
          /\ w.checking = t.checking /\ w.updating = t.updating
          /\ w.observed = t.observed /\ ~w.suspended
          /\ w.disposed = t.disposed /\ w.asleep = t.asleep
          /\ w.held = t.held /\ ~w.paused
          /\ w.inhibited = t.inhibited /\ w.blocked = t.blocked
      BY DEF Good, States
    <2> HIDE DEF w, u
    <2>4. Good(w) /\ Quiet(t, w) /\ Followed(w, c)
      BY <2>2, <2>3
         DEF Good, Proper, Restful, Shown, Checks, Verdict, Quiet, Followed
    <2>5. Good(u) /\ Quiet(w, u) /\ (u = w \/ u.observed = c)
      BY <2>1, <2>4, AutomaticLemma
    <2>6. QED BY <2>4, <2>5, QuietOn DEF Followed, u
  <1>3. QED BY <1>1, <1>2

-----------------------------------------------------------------------------
(* The round at work.                                                      *)

\* It is of the current context, and nothing forbids it.
LEMMA AtWork ==
  ASSUME Inv, ~s.updating, s.active # None
  PROVE  /\ s.active \in Rounds /\ s.active.context = context
         /\ s.observed = context /\ Current(s.active, TRUE)
         /\ ~s.disposed /\ ~s.suspended
PROOF
  <1>1. /\ s.active \in Rounds /\ s.active.context = s.observed
        /\ ~s.disposed /\ ~s.suspended
    BY DEF Inv, Good, States, Restful
  <1>2. s.observed = context
    BY DEF Inv, Followed
  <1>3. QED BY <1>1, <1>2 DEF Current

\* A state in which only what is shown may not yet fit the round.
Begins(t) ==
  t \in States /\ Proper(t) /\ Restful(t) /\ Shown(t) /\ ~t.disposed

LEMMA WorkingLemma ==
  ASSUME Inv, s.active # None
  PROVE  LET t == Working(s.active, TRUE) IN
         /\ Begins(t) /\ Verdict(t) /\ Kept(s, t) /\ Quiet(s, t)
         /\ t.active = [s.active EXCEPT !.at = "timer"] /\ t.active # None
         /\ t.stale = s.stale
PROOF
  <1> DEFINE y == [s.active EXCEPT !.at = "timer"]
             t == Working(s.active, TRUE)
  <1>1. t = [s EXCEPT !.active = y]
    BY DEF Working
  <1>2. s \in States /\ s.active \in Rounds
    BY DEF Inv, Good, States
  <1>3. /\ y \in Rounds /\ y.context = s.active.context /\ y.at = "timer"
        /\ y.manual = s.active.manual
    BY <1>2 DEF Rounds
  <1>4. y # None
    BY <1>3, NoneAssumption
  <1> HIDE DEF y, t
  <1>5. t \in States
    BY <1>1, <1>2, <1>3 DEF States
  <1>6. /\ Kept(s, t) /\ t.active = y /\ t.stale = s.stale /\ t.last = s.last
        /\ t.checking = s.checking /\ t.updating = s.updating
        /\ t.paused = s.paused
    BY <1>1, <1>2 DEF States, Kept
  <1>7. Proper(t) /\ Shown(t) /\ Quiet(s, t)
    BY <1>3, <1>6 DEF Inv, Good, Proper, Shown, Kept, Quiet
  <1>8. Restful(t) /\ ~t.disposed
    BY <1>3, <1>6 DEF Inv, Good, Restful, Kept
  <1>9. Verdict(t)
    BY <1>3, <1>6 DEF Inv, Good, Verdict, Kept
  <1>10. QED BY <1>4, <1>5, <1>6, <1>7, <1>8, <1>9 DEF Begins, t, y

\* The round ends, with its result told.
LEMMA SettledLemma ==
  ASSUME NEW t \in States, Proper(t), Shown(t), ~t.checking
  PROVE  LET u == Settled(t, TRUE) IN
         Good(u) /\ u.active = None /\ Quiet(t, u) /\ Kept(t, u)
PROOF
  <1> DEFINE u == Settled(t, TRUE)
  <1>1. u = [t EXCEPT !.active = None]
    BY DEF Settled
  <1> HIDE DEF u
  <1>2. u \in States
    BY <1>1 DEF States
  <1>3. /\ Kept(t, u) /\ u.active = None /\ u.stale = t.stale
        /\ u.checking = t.checking /\ u.updating = t.updating
        /\ u.last = t.last
    BY <1>1 DEF States, Kept
  <1>4. Good(u) /\ Quiet(t, u)
    BY <1>2, <1>3
       DEF Good, Proper, Restful, Shown, Checks, Verdict, Kept, Quiet
  <1>5. QED BY <1>3, <1>4 DEF u

LEMMA BlockedLemma ==
  ASSUME NEW t \in States, Proper(t), Shown(t), ~t.checking,
         NEW x \in Rounds
  PROVE  LET u == Blocked(t, x, TRUE) IN
         Good(u) /\ u.active = None /\ Quiet(t, u)
PROOF
  <1> DEFINE w == [t EXCEPT !.blocked = x.context]
             u == Blocked(t, x, TRUE)
  <1>1. CASE t.active = None
    <2>1. u = t
      BY <1>1 DEF Blocked
    <2>2. Good(t)
      BY <1>1 DEF Good, Restful, Checks, Verdict
    <2>3. QED BY <1>1, <2>1, <2>2, QuietSame
  <1>2. CASE t.active # None
    <2>1. u = Settled(w, TRUE)
      BY <1>2 DEF Blocked
    <2>2. x.context \in Contexts
      BY DEF Rounds
    <2>3. w \in States
      BY <2>2 DEF States
    <2>4. /\ w.active = t.active /\ w.stale = t.stale /\ w.last = t.last
          /\ w.checking = t.checking /\ w.updating = t.updating
          /\ w.held = t.held /\ w.asleep = t.asleep
          /\ w.suspended = t.suspended
      BY DEF States
    <2> HIDE DEF w, u
    <2>5. Proper(w) /\ Shown(w) /\ Quiet(t, w)
      BY <2>4 DEF Proper, Shown, Quiet
    <2>6. Good(u) /\ u.active = None /\ Quiet(w, u)
      BY <2>1, <2>3, <2>4, <2>5, SettledLemma
    <2>7. QED BY <2>5, <2>6, QuietOn DEF u
  <1>3. QED BY <1>1, <1>2

\* The round goes on, unless it was cancelled.
LEMMA GoingLemma ==
  ASSUME NEW t, Begins(t), Verdict(t), NEW y \in Rounds,
         t.active # None => /\ y.context = t.active.context
                            /\ y.manual = t.active.manual,
         \/ ~t.checking
         \/ t.active # None /\ y.at \in {"preflight", "probe"}
  PROVE  LET u == Going(t, y, TRUE) IN
         /\ Good(u) /\ u.observed = t.observed /\ u.stale = t.stale
         /\ u.active # None => u.active = y
PROOF
  <1> DEFINE u == Going(t, y, TRUE)
  <1>1. CASE t.active = None
    <2>1. u = t
      BY <1>1 DEF Going
    <2>2. Good(t)
      BY <1>1 DEF Begins, Good, Checks
    <2>3. QED BY <1>1, <2>1, <2>2
  <1>2. CASE t.active # None
    <2>1. u = [t EXCEPT !.active = y]
      BY <1>2 DEF Going
    <2> HIDE DEF u
    <2>2. t \in States
      BY DEF Begins
    <2>3. u \in States
      BY <2>1, <2>2 DEF States
    <2>4. /\ Kept(t, u) /\ u.active = y /\ u.stale = t.stale
          /\ u.checking = t.checking /\ u.updating = t.updating
          /\ u.last = t.last /\ u.paused = t.paused
      BY <2>1, <2>2 DEF States, Kept
    <2>5. Proper(u) /\ Shown(u)
      BY <2>4 DEF Begins, Proper, Shown, Kept
    <2>6. Restful(u) /\ Verdict(u)
      BY <1>2, <2>4 DEF Begins, Restful, Verdict, Kept
    <2>7. Checks(u)
      <3>1. y # None
        BY NoneAssumption
      <3>2. QED BY <2>4, <3>1 DEF Checks
    <2>8. QED BY <2>3, <2>4, <2>5, <2>6, <2>7 DEF Good, Kept, u
  <1>3. QED BY <1>1, <1>2

\* What the round at work publishes.
LEMMA ToldBegins ==
  ASSUME NEW t, Begins(t), NEW c \in Contexts, NEW x, x.context = c,
         NEW status \in {"checking", "settled"}
  PROVE  LET u == Published(t, c, x, status) IN
         /\ Begins(u) /\ Kept(t, u) /\ Quiet(t, u)
         /\ u.active # None => u.active = t.active
         /\ Verdict(t) => Verdict(u)
         /\ status = "settled" => ~u.checking
         /\ t.active # None /\ u.active = None => ~u.checking
PROOF
  <1> DEFINE u == Published(t, c, x, status)
  <1>1. t \in States /\ Proper(t) /\ Restful(t) /\ Shown(t) /\ ~t.disposed
    BY DEF Begins
  <1>2. x.context.scope = c.scope
    OBVIOUS
  <1>3. /\ u \in States /\ Proper(u) /\ Restful(u) /\ Shown(u)
        /\ Kept(t, u) /\ Quiet(t, u)
        /\ u.active # None => u.active = t.active
        /\ status = "settled" => ~u.checking
        /\ t.active # None /\ u.active = None => ~u.checking
    BY <1>1, <1>2, PublishedLemma
  <1> HIDE DEF u
  <1>4. Begins(u) /\ (Verdict(t) => Verdict(u))
    BY <1>1, <1>3 DEF Begins, Verdict, Kept
  <1>5. QED BY <1>3, <1>4 DEF u

LEMMA FireLemma == ASSUME Inv, Fire PROVE Inv' /\ Quiet(s, s')
PROOF
  <1> DEFINE y == [s.active EXCEPT !.at = "preflight"]
             t == Published(s, context, s.active, "checking")
  <1>1. /\ ~s.updating /\ s.active # None /\ s.active.at = "timer"
        /\ UNCHANGED <<context, app>>
    BY DEF Fire
  <1>2. /\ s.active \in Rounds /\ s.active.context = context
        /\ s.observed = context /\ Current(s.active, TRUE) /\ ~s.disposed
    BY <1>1, AtWork
  <1>3. s' = Going(t, y, TRUE)
    BY <1>2 DEF Fire
  <1>4. Begins(s) /\ Verdict(s) /\ context \in Contexts
    BY <1>2 DEF Inv, Good, Begins
  <1>5. /\ Begins(t) /\ Kept(s, t) /\ Quiet(s, t)
        /\ t.active # None => t.active = s.active
        /\ Verdict(t)
        /\ t.active = None => ~t.checking
    BY <1>1, <1>2, <1>4, ToldBegins
  <1>6. /\ y \in Rounds /\ y.context = s.active.context
        /\ y.manual = s.active.manual /\ y.at = "preflight"
    BY <1>2 DEF Rounds, Awaiting
  <1> HIDE DEF y, t
  <1>7. /\ Good(s') /\ s'.observed = t.observed /\ s'.stale = t.stale
        /\ s'.active # None => s'.active = y
    BY <1>3, <1>5, <1>6, GoingLemma
  <1>8. Quiet(s, s')
    BY <1>1, <1>5, <1>6, <1>7 DEF Quiet
  <1>9. Followed(s', context)
    BY <1>2, <1>5, <1>7 DEF Followed, Kept
  <1>10. QED BY <1>1, <1>7, <1>8, <1>9 DEF Inv

\* The round came to ask for a start, which was wanted.
Asks(t, u) ==
  /\ app.stopped /\ context.desired
  /\ u.active # None => u.active.context = context
  /\ \A x \in u.stale : x.at = "start" => x \in t.stale

LEMMA ReachableLemma ==
  ASSUME Inv, NEW t, Begins(t), Verdict(t), NEW x \in Rounds,
         x.context = context,
         t.active # None => t.active = [x EXCEPT !.at = "timer"]
  PROVE  LET u == Reachable(t, x, TRUE) IN
         /\ Good(u) /\ (u.active # None => u.observed = t.observed)
         /\ Quiet(t, u) \/ Asks(t, u)
PROOF
  <1> DEFINE w == [t EXCEPT !.blocked = None]
             p == Published(w, context, x, "settled")
             y == [x EXCEPT !.at = "start"]
             u == Reachable(t, x, TRUE)
  <1>1. u = IF app.stopped /\ context.desired
            THEN Going(p, y, TRUE) ELSE Settled(p, TRUE)
    BY DEF Reachable
  <1>2. t \in States /\ context \in Contexts
    BY DEF Begins, Inv
  <1>3. w \in States
    BY <1>2 DEF States
  <1>4. /\ w.active = t.active /\ w.stale = t.stale /\ w.last = t.last
        /\ w.checking = t.checking /\ w.updating = t.updating
        /\ w.held = t.held /\ w.asleep = t.asleep
        /\ w.suspended = t.suspended /\ w.disposed = t.disposed
        /\ w.paused = t.paused /\ w.observed = t.observed
        /\ w.inhibited = t.inhibited /\ w.blocked = None
    BY <1>2 DEF States
  <1> HIDE DEF w
  <1>5. Begins(w) /\ Quiet(t, w)
    BY <1>3, <1>4 DEF Begins, Proper, Restful, Shown, Quiet
  <1>6. /\ y \in Rounds /\ y.context = x.context /\ y.manual = x.manual
        /\ y.at = "start"
    BY DEF Rounds, Awaiting
  <1>7. t.active # None => /\ t.active.context = x.context
                           /\ t.active.manual = x.manual
                           /\ t.active.at = "timer"
    BY DEF Rounds
  <1>8. Verdict(w)
    BY <1>2, <1>4, <1>7, NoneAssumption DEF Verdict
  <1>9. /\ Begins(p) /\ Verdict(p) /\ Kept(w, p) /\ Quiet(w, p)
        /\ (p.active # None => p.active = w.active) /\ ~p.checking
    BY <1>2, <1>5, <1>8, ToldBegins
  <1> HIDE DEF p, y
  <1>10. Quiet(t, p)
    BY <1>5, <1>9, QuietOn
  <1>11. CASE app.stopped /\ context.desired
    <2>1. u = Going(p, y, TRUE)
      BY <1>1, <1>11
    <2>2. /\ Good(u) /\ u.observed = p.observed /\ u.stale = p.stale
          /\ u.active # None => u.active = y
      <3>1. p.active # None => /\ y.context = p.active.context
                               /\ y.manual = p.active.manual
        BY <1>4, <1>6, <1>7, <1>9
      <3> HIDE DEF u
      <3>2. QED BY <1>6, <1>9, <2>1, <3>1, GoingLemma
    <2> HIDE DEF u
    <2>3. Asks(t, u)
      <3>1. \A z \in p.stale : z.at = "start" => z \in t.stale
        BY <1>7, <1>10 DEF Quiet
      <3>2. QED BY <1>6, <1>11, <2>2, <3>1 DEF Asks
    <2>4. QED BY <1>4, <1>9, <2>2, <2>3 DEF Kept, u
  <1>12. CASE ~(app.stopped /\ context.desired)
    <2>1. u = Settled(p, TRUE)
      BY <1>1, <1>12
    <2>2. Good(u) /\ u.active = None /\ Quiet(p, u)
      BY <1>9, <2>1, SettledLemma DEF Begins
    <2> HIDE DEF u
    <2>3. QED BY <1>10, <2>2, QuietOn DEF u
  <1>13. QED BY <1>11, <1>12

LEMMA UnreachableLemma ==
  ASSUME Inv, NEW t, Begins(t), Verdict(t), NEW x \in Rounds,
         x.context = context,
         t.active # None => t.active = [x EXCEPT !.at = "timer"]
  PROVE  LET u == Unreachable(t, x, TRUE) IN
         /\ Good(u) /\ (u.active # None => u.observed = t.observed)
         /\ Quiet(t, u)
PROOF
  <1> DEFINE p == Published(t, context, x, "settled")
             y == [x EXCEPT !.attempt = @ + 1, !.at = "timer"]
             u == Unreachable(t, x, TRUE)
  <1>1. u = IF x.attempt = MaxAttempts THEN Blocked(p, x, TRUE)
            ELSE Going(p, y, TRUE)
    BY DEF Unreachable
  <1>2. context \in Contexts
    BY DEF Inv
  <1>3. /\ Begins(p) /\ Verdict(p) /\ Kept(t, p) /\ Quiet(t, p)
        /\ (p.active # None => p.active = t.active) /\ ~p.checking
    BY <1>2, ToldBegins
  <1>4. t.active # None => /\ t.active.context = x.context
                           /\ t.active.manual = x.manual
                           /\ t.active.at = "timer"
    BY DEF Rounds
  <1>5. CASE x.attempt = MaxAttempts
    <2>1. u = Blocked(p, x, TRUE)
      BY <1>1, <1>5
    <2> HIDE DEF p
    <2>2. Good(u) /\ u.active = None /\ Quiet(p, u)
      BY <1>3, <2>1, BlockedLemma DEF Begins
    <2> HIDE DEF u
    <2>3. QED BY <1>3, <2>2, QuietOn DEF u
  <1>6. CASE x.attempt # MaxAttempts
    <2>1. u = Going(p, y, TRUE)
      BY <1>1, <1>6
    <2>2. x.attempt + 1 \in 1..MaxAttempts
      <3>1. x.attempt \in 1..MaxAttempts /\ MaxAttempts \in Nat
        BY RecoveryAssumption DEF Rounds
      <3>2. \A m \in Nat : \A n \in 1..m : n # m => n + 1 \in 1..m
        OBVIOUS
      <3>3. QED BY <1>6, <3>1, <3>2
    <2>3. /\ y \in Rounds /\ y.context = x.context /\ y.manual = x.manual
          /\ y.at = "timer"
      BY <2>2 DEF Rounds
    <2> HIDE DEF p, y
    <2>4. /\ Good(u) /\ u.observed = p.observed /\ u.stale = p.stale
          /\ u.active # None => u.active = y
      <3>1. p.active # None => /\ y.context = p.active.context
                               /\ y.manual = p.active.manual
        BY <1>3, <1>4, <2>3
      <3> HIDE DEF u
      <3>2. QED BY <1>3, <2>1, <2>3, <3>1, GoingLemma
    <2> HIDE DEF u
    <2>5. Quiet(p, u)
      BY <2>3, <2>4 DEF Quiet
    <2>6. Quiet(t, u)
      BY <1>3, <2>5, QuietOn
    <2>7. QED BY <1>3, <2>4, <2>6 DEF Kept, u
  <1>7. QED BY <1>5, <1>6

LEMMA FailedLemma ==
  ASSUME Inv, NEW t, Begins(t), NEW x \in Rounds, x.context = context,
         NEW result
  PROVE  LET u == Failed(t, x, TRUE, result) IN
         Good(u) /\ u.active = None /\ Quiet(t, u)
PROOF
  <1> DEFINE i == IF result = "not_ready" THEN Transport(x.context)
                  ELSE t.inhibited
             w == [t EXCEPT !.inhibited = i]
             z == [w EXCEPT !.blocked = x.context]
             u == Failed(t, x, TRUE, result)
  <1>1. t \in States /\ x.context \in Contexts /\ context \in Contexts
    BY DEF Begins, Inv, Rounds
  <1>2. i \in Transports \cup {None}
    BY <1>1 DEF Transports, States
  <1>3. w = IF result = "not_ready"
            THEN [t EXCEPT !.inhibited = Transport(x.context)] ELSE t
    BY <1>1 DEF States
  <1>4. u = IF result = "auth"
            THEN Settled(Published(z, context, x, "settled"), TRUE)
            ELSE Blocked(Published(w, context, x, "settled"), x, TRUE)
    BY <1>3 DEF Failed
  <1> HIDE DEF i
  <1>5. w \in States
    BY <1>1, <1>2 DEF States
  <1>6. /\ w.active = t.active /\ w.stale = t.stale /\ w.last = t.last
        /\ w.checking = t.checking /\ w.updating = t.updating
        /\ w.held = t.held /\ w.asleep = t.asleep
        /\ w.suspended = t.suspended /\ w.disposed = t.disposed
        /\ w.paused = t.paused /\ w.observed = t.observed
    BY <1>1 DEF States
  <1> HIDE DEF w
  <1>7. z \in States
    BY <1>1, <1>5 DEF States
  <1>8. /\ z.active = w.active /\ z.stale = w.stale /\ z.last = w.last
        /\ z.checking = w.checking /\ z.updating = w.updating
        /\ z.held = w.held /\ z.asleep = w.asleep
        /\ z.suspended = w.suspended /\ z.disposed = w.disposed
        /\ z.paused = w.paused /\ z.observed = w.observed
    BY <1>5 DEF States
  <1> HIDE DEF z
  <1>9. Begins(w) /\ Quiet(t, w) /\ Begins(z) /\ Quiet(t, z)
    BY <1>5, <1>6, <1>7, <1>8 DEF Begins, Proper, Restful, Shown, Quiet
  <1>10. CASE result = "auth"
    <2> DEFINE p == Published(z, context, x, "settled")
    <2>1. Begins(p) /\ Quiet(z, p) /\ ~p.checking
      BY <1>1, <1>9, ToldBegins
    <2>2. u = Settled(p, TRUE)
      BY <1>4, <1>10
    <2> HIDE DEF p
    <2>3. Good(u) /\ u.active = None /\ Quiet(p, u)
      BY <2>1, <2>2, SettledLemma DEF Begins
    <2> HIDE DEF u
    <2>4. QED BY <1>9, <2>1, <2>3, QuietOn DEF u
  <1>11. CASE result # "auth"
    <2> DEFINE p == Published(w, context, x, "settled")
    <2>1. Begins(p) /\ Quiet(w, p) /\ ~p.checking
      BY <1>1, <1>9, ToldBegins
    <2>2. u = Blocked(p, x, TRUE)
      BY <1>4, <1>11
    <2> HIDE DEF p
    <2>3. Good(u) /\ u.active = None /\ Quiet(p, u)
      BY <2>1, <2>2, BlockedLemma DEF Begins
    <2> HIDE DEF u
    <2>4. QED BY <1>9, <2>1, <2>3, QuietOn DEF u
  <1>12. QED BY <1>10, <1>11

\* A round of which nothing depends any more only ceases to await.
LEMMA StaleLemma ==
  ASSUME Inv, ~s.updating, NEW x \in s.stale,
         s' = Working(x, FALSE), context' = context, app' = app
  PROVE  Inv' /\ Quiet(s, s')
PROOF
  <1> DEFINE u == [s EXCEPT !.stale = @ \ {x}]
  <1>1. s' = u
    BY DEF Working
  <1>2. s \in States
    BY DEF Inv, Good
  <1>3. u \in States
    BY <1>2 DEF States
  <1>4. /\ Kept(s, u) /\ u.active = s.active /\ u.stale = s.stale \ {x}
        /\ u.last = s.last /\ u.checking = s.checking
        /\ u.updating = s.updating /\ u.paused = s.paused
    BY <1>2 DEF States, Kept
  <1> HIDE DEF u
  <1>5. Good(u) /\ Quiet(s, u)
    BY <1>3, <1>4
       DEF Inv, Good, Proper, Restful, Shown, Checks, Verdict, Kept, Quiet
  <1>6. Followed(u, context)
    BY <1>4 DEF Inv, Followed, Kept
  <1>7. QED BY <1>1, <1>5, <1>6 DEF Inv

LEMMA AttemptLemma ==
  ASSUME Inv, ~s.updating, s.active # None,
         s.active.at \in {"preflight", "probe"}, NEW result
  PROVE  LET u == Attempt(s.active, TRUE, result) IN
         /\ Good(u) /\ Followed(u, context)
         /\ Quiet(s, u) \/ Asks(s, u)
PROOF
  <1> DEFINE x == s.active
             t == Working(x, TRUE)
             y == [x EXCEPT !.at = "probe"]
             u == Attempt(x, TRUE, result)
  <1>1. /\ x \in Rounds /\ x.context = context /\ s.observed = context
        /\ Current(x, TRUE)
    BY AtWork
  <1>2. /\ Begins(t) /\ Verdict(t) /\ Kept(s, t) /\ Quiet(s, t)
        /\ t.active = [x EXCEPT !.at = "timer"] /\ t.active # None
        /\ t.stale = s.stale
    BY WorkingLemma
  <1>3. t.observed = context
    BY <1>1, <1>2 DEF Kept
  <1> HIDE DEF t
  <1>4. \/ result = "ok" /\ x.at = "preflight" /\ u = Going(t, y, TRUE)
        \/ u = Reachable(t, x, TRUE)
        \/ u = Unreachable(t, x, TRUE)
        \/ u = Failed(t, x, TRUE, result)
    BY <1>1 DEF Attempt, t
  <1> SUFFICES Good(u) /\ Followed(u, context) /\ (Quiet(t, u) \/ Asks(t, u))
    BY <1>2, QuietOn DEF Asks
  <1> HIDE DEF u
  <1>5. CASE u = Going(t, y, TRUE)
    <2>1. /\ y \in Rounds /\ y.context = x.context /\ y.manual = x.manual
          /\ y.at = "probe"
      BY <1>1 DEF Rounds, Awaiting
    <2>2. t.active.context = x.context /\ t.active.manual = x.manual
      BY <1>1, <1>2 DEF Rounds
    <2> HIDE DEF y, x
    <2>3. LET g == Going(t, y, TRUE) IN
          /\ Good(g) /\ g.observed = t.observed /\ g.stale = t.stale
          /\ g.active # None => g.active = y
      <3>1. Begins(t) /\ Verdict(t) /\ y \in Rounds
        BY <1>2, <2>1
      <3>2. t.active # None => /\ y.context = t.active.context
                               /\ y.manual = t.active.manual
        BY <2>1, <2>2
      <3>3. t.active # None /\ y.at \in {"preflight", "probe"}
        BY <1>2, <2>1
      <3>4. QED BY <3>1, <3>2, <3>3, GoingLemma
    <2>4. /\ Good(u) /\ u.observed = t.observed /\ u.stale = t.stale
          /\ u.active # None => u.active = y
      BY <1>5, <2>3
    <2>5. QED BY <1>3, <2>1, <2>4 DEF Quiet, Followed
  <1>6. CASE u = Reachable(t, x, TRUE)
    <2>1. /\ Good(u) /\ (u.active # None => u.observed = t.observed)
          /\ Quiet(t, u) \/ Asks(t, u)
      BY <1>1, <1>2, <1>6, ReachableLemma
    <2>2. QED BY <1>3, <2>1 DEF Followed
  <1>7. CASE u = Unreachable(t, x, TRUE)
    <2>1. /\ Good(u) /\ (u.active # None => u.observed = t.observed)
          /\ Quiet(t, u)
      BY <1>1, <1>2, <1>7, UnreachableLemma
    <2>2. QED BY <1>3, <2>1 DEF Followed
  <1>8. CASE u = Failed(t, x, TRUE, result)
    <2> HIDE DEF x
    <2>1. LET f == Failed(t, x, TRUE, result) IN
          Good(f) /\ f.active = None /\ Quiet(t, f)
      BY <1>1, <1>2, FailedLemma
    <2>2. Good(u) /\ u.active = None /\ Quiet(t, u)
      BY <1>8, <2>1
    <2>3. QED BY <2>2 DEF Followed
  <1>9. QED BY <1>4, <1>5, <1>6, <1>7, <1>8

LEMMA AnswerLemma ==
  ASSUME Inv, NEW mine \in BOOLEAN,
         NEW x \in IF mine THEN {s.active} \ {None} ELSE s.stale,
         Answer(x, mine)
  PROVE  Inv' /\ (Quiet(s, s') \/ (s.active # None /\ ~s.updating /\ Asks(s, s')))
PROOF
  <1>1. /\ ~s.updating /\ x.at \in {"preflight", "probe"}
        /\ context' = context /\ app' = app
    BY DEF Answer
  <1>2. PICK result : s' = Attempt(x, mine, result)
    BY DEF Answer
  <1>3. CASE mine
    <2>1. x = s.active /\ s.active # None
      BY <1>3
    <2>2. s' = Attempt(s.active, TRUE, result)
      BY <1>2, <1>3, <2>1
    <2>3. /\ Good(s') /\ Followed(s', context)
          /\ Quiet(s, s') \/ Asks(s, s')
      BY <1>1, <2>1, <2>2, AttemptLemma
    <2>4. QED BY <1>1, <2>1, <2>3 DEF Inv
  <1>4. CASE ~mine
    <2>1. s' = Working(x, FALSE)
      BY <1>2, <1>4 DEF Attempt, Current, Settled
    <2>2. QED BY <1>1, <1>4, <2>1, StaleLemma
  <1>5. QED BY <1>3, <1>4

LEMMA StartAnsweredLemma ==
  ASSUME Inv, NEW mine \in BOOLEAN,
         NEW x \in IF mine THEN {s.active} \ {None} ELSE s.stale,
         NEW failed \in BOOLEAN, StartAnswered(x, mine, failed)
  PROVE  Inv' /\ Quiet(s, s')
PROOF
  <1> DEFINE t == Working(x, mine)
             z == [t EXCEPT !.blocked = x.context]
             p == Published(z, context, x, "settled")
  <1>1. /\ ~s.updating /\ x.at \in {"start", "run"}
        /\ context' = context /\ app' = app
        /\ s' = IF failed /\ Current(x, mine)
                THEN Settled(p, mine) ELSE Settled(t, mine)
    BY DEF StartAnswered
  <1>2. CASE ~mine
    <2>1. s' = Working(x, FALSE)
      BY <1>1, <1>2 DEF Current, Settled
    <2>2. QED BY <1>1, <1>2, <2>1, StaleLemma
  <1>3. CASE mine
    <2>1. x = s.active /\ s.active # None /\ mine = TRUE
      BY <1>3
    <2>2. x \in Rounds /\ x.context = context
      BY <1>1, <2>1, AtWork
    <2>3. Begins(t) /\ Quiet(s, t)
      BY <2>1, WorkingLemma
    <2>4. t.checking = s.checking
      BY <2>1 DEF Working, Inv, Good, States
    <2>5. ~s.checking
      BY <1>1, <2>1, AtWork DEF Inv, Good, Checks
    <2> HIDE DEF t
    <2>6. CASE failed /\ Current(x, mine)
      <3>1. s' = Settled(p, TRUE)
        BY <1>1, <2>1, <2>6
      <3>2. x.context \in Contexts /\ context \in Contexts
        BY <2>2 DEF Rounds
      <3>3. z \in States
        BY <2>3, <3>2 DEF Begins, States
      <3>4. /\ z.active = t.active /\ z.stale = t.stale /\ z.last = t.last
            /\ z.checking = t.checking /\ z.updating = t.updating
            /\ z.held = t.held /\ z.asleep = t.asleep
            /\ z.suspended = t.suspended /\ z.disposed = t.disposed
            /\ z.paused = t.paused /\ z.observed = t.observed
        BY <2>3 DEF Begins, States
      <3> HIDE DEF z
      <3>5. Begins(z) /\ Quiet(t, z)
        BY <2>3, <3>3, <3>4 DEF Begins, Proper, Restful, Shown, Quiet
      <3>6. Begins(p) /\ Quiet(z, p) /\ ~p.checking
        BY <2>2, <3>2, <3>5, ToldBegins
      <3> HIDE DEF p
      <3>7. Good(s') /\ s'.active = None /\ Quiet(p, s')
        BY <3>1, <3>6, SettledLemma DEF Begins
      <3>8. Quiet(s, s')
        BY <2>3, <3>5, <3>6, <3>7, QuietOn
      <3>9. QED BY <1>1, <3>7, <3>8 DEF Inv, Followed
    <2>7. CASE ~(failed /\ Current(x, mine))
      <3>1. s' = Settled(t, TRUE)
        BY <1>1, <2>1, <2>7
      <3>2. Good(s') /\ s'.active = None /\ Quiet(t, s')
        BY <2>3, <2>4, <2>5, <3>1, SettledLemma DEF Begins
      <3>3. Quiet(s, s')
        BY <2>3, <3>2, QuietOn
      <3>4. QED BY <1>1, <3>2, <3>3 DEF Inv, Followed
    <2>8. QED BY <2>6, <2>7
  <1>4. QED BY <1>2, <1>3

-----------------------------------------------------------------------------
(* The application and the user.                                           *)

\* Whatever main.js announces, a round goes on only if it is looked at again.
LEMMA AnnouncedLemma ==
  ASSUME NEW t, Good(t), NEW c \in Contexts
  PROVE  LET u == Announced(t, c) IN
         /\ Good(u) /\ Quiet(t, u)
         /\ ~u.updating => Followed(u, c)
PROOF
  <1> DEFINE u == Announced(t, c)
  <1>1. CASE t.held
    <2>1. u = CancelCall(t, c, FALSE)
      BY <1>1 DEF Announced
    <2> HIDE DEF u
    <2>2. Good(u) /\ Quiet(t, u) /\ u.active = None
      BY <2>1, CancelCallLemma DEF Good
    <2>3. QED BY <2>2 DEF Followed, u
  <1>2. CASE ~t.held
    <2>1. u = Queued(t)
      BY <1>2 DEF Announced
    <2> HIDE DEF u
    <2>2. /\ u \in States /\ Proper(u) /\ Kept(t, u)
          /\ u.active = t.active /\ u.stale = t.stale /\ u.last = t.last
          /\ u.checking = t.checking /\ u.paused = t.paused
          /\ ~t.asleep /\ ~t.held => u.updating
      BY <2>1, QueuedLemma DEF Good
    <2>3. Good(u) /\ Quiet(t, u)
      BY <2>2 DEF Good, Restful, Shown, Checks, Verdict, Kept, Quiet
    <2>4. ~u.updating => u.active = None
      BY <1>2, <2>2 DEF Good, Proper, Restful
    <2>5. QED BY <2>3, <2>4 DEF Followed, u
  <1>3. QED BY <1>1, <1>2

LEMMA RevokedLemma ==
  ASSUME Inv, NEW mine \in BOOLEAN,
         NEW x \in IF mine THEN {s.active} \ {None} ELSE s.stale,
         Revoked(x, mine)
  PROVE  Inv' /\ Quiet(s, s')
PROOF
  <1> DEFINE t == Working(x, mine)
             p == Published(t, context, x, "settled")
             w == [p EXCEPT !.blocked = x.context]
             u == Settled(w, mine)
  <1>1. /\ ~s.updating /\ mine /\ app' = app
        /\ context' = [context EXCEPT !.connection = Unusable]
        /\ s' = Announced(u, context')
    BY DEF Revoked, Current
  <1>2. x = s.active /\ s.active # None /\ mine = TRUE
    BY <1>1
  <1>3. x \in Rounds /\ x.context = context
    BY <1>1, <1>2, AtWork
  <1>4. x.context \in Contexts /\ context \in Contexts /\ context' \in Contexts
    BY <1>1, <1>3 DEF Rounds, Contexts
  <1>5. Begins(t) /\ Quiet(s, t)
    BY <1>2, WorkingLemma
  <1> HIDE DEF t
  <1>6. Begins(p) /\ Quiet(t, p) /\ ~p.checking
    BY <1>3, <1>4, <1>5, ToldBegins
  <1> HIDE DEF p
  <1>7. w \in States
    BY <1>4, <1>6 DEF Begins, States
  <1>8. /\ w.active = p.active /\ w.stale = p.stale /\ w.last = p.last
        /\ w.checking = p.checking /\ w.updating = p.updating
        /\ w.held = p.held /\ w.asleep = p.asleep
        /\ w.suspended = p.suspended
    BY <1>6 DEF Begins, States
  <1> HIDE DEF w
  <1>9. Proper(w) /\ Shown(w) /\ Quiet(p, w)
    BY <1>6, <1>8 DEF Begins, Proper, Shown, Quiet
  <1>10. Good(u) /\ Quiet(w, u)
    BY <1>2, <1>6, <1>7, <1>8, <1>9, SettledLemma
  <1> HIDE DEF u
  <1>11. /\ Good(s') /\ Quiet(u, s')
         /\ ~s'.updating => Followed(s', context')
    BY <1>1, <1>4, <1>10, AnnouncedLemma
  <1>12. Quiet(s, s')
    BY <1>5, <1>6, <1>9, <1>10, <1>11, QuietOn
  <1>13. QED BY <1>1, <1>4, <1>11, <1>12 DEF Inv

LEMMA StartRunsLemma ==
  ASSUME Inv, NEW mine \in BOOLEAN,
         NEW x \in IF mine THEN {s.active} \ {None} ELSE s.stale,
         StartRuns(x, mine)
  PROVE  Inv' /\ Quiet(s, s')
PROOF
  <1> DEFINE y == [s.active EXCEPT !.at = "run"]
             t == [s EXCEPT !.active = y]
  <1>1. /\ ~s.updating /\ mine /\ x.at = "start" /\ context' = context
        /\ app' = [app EXCEPT !.busy = TRUE]
        /\ s' = Announced([s EXCEPT !.active.at = "run"], context)
    BY DEF StartRuns
  <1>2. app' \in Apps
    BY <1>1 DEF Inv, Apps
  <1>3. s.active # None /\ s.active.at = "start"
    BY <1>1
  <1>4. s \in States /\ s.active \in Rounds
    BY <1>3 DEF Inv, Good, States
  <1>5. s' = Announced(t, context)
    BY <1>1
  <1>6. /\ y \in Rounds /\ y.context = s.active.context
        /\ y.manual = s.active.manual /\ y.at = "run"
    BY <1>4 DEF Rounds, Awaiting
  <1> HIDE DEF y
  <1>7. t \in States
    BY <1>4, <1>6 DEF States
  <1>8. /\ Kept(s, t) /\ t.active = y /\ t.stale = s.stale /\ t.last = s.last
        /\ t.checking = s.checking /\ t.updating = s.updating
        /\ t.paused = s.paused
    BY <1>4 DEF States, Kept
  <1> HIDE DEF t
  <1>9. Proper(t) /\ Shown(t) /\ Quiet(s, t)
    BY <1>6, <1>8 DEF Inv, Good, Proper, Shown, Kept, Quiet
  <1>10. Restful(t) /\ Verdict(t)
    BY <1>3, <1>6, <1>8 DEF Inv, Good, Restful, Verdict, Kept
  <1>11. Checks(t)
    BY <1>3, <1>8 DEF Inv, Good, Checks, Kept
  <1>12. Good(t)
    BY <1>7, <1>9, <1>10, <1>11 DEF Good
  <1>13. /\ Good(s') /\ Quiet(t, s')
         /\ ~s'.updating => Followed(s', context)
    BY <1>5, <1>12, AnnouncedLemma DEF Inv
  <1>14. QED BY <1>1, <1>2, <1>9, <1>13, QuietOn DEF Inv

\* Only what is shown, and by whom, is different.
LEMMA OthersLemma ==
  ASSUME NEW t, Good(t), NEW a \in BOOLEAN, NEW b \in BOOLEAN,
         a => t.checking
  PROVE  LET u == [t EXCEPT !.checking = a, !.others = b] IN
         Good(u) /\ Quiet(t, u) /\ u.active = t.active /\ u.held = t.held
PROOF
  <1> DEFINE u == [t EXCEPT !.checking = a, !.others = b]
  <1>1. t \in States
    BY DEF Good
  <1>2. u \in States
    BY <1>1, ShownTyped
  <1>3. /\ Kept(t, u) /\ u.active = t.active /\ u.stale = t.stale
        /\ u.last = t.last /\ u.checking = a
        /\ u.updating = t.updating /\ u.paused = t.paused
    BY <1>1 DEF States, Kept
  <1> HIDE DEF u
  <1>4. Good(u) /\ Quiet(t, u)
    BY <1>2, <1>3
       DEF Good, Proper, Restful, Shown, Checks, Verdict, Kept, Quiet
  <1>5. QED BY <1>3, <1>4 DEF Kept, u

LEMMA DisplayedLemma ==
  ASSUME NEW t, Good(t), NEW checking \in BOOLEAN
  PROVE  Good(Displayed(t, checking)) /\ Quiet(t, Displayed(t, checking))
PROOF
  <1> DEFINE a == t.checking /\ checking
             b == checking /\ ~t.checking
  <1>1. Displayed(t, checking) = [t EXCEPT !.checking = a, !.others = b]
    BY DEF Displayed, Good, States
  <1>2. a \in BOOLEAN /\ b \in BOOLEAN /\ (a => t.checking)
    OBVIOUS
  <1> HIDE DEF a, b
  <1>3. LET u == [t EXCEPT !.checking = a, !.others = b] IN
        Good(u) /\ Quiet(t, u)
    BY <1>2, OthersLemma
  <1>4. QED BY <1>1, <1>3

LEMMA StartChecksLemma ==
  ASSUME Inv, StartChecks PROVE Inv' /\ Quiet(s, s')
PROOF
  <1> DEFINE u == CancelCall(s, context', FALSE)
             w == [u EXCEPT !.checking = u.checking, !.others = TRUE]
  <1>1. /\ context.scope < MaxEpoch
        /\ context' = [context EXCEPT !.scope = @ + 1, !.desired = TRUE]
        /\ app' = app
        /\ s' = Announced([u EXCEPT !.others = TRUE], context')
    BY DEF StartChecks
  <1>2. context' \in Contexts
    <2>1. context \in Contexts /\ MaxEpoch \in Nat
      BY RecoveryAssumption DEF Inv
    <2>2. context.scope + 1 \in Scopes
      <3>1. context.scope \in 0..MaxEpoch
        BY <2>1 DEF Contexts, Scopes
      <3>2. QED BY <1>1, <2>1, <3>1 DEF Scopes
    <2>3. QED BY <1>1, <2>1, <2>2 DEF Contexts
  <1>3. Good(u) /\ Quiet(s, u)
    BY <1>2, CancelCallLemma DEF Inv, Good
  <1> HIDE DEF u
  <1>4. [u EXCEPT !.others = TRUE] = w
    BY <1>3 DEF Good, States
  <1>5. Good(w) /\ Quiet(u, w)
    <2>1. u.checking \in BOOLEAN
      BY <1>3 DEF Good, States
    <2>2. QED BY <1>3, <2>1, OthersLemma
  <1> HIDE DEF w
  <1>6. /\ Good(s') /\ Quiet(w, s')
        /\ ~s'.updating => Followed(s', context')
    BY <1>1, <1>2, <1>4, <1>5, AnnouncedLemma
  <1>7. Quiet(s, s')
    BY <1>3, <1>5, <1>6, QuietOn
  <1>8. QED BY <1>1, <1>2, <1>6, <1>7 DEF Inv

LEMMA ChangeLemma ==
  ASSUME Inv, NEW c \in Contexts, NEW reset \in BOOLEAN, Change(c, reset)
  PROVE  Inv' /\ Quiet(s, s')
PROOF
  <1> DEFINE k == s.checking /\ ~reset
             o == s.others /\ ~reset
             t == [s EXCEPT !.checking = k, !.others = o]
             u == IF c.scope # context.scope THEN CancelCall(t, c, FALSE) ELSE t
  <1>1. context' = c /\ app' = app
    BY DEF Change
  <1>2. s \in States
    BY DEF Inv, Good
  <1>3. t = [s EXCEPT !.checking = @ /\ ~reset, !.others = @ /\ ~reset]
    BY <1>2 DEF States
  <1>4. s' = Announced(u, c)
    BY <1>3 DEF Change
  <1>5. k \in BOOLEAN /\ o \in BOOLEAN /\ (k => s.checking)
    OBVIOUS
  <1> HIDE DEF k, o
  <1>6. Good(t) /\ Quiet(s, t)
    BY <1>5, OthersLemma DEF Inv
  <1> HIDE DEF t
  <1>7. Good(u) /\ Quiet(s, u)
    <2>1. CASE c.scope # context.scope
      <3>1. Good(u) /\ Quiet(t, u)
        BY <1>6, <2>1, CancelCallLemma DEF Good
      <3> HIDE DEF u
      <3>2. QED BY <1>6, <3>1, QuietOn
    <2>2. CASE ~(c.scope # context.scope)
      BY <1>6, <2>2
    <2>3. QED BY <2>1, <2>2
  <1> HIDE DEF u
  <1>8. /\ Good(s') /\ Quiet(u, s')
        /\ ~s'.updating => Followed(s', c)
    BY <1>4, <1>7, AnnouncedLemma
  <1>9. QED BY <1>1, <1>7, <1>8, QuietOn DEF Inv

LEMMA ShowOthersLemma ==
  ASSUME Inv, NEW checking \in BOOLEAN, ShowOthers(checking)
  PROVE  Inv' /\ Quiet(s, s')
PROOF
  <1> DEFINE t == Displayed(s, checking)
  <1>1. /\ context' = context /\ app' = app
        /\ s' = Announced(t, context)
    BY DEF ShowOthers
  <1>2. Good(t) /\ Quiet(s, t)
    BY DisplayedLemma DEF Inv
  <1> HIDE DEF t
  <1>3. /\ Good(s') /\ Quiet(t, s')
        /\ ~s'.updating => Followed(s', context)
    BY <1>1, <1>2, AnnouncedLemma DEF Inv
  <1>4. QED BY <1>1, <1>2, <1>3, QuietOn DEF Inv

LEMMA TokenRefusedLemma ==
  ASSUME Inv, TokenRefused PROVE Inv' /\ Quiet(s, s')
PROOF
  <1> DEFINE u == CancelCall(s, context, FALSE)
             t == Displayed(u, FALSE)
  <1>1. /\ context' = context /\ app' = app
        /\ s' = Announced(t, context)
    BY DEF TokenRefused
  <1>2. Good(u) /\ Quiet(s, u)
    BY CancelCallLemma DEF Inv, Good
  <1> HIDE DEF u
  <1>3. Good(t) /\ Quiet(u, t)
    BY <1>2, DisplayedLemma
  <1> HIDE DEF t
  <1>4. /\ Good(s') /\ Quiet(t, s')
        /\ ~s'.updating => Followed(s', context)
    BY <1>1, <1>3, AnnouncedLemma DEF Inv
  <1>5. Quiet(s, s')
    BY <1>2, <1>3, <1>4, QuietOn
  <1>6. QED BY <1>1, <1>4, <1>5 DEF Inv

LEMMA CancelAgainLemma ==
  ASSUME Inv, CancelAgain PROVE Inv' /\ Quiet(s, s')
PROOF
  <1>1. /\ context' = context /\ app' = app
        /\ s' = CancelCall(s, context, FALSE)
    BY DEF CancelAgain
  <1>2. Good(s') /\ Quiet(s, s') /\ s'.active = None
    BY <1>1, CancelCallLemma DEF Inv, Good
  <1>3. QED BY <1>1, <1>2 DEF Inv, Followed

LEMMA ReportLemma ==
  ASSUME Inv, NEW field \in {"busy", "stopped", "prefers"}, Report(field)
  PROVE  Inv' /\ Quiet(s, s')
PROOF
  <1>1. /\ context' = context /\ app' = [app EXCEPT ![field] = ~@]
        /\ s' = Announced(s, context)
    BY DEF Report
  <1>2. app' \in Apps
    BY <1>1 DEF Inv, Apps
  <1>3. /\ Good(s') /\ Quiet(s, s')
        /\ ~s'.updating => Followed(s', context)
    BY <1>1, AnnouncedLemma DEF Inv
  <1>4. QED BY <1>1, <1>2, <1>3 DEF Inv

LEMMA UserStopLemma ==
  ASSUME Inv, NEW refused \in BOOLEAN, UserStop(refused)
  PROVE  Inv' /\ Quiet(s, s')
PROOF
  <1> DEFINE u == CancelCall(s, context, TRUE)
  <1>1. /\ context' = context /\ app' = [app EXCEPT !.busy = @ \/ ~refused]
        /\ s' = IF refused THEN u ELSE Announced(u, context)
    BY DEF UserStop
  <1>2. app' \in Apps
    <2>1. app \in Apps /\ (app.busy \/ ~refused) \in BOOLEAN
      BY DEF Inv
    <2>2. app' = [app EXCEPT !.busy = (app.busy \/ ~refused)]
      BY <1>1, <2>1 DEF Apps
    <2>3. QED BY <2>1, <2>2 DEF Apps
  <1>3. Good(u) /\ Quiet(s, u) /\ u.active = None
    BY CancelCallLemma DEF Inv, Good
  <1> HIDE DEF u
  <1>4. CASE refused
    <2>1. s' = u
      BY <1>1, <1>4
    <2>2. QED BY <1>1, <1>2, <1>3, <2>1 DEF Inv, Followed
  <1>5. CASE ~refused
    <2>1. s' = Announced(u, context)
      BY <1>1, <1>5
    <2>2. /\ Good(s') /\ Quiet(u, s')
          /\ ~s'.updating => Followed(s', context)
      BY <1>3, <2>1, AnnouncedLemma DEF Inv
    <2>3. QED BY <1>1, <1>2, <1>3, <2>2, QuietOn DEF Inv
  <1>6. QED BY <1>4, <1>5

LEMMA HoldLemma == ASSUME Inv, Hold PROVE Inv' /\ Quiet(s, s')
PROOF
  <1> DEFINE t == [s EXCEPT !.held = TRUE]
  <1>1. /\ ~s.updating /\ context' = context
        /\ app' = [app EXCEPT !.busy = TRUE]
        /\ s' = CancelCall(t, context, FALSE)
    BY DEF Hold
  <1>2. s \in States /\ app' \in Apps
    BY <1>1 DEF Inv, Good, Apps
  <1>3. t \in States
    BY <1>2 DEF States
  <1>4. /\ t.active = s.active /\ t.stale = s.stale /\ t.last = s.last
        /\ t.checking = s.checking /\ t.updating = s.updating
        /\ t.asleep = s.asleep /\ t.suspended = s.suspended
        /\ t.disposed = s.disposed
    BY <1>2 DEF States
  <1> HIDE DEF t
  <1>5. Proper(t) /\ Shown(t) /\ Checks(t) /\ Quiet(s, t)
    BY <1>1, <1>4 DEF Inv, Good, Proper, Shown, Checks, Quiet
  <1>6. Good(s') /\ Quiet(t, s') /\ s'.active = None
    BY <1>1, <1>3, <1>5, CancelCallLemma DEF Inv
  <1>7. QED BY <1>1, <1>2, <1>5, <1>6, QuietOn DEF Inv, Followed

LEMMA ReleaseLemma == ASSUME Inv, Release PROVE Inv' /\ Quiet(s, s')
PROOF
  <1> DEFINE t == [s EXCEPT !.held = FALSE, !.resume = TRUE]
  <1>1. /\ ~s.updating /\ context' = context
        /\ app' = [app EXCEPT !.busy = FALSE]
        /\ s' = Queued(t)
    BY DEF Release
  <1>2. s \in States /\ app' \in Apps
    BY <1>1 DEF Inv, Good, Apps
  <1>3. t \in States
    BY <1>2 DEF States
  <1>4. /\ t.active = s.active /\ t.stale = s.stale /\ t.last = s.last
        /\ t.checking = s.checking /\ t.updating = s.updating
        /\ t.asleep = s.asleep /\ t.suspended = s.suspended
        /\ t.disposed = s.disposed /\ t.observed = s.observed
        /\ t.paused = s.paused /\ t.blocked = s.blocked
        /\ t.inhibited = s.inhibited
    BY <1>2 DEF States
  <1> HIDE DEF t
  <1>5. Good(t) /\ Quiet(s, t)
    BY <1>1, <1>3, <1>4
       DEF Inv, Good, Proper, Restful, Shown, Checks, Verdict, Quiet
  <1>6. /\ s' \in States /\ Proper(s') /\ Kept(t, s')
        /\ s'.active = t.active /\ s'.stale = t.stale /\ s'.last = t.last
        /\ s'.checking = t.checking /\ s'.paused = t.paused
    BY <1>1, <1>5, QueuedLemma DEF Good
  <1>7. Good(s') /\ Quiet(s, s')
    BY <1>5, <1>6 DEF Good, Restful, Shown, Checks, Verdict, Kept, Quiet
  <1>8. Followed(s', context)
    BY <1>1, <1>4, <1>6 DEF Inv, Followed, Kept
  <1>9. QED BY <1>1, <1>2, <1>7, <1>8 DEF Inv

LEMMA SleepLemma == ASSUME Inv, Sleep PROVE Inv' /\ Quiet(s, s')
PROOF
  <1> DEFINE t == [s EXCEPT !.asleep = TRUE, !.suspended = TRUE]
  <1>1. /\ ~s.updating /\ context' = context /\ app' = app
        /\ s' = Cancelled(t, context)
    BY DEF Sleep
  <1>2. s \in States
    BY DEF Inv, Good
  <1>3. t \in States
    BY <1>2 DEF States
  <1>4. /\ t.active = s.active /\ t.stale = s.stale /\ t.last = s.last
        /\ t.checking = s.checking /\ t.updating = s.updating
        /\ t.asleep /\ t.suspended /\ t.disposed = s.disposed
    BY <1>2 DEF States
  <1> HIDE DEF t
  <1>5. Proper(t) /\ Shown(t) /\ Checks(t) /\ Quiet(s, t)
    BY <1>1, <1>4 DEF Inv, Good, Proper, Shown, Checks, Quiet
  <1>6. Good(s') /\ Quiet(t, s') /\ s'.active = None
    BY <1>1, <1>3, <1>5, CancelledIsGood DEF Inv
  <1>7. QED BY <1>1, <1>5, <1>6, QuietOn DEF Inv, Followed

LEMMA WakeLemma == ASSUME Inv, Wake PROVE Inv' /\ Quiet(s, s')
PROOF
  <1> DEFINE t == [s EXCEPT !.asleep = FALSE, !.resume = TRUE]
  <1>1. /\ ~s.updating /\ s.asleep /\ context' = context /\ app' = app
        /\ s' = Queued(t)
    BY DEF Wake
  <1>2. s \in States /\ s.active = None
    BY <1>1 DEF Inv, Good, Proper, Restful
  <1>3. t \in States
    BY <1>2 DEF States
  <1>4. /\ t.active = s.active /\ t.stale = s.stale /\ t.last = s.last
        /\ t.checking = s.checking /\ t.updating = s.updating
        /\ ~t.asleep /\ t.disposed = s.disposed /\ t.held = s.held
    BY <1>2 DEF States
  <1> HIDE DEF t
  <1>5. Proper(t) /\ Shown(t) /\ Checks(t) /\ Quiet(s, t)
    BY <1>1, <1>4 DEF Inv, Good, Proper, Shown, Checks, Quiet
  <1>6. /\ s' \in States /\ Proper(s') /\ Kept(t, s')
        /\ s'.active = t.active /\ s'.stale = t.stale /\ s'.last = t.last
        /\ s'.checking = t.checking
    BY <1>1, <1>3, <1>5, QueuedLemma
  <1>7. Good(s') /\ Quiet(s, s') /\ s'.active = None
    BY <1>2, <1>4, <1>5, <1>6
       DEF Good, Restful, Shown, Checks, Verdict, Kept, Quiet
  <1>8. QED BY <1>1, <1>7 DEF Inv, Followed

LEMMA RetryLemma == ASSUME Inv, Retry PROVE Inv' /\ Quiet(s, s')
PROOF
  <1>1. /\ ~s.disposed /\ ~s.suspended /\ context' = context /\ app' = app
        /\ s' = Begun(s, context, TRUE)
    BY DEF Retry
  <1>2. Good(s') /\ Quiet(s, s') /\ s'.observed = context
    BY <1>1, BegunLemma DEF Inv
  <1>3. QED BY <1>1, <1>2 DEF Inv, Followed

LEMMA RemoteNotReadyLemma ==
  ASSUME Inv, RemoteNotReady PROVE Inv' /\ Quiet(s, s')
PROOF
  <1> DEFINE t == [s EXCEPT !.inhibited = Transport(context), !.blocked = context]
             k == Cancelled(t, context)
  <1>1. /\ context' = context /\ app' = app
        /\ s' = Told(k, context, context.scope, "settled")
    BY DEF RemoteNotReady
  <1>2. s \in States /\ context \in Contexts
    BY DEF Inv, Good
  <1>3. t \in States
    <2>1. Transport(context) \in Transports
      BY <1>2 DEF Transports
    <2>2. QED BY <1>2, <2>1 DEF States
  <1>4. /\ t.active = s.active /\ t.stale = s.stale /\ t.last = s.last
        /\ t.checking = s.checking /\ t.updating = s.updating
        /\ t.asleep = s.asleep /\ t.suspended = s.suspended
        /\ t.disposed = s.disposed /\ t.held = s.held
    BY <1>2 DEF States
  <1> HIDE DEF t
  <1>5. Proper(t) /\ Shown(t) /\ Checks(t) /\ Quiet(s, t)
    BY <1>4 DEF Inv, Good, Proper, Shown, Checks, Quiet
  <1>6. Good(k) /\ Quiet(t, k) /\ k.active = None
    BY <1>2, <1>3, <1>5, CancelledIsGood
  <1> HIDE DEF k
  <1>7. /\ s' \in States /\ Proper(s') /\ Shown(s') /\ Kept(k, s')
        /\ s'.active = k.active /\ s'.stale = k.stale
        /\ s'.checking => k.checking /\ k.disposed
    BY <1>1, <1>2, <1>6, ToldLemma DEF Good
  <1>8. Good(s') /\ Quiet(k, s')
    BY <1>6, <1>7 DEF Good, Restful, Checks, Verdict, Kept, Quiet
  <1>9. Quiet(s, s')
    BY <1>5, <1>6, <1>8, QuietOn
  <1>10. QED BY <1>1, <1>6, <1>7, <1>8, <1>9 DEF Inv, Followed

LEMMA NetworkErrorLemma ==
  ASSUME Inv, NetworkError PROVE Inv' /\ Quiet(s, s')
PROOF
  <1> DEFINE t == Told(s, context, context.scope, "settled")
             u == IF t.held /\ t # s THEN Cancelled(t, context) ELSE t
  <1>1. /\ ~s.updating /\ ~s.disposed /\ context' = context /\ app' = app
        /\ s' = Automatic(u, context)
    BY DEF NetworkError
  <1>2. context \in Contexts
    BY DEF Inv
  <1>3. /\ t \in States /\ Proper(t) /\ Shown(t) /\ Kept(s, t)
        /\ t.active = s.active /\ t.stale = s.stale
        /\ t.paused => s.paused \/ (s.held /\ t # s)
        /\ t.checking => s.checking /\ s.disposed
    BY <1>2, ToldLemma DEF Inv, Good, Repeats
  <1> HIDE DEF t
  <1>4. Checks(t) /\ Verdict(t) /\ Quiet(s, t) /\ Followed(t, context)
    BY <1>1, <1>3 DEF Inv, Good, Checks, Verdict, Kept, Quiet, Followed
  <1>5. Good(u) /\ Quiet(t, u) /\ Followed(u, context)
    <2>1. CASE t.held /\ t # s
      <3>1. Good(u) /\ Quiet(t, u) /\ u.active = None
        BY <1>2, <1>3, <1>4, <2>1, CancelledIsGood
      <3>2. QED BY <3>1 DEF Followed
    <2>2. CASE ~(t.held /\ t # s)
      <3>1. Restful(t)
        BY <1>3, <2>2 DEF Inv, Good, Restful, Kept
      <3>2. u = t
        BY <2>2
      <3>3. QED BY <1>3, <1>4, <3>1, <3>2, QuietSame DEF Good
    <2>3. QED BY <2>1, <2>2
  <1> HIDE DEF u
  <1>6. /\ Good(s') /\ Quiet(u, s')
        /\ s' = u \/ s'.observed = context
    BY <1>1, <1>2, <1>5, AutomaticLemma
  <1>7. Quiet(s, s')
    BY <1>4, <1>5, <1>6, QuietOn
  <1>8. QED BY <1>1, <1>5, <1>6, <1>7 DEF Inv, Followed

LEMMA OnlineLemma == ASSUME Inv, Online PROVE Inv' /\ Quiet(s, s')
PROOF
  <1>1. /\ ~s.updating /\ context' = context /\ app' = app
        /\ s' = Automatic(s, context)
    BY DEF Online
  <1>2. /\ Good(s') /\ Quiet(s, s')
        /\ s' = s \/ s'.observed = context
    BY <1>1, AutomaticLemma DEF Inv
  <1>3. QED BY <1>1, <1>2 DEF Inv, Followed

LEMMA DisposeLemma == ASSUME Inv, Dispose PROVE Inv' /\ Quiet(s, s')
PROOF
  <1> DEFINE t == [s EXCEPT !.disposed = TRUE]
  <1>1. /\ context' = context /\ app' = app /\ s' = Cancelled(t, context)
    BY DEF Dispose
  <1>2. s \in States
    BY DEF Inv, Good
  <1>3. t \in States
    BY <1>2 DEF States
  <1>4. /\ t.active = s.active /\ t.stale = s.stale /\ t.last = s.last
        /\ t.checking = s.checking /\ t.updating = s.updating
        /\ t.asleep = s.asleep /\ t.suspended = s.suspended
        /\ t.disposed /\ t.held = s.held
    BY <1>2 DEF States
  <1> HIDE DEF t
  <1>5. Proper(t) /\ Shown(t) /\ Checks(t) /\ Quiet(s, t)
    BY <1>4 DEF Inv, Good, Proper, Shown, Checks, Quiet
  <1>6. Good(s') /\ Quiet(t, s') /\ s'.active = None
    BY <1>1, <1>3, <1>5, CancelledIsGood DEF Inv
  <1>7. QED BY <1>1, <1>5, <1>6, QuietOn DEF Inv, Followed

LEMMA UpdateLemma == ASSUME Inv, Update PROVE Inv' /\ Quiet(s, s')
PROOF
  <1> DEFINE t == [s EXCEPT !.updating = FALSE]
             u == Updated(t, context)
             w == [u EXCEPT !.resume = FALSE]
  <1>1. /\ s.updating /\ context' = context /\ app' = app
        /\ s' = IF t.asleep \/ t.held THEN t
                ELSE IF t.resume THEN Resumed(w, context)
                ELSE u
    BY DEF Update
  <1>2. s \in States /\ ~s.held /\ ~s.asleep
    BY <1>1 DEF Inv, Good, Proper
  <1>3. t \in States
    BY <1>2 DEF States
  <1>4. /\ t.active = s.active /\ t.stale = s.stale /\ t.last = s.last
        /\ t.checking = s.checking /\ ~t.updating
        /\ t.asleep = s.asleep /\ t.suspended = s.suspended
        /\ t.disposed = s.disposed /\ t.observed = s.observed
        /\ t.paused = s.paused /\ t.blocked = s.blocked
        /\ t.inhibited = s.inhibited /\ t.held = s.held
    BY <1>2 DEF States
  <1> HIDE DEF t
  <1>5. Good(t) /\ Quiet(s, t)
    BY <1>3, <1>4
       DEF Inv, Good, Proper, Restful, Shown, Checks, Verdict, Quiet
  <1>6. Good(u) /\ Quiet(t, u) /\ Followed(u, context) /\ u.asleep = t.asleep
    BY <1>5, UpdatedLemma DEF Inv
  <1> HIDE DEF u
  <1>7. Quiet(s, u)
    BY <1>5, <1>6, QuietOn
  <1>8. CASE s' = u
    BY <1>1, <1>6, <1>7, <1>8 DEF Inv
  <1>9. CASE s' = Resumed(w, context)
    <2>1. u \in States
      BY <1>6 DEF Good
    <2>2. w \in States
      BY <2>1 DEF States
    <2>3. /\ w.active = u.active /\ w.stale = u.stale /\ w.last = u.last
          /\ w.checking = u.checking /\ w.updating = u.updating
          /\ w.asleep = u.asleep /\ w.suspended = u.suspended
          /\ w.disposed = u.disposed /\ w.observed = u.observed
          /\ w.paused = u.paused /\ w.blocked = u.blocked
          /\ w.inhibited = u.inhibited /\ w.held = u.held
      BY <2>1 DEF States
    <2> HIDE DEF w
    <2>4. Good(w) /\ Quiet(u, w) /\ Followed(w, context) /\ ~w.asleep
      BY <1>2, <1>4, <1>6, <2>2, <2>3
         DEF Good, Proper, Restful, Shown, Checks, Verdict, Quiet, Followed
    <2>5. Good(s') /\ Quiet(w, s') /\ Followed(s', context)
      BY <1>9, <2>4, ResumedLemma DEF Inv
    <2>6. Quiet(s, s')
      BY <1>7, <2>4, <2>5, QuietOn
    <2>7. QED BY <1>1, <2>5, <2>6 DEF Inv
  <1>10. QED BY <1>1, <1>2, <1>4, <1>8, <1>9

-----------------------------------------------------------------------------
(* Every step keeps the invariant, and asks only for starts that are wanted. *)

LEMMA InitLemma == Init => Inv
PROOF
  <1>1. SUFFICES ASSUME Init PROVE Inv
    OBVIOUS
  <1>2. context \in Contexts /\ app \in Apps
    BY <1>1 DEF Init, Apps
  <1>3. s \in States
    BY <1>1, <1>2 DEF Init, States, Apps
  <1>4. /\ s.active = None /\ s.stale = {} /\ ~s.updating /\ ~s.asleep
        /\ ~s.checking
    BY <1>1 DEF Init
  <1>5. Good(s)
    BY <1>3, <1>4 DEF Good, Proper, Restful, Shown, Checks, Verdict
  <1>6. QED BY <1>2, <1>4, <1>5 DEF Inv, Followed

\* The step asks for no start, or it asks as the round at work.
Asked ==
  Quiet(s, s') \/ (s.active # None /\ ~s.updating /\ Asks(s, s'))

LEMMA RoundStepLemma ==
  ASSUME Inv, NEW mine \in BOOLEAN, RoundStep(mine)
  PROVE  Inv' /\ Asked
PROOF
  <1>1. PICK x \in IF mine THEN {s.active} \ {None} ELSE s.stale :
          \/ Answer(x, mine)
          \/ Revoked(x, mine)
          \/ \E failed \in BOOLEAN : StartAnswered(x, mine, failed)
          \/ StartRuns(x, mine)
    BY DEF RoundStep
  <1>2. CASE Answer(x, mine)
    BY <1>2, AnswerLemma DEF Asked
  <1>3. CASE Revoked(x, mine)
    BY <1>3, RevokedLemma DEF Asked
  <1>4. CASE \E failed \in BOOLEAN : StartAnswered(x, mine, failed)
    BY <1>4, StartAnsweredLemma DEF Asked
  <1>5. CASE StartRuns(x, mine)
    BY <1>5, StartRunsLemma DEF Asked
  <1>6. QED BY <1>1, <1>2, <1>3, <1>4, <1>5

LEMMA OutsideLemma == ASSUME Inv, Outside PROVE Inv' /\ Asked
PROOF
  <1>1. CASE \E c \in Contexts, reset \in BOOLEAN : Change(c, reset)
    BY <1>1, ChangeLemma DEF Asked
  <1>2. CASE \E field \in {"busy", "stopped", "prefers"} : Report(field)
    BY <1>2, ReportLemma DEF Asked
  <1>3. CASE \E refused \in BOOLEAN : UserStop(refused)
    BY <1>3, UserStopLemma DEF Asked
  <1>4. CASE Hold \/ Release \/ Sleep \/ Wake
    BY <1>4, HoldLemma, ReleaseLemma, SleepLemma, WakeLemma DEF Asked
  <1>5. CASE Retry \/ RemoteNotReady \/ NetworkError \/ Online \/ Dispose
    BY <1>5, RetryLemma, RemoteNotReadyLemma, NetworkErrorLemma,
       OnlineLemma, DisposeLemma DEF Asked
  <1>6. CASE StartChecks \/ TokenRefused \/ CancelAgain
    BY <1>6, StartChecksLemma, TokenRefusedLemma, CancelAgainLemma DEF Asked
  <1>7. CASE \E checking \in BOOLEAN : ShowOthers(checking)
    BY <1>7, ShowOthersLemma DEF Asked
  <1>8. QED BY <1>1, <1>2, <1>3, <1>4, <1>5, <1>6, <1>7 DEF Outside

LEMMA NextLemma == ASSUME Inv, Next PROVE Inv' /\ Asked
PROOF
  <1>1. CASE Update
    BY <1>1, UpdateLemma DEF Asked
  <1>2. CASE Fire
    BY <1>2, FireLemma DEF Asked
  <1>3. CASE Outside
    BY <1>3, OutsideLemma
  <1>4. CASE \E mine \in BOOLEAN : RoundStep(mine)
    BY <1>4, RoundStepLemma
  <1>5. QED BY <1>1, <1>2, <1>3, <1>4 DEF Next

LEMMA StepLemma == Inv /\ [Next]_vars => Inv'
PROOF
  <1>1. CASE UNCHANGED vars
    BY <1>1 DEF Inv, vars
  <1>2. QED BY <1>1, NextLemma

LEMMA InvLemma == Spec => []Inv
PROOF BY InitLemma, StepLemma, PTL DEF Spec

\* A start that the step asks for.
Wanted ==
  \A x \in ({s'.active} \ {None}) \cup s'.stale :
    /\ x.at = "start"
    /\ x \notin s.stale
    /\ s.active # None => s.active.at # "start"
    => /\ s.active # None /\ s.active.context = x.context
       /\ x.context = context /\ context.desired /\ app.stopped
       /\ ~s.suspended

LEMMA WantedLemma == Inv /\ [Next]_vars => [Wanted]_vars
PROOF
  <1>1. SUFFICES ASSUME Inv, Next PROVE Wanted
    OBVIOUS
  <1>2. SUFFICES ASSUME NEW x \in ({s'.active} \ {None}) \cup s'.stale,
                        x.at = "start", x \notin s.stale,
                        s.active # None => s.active.at # "start"
                 PROVE  /\ s.active # None /\ s.active.context = x.context
                        /\ x.context = context /\ context.desired
                        /\ app.stopped /\ ~s.suspended
    BY DEF Wanted
  <1>3. ~Quiet(s, s')
    BY <1>2 DEF Quiet
  <1>4. s.active # None /\ ~s.updating /\ Asks(s, s')
    BY <1>1, <1>3, NextLemma DEF Asked
  <1>5. s.active.context = context /\ ~s.suspended
    BY <1>1, <1>4, AtWork
  <1>6. x = s'.active /\ s'.active # None
    BY <1>2, <1>4 DEF Asks
  <1>7. QED BY <1>4, <1>5, <1>6 DEF Asks

-----------------------------------------------------------------------------
(* What the invariant says.                                                *)

\* Whatever is changed, cancelled, held or suspended while a round awaits, it
\* goes on only in its own context, the "checking" it has shown does not outlast
\* it, whatever a start and the other services show beside it, and no round
\* overrides an earlier verdict but the one the user asked for (update, cancel,
\* begin).
THEOREM RoundsStayAllowed == Spec => []RoundsAreAllowed
PROOF
  <1>1. ASSUME Inv PROVE TypeOK
    <2>1. /\ context \in Contexts /\ app \in Apps
          /\ s \in States /\ Proper(s)
      BY <1>1 DEF Inv, Good
    <2>2. s.inhibited \in {Transport(c) : c \in Contexts} \cup {None}
      BY <2>1 DEF States, Transports
    <2>3. {s.suspended, s.disposed, s.enabled, s.paused, s.rearm, s.checking,
           s.others, s.updating, s.asleep, s.held, s.resume} \subseteq BOOLEAN
      BY <2>1 DEF States
    <2>4. QED BY <2>1, <2>2, <2>3 DEF TypeOK, Apps, States, News, Proper
  <1>2. ASSUME Inv PROVE RoundIsCurrent
    BY <1>2, AtWork DEF Inv, Good, Restful, Checks, RoundIsCurrent
  <1>3. ASSUME Inv PROVE VerdictStands
    BY <1>3 DEF Inv, Good, Verdict, VerdictStands
  <1>4. Inv => RoundsAreAllowed
    BY <1>1, <1>2, <1>3 DEF RoundsAreAllowed
  <1>5. QED BY <1>4, InvLemma, PTL

\* The proxy is started only for the round at work, in its own context, while
\* the user wants the proxy and it is stopped (attempt, requestRecoveryStart).
THEOREM StartsAreWanted == Spec => StartWanted
PROOF
  <1>1. Spec => [][Wanted]_vars
    BY WantedLemma, InvLemma, PTL DEF Spec
  <1>2. QED BY <1>1 DEF StartWanted, Wanted

=============================================================================
