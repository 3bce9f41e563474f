------------------------ MODULE AppController_proofs ------------------------
(***************************************************************************)
(* Whatever is aborted, revoked, confirmed late or locked: the proxy serves *)
(* only if it is wanted, the profiles stay apart, and no login is lost; for *)
(* any set of profiles.                                                    *)
(***************************************************************************)
EXTENDS AppController, Integers, TLAPS

-----------------------------------------------------------------------------
(* What an operation has before it.                                        *)

\* Which stage may follow which in a plan.
Steps ==
  {<<"confirm", "halt">>, <<"confirm", "write">>, <<"confirm", "choose">>,
   <<"choose", "confirm">>, <<"choose", "keys">>,
   <<"halt", "start">>, <<"halt", "revoke">>, <<"halt", "reset">>,
   <<"halt", "await">>, <<"halt", "revoked">>, <<"revoke", "window">>,
   <<"revoke", "secrets">>, <<"reset", "select">>, <<"reset", "reload">>,
   <<"select", "write">>, <<"select", "startIf">>, <<"reload", "startIf">>,
   <<"write", "await">>, <<"await", "write">>, <<"await", "startIf">>,
   <<"await", "leave">>, <<"secrets", "startIf">>}

\* Kinds that leave the application, that first of all stop the proxy, and
\* that a stop may cancel.
Leaving == {"exit", "install-update", "prepare-exit"}
Halting == {"stop", "auth-revoked", "prepare-exit"}
Resumable == {"start", "authenticated-start", "restart"}

\* Stages whose kind or target is known.
Fitting(o, i) ==
  /\ o.todo[i] = "select" => o.target # None
  /\ o.todo[i] = "leave" => o.kind \in Leaving
  /\ o.todo[i] = "write" => o.kind \notin Leaving
  /\ o.todo[i] = "keys" => o.kind \in KeyKinds
  /\ o.kind \in KeyKinds => o.todo[i] \in {"choose", "confirm", "keys", "lock"}
  /\ o.todo[i] = "start" /\ i > 1 => o.kind = "restart"
  /\ o.todo[i] = "confirm" => o.kind \notin {"auth-revoked", "prepare-exit"}

Ordered(o) ==
  /\ \A i \in 1..(Len(o.todo) - 1) : <<o.todo[i], o.todo[i + 1]>> \in Steps
  /\ \A i \in 1..Len(o.todo) : Fitting(o, i)

\* The stage an operation is at.
Stage(o) == IF o.todo = <<>> THEN "done" ELSE Head(o.todo)
WaitsAt(o, stages) == o.at = "wait" /\ Stage(o) \in stages

\* The next stage, after the one at work.
LEMMA ContinuesLemma ==
  ASSUME NEW o \in Operations, Ordered(o), o.todo # <<>>
  PROVE  /\ Continues(o) \in Operations
         /\ Continues(o) = [o EXCEPT !.todo = Tail(o.todo), !.at = "go"]
         /\ Ordered(Continues(o))
         /\ \/ Stage(Continues(o)) = "done"
            \/ <<Stage(o), Stage(Continues(o))>> \in Steps
         /\ Stage(Continues(o)) = "start" => o.kind = "restart"
PROOF
  <1> DEFINE c == Continues(o)
  <1>1. o.todo \in Seq(StageNames)
    BY DEF Operations
  <1>2. /\ Tail(o.todo) \in Seq(StageNames)
        /\ Len(Tail(o.todo)) = Len(o.todo) - 1
        /\ Len(o.todo) \in Nat \ {0}
        /\ \A i \in 1..(Len(o.todo) - 1) : Tail(o.todo)[i] = o.todo[i + 1]
    BY <1>1
  <1>3. c \in Operations /\ c = [o EXCEPT !.todo = Tail(o.todo), !.at = "go"]
    BY <1>2 DEF Operations, Continues
  <1>4. c.todo = Tail(o.todo) /\ c.kind = o.kind /\ c.target = o.target
    BY DEF Continues, Operations
  <1>5. ASSUME NEW i \in 1..(Len(c.todo) - 1)
        PROVE  <<c.todo[i], c.todo[i + 1]>> \in Steps
    BY <1>2, <1>4 DEF Ordered
  <1>6. ASSUME NEW i \in 1..Len(c.todo)
        PROVE  Fitting(c, i)
    <2>1. i + 1 \in 1..Len(o.todo) /\ c.todo[i] = o.todo[i + 1] /\ i + 1 > 1
      BY <1>2, <1>4
    <2>2. Fitting(o, i + 1)
      BY <2>1 DEF Ordered
    <2>3. QED BY <1>4, <2>1, <2>2 DEF Fitting
  <1>7. CASE c.todo = <<>>
    BY <1>3, <1>5, <1>6, <1>7 DEF Ordered, Stage
  <1>8. CASE c.todo # <<>>
    <2>1. Stage(c) = o.todo[2] /\ Stage(o) = o.todo[1] /\ Len(o.todo) > 1
      BY <1>2, <1>4, <1>8 DEF Stage
    <2>2. <<o.todo[1], o.todo[2]>> \in Steps /\ Fitting(o, 2)
      BY <1>2, <2>1 DEF Ordered
    <2>3. Ordered(c)
      BY <1>5, <1>6 DEF Ordered
    <2>4. Stage(c) = "start" => o.kind = "restart"
      BY <2>1, <2>2 DEF Fitting
    <2>5. QED BY <1>3, <2>1, <2>2, <2>3, <2>4
  <1>9. QED BY <1>7, <1>8

\* Nothing follows a stage that no step leads on from.
LEMMA LastStage ==
  ASSUME NEW o \in Operations, Ordered(o), o.todo # <<>>,
         \A s : <<Stage(o), s>> \notin Steps
  PROVE  /\ Len(o.todo) = 1 /\ o.todo[1] = Stage(o)
         /\ Tail(o.todo) = <<>>
PROOF
  <1>1. o.todo \in Seq(StageNames) /\ o.todo[1] = Stage(o)
    BY DEF Operations, Stage
  <1>2. Len(o.todo) \in Nat /\ Len(o.todo) # 0
    BY <1>1
  <1>3. Len(o.todo) = 1
    <2>1. SUFFICES ASSUME Len(o.todo) # 1 PROVE FALSE
      OBVIOUS
    <2>2. 1 \in 1..(Len(o.todo) - 1)
      <3>1. \A n \in Nat : n # 0 /\ n # 1 => n > 1
        OBVIOUS
      <3>2. Len(o.todo) > 1
        BY <1>2, <2>1, <3>1
      <3>3. QED BY <1>2, <3>2
    <2>3. <<o.todo[1], o.todo[1 + 1]>> \in Steps
      BY <2>2 DEF Ordered
    <2>4. QED BY <1>1, <2>3
  <1>4. Tail(o.todo) \in Seq(StageNames) /\ Len(Tail(o.todo)) = 0
    BY <1>1, <1>3
  <1>5. \A s \in Seq(StageNames) : Len(s) = 0 => s = <<>>
    OBVIOUS
  <1>6. QED BY <1>1, <1>3, <1>4, <1>5

\* A stage that is turned into its second half: it was the last one.
LEMMA TurnsLemma ==
  ASSUME NEW o \in Operations, Ordered(o), Stage(o) \in {"start", "preflight"},
         NEW stage \in {"preflight", "listen"}
  PROVE  /\ Turns(o, stage) \in Operations
         /\ Turns(o, stage) = [o EXCEPT !.todo = <<stage>>, !.at = "wait"]
         /\ Ordered(Turns(o, stage))
         /\ Stage(Turns(o, stage)) = stage
PROOF
  <1>1. o.todo \in Seq(StageNames) /\ o.todo # <<>> /\ Head(o.todo) = Stage(o)
    BY DEF Operations, Stage
  <1>2. Tail(o.todo) = <<>>
    BY <1>1, LastStage DEF Steps
  <1>3. <<stage>> \o Tail(o.todo) = <<stage>> /\ <<stage>> \in Seq(StageNames)
    <2>1. stage \in StageNames
      BY DEF StageNames
    <2>2. <<stage>> \o <<>> = <<stage>> /\ <<stage>> \in Seq(StageNames)
      BY <2>1
    <2>3. QED BY <1>2, <2>2
  <1> DEFINE t == Turns(o, stage)
  <1>4. t = [o EXCEPT !.todo = <<stage>>, !.at = "wait"]
    BY <1>3 DEF Turns
  <1>5. t \in Operations /\ t.todo = <<stage>>
    BY <1>3, <1>4 DEF Operations
  <1>6. o.kind \notin KeyKinds
    <2>1. 1 \in 1..Len(o.todo) /\ o.todo[1] = Stage(o)
      BY <1>1
    <2>2. Fitting(o, 1)
      BY <2>1 DEF Ordered
    <2>3. QED BY <2>1, <2>2 DEF Fitting
  <1>7. t.kind = o.kind
    BY <1>4 DEF Operations
  <1>8. Ordered(t) /\ Stage(t) = stage
    BY <1>5, <1>6, <1>7 DEF Ordered, Stage, Fitting
  <1>9. QED BY <1>4, <1>5, <1>8

\* startIf is the last stage, too.
LEMMA StartIfLemma ==
  ASSUME NEW o \in Operations, Ordered(o), Stage(o) = "startIf"
  PROVE  LET c == [o EXCEPT !.todo = <<"start">> \o Tail(o.todo)]
         IN  /\ c \in Operations
             /\ c = [o EXCEPT !.todo = <<"start">>]
             /\ Ordered(c) /\ Stage(c) = "start"
PROOF
  <1>1. o.todo \in Seq(StageNames) /\ o.todo # <<>> /\ Head(o.todo) = Stage(o)
    BY DEF Operations, Stage
  <1>2. Tail(o.todo) = <<>>
    BY <1>1, LastStage DEF Steps
  <1>3. <<"start">> \o Tail(o.todo) = <<"start">> /\ <<"start">> \in Seq(StageNames)
    <2>1. "start" \in StageNames
      BY DEF StageNames
    <2>2. <<"start">> \o <<>> = <<"start">> /\ <<"start">> \in Seq(StageNames)
      BY <2>1
    <2>3. QED BY <1>2, <2>2
  <1> DEFINE c == [o EXCEPT !.todo = <<"start">>]
  <1>4. c \in Operations /\ c.todo = <<"start">>
    BY <1>3 DEF Operations
  <1>5. Ordered(c) /\ Stage(c) = "start"
    BY <1>4 DEF Ordered, Stage, Fitting
  <1>6. QED BY <1>3, <1>4, <1>5

\* What has the same stages before it is as well ordered.
LEMMA SameStages ==
  ASSUME NEW o, NEW n, Ordered(o),
         n.todo = o.todo, n.kind = o.kind, n.target = o.target
  PROVE  Ordered(n) /\ Stage(n) = Stage(o)
  BY DEF Ordered, Fitting, Stage

\* The stop of a locked store takes the place of what was before an operation.
LEMMA LockLemma ==
  ASSUME NEW o \in Operations
  PROVE  LET c == [o EXCEPT !.todo = <<"lock">>, !.at = "wait", !.authOk = FALSE]
         IN c \in Operations /\ Ordered(c) /\ Stage(c) = "lock"
PROOF
  <1> DEFINE c == [o EXCEPT !.todo = <<"lock">>, !.at = "wait", !.authOk = FALSE]
  <1>1. <<"lock">> \in Seq(StageNames)
    <2>1. "lock" \in StageNames
      BY DEF StageNames
    <2>2. QED BY <2>1
  <1>2. c \in Operations /\ c.todo = <<"lock">>
    BY <1>1 DEF Operations
  <1>3. QED BY <1>2 DEF Ordered, Stage, Fitting

\* A plan is well ordered, and begins with none of the stages that need what
\* an earlier one has done.
PlanBegins(kind, s) ==
  /\ s \in {"start", "confirm", "choose", "window", "write", "await", "secrets", "halt"}
  /\ s = "start" => kind = "start"
  /\ s = "await" => kind \notin Leaving
  /\ s = "window" => kind = "focus-login"
  /\ kind \in {"auth-revoked", "prepare-exit"} => s = "halt"

LEMMA NamesLemma ==
  /\ "confirm" \in StageNames /\ "halt" \in StageNames /\ "start" \in StageNames
  /\ "revoke" \in StageNames /\ "window" \in StageNames /\ "write" \in StageNames
  /\ "await" \in StageNames /\ "secrets" \in StageNames /\ "reset" \in StageNames
  /\ "select" \in StageNames /\ "startIf" \in StageNames /\ "keys" \in StageNames
  /\ "choose" \in StageNames /\ "leave" \in StageNames /\ "reload" \in StageNames /\ "revoked" \in StageNames
  BY DEF StageNames

LEMMA PlanLemma ==
  ASSUME NEW o, o.kind \in Kinds, o.target \in Profiles \cup {None},
         o.kind = "activate-profile" => o.target # None,
         o.todo = Plan(o.kind, o.target)
  PROVE  /\ o.todo \in Seq(StageNames)
         /\ Ordered(o)
         /\ o.todo # <<>>
         /\ PlanBegins(o.kind, Stage(o))
PROOF
  <1>1. CASE o.kind = "start"
    <2>1. o.todo = <<"start">>
      BY <1>1 DEF Plan
    <2>2. o.todo \in Seq(StageNames)
      BY <2>1, NamesLemma
    <2>3. Ordered(o)
      BY <1>1, <2>1 DEF Ordered, Fitting, Steps, Leaving, KeyKinds
    <2>4. Stage(o) = "start" /\ o.todo # <<>>
      BY <2>1 DEF Stage
    <2>5. QED BY <1>1, <2>2, <2>3, <2>4 DEF PlanBegins, Leaving
  <1>2. CASE o.kind = "stop"
    <2>1. o.todo = <<"confirm", "halt">>
      BY <1>2 DEF Plan
    <2>2. o.todo \in Seq(StageNames)
      BY <2>1, NamesLemma
    <2>3. Ordered(o)
      BY <1>2, <2>1 DEF Ordered, Fitting, Steps, Leaving, KeyKinds
    <2>4. Stage(o) = "confirm" /\ o.todo # <<>>
      BY <2>1 DEF Stage
    <2>5. QED BY <1>2, <2>2, <2>3, <2>4 DEF PlanBegins, Leaving
  <1>3. CASE o.kind = "restart"
    <2>1. o.todo = <<"confirm", "halt", "start">>
      BY <1>3 DEF Plan
    <2>2. o.todo \in Seq(StageNames)
      BY <2>1, NamesLemma
    <2>3. Ordered(o)
      BY <1>3, <2>1 DEF Ordered, Fitting, Steps, Leaving, KeyKinds
    <2>4. Stage(o) = "confirm" /\ o.todo # <<>>
      BY <2>1 DEF Stage
    <2>5. QED BY <1>3, <2>2, <2>3, <2>4 DEF PlanBegins, Leaving
  <1>4. CASE o.kind = "login"
    <2>1. o.todo = <<"confirm", "halt", "revoke", "window">>
      BY <1>4 DEF Plan
    <2>2. o.todo \in Seq(StageNames)
      BY <2>1, NamesLemma
    <2>3. Ordered(o)
      BY <1>4, <2>1 DEF Ordered, Fitting, Steps, Leaving, KeyKinds
    <2>4. Stage(o) = "confirm" /\ o.todo # <<>>
      BY <2>1 DEF Stage
    <2>5. QED BY <1>4, <2>2, <2>3, <2>4 DEF PlanBegins, Leaving
  <1>5. CASE o.kind = "focus-login"
    <2>1. o.todo = <<"window">>
      BY <1>5 DEF Plan
    <2>2. o.todo \in Seq(StageNames)
      BY <2>1, NamesLemma
    <2>3. Ordered(o)
      BY <1>5, <2>1 DEF Ordered, Fitting, Steps, Leaving, KeyKinds
    <2>4. Stage(o) = "window" /\ o.todo # <<>>
      BY <2>1 DEF Stage
    <2>5. QED BY <1>5, <2>2, <2>3, <2>4 DEF PlanBegins, Leaving
  <1>6. CASE o.kind = "save-settings"
    <2>1. o.todo = <<"write">>
      BY <1>6 DEF Plan
    <2>2. o.todo \in Seq(StageNames)
      BY <2>1, NamesLemma
    <2>3. Ordered(o)
      BY <1>6, <2>1 DEF Ordered, Fitting, Steps, Leaving, KeyKinds
    <2>4. Stage(o) = "write" /\ o.todo # <<>>
      BY <2>1 DEF Stage
    <2>5. QED BY <1>6, <2>2, <2>3, <2>4 DEF PlanBegins, Leaving
  <1>7. CASE o.kind = "disconnect"
    <2>1. o.todo = <<"confirm">>
      BY <1>7 DEF Plan
    <2>2. o.todo \in Seq(StageNames)
      BY <2>1, NamesLemma
    <2>3. Ordered(o)
      BY <1>7, <2>1 DEF Ordered, Fitting, Steps, Leaving, KeyKinds
    <2>4. Stage(o) = "confirm" /\ o.todo # <<>>
      BY <2>1 DEF Stage
    <2>5. QED BY <1>7, <2>2, <2>3, <2>4 DEF PlanBegins, Leaving
  <1>8. CASE o.kind = "generate-config"
    <2>1. o.todo = <<"await">>
      BY <1>8 DEF Plan
    <2>2. o.todo \in Seq(StageNames)
      BY <2>1, NamesLemma
    <2>3. Ordered(o)
      BY <1>8, <2>1 DEF Ordered, Fitting, Steps, Leaving, KeyKinds
    <2>4. Stage(o) = "await" /\ o.todo # <<>>
      BY <2>1 DEF Stage
    <2>5. QED BY <1>8, <2>2, <2>3, <2>4 DEF PlanBegins, Leaving
  <1>9. CASE o.kind = "save-credentials"
    <2>1. o.todo = <<"confirm", "halt", "revoke", "secrets">>
      BY <1>9 DEF Plan
    <2>2. o.todo \in Seq(StageNames)
      BY <2>1, NamesLemma
    <2>3. Ordered(o)
      BY <1>9, <2>1 DEF Ordered, Fitting, Steps, Leaving, KeyKinds
    <2>4. Stage(o) = "confirm" /\ o.todo # <<>>
      BY <2>1 DEF Stage
    <2>5. QED BY <1>9, <2>2, <2>3, <2>4 DEF PlanBegins, Leaving
  <1>10. CASE o.kind = "save-password"
    <2>1. o.todo = <<"secrets">>
      BY <1>10 DEF Plan
    <2>2. o.todo \in Seq(StageNames)
      BY <2>1, NamesLemma
    <2>3. Ordered(o)
      BY <1>10, <2>1 DEF Ordered, Fitting, Steps, Leaving, KeyKinds
    <2>4. Stage(o) = "secrets" /\ o.todo # <<>>
      BY <2>1 DEF Stage
    <2>5. QED BY <1>10, <2>2, <2>3, <2>4 DEF PlanBegins, Leaving
  <1>11. CASE o.kind = "activate-profile"
    <2>1. o.todo = <<"confirm", "halt", "reset", "select", "startIf">>
      BY <1>11 DEF Plan
    <2>2. o.todo \in Seq(StageNames)
      BY <2>1, NamesLemma
    <2>3. Ordered(o)
      BY <1>11, <2>1 DEF Ordered, Fitting, Steps, Leaving, KeyKinds
    <2>4. Stage(o) = "confirm" /\ o.todo # <<>>
      BY <2>1 DEF Stage
    <2>5. QED BY <1>11, <2>2, <2>3, <2>4 DEF PlanBegins, Leaving
  <1>12. CASE o.kind = "delete-profile" /\ o.target # None
    <2>1. o.todo = <<"confirm", "halt", "reset", "select", "write", "await", "startIf">>
      BY <1>12 DEF Plan
    <2>2. o.todo \in Seq(StageNames)
      BY <2>1, NamesLemma
    <2>3. Ordered(o)
      BY <1>12, <2>1 DEF Ordered, Fitting, Steps, Leaving, KeyKinds
    <2>4. Stage(o) = "confirm" /\ o.todo # <<>>
      BY <2>1 DEF Stage
    <2>5. QED BY <1>12, <2>2, <2>3, <2>4 DEF PlanBegins, Leaving
  <1>13. CASE o.kind = "delete-profile" /\ o.target = None
    <2>1. o.todo = <<"confirm", "write", "await">>
      BY <1>13 DEF Plan
    <2>2. o.todo \in Seq(StageNames)
      BY <2>1, NamesLemma
    <2>3. Ordered(o)
      BY <1>13, <2>1 DEF Ordered, Fitting, Steps, Leaving, KeyKinds
    <2>4. Stage(o) = "confirm" /\ o.todo # <<>>
      BY <2>1 DEF Stage
    <2>5. QED BY <1>13, <2>2, <2>3, <2>4 DEF PlanBegins, Leaving
  <1>14. CASE o.kind = "clear-history"
    <2>1. o.todo = <<"confirm", "halt", "await">>
      BY <1>14 DEF Plan
    <2>2. o.todo \in Seq(StageNames)
      BY <2>1, NamesLemma
    <2>3. Ordered(o)
      BY <1>14, <2>1 DEF Ordered, Fitting, Steps, Leaving, KeyKinds
    <2>4. Stage(o) = "confirm" /\ o.todo # <<>>
      BY <2>1 DEF Stage
    <2>5. QED BY <1>14, <2>2, <2>3, <2>4 DEF PlanBegins, Leaving
  <1>15. CASE o.kind = "change-keys"
    <2>1. o.todo = <<"confirm", "choose", "keys">>
      BY <1>15 DEF Plan
    <2>2. o.todo \in Seq(StageNames)
      BY <2>1, NamesLemma
    <2>3. Ordered(o)
      <3>1. /\ Len(o.todo) = 3
            /\ o.todo[1] = "confirm"
            /\ o.todo[2] = "choose"
            /\ o.todo[3] = "keys"
        BY <2>1
      <3>2. \A i \in 1..Len(o.todo) : i = 1 \/ i = 2 \/ i = 3
        BY <3>1
      <3>3. QED
        BY <1>15, <2>1, <3>1, <3>2 DEF Ordered, Fitting, Steps, Leaving, KeyKinds
    <2>4. Stage(o) = "confirm" /\ o.todo # <<>>
      BY <2>1 DEF Stage
    <2>5. QED BY <1>15, <2>2, <2>3, <2>4 DEF PlanBegins, Leaving
  <1>16. CASE o.kind = "set-autostart"
    <2>1. o.todo = <<"await", "write">>
      BY <1>16 DEF Plan
    <2>2. o.todo \in Seq(StageNames)
      BY <2>1, NamesLemma
    <2>3. Ordered(o)
      BY <1>16, <2>1 DEF Ordered, Fitting, Steps, Leaving, KeyKinds
    <2>4. Stage(o) = "await" /\ o.todo # <<>>
      BY <2>1 DEF Stage
    <2>5. QED BY <1>16, <2>2, <2>3, <2>4 DEF PlanBegins, Leaving
  <1>17. CASE o.kind \in {"exit", "install-update"}
    <2>1. o.todo = <<"confirm", "halt", "await", "leave">>
      BY <1>17 DEF Plan
    <2>2. o.todo \in Seq(StageNames)
      BY <2>1, NamesLemma
    <2>3. Ordered(o)
      BY <1>17, <2>1 DEF Ordered, Fitting, Steps, Leaving, KeyKinds
    <2>4. Stage(o) = "confirm" /\ o.todo # <<>>
      BY <2>1 DEF Stage
    <2>5. QED BY <1>17, <2>2, <2>3, <2>4 DEF PlanBegins, Leaving
  <1>18. CASE o.kind = "prepare-exit"
    <2>1. o.todo = <<"halt", "await", "leave">>
      BY <1>18 DEF Plan
    <2>2. o.todo \in Seq(StageNames)
      BY <2>1, NamesLemma
    <2>3. Ordered(o)
      BY <1>18, <2>1 DEF Ordered, Fitting, Steps, Leaving, KeyKinds
    <2>4. Stage(o) = "halt" /\ o.todo # <<>>
      BY <2>1 DEF Stage
    <2>5. QED BY <1>18, <2>2, <2>3, <2>4 DEF PlanBegins, Leaving
  <1>19. CASE o.kind = "retry-load"
    <2>1. o.todo = <<"confirm", "halt", "reset", "reload", "startIf">>
      BY <1>19 DEF Plan
    <2>2. o.todo \in Seq(StageNames)
      BY <2>1, NamesLemma
    <2>3. Ordered(o)
      BY <1>19, <2>1 DEF Ordered, Fitting, Steps, Leaving, KeyKinds
    <2>4. Stage(o) = "confirm" /\ o.todo # <<>>
      BY <2>1 DEF Stage
    <2>5. QED BY <1>19, <2>2, <2>3, <2>4 DEF PlanBegins, Leaving
  <1>20. CASE o.kind = "auth-revoked"
    <2>1. o.todo = <<"halt", "revoked">>
      BY <1>20 DEF Plan
    <2>2. o.todo \in Seq(StageNames)
      BY <2>1, NamesLemma
    <2>3. Ordered(o)
      BY <1>20, <2>1 DEF Ordered, Fitting, Steps, Leaving, KeyKinds
    <2>4. Stage(o) = "halt" /\ o.todo # <<>>
      BY <2>1 DEF Stage
    <2>5. QED BY <1>20, <2>2, <2>3, <2>4 DEF PlanBegins, Leaving
  <1>21. CASE o.kind \in {"authenticated", "authenticated-start"}
    <2>1. o.todo = <<"secrets", "startIf">>
      BY <1>21 DEF Plan
    <2>2. o.todo \in Seq(StageNames)
      BY <2>1, NamesLemma
    <2>3. Ordered(o)
      BY <1>21, <2>1 DEF Ordered, Fitting, Steps, Leaving, KeyKinds
    <2>4. Stage(o) = "secrets" /\ o.todo # <<>>
      BY <2>1 DEF Stage
    <2>5. QED BY <1>21, <2>2, <2>3, <2>4 DEF PlanBegins, Leaving
  <1>22. CASE o.kind = "import-keys"
    <2>1. o.todo = <<"choose", "confirm", "choose", "keys">>
      BY <1>22 DEF Plan
    <2>2. o.todo \in Seq(StageNames)
      BY <2>1, NamesLemma
    <2>3. Ordered(o)
      <3>1. /\ Len(o.todo) = 4
            /\ o.todo[1] = "choose"
            /\ o.todo[2] = "confirm"
            /\ o.todo[3] = "choose"
            /\ o.todo[4] = "keys"
        BY <2>1
      <3>2. \A i \in 1..Len(o.todo) : i = 1 \/ i = 2 \/ i = 3 \/ i = 4
        BY <3>1
      <3>3. QED
        BY <1>22, <2>1, <3>1, <3>2 DEF Ordered, Fitting, Steps, Leaving, KeyKinds
    <2>4. Stage(o) = "choose" /\ o.todo # <<>>
      BY <2>1 DEF Stage
    <2>5. QED BY <1>22, <2>2, <2>3, <2>4 DEF PlanBegins, Leaving
  <1>23. CASE o.kind = "export-keys"
    <2>1. o.todo = <<"choose">>
      BY <1>23 DEF Plan
    <2>2. o.todo \in Seq(StageNames)
      BY <2>1, NamesLemma
    <2>3. Ordered(o)
      <3>1. /\ Len(o.todo) = 1
            /\ o.todo[1] = "choose"
        BY <2>1
      <3>2. \A i \in 1..Len(o.todo) : i = 1
        BY <3>1
      <3>3. QED
        BY <1>23, <2>1, <3>1, <3>2 DEF Ordered, Fitting, Steps, Leaving, KeyKinds
    <2>4. Stage(o) = "choose" /\ o.todo # <<>>
      BY <2>1 DEF Stage
    <2>5. QED BY <1>23, <2>2, <2>3, <2>4 DEF PlanBegins, Leaving
  <1>24. QED
    BY <1>1, <1>2, <1>3, <1>4, <1>5, <1>6, <1>7, <1>8, <1>9, <1>10, <1>11, <1>12,
       <1>13, <1>14, <1>15, <1>16, <1>17, <1>18, <1>19, <1>20, <1>21, <1>22, <1>23
    DEF Kinds, Actions, Switching, KeyKinds

-----------------------------------------------------------------------------
(* The invariant.                                                          *)

Apps == [profile : Profiles, locked : BOOLEAN, requested : BOOLEAN,
         desired : BOOLEAN, rejected : BOOLEAN, down : BOOLEAN]
Logins == [cookie : Ids, status : {"idle", "pending", "success"},
           owner : BOOLEAN, window : BOOLEAN, jar : Ids, unclean : BOOLEAN,
           reset : {"none", "current", "unsaved", "stale"}, again : BOOLEAN,
           pending : BOOLEAN]
Proxies == [gate : {"open", "shut", "closed"}, of : Ids, start : Ids,
            stop : BOOLEAN, shown : {"started", "starting", "other"},
            ignored : BOOLEAN]

\* A login window, its partition and the cookie belong to the profile; while
\* a reset is at work there is no cookie.
LoginSound(a, l) ==
  /\ l \in Logins
  /\ l.window => l.owner /\ l.cookie = None
  /\ l.status = "success" <=> l.cookie # None
  /\ l.pending => l.cookie # None
  /\ l.again => l.reset = "stale"
  /\ l.owner => l.reset = "none"
  /\ l.cookie # None => l.reset = "none"
  /\ l.jar \in {None, a.profile}
  /\ l.cookie \in {None, a.profile}

\* So does the proxy; one that is shown as started serves or is being stopped.
ProxySound(a, p) ==
  /\ p \in Proxies
  /\ p.gate = "open" => p.of = a.profile
  /\ p.start \in {None, a.profile}
  /\ p.shown = "started" => p.gate = "open" \/ p.stop

\* An operation that will stop the proxy before anything else happens to it.
Stopping(o) ==
  o # None /\ o.kind \in Halting /\ o.at = "go" /\ Stage(o) = "halt" /\ Valid(o)

\* The operation follows its plan; only an operation that stops the proxy at
\* once waits for the one it has aborted.
OpSound(o) ==
  /\ o \in Operations /\ Ordered(o)
  /\ o.at = "wait" => Stage(o) \notin {"done", "select", "reload", "window"}
  /\ o.at = "go" => Stage(o) \notin {"preflight", "listen", "lock"}
  /\ o.behind => Stopping(o) /\ o.kind # "stop"
  /\ o.kind \in {"auth-revoked", "prepare-exit"} => ~o.confirmed

\* Where the proxy has been stopped and not yet been started again, and where
\* nothing of the last login is left.
Halted(o) ==
  \/ WaitsAt(o, {"halt"})
  \/ Stage(o) \in {"reset", "revoke", "select", "reload", "leave"}
  \/ Stage(o) = "await" /\ o.kind \in Leaving
Clean(l) == l.cookie = None /\ ~l.unclean /\ l.jar = None /\ l.reset = "none"
Placed(l, p, o) ==
  /\ Halted(o) => p.gate # "open" /\ p.start = None
  /\ Stage(o) \in {"select", "reload"} => Clean(l)
  /\ Stage(o) = "window" => l.cookie = None

\* The proxy serves, or is started, only if that is wanted and allowed, or if
\* it is about to be stopped; a stop and a start are awaited by the operation
\* that has called them, or by the one that took its place to stop once more.
Good(a, l) == a.desired /\ ~a.locked /\ l.cookie # None
Wanted(a, l, p, o) ==
  /\ a.requested => a.locked
  /\ p.gate = "open" => a.desired \/ a.requested \/ Stopping(o)
  /\ p.gate = "open" => p.ignored \/ Good(a, l) \/ Stopping(o)
  /\ p.start # None =>
       (p.ignored \/ Good(a, l)) /\ o # None /\ WaitsAt(o, {"listen"})
  /\ p.stop => Stopping(o) \/ (o # None /\ WaitsAt(o, {"halt", "lock", "keys"}))

\* A change of the keys that is under way has found a store that is not
\* locked, and its target says whether the proxy was wanted.
KeysAllowed(a, o) ==
  o.kind \in KeyKinds =>
    /\ o.target # None => a.desired \/ a.locked
    /\ o.authOk /\ (o.at = "wait" \/ o.todo # Plan(o.kind, o.target)) => ~a.locked

\* What an operation that goes on to a start has made sure of.
OpWanted(a, p, o) ==
  /\ Stage(o) = "start" => a.desired \/ o.kind = "start"
  /\ Stage(o) \in {"preflight", "listen"} => a.desired
  /\ WaitsAt(o, {"halt"}) /\ o.kind = "restart" => a.desired
  /\ o.authOk /\ Stage(o) \in {"preflight", "listen", "keys"} => ~a.locked
  /\ KeysAllowed(a, o)

Together(a, l, p, o, k) ==
  /\ a \in Apps /\ k \in {None, "asks", "outdated"}
  /\ LoginSound(a, l) /\ ProxySound(a, p) /\ Wanted(a, l, p, o)
  /\ o # None =>
       /\ OpSound(o) /\ Placed(l, p, o) /\ OpWanted(a, p, o)
       /\ k # None => o.kind \in Resumable

Inv == Together(app, login, proxy, op, ask) /\ drain \in BOOLEAN /\ LoginNotForgotten

-----------------------------------------------------------------------------
(* The end of an operation.                                                *)

\* What must hold where an operation fails.
Failing(a, l, p, o) ==
  /\ a \in Apps /\ LoginSound(a, l) /\ ProxySound(a, p)
  /\ a.requested => a.locked
  /\ p.start = None /\ ~p.stop
  /\ p.gate = "open" => a.desired \/ a.requested
  /\ p.gate = "open" =>
       \/ p.ignored \/ Good(a, l)
       \/ a.locked /\ ~a.requested /\ Valid(o)

LEMMA FailsLemma ==
  ASSUME NEW a, NEW l, NEW p, op # None, OpSound(op),
         ask \in {None, "asks", "outdated"}, ask # None => op.kind \in Resumable,
         ~op.behind, drain \in BOOLEAN, Failing(a, l, p, op), Fails(a, l, p)
  PROVE  Inv'
PROOF
  <1>1. ask' = ask
    BY DEF Fails
  <1>2. CASE /\ a.locked => a.requested
             /\ app' = a /\ login' = l /\ proxy' = p
             /\ Ends
    <2>1. op' = None /\ drain' = TRUE
      BY <1>2 DEF Ends
    <2>2. Wanted(a, l, p, None)
      BY <1>2 DEF Failing, Wanted, Good
    <2>3. QED
      BY <1>1, <1>2, <2>1, <2>2
      DEF Failing, Inv, Together, LoginNotForgotten
  <1>3. CASE /\ a.locked /\ ~a.requested
             /\ app' = [a EXCEPT !.requested = TRUE, !.desired = FALSE]
             /\ login' = Deactivated(l)
             /\ IF Valid(op)
                THEN /\ proxy' = StopCalled(p)
                     /\ op' = [op EXCEPT !.todo = <<"lock">>, !.at = "wait",
                                         !.authOk = FALSE]
                     /\ UNCHANGED drain
                ELSE proxy' = p /\ Ends
    <2>1. /\ app' \in Apps /\ app'.profile = a.profile /\ app'.locked
          /\ app'.requested /\ ~app'.desired
      BY <1>3 DEF Failing, Apps
    <2>2. LoginSound(app', login') /\ ~login'.pending /\ login'.cookie = None
      BY <1>3, <2>1 DEF Failing, LoginSound, Deactivated, Invalidated, Logins, Ids
    <2>3. CASE Valid(op)
      <3> DEFINE c == [op EXCEPT !.todo = <<"lock">>, !.at = "wait",
                             !.authOk = FALSE]
      <3>1. op' = c /\ proxy' = StopCalled(p) /\ drain' = drain
        BY <1>3, <2>3
      <3>2. c \in Operations /\ Ordered(c) /\ Stage(c) = "lock"
        BY LockLemma DEF OpSound
      <3>3. /\ c.at = "wait" /\ c.kind = op.kind /\ c.behind = op.behind
            /\ c.confirmed = op.confirmed /\ ~c.authOk
        BY DEF OpSound, Operations
      <3>4. ProxySound(app', proxy') /\ proxy'.gate # "open" /\ proxy'.start = None
        BY <2>1, <3>1 DEF Failing, ProxySound, StopCalled, Proxies, Ids
      <3>5. op' # None
        BY <3>1, <3>2, NoneAssumption
      <3>6. OpSound(op') /\ Placed(login', proxy', op') /\ OpWanted(app', proxy', op')
        BY <2>1, <3>1, <3>2, <3>3
        DEF OpSound, Placed, OpWanted, KeysAllowed, Halted, WaitsAt
      <3>7. Wanted(app', login', proxy', op')
        BY <2>1, <3>1, <3>2, <3>3, <3>4, <3>5 DEF Wanted, WaitsAt
      <3>8. QED
        BY <1>1, <2>1, <2>2, <3>1, <3>3, <3>4, <3>5, <3>6, <3>7
        DEF Inv, Together, LoginNotForgotten
    <2>4. CASE ~Valid(op)
      <3>1. op' = None /\ drain' = TRUE /\ proxy' = p
        BY <1>3, <2>4 DEF Ends
      <3>2. Wanted(app', login', p, None)
        BY <1>3, <2>1, <2>4 DEF Failing, Wanted, Good
      <3>3. ProxySound(app', p)
        BY <2>1 DEF Failing, ProxySound
      <3>4. QED
        BY <1>1, <2>1, <2>2, <3>1, <3>2, <3>3
        DEF Inv, Together, LoginNotForgotten
    <2>5. QED BY <2>3, <2>4
  <1>4. QED BY <1>2, <1>3 DEF Fails

-----------------------------------------------------------------------------
(* The calls of the login and the proxy controller.                        *)

LEMMA DeactivatedLemma ==
  ASSUME NEW a, NEW l, LoginSound(a, l)
  PROVE  /\ LoginSound(a, Invalidated(l)) /\ LoginSound(a, Deactivated(l))
         /\ ~Invalidated(l).pending /\ ~Deactivated(l).pending
         /\ Invalidated(l).cookie = None /\ Deactivated(l).cookie = None
         /\ ~Invalidated(l).owner
         /\ Deactivated(l).reset = IF l.reset = "none" THEN "none" ELSE "stale"
         /\ Deactivated(l).jar = l.jar
  BY DEF LoginSound, Logins, Ids, Deactivated, Invalidated

LEMMA RevokeLemma ==
  ASSUME NEW a, NEW l, LoginSound(a, l), NEW saved \in BOOLEAN
  PROVE  /\ LoginSound(a, ResetCalled(l)) /\ LoginSound(a, RevokeCalled(l, saved))
         /\ ~RevokeCalled(l, saved).pending
         /\ RevokeCalled(l, saved).cookie = None
         /\ ResetCalled(l).pending => l.pending
PROOF
  <1> DEFINE d == Deactivated(l)
  <1>1. /\ LoginSound(a, d) /\ ~d.pending /\ d.cookie = None
        /\ d.reset = IF l.reset = "none" THEN "none" ELSE "stale"
    BY DeactivatedLemma
  <1>2. /\ ~d.owner /\ ~d.window /\ d.status = "idle" /\ d.jar = l.jar
        /\ d.again = l.again /\ d \in Logins /\ l.jar \in {None, a.profile}
    BY <1>1 DEF LoginSound, Deactivated, Invalidated, Logins
  <1>3. l.again => l.reset = "stale"
    BY DEF LoginSound
  <1> HIDE DEF d
  <1>4. ASSUME NEW reset \in {"current", "unsaved"}, l.reset = "none"
        PROVE  LoginSound(a, [d EXCEPT !.reset = reset])
    BY <1>1, <1>2, <1>3, <1>4 DEF LoginSound, Logins
  <1>8. ASSUME l.reset # "none"
        PROVE  LoginSound(a, [d EXCEPT !.again = TRUE])
    BY <1>1, <1>2, <1>8 DEF LoginSound, Logins
  <1>5. ~RevokeCalled(l, saved).pending /\ RevokeCalled(l, saved).cookie = None
    BY <1>1, <1>2 DEF RevokeCalled, d, Logins
  <1>6. ResetCalled(l).pending => l.pending
    BY <1>1, <1>2 DEF ResetCalled, d, Logins
  <1>7. QED BY <1>4, <1>5, <1>6, <1>8 DEF ResetCalled, RevokeCalled, d

LEMMA ProfileSetLemma ==
  ASSUME NEW a, NEW b, NEW l, LoginSound(a, l), Clean(l),
         NEW cookie \in {None, b.profile}, b.profile \in Profiles
  PROVE  LoginSound(b, ProfileSet(l, cookie)) /\ ~ProfileSet(l, cookie).pending
  BY NoneAssumption DEF LoginSound, Clean, Logins, Ids, ProfileSet, Invalidated

LEMMA CallsLemma ==
  ASSUME NEW a, NEW p, ProxySound(a, p)
  PROVE  /\ ProxySound(a, StopCalled(p)) /\ ProxySound(a, Cancelled(p))
         /\ StopCalled(p).gate # "open" /\ StopCalled(p).start = None
         /\ StopCalled(p).stop /\ StopCalled(p).shown = p.shown
         /\ Cancelled(p).start = None /\ Cancelled(p).gate = p.gate
         /\ Cancelled(p).stop = p.stop
  BY DEF ProxySound, Proxies, Ids, StopCalled, Cancelled

\* All but the profile may change in what the login and the proxy depend on.
LEMMA ProfileLemma ==
  ASSUME NEW a, NEW b, NEW l, NEW p, b.profile = a.profile
  PROVE  /\ LoginSound(a, l) => LoginSound(b, l)
         /\ ProxySound(a, p) => ProxySound(b, p)
  BY DEF LoginSound, ProxySound

-----------------------------------------------------------------------------
(* A new operation.                                                        *)

LEMMA LaunchedLemma ==
  ASSUME NEW kind \in Kinds, NEW target \in Ids, NEW behind \in BOOLEAN,
         kind = "activate-profile" => target # None,
         behind => kind \in {"auth-revoked", "prepare-exit"}
  PROVE  LET n == Launched(kind, target, behind)
         IN  /\ OpSound(n) /\ PlanBegins(kind, Stage(n)) /\ n # None
             /\ n.kind = kind /\ n.at = "go" /\ ~n.confirmed /\ n.behind = behind
             /\ n.target = target /\ n.todo = Plan(kind, target)
             /\ kind \in {"auth-revoked", "prepare-exit"} => Stopping(n)
PROOF
  <1> DEFINE n == Launched(kind, target, behind)
  <1>1. /\ n.kind = kind /\ n.target = target /\ n.todo = Plan(kind, target)
        /\ n.at = "go" /\ n.confirmed = FALSE /\ n.draftOk = TRUE /\ n.authOk = TRUE
        /\ n.behind = behind
        /\ n = [kind |-> n.kind, target |-> n.target, todo |-> n.todo, at |-> n.at,
                confirmed |-> n.confirmed, draftOk |-> n.draftOk, authOk |-> n.authOk,
                behind |-> n.behind]
    BY DEF Launched
  <1> HIDE DEF n
  <1>2. /\ n.todo \in Seq(StageNames) /\ Ordered(n) /\ n.todo # <<>>
        /\ PlanBegins(kind, Stage(n))
    BY <1>1, PlanLemma DEF Ids
  <1>3. n \in Operations
    BY <1>1, <1>2 DEF Operations, Ids
  <1>4. n # None
    BY <1>3, NoneAssumption
  <1>5. kind \in {"auth-revoked", "prepare-exit"} => Stopping(n)
    BY <1>1, <1>2, <1>4 DEF Stopping, Halting, Valid, PlanBegins
  <1>6. OpSound(n)
    BY <1>1, <1>2, <1>3, <1>5 DEF OpSound, PlanBegins
  <1>7. QED BY <1>1, <1>2, <1>4, <1>5, <1>6 DEF n

\* One that begins where there is none.
LEMMA BeginsLemma ==
  ASSUME Inv, op = None, ask = None,
         NEW kind \in Kinds, NEW target \in Ids,
         kind = "activate-profile" => target # None,
         op' = Launched(kind, target, FALSE),
         UNCHANGED <<app, proxy, ask>>,
         LoginSound(app, login'), login'.cookie = login.cookie, drain' \in BOOLEAN,
         kind = "focus-login" => login.cookie = None,
         target # None => kind \notin KeyKinds \/ app.desired \/ app.locked
  PROVE  Inv'
PROOF
  <1>1. /\ OpSound(op') /\ PlanBegins(kind, Stage(op')) /\ op' # None
        /\ op'.kind = kind /\ op'.at = "go" /\ op'.todo = Plan(kind, target)
        /\ op'.target = target
    BY LaunchedLemma
  <1>2. Placed(login', proxy', op')
    BY <1>1 DEF Placed, Halted, WaitsAt, PlanBegins
  <1>3. OpWanted(app', proxy', op')
    <2>1. KeysAllowed(app', op')
      BY <1>1 DEF KeysAllowed
    <2>2. QED BY <1>1, <2>1 DEF OpWanted, WaitsAt, PlanBegins
  <1>4. Wanted(app', login', proxy', op')
    BY DEF Inv, Together, Wanted, Good, Stopping
  <1>5. QED
    BY <1>1, <1>2, <1>3, <1>4 DEF Inv, Together, LoginNotForgotten

\* One that takes the place of whatever there is, and stops the proxy.
LEMMA StopsLemma ==
  ASSUME app' \in Apps, LoginSound(app', login'), ProxySound(app', proxy'),
         app'.requested => app'.locked, proxy'.start = None,
         OpSound(op'), Stopping(op'), ask' = None, drain' \in BOOLEAN
  PROVE  Inv'
PROOF
  <1>1. op' # None /\ op'.at = "go" /\ Stage(op') = "halt"
    BY DEF Stopping
  <1>2. Placed(login', proxy', op') /\ OpWanted(app', proxy', op')
    BY <1>1 DEF Placed, OpWanted, Halted, WaitsAt, KeysAllowed, Stopping, Halting, KeyKinds
  <1>3. Wanted(app', login', proxy', op')
    BY DEF Wanted
  <1>4. QED
    BY <1>1, <1>2, <1>3 DEF Inv, Together, LoginNotForgotten

\* Only such a one waits for what it has aborted.
LEMMA LingersLemma ==
  ASSUME Inv
  PROVE  /\ Lingers \in BOOLEAN
         /\ op # None /\ op.kind \in Resumable => ~Lingers
PROOF
  <1>1. CASE op = None
    BY <1>1 DEF Lingers
  <1>2. CASE op # None
    <2>1. OpSound(op) /\ op \in Operations /\ op.behind \in BOOLEAN
      BY <1>2 DEF Inv, Together, OpSound, Operations
    <2>2. op.behind => op.kind \notin Resumable
      BY <2>1 DEF OpSound, Stopping, Halting, Resumable
    <2>3. op.at = "wait" => op.todo # <<>> /\ Stage(op) = Head(op.todo)
      BY <2>1 DEF OpSound, Stage
    <2>4. op.at = "wait" /\ Head(op.todo) = "keys" => op.kind \in KeyKinds
      <3>1. op.todo \in Seq(StageNames)
        BY <2>1 DEF Operations
      <3>2. op.at = "wait" => 1 \in 1..Len(op.todo) /\ Head(op.todo) = op.todo[1]
        BY <2>3, <3>1
      <3>3. op.at = "wait" => Fitting(op, 1)
        BY <2>1, <3>2 DEF OpSound, Ordered
      <3>4. QED BY <3>2, <3>3 DEF Fitting
    <2>5. QED BY <1>2, <2>1, <2>2, <2>4 DEF Lingers, Resumable, KeyKinds
  <1>3. QED BY <1>1, <1>2

-----------------------------------------------------------------------------
(* The operation at work.                                                  *)

\* What its stage says of it.
LEMMA StageLemma ==
  ASSUME NEW o, OpSound(o)
  PROVE  /\ o \in Operations /\ o # None
         /\ o.todo # <<>> => Stage(o) = Head(o.todo)
         /\ Stage(o) # "done" <=> o.todo # <<>>
         /\ Stage(o) = "select" => o.target # None
         /\ Stage(o) = "leave" => o.kind \in Leaving
         /\ Stage(o) = "write" => o.kind \notin Leaving
         /\ Stage(o) = "keys" => o.kind \in KeyKinds
         /\ o.kind \in KeyKinds =>
              Stage(o) \in {"choose", "confirm", "keys", "lock", "done"}
         /\ Stage(o) = "confirm" => o.kind \notin {"auth-revoked", "prepare-exit"}
PROOF
  <1>1. o \in Operations /\ o # None /\ o.todo \in Seq(StageNames) /\ Ordered(o)
    BY NoneAssumption DEF OpSound, Operations
  <1>2. CASE o.todo = <<>>
    BY <1>1, <1>2 DEF Stage
  <1>3. CASE o.todo # <<>>
    <2>1. Stage(o) = Head(o.todo) /\ Head(o.todo) \in StageNames
      BY <1>1, <1>3 DEF Stage
    <2>2. 1 \in 1..Len(o.todo) /\ Head(o.todo) = o.todo[1]
      BY <1>1, <1>3
    <2>3. Fitting(o, 1)
      BY <1>1, <2>2 DEF Ordered
    <2>4. Stage(o) # "done"
      BY <2>1 DEF StageNames
    <2>5. QED BY <1>1, <1>3, <2>1, <2>2, <2>3, <2>4 DEF Fitting
  <1>4. QED BY <1>2, <1>3

\* What has the same stages is as sound.
LEMMA SameLemma ==
  ASSUME NEW o, OpSound(o), NEW n \in Operations,
         n.todo = o.todo, n.kind = o.kind, n.target = o.target,
         n.at = "wait" => Stage(o) \notin {"done", "select", "reload", "window"},
         n.at = "go" => o.at = "go",
         n.behind => Stopping(n) /\ n.kind # "stop",
         o.kind \in {"auth-revoked", "prepare-exit"} => ~n.confirmed
  PROVE  OpSound(n) /\ Stage(n) = Stage(o)
PROOF
  <1>1. Ordered(n) /\ Stage(n) = Stage(o)
    BY SameStages DEF OpSound
  <1>2. QED BY <1>1 DEF OpSound

\* Where the next stage comes from.
LEMMA NextLemma ==
  ASSUME NEW o, OpSound(o), Stage(o) # "done",
         NEW n \in Operations, n.todo = Tail(o.todo),
         n.kind = o.kind, n.target = o.target, n.at = "go", ~n.behind,
         o.kind \in {"auth-revoked", "prepare-exit"} => ~n.confirmed
  PROVE  /\ OpSound(n)
         /\ Halted(n) => \/ Stage(o) \in {"halt", "reset"}
                         \/ Stage(o) = "await" /\ o.kind \in Leaving
         /\ Stage(n) \in {"select", "reload"} => Stage(o) = "reset"
         /\ Stage(n) = "window" => Stage(o) = "revoke"
         /\ Stage(n) = "start" => Stage(o) = "halt" /\ o.kind = "restart"
         /\ Stage(n) = "keys" => Stage(o) = "choose" /\ o.kind \in KeyKinds
         /\ Stage(n) \notin {"preflight", "listen", "lock"}
PROOF
  <1> DEFINE c == Continues(o)
  <1>1. o \in Operations /\ o # None /\ Ordered(o) /\ o.todo # <<>>
    BY StageLemma DEF OpSound
  <1>2. /\ c \in Operations /\ Ordered(c)
        /\ c = [o EXCEPT !.todo = Tail(o.todo), !.at = "go"]
        /\ Stage(c) = "done" \/ <<Stage(o), Stage(c)>> \in Steps
        /\ Stage(c) = "start" => o.kind = "restart"
    BY <1>1, ContinuesLemma
  <1>3. c.todo = n.todo /\ c.kind = n.kind /\ c.target = n.target
    BY <1>1, <1>2 DEF Operations
  <1> HIDE DEF c
  <1>4. Ordered(n) /\ Stage(n) = Stage(c)
    BY <1>2, <1>3, SameStages
  <1>5. /\ Stage(n) \notin {"preflight", "listen", "lock"}
        /\ Stage(n) \in {"select", "reload"} => Stage(o) = "reset"
        /\ Stage(n) = "window" => Stage(o) = "revoke"
        /\ Stage(n) = "start" => Stage(o) = "halt" /\ o.kind = "restart"
        /\ Stage(n) \in {"reset", "revoke"} => Stage(o) = "halt"
        /\ Stage(n) = "keys" => Stage(o) = "choose"
        /\ Stage(n) = "leave" => Stage(o) = "await"
        /\ Stage(n) = "await" => Stage(o) \in {"halt", "write"}
    BY <1>2, <1>4 DEF Steps
  <1>6. OpSound(n)
    BY <1>4, <1>5 DEF OpSound
  <1>7. QED
    BY <1>5, <1>6, StageLemma DEF Halted, WaitsAt

\* What a change of the keys takes with it.
KeysGoOn ==
  op.kind \in KeyKinds =>
    /\ op.target # None => app'.desired \/ app'.locked
    /\ op'.authOk => ~app'.locked

\* The operation goes on to its next stage.
LEMMA GoesOn ==
  ASSUME op # None, OpSound(op), Stage(op) # "done",
         op' \in Operations, op'.todo = Tail(op.todo),
         op'.kind = op.kind, op'.target = op.target, op'.at = "go", ~op'.behind,
         op.kind \in {"auth-revoked", "prepare-exit"} => ~op'.confirmed,
         app' \in Apps, LoginSound(app', login'), ProxySound(app', proxy'),
         app'.requested => app'.locked, proxy'.start = None, ~proxy'.stop,
         proxy'.gate = "open" => app'.desired \/ app'.requested,
         proxy'.gate = "open" => proxy'.ignored \/ Good(app', login'),
         ask' \in {None, "asks", "outdated"}, ask' # None => op.kind \in Resumable,
         drain' \in BOOLEAN,
         Stage(op) \in {"halt", "reset"} => proxy'.gate # "open",
         Stage(op) = "await" /\ op.kind \in Leaving => proxy'.gate # "open",
         Stage(op) = "reset" => Clean(login'),
         Stage(op) = "revoke" => login'.cookie = None,
         Stage(op) = "halt" /\ op.kind = "restart" => app'.desired,
         Stage(op) \in {"choose", "confirm", "keys", "lock"} => KeysGoOn
  PROVE  Inv'
PROOF
  <1>1. /\ OpSound(op')
        /\ Halted(op') => \/ Stage(op) \in {"halt", "reset"}
                          \/ Stage(op) = "await" /\ op.kind \in Leaving
        /\ Stage(op') \in {"select", "reload"} => Stage(op) = "reset"
        /\ Stage(op') = "window" => Stage(op) = "revoke"
        /\ Stage(op') = "start" => Stage(op) = "halt" /\ op.kind = "restart"
        /\ Stage(op') = "keys" => Stage(op) = "choose" /\ op.kind \in KeyKinds
        /\ Stage(op') \notin {"preflight", "listen", "lock"}
    BY NextLemma
  <1>2. op' # None
    BY <1>1, StageLemma
  <1>3. Placed(login', proxy', op')
    BY <1>1 DEF Placed
  <1>4. OpWanted(app', proxy', op')
    <2>1. KeysAllowed(app', op')
      BY StageLemma DEF KeysAllowed, KeysGoOn
    <2>2. op'.authOk /\ Stage(op') = "keys" => ~app'.locked
      BY <1>1 DEF KeysGoOn
    <2>3. QED BY <1>1, <2>1, <2>2 DEF OpWanted, WaitsAt
  <1>5. Wanted(app', login', proxy', op')
    BY DEF Wanted
  <1>6. QED
    BY <1>1, <1>2, <1>3, <1>4, <1>5 DEF Inv, Together, LoginNotForgotten

\* The stage at work begins to wait.
LEMMA WaitsNow ==
  ASSUME op # None, OpSound(op), ~op.behind,
         Stage(op) \notin {"done", "select", "reload", "window", "listen", "preflight"},
         op' \in Operations, op'.todo = op.todo, op'.kind = op.kind,
         op'.target = op.target, op'.at = "wait", ~op'.behind,
         op.kind \in {"auth-revoked", "prepare-exit"} => ~op'.confirmed,
         app' \in Apps, LoginSound(app', login'), ProxySound(app', proxy'),
         app'.requested => app'.locked, proxy'.start = None,
         proxy'.stop => Stage(op) \in {"halt", "lock", "keys"},
         proxy'.gate = "open" => app'.desired \/ app'.requested,
         proxy'.gate = "open" => proxy'.ignored \/ Good(app', login'),
         ask' \in {None, "asks", "outdated"}, ask' # None => op.kind \in Resumable,
         drain' \in BOOLEAN,
         Stage(op) = "halt" \/ Halted(op) => proxy'.gate # "open",
         Stage(op) = "start" => app'.desired,
         Stage(op) = "halt" /\ op.kind = "restart" => app'.desired,
         Stage(op) \in {"choose", "confirm", "keys", "lock"} => KeysGoOn
  PROVE  Inv'
PROOF
  <1>1. Ordered(op') /\ Stage(op') = Stage(op) /\ op \in Operations
    BY SameStages DEF OpSound
  <1>2. OpSound(op') /\ op' # None
    BY <1>1, NoneAssumption DEF OpSound
  <1>3. Placed(login', proxy', op')
    BY <1>1 DEF Placed, Halted, WaitsAt
  <1>4. OpWanted(app', proxy', op')
    <2>1. KeysAllowed(app', op')
      BY StageLemma DEF KeysAllowed, KeysGoOn
    <2>2. op'.authOk /\ Stage(op') = "keys" => ~app'.locked
      BY <1>1, StageLemma DEF KeysGoOn
    <2>3. QED BY <1>1, <2>1, <2>2 DEF OpWanted, WaitsAt
  <1>5. Wanted(app', login', proxy', op')
    BY <1>1, <1>2 DEF Wanted, WaitsAt
  <1>6. QED
    BY <1>2, <1>3, <1>4, <1>5 DEF Inv, Together, LoginNotForgotten

\* The operation in the slot, and a time at which nothing is being started or
\* stopped, so that it may fail.
Present ==
  /\ op # None /\ op \in Operations /\ OpSound(op) /\ ~op.behind /\ op.todo # <<>>
  /\ Placed(login, proxy, op) /\ OpWanted(app, proxy, op)
  /\ ask \in {None, "asks", "outdated"} /\ (ask # None => op.kind \in Resumable)
  /\ app \in Apps /\ LoginSound(app, login) /\ ProxySound(app, proxy)
  /\ drain \in BOOLEAN
Calm ==
  /\ ~proxy.stop /\ proxy.start = None
  /\ app.requested => app.locked
  /\ proxy.gate = "open" => app.desired \/ app.requested
  /\ proxy.gate = "open" => proxy.ignored \/ Good(app, login)
  /\ Failing(app, login, proxy, op)

LEMMA CalmLemma ==
  ASSUME Inv, op # None, ~Stopping(op),
         ~WaitsAt(op, {"halt", "lock", "keys", "listen"})
  PROVE  Calm
  BY DEF Inv, Together, Wanted, Failing, WaitsAt, Calm

LEMMA GoLemma ==
  ASSUME Inv, NEW stage, Go(stage)
  PROVE  /\ Present /\ op.at = "go" /\ Stage(op) = stage /\ stage # "done"
         /\ Valid(op) /\ ~drain
         /\ stage # "halt" => Calm
PROOF
  <1>1. /\ op # None /\ op.at = "go" /\ ~op.behind /\ op.todo # <<>>
        /\ Head(op.todo) = stage /\ Valid(op) /\ ~drain
    BY DEF Go, Stepping
  <1>2. /\ OpSound(op) /\ Placed(login, proxy, op) /\ OpWanted(app, proxy, op)
        /\ ask \in {None, "asks", "outdated"} /\ (ask # None => op.kind \in Resumable)
        /\ app \in Apps /\ LoginSound(app, login) /\ ProxySound(app, proxy)
        /\ drain \in BOOLEAN
    BY <1>1 DEF Inv, Together
  <1>3. op \in Operations /\ Stage(op) = stage /\ stage # "done"
    BY <1>1, <1>2, StageLemma
  <1>4. stage # "halt" => Calm
    BY <1>1, <1>3, CalmLemma DEF Stopping, WaitsAt
  <1>5. QED BY <1>1, <1>2, <1>3, <1>4 DEF Present

LEMMA WaitsLemma ==
  ASSUME Inv, NEW stages, Waits(stages)
  PROVE  /\ Present /\ op.at = "wait" /\ Stage(op) \in stages
         /\ Stage(op) \notin {"done", "select", "reload", "window"}
         /\ Stage(op) \notin {"halt", "lock", "keys", "listen"} => Calm
PROOF
  <1>1. op # None /\ op.at = "wait" /\ Head(op.todo) \in stages
    BY DEF Waits
  <1>2. /\ OpSound(op) /\ Placed(login, proxy, op) /\ OpWanted(app, proxy, op)
        /\ ask \in {None, "asks", "outdated"} /\ (ask # None => op.kind \in Resumable)
        /\ app \in Apps /\ LoginSound(app, login) /\ ProxySound(app, proxy)
        /\ drain \in BOOLEAN
    BY <1>1 DEF Inv, Together
  <1>3. /\ op \in Operations /\ op.todo # <<>> /\ Stage(op) = Head(op.todo)
        /\ Stage(op) \notin {"done", "select", "reload", "window"}
    BY <1>1, <1>2, StageLemma DEF OpSound
  <1>4. ~op.behind /\ ~Stopping(op)
    BY <1>1, <1>2 DEF OpSound, Stopping
  <1>5. Stage(op) \notin {"halt", "lock", "keys", "listen"} => Calm
    BY <1>1, <1>4, CalmLemma DEF WaitsAt
  <1>6. QED BY <1>1, <1>2, <1>3, <1>4, <1>5 DEF Present

\* It fails with what it finds.
LEMMA FailsNow ==
  ASSUME Present, NEW a, NEW l, NEW p, Failing(a, l, p, op), Fails(a, l, p)
  PROVE  Inv'
  BY FailsLemma DEF Present

-----------------------------------------------------------------------------
(* The stages.                                                             *)

\* The operation is given up or done, where nothing is started or stopped.
LEMMA EndsLemma ==
  ASSUME Ends, UNCHANGED ask,
         ask \in {None, "asks", "outdated"},
         app' \in Apps, LoginSound(app', login'), ProxySound(app', proxy'),
         app'.requested => app'.locked, proxy'.start = None, ~proxy'.stop,
         proxy'.gate = "open" => app'.desired \/ app'.requested,
         proxy'.gate = "open" => proxy'.ignored \/ Good(app', login')
  PROVE  Inv'
  BY DEF Ends, Inv, Together, Wanted, LoginNotForgotten

LEMMA EndingStep ==
  ASSUME Inv, Finish \/ Rejected \/ Refused
  PROVE  Inv'
PROOF
  <1>1. op # None /\ op.at = "go" /\ ~op.behind /\ drain = FALSE
    BY DEF Finish, Rejected, Refused, Stepping, Inv
  <1>2. /\ OpSound(op) /\ app \in Apps /\ LoginSound(app, login) /\ ProxySound(app, proxy)
        /\ ask \in {None, "asks", "outdated"} /\ (ask # None => op.kind \in Resumable)
    BY <1>1 DEF Inv, Together
  <1>3. ~Stopping(op)
    <2>1. CASE Finish
      BY <2>1 DEF Finish, Stopping, Stage
    <2>2. CASE Rejected
      BY <2>2 DEF Rejected, Stopping
    <2>3. CASE Refused
      BY <2>3 DEF Refused, Refuses, Tolerant, Stopping, Halting
    <2>4. QED BY <2>1, <2>2, <2>3
  <1>4. Calm
    BY <1>1, <1>3, CalmLemma DEF WaitsAt
  <1>5. CASE Finish
    BY <1>2, <1>4, <1>5, EndsLemma DEF Finish, Calm
  <1>6. CASE Rejected \/ Refused
    <2>1. Fails(app, login, proxy)
      BY <1>6 DEF Rejected, Refused
    <2>2. QED BY <1>1, <1>2, <1>4, <2>1, FailsLemma DEF Calm
  <1>7. QED BY <1>5, <1>6

\* A change of the keys that is under way, or that was not refused at once.
KeysFree ==
  op.kind \in KeyKinds =>
    /\ op.target # None => app.desired \/ app.locked
    /\ op.authOk => ~app.locked

LEMMA KeysFreeLemma ==
  ASSUME Present, NEW stage, Go(stage)
  PROVE  KeysFree
PROOF
  <1>1. KeysAllowed(app, op) /\ ~Refuses
    BY DEF Present, OpWanted, Go
  <1>2. QED
    BY <1>1 DEF KeysAllowed, KeysFree, Refuses, Tolerant, KeyKinds

LEMMA ConfirmStep ==
  ASSUME Inv, Confirm
  PROVE  Inv'
PROOF
  <1>1. Go("confirm")
    BY DEF Confirm
  <1>2. Present /\ Calm /\ op.at = "go" /\ Stage(op) = "confirm"
    BY <1>1, GoLemma
  <1>3. op.kind \notin {"auth-revoked", "prepare-exit"}
    BY <1>2, StageLemma DEF Present
  <1>4. KeysFree
    BY <1>1, <1>2, KeysFreeLemma
  <1>5. UNCHANGED <<app, login, proxy, ask, drain>>
    BY DEF Confirm
  <1>6. CASE op' = [Awaits(op) EXCEPT !.draftOk = TRUE]
    <2>1. /\ op' \in Operations /\ op'.todo = op.todo /\ op'.kind = op.kind
          /\ op'.target = op.target /\ op'.at = "wait" /\ ~op'.behind
          /\ op'.authOk = op.authOk
      BY <1>2, <1>6 DEF Present, Awaits, Operations
    <2>2. QED
      BY <1>2, <1>3, <1>4, <1>5, <2>1, WaitsNow DEF Present, Calm, Placed, KeysFree, KeysGoOn
  <1>7. CASE op' = [Continues(op) EXCEPT !.draftOk = TRUE, !.confirmed = TRUE]
    <2>1. Continues(op) \in Operations
      BY <1>2, ContinuesLemma DEF Present, OpSound
    <2>2. /\ op' \in Operations /\ op'.todo = Tail(op.todo) /\ op'.kind = op.kind
          /\ op'.target = op.target /\ op'.at = "go" /\ ~op'.behind
          /\ op'.authOk = op.authOk
      BY <1>2, <1>7, <2>1 DEF Present, Continues, Operations
    <2>3. QED
      BY <1>2, <1>3, <1>4, <1>5, <2>2, GoesOn DEF Present, Calm, KeysFree, KeysGoOn
  <1>8. QED BY <1>6, <1>7 DEF Confirm

LEMMA ConfirmedStep ==
  ASSUME Inv, NEW accepted \in BOOLEAN, Confirmed(accepted)
  PROVE  Inv'
PROOF
  <1>1. Waits({"confirm"})
    BY DEF Confirmed
  <1>2. Present /\ Calm /\ op.at = "wait" /\ Stage(op) = "confirm"
    BY <1>1, WaitsLemma
  <1>3. CASE ~op.draftOk /\ Fails(app, login, proxy)
    BY <1>2, <1>3, FailsNow DEF Calm
  <1>4. CASE /\ op.draftOk /\ accepted
             /\ op' = [Continues(op) EXCEPT !.confirmed = TRUE]
             /\ UNCHANGED <<app, login, proxy, ask, drain>>
    <2>1. Continues(op) \in Operations
      BY <1>2, ContinuesLemma DEF Present, OpSound
    <2>2. /\ op' \in Operations /\ op'.todo = Tail(op.todo) /\ op'.kind = op.kind
          /\ op'.target = op.target /\ op'.at = "go" /\ ~op'.behind
          /\ op'.authOk = op.authOk
      BY <1>2, <1>4, <2>1 DEF Present, Continues, Operations
    <2>3. op.kind \notin {"auth-revoked", "prepare-exit"}
      BY <1>2, StageLemma DEF Present
    <2>4. KeysFree
      BY <1>2 DEF Present, OpWanted, KeysAllowed, KeysFree
    <2>5. QED
      BY <1>2, <1>4, <2>2, <2>3, <2>4, GoesOn DEF Present, Calm, KeysFree, KeysGoOn
  <1>5. CASE Ends /\ UNCHANGED <<app, login, proxy, ask>>
    BY <1>2, <1>5, EndsLemma DEF Present, Calm
  <1>6. QED BY <1>3, <1>4, <1>5 DEF Confirmed

LEMMA HaltStep ==
  ASSUME Inv, Halt
  PROVE  Inv'
PROOF
  <1>1. Go("halt")
    BY DEF Halt
  <1>2. Present /\ op.at = "go" /\ Stage(op) = "halt"
    BY <1>1, GoLemma
  <1>3. ASSUME Fails(app, login, proxy), op.kind \in {"restart", "login"}
        PROVE  Inv'
    <2>1. ~Stopping(op)
      BY <1>3 DEF Stopping, Halting
    <2>2. Calm
      BY <1>2, <2>1, CalmLemma DEF WaitsAt, Present
    <2>3. QED BY <1>2, <1>3, <2>2, FailsNow DEF Calm
  <1>4. ASSUME NEW detached \in BOOLEAN,
               op.kind = "restart" => Authenticated(op, login),
               app' = [app EXCEPT !.desired = (op.kind = "auth-revoked" /\ @)
                                                \/ op.kind \in {"restart", "login"}],
               login' = IF detached THEN Deactivated(login) ELSE NewEpoch(login),
               proxy' = StopCalled(proxy),
               op' = [Awaits(op) EXCEPT !.authOk = @ /\ ~detached],
               UNCHANGED <<ask, drain>>
        PROVE  Inv'
    <2>1. /\ app' \in Apps /\ app'.profile = app.profile
          /\ app'.locked = app.locked /\ app'.requested = app.requested
          /\ op.kind = "restart" => app'.desired
      BY <1>2, <1>4 DEF Present, Apps
    <2>2. LoginSound(app, NewEpoch(login))
      BY <1>2 DEF Present, LoginSound, NewEpoch, Logins
    <2>3. LoginSound(app', login')
      <3>1. LoginSound(app, login')
        BY <1>2, <1>4, <2>2, DeactivatedLemma DEF Present
      <3>2. QED BY <2>1, <3>1, ProfileLemma
    <2>4. /\ ProxySound(app', proxy') /\ proxy'.gate # "open" /\ proxy'.start = None
          /\ proxy'.stop
      <3>1. /\ ProxySound(app, proxy') /\ proxy'.gate # "open" /\ proxy'.start = None
            /\ proxy'.stop
        BY <1>2, <1>4, CallsLemma DEF Present
      <3>2. QED BY <2>1, <3>1, ProfileLemma
    <2>5. /\ op' \in Operations /\ op'.todo = op.todo /\ op'.kind = op.kind
          /\ op'.target = op.target /\ op'.at = "wait" /\ ~op'.behind
          /\ op'.confirmed = op.confirmed
      BY <1>2, <1>4 DEF Present, Awaits, Operations
    <2>6. app'.requested => app'.locked
      BY <2>1 DEF Inv, Together, Wanted
    <2>7. op.kind \in {"auth-revoked", "prepare-exit"} => ~op'.confirmed
      BY <1>2, <2>5 DEF Present, OpSound
    <2>8. QED
      BY <1>2, <1>4, <2>1, <2>3, <2>4, <2>5, <2>6, <2>7, WaitsNow DEF Present
  <1>5. QED
    BY <1>3, <1>4 DEF Halt

\* The operation stays as it is, and so does what it relies on.
LEMMA StaysLemma ==
  ASSUME Inv, UNCHANGED <<app, op, ask>>,
         LoginSound(app, login'), ProxySound(app, proxy'),
         Wanted(app, login', proxy', op),
         op # None => Placed(login', proxy', op),
         login'.pending => drain' \/ login.pending,
         drain' \in BOOLEAN, drain => drain'
  PROVE  Inv'
PROOF
  <1>1. op # None => OpWanted(app', proxy', op')
    BY DEF Inv, Together, OpWanted
  <1>2. LoginNotForgotten'
    BY DEF Inv, LoginNotForgotten
  <1>3. QED BY <1>1, <1>2 DEF Inv, Together

\* Before anything comes from outside, the operation waits, or it is about to
\* stop the proxy.
LEMMA QuietLemma ==
  ASSUME Inv, Quiet
  PROVE  /\ ~drain
         /\ op # None => /\ OpSound(op) /\ op \in Operations
                         /\ Stage(op) \notin {"done", "select", "reload", "window"}
                         /\ (op.at = "wait" /\ ~op.behind) \/ Stopping(op)
                         /\ Placed(login, proxy, op) /\ OpWanted(app, proxy, op)
  BY DEF Quiet, Inv, Together, OpSound, Stopping

LEMMA ProxyStopsStep ==
  ASSUME Inv, NEW ok \in BOOLEAN, ProxyStops(ok)
  PROVE  Inv'
PROOF
  <1> DEFINE p == [proxy EXCEPT !.stop = FALSE, !.shown = "other",
                                !.gate = IF ok THEN "closed" ELSE "shut"]
  <1>1. Quiet /\ proxy.stop /\ proxy \in Proxies /\ ProxySound(app, proxy)
    BY DEF ProxyStops, Inv, Together, ProxySound
  <1>2. /\ ProxySound(app, p) /\ p.start = proxy.start /\ ~p.stop
        /\ p.gate # "open" /\ p.ignored = proxy.ignored
    BY <1>1 DEF ProxySound, Proxies
  <1> HIDE DEF p
  <1>3. /\ op # None
        /\ Stopping(op) \/ WaitsAt(op, {"halt", "lock", "keys"})
        /\ app.requested => app.locked
        /\ proxy.start = None
    BY <1>1, QuietLemma DEF Inv, Together, Wanted, WaitsAt, Stopping
  <1>4. CASE Waits({"halt"}) /\ ~ok /\ Fails(app, login, p)
    <2>1. Present
      BY <1>4, WaitsLemma
    <2>2. Failing(app, login, p, op)
      BY <1>2, <1>3, <2>1 DEF Failing, Present
    <2>3. QED BY <1>4, <2>1, <2>2, FailsNow
  <1>5. CASE Waits({"lock"}) /\ proxy' = p /\ Ends /\ UNCHANGED <<app, login, ask>>
    <2>1. Present
      BY <1>5, WaitsLemma
    <2>2. QED BY <1>2, <1>3, <1>5, <2>1, EndsLemma DEF Present
  <1>6. CASE /\ Waits({"halt"}) /\ proxy' = p /\ op' = Continues(op)
             /\ UNCHANGED <<app, login, ask, drain>>
    <2>1. Present /\ op.at = "wait" /\ Stage(op) = "halt"
      BY <1>6, WaitsLemma
    <2>2. Continues(op) \in Operations
      BY <2>1, ContinuesLemma DEF Present, OpSound
    <2>3. /\ op' \in Operations /\ op'.todo = Tail(op.todo) /\ op'.kind = op.kind
          /\ op'.target = op.target /\ op'.at = "go" /\ ~op'.behind
          /\ op'.confirmed = op.confirmed
      BY <1>6, <2>1, <2>2 DEF Present, Continues, Operations
    <2>4. /\ op.kind = "restart" => app.desired
          /\ op.kind \in {"auth-revoked", "prepare-exit"} => ~op'.confirmed
      BY <2>1, <2>3 DEF Present, OpWanted, WaitsAt, OpSound
    <2>5. QED
      BY <1>2, <1>3, <1>6, <2>1, <2>3, <2>4, GoesOn DEF Present
  <1>7. CASE proxy' = p /\ op' = op /\ UNCHANGED <<app, login, ask, drain>>
    <2>1. Wanted(app, login', proxy', op)
      BY <1>2, <1>3, <1>7 DEF Wanted
    <2>2. Placed(login', proxy', op)
      BY <1>1, <1>2, <1>3, <1>7, QuietLemma DEF Placed
    <2>3. QED
      BY <1>2, <1>7, <2>1, <2>2, StaysLemma DEF Inv, Together
  <1>8. QED
    BY <1>4, <1>5, <1>6, <1>7 DEF ProxyStops, p

-----------------------------------------------------------------------------
(* The resets of the login.                                                *)

LEMMA ResetStep ==
  ASSUME Inv, Reset \/ Revoke
  PROVE  Inv'
PROOF
  <1>1. Go("reset") \/ Go("revoke")
    BY DEF Reset, Revoke
  <1>2. Present /\ Calm /\ op.at = "go" /\ Stage(op) \in {"reset", "revoke"}
    BY <1>1, GoLemma
  <1>3. proxy.gate # "open" /\ ProxySound(app, proxy)
    BY <1>2 DEF Present, Placed, Halted
  <1>4. op' = [Awaits(op) EXCEPT !.authOk = FALSE] /\ UNCHANGED <<proxy, ask, drain>>
    BY DEF Reset, Revoke
  <1>5. /\ op' \in Operations /\ op'.todo = op.todo /\ op'.kind = op.kind
        /\ op'.target = op.target /\ op'.at = "wait" /\ ~op'.behind
        /\ op'.confirmed = op.confirmed
    BY <1>2, <1>4 DEF Present, Awaits, Operations
  <1>6. op.kind \in {"auth-revoked", "prepare-exit"} => ~op'.confirmed
    BY <1>2, <1>5 DEF Present, OpSound
  <1>7. /\ app' \in Apps /\ app'.profile = app.profile
        /\ app'.requested => app'.locked
        /\ LoginSound(app, login')
    <2>1. CASE Reset
      BY <1>2, <2>1, RevokeLemma DEF Present, Calm, Reset
    <2>2. CASE Revoke
      <3>1. PICK r \in Removals : /\ login' = RevokeCalled(login, r.saved)
                                  /\ app' = [app EXCEPT !.locked = r.locked]
        BY <2>2 DEF Revoke
      <3>2. r.saved \in BOOLEAN /\ r.locked \in BOOLEAN /\ (app.locked => r.locked)
        BY DEF Removals
      <3>3. LoginSound(app, login')
        BY <1>2, <3>1, <3>2, RevokeLemma DEF Present
      <3>4. QED BY <1>2, <3>1, <3>2, <3>3 DEF Present, Calm, Apps
    <2>3. QED BY <2>1, <2>2
  <1>8. LoginSound(app', login') /\ ProxySound(app', proxy')
    BY <1>3, <1>4, <1>7, ProfileLemma
  <1>9. QED
    BY <1>2, <1>3, <1>4, <1>5, <1>6, <1>7, <1>8, WaitsNow DEF Present, Calm

\* A stage that is done or waits for nothing goes on.
LEMMA GoesStep ==
  ASSUME Present, Calm, op' = Continues(op), UNCHANGED <<app, proxy, ask>>,
         LoginSound(app, login'), login'.cookie = login.cookie, drain' \in BOOLEAN,
         Stage(op) \notin {"done", "halt", "confirm"},
         Stage(op) \in {"choose", "keys", "lock"} => KeysFree,
         Stage(op) = "reset" => Clean(login'),
         Stage(op) = "revoke" => login.cookie = None
  PROVE  Inv'
PROOF
  <1>1. Continues(op) \in Operations
    BY ContinuesLemma DEF Present, OpSound
  <1>2. /\ op' \in Operations /\ op'.todo = Tail(op.todo) /\ op'.kind = op.kind
        /\ op'.target = op.target /\ op'.at = "go" /\ ~op'.behind
        /\ op'.confirmed = op.confirmed /\ op'.authOk = op.authOk
    BY <1>1 DEF Present, Continues, Operations
  <1>3. /\ op.kind \in {"auth-revoked", "prepare-exit"} => ~op'.confirmed
        /\ Stage(op) = "reset" => proxy.gate # "open"
        /\ Stage(op) = "await" /\ op.kind \in Leaving => proxy.gate # "open"
    BY <1>2 DEF Present, OpSound, Placed, Halted
  <1>4. Good(app', login') <=> Good(app, login)
    BY DEF Good
  <1>5. Stage(op) \in {"choose", "confirm", "keys", "lock"} => KeysGoOn
    BY <1>2 DEF KeysFree, KeysGoOn
  <1>6. QED
    BY <1>1, <1>2, <1>3, <1>4, <1>5, GoesOn DEF Present, Calm

LEMMA AwaitRevokedStep ==
  ASSUME Inv, AwaitRevoked
  PROVE  Inv'
PROOF
  <1>1. Go("revoked")
    BY DEF AwaitRevoked
  <1>2. Present /\ Calm /\ op.at = "go" /\ Stage(op) = "revoked"
    BY <1>1, GoLemma
  <1>3. CASE op' = Awaits(op) /\ UNCHANGED <<app, login, proxy, ask, drain>>
    <2>1. /\ op' \in Operations /\ op'.todo = op.todo /\ op'.kind = op.kind
          /\ op'.target = op.target /\ op'.at = "wait" /\ ~op'.behind
          /\ op'.confirmed = op.confirmed
      BY <1>2, <1>3 DEF Present, Awaits, Operations
    <2>2. /\ op.kind \in {"auth-revoked", "prepare-exit"} => ~op'.confirmed
          /\ Halted(op) => proxy.gate # "open"
      BY <1>2, <2>1 DEF Present, OpSound, Placed
    <2>3. QED
      BY <1>2, <1>3, <2>1, <2>2, WaitsNow DEF Present, Calm
  <1>4. CASE Goes
    BY <1>2, <1>4, GoesStep DEF Goes, Present
  <1>5. CASE Fails(app, login, proxy)
    BY <1>2, <1>5, FailsNow DEF Calm
  <1>6. QED BY <1>3, <1>4, <1>5 DEF AwaitRevoked

\* A reset at work means that there is no cookie and no window.
LEMMA ResetLemma ==
  ASSUME Inv, login.reset # "none", NEW reset \in {"none"}, NEW jar \in {login.jar, None},
         NEW unclean \in BOOLEAN
  PROVE  /\ LoginSound(app, login) /\ login.cookie = None /\ ~login.pending
         /\ LET l == [login EXCEPT !.reset = reset, !.again = FALSE, !.unclean = unclean,
                                   !.jar = jar]
            IN LoginSound(app, l) /\ l.cookie = None /\ ~l.pending
  BY DEF Inv, Together, LoginSound, Logins, Ids

\* The login alone changes, and no operation waits for it.
LEMMA LoginStep ==
  ASSUME Inv, Quiet, UNCHANGED <<app, proxy, op, ask, drain>>,
         LoginSound(app, login'), login'.cookie = login.cookie,
         login'.pending => login.pending
  PROVE  Inv'
PROOF
  <1>1. Wanted(app, login', proxy', op)
    BY DEF Inv, Together, Wanted, Good
  <1>2. op # None => Placed(login', proxy', op)
    BY QuietLemma DEF Placed
  <1>3. QED BY <1>1, <1>2, StaysLemma DEF Inv, Together

LEMMA ResetDoneStep ==
  ASSUME Inv, ResetDone
  PROVE  Inv'
PROOF
  <1> DEFINE l == [login EXCEPT !.reset = "none", !.again = FALSE,
                                !.unclean = FALSE, !.jar = None]
  <1>1. login' = l /\ login.reset = "current" /\ UNCHANGED <<app, proxy, ask, drain>>
    BY DEF ResetDone
  <1>2. LoginSound(app, l) /\ l.cookie = None /\ ~l.pending /\ login.cookie = None
    BY <1>1, ResetLemma
  <1>3. Clean(l)
    BY <1>1, <1>2 DEF Clean, LoginSound, Inv, Together, Logins
  <1>4. CASE Waits(Resetting)
    <2>1. Present /\ Calm /\ Stage(op) \in Resetting
      BY <1>4, WaitsLemma DEF Resetting
    <2>2. op' = Continues(op)
      BY <1>4 DEF ResetDone
    <2>3. QED
      BY <1>1, <1>2, <1>3, <2>1, <2>2, GoesStep DEF Resetting, Present
  <1>5. CASE ~Waits(Resetting)
    BY <1>1, <1>2, <1>5, LoginStep DEF ResetDone
  <1>6. QED BY <1>4, <1>5

LEMMA ResetFailsStep ==
  ASSUME Inv, ResetFails
  PROVE  Inv'
PROOF
  <1>1. PICK jar \in {login.jar, None} :
          LET l == [login EXCEPT !.reset = "none", !.again = FALSE, !.jar = jar]
              after == [l EXCEPT !.unclean = login.reset = "current" \/ l.jar # None]
          IN IF Waits(Resetting) THEN Fails(app, after, proxy)
             ELSE login' = after /\ UNCHANGED <<app, proxy, op, ask, drain>>
    BY DEF ResetFails
  <1> DEFINE l == [login EXCEPT !.reset = "none", !.again = FALSE, !.jar = jar]
             after == [l EXCEPT !.unclean = login.reset = "current" \/ l.jar # None]
  <1>2. login \in Logins /\ login.reset # "none"
    BY DEF ResetFails, Inv, Together, LoginSound
  <1>3. after = [login EXCEPT !.reset = "none", !.again = FALSE,
                              !.unclean = login.reset = "current" \/ jar # None,
                              !.jar = jar]
    BY <1>2 DEF Logins
  <1>4. /\ LoginSound(app, after) /\ after.cookie = None /\ ~after.pending
        /\ login.cookie = None
    BY <1>2, <1>3, ResetLemma
  <1> HIDE DEF after
  <1>5. CASE Waits(Resetting) /\ Fails(app, after, proxy)
    <2>1. Present /\ Calm
      BY <1>5, WaitsLemma DEF Resetting
    <2>2. Failing(app, after, proxy, op)
      BY <1>4, <2>1 DEF Calm, Failing, Good
    <2>3. QED BY <1>5, <2>1, <2>2, FailsNow
  <1>6. CASE login' = after /\ UNCHANGED <<app, proxy, op, ask, drain>>
    BY <1>4, <1>6, LoginStep DEF ResetFails
  <1>7. QED BY <1>1, <1>5, <1>6 DEF after

LEMMA ResetVoidStep ==
  ASSUME Inv, ResetVoid
  PROVE  Inv'
PROOF
  <1>1. PICK jar \in {login.jar, None} :
          login' = [login EXCEPT !.reset = "none", !.jar = jar]
    BY DEF ResetVoid
  <1>2. login \in Logins /\ login.reset # "none" /\ ~login.again
    BY DEF ResetVoid, Inv, Together, LoginSound
  <1>3. login' = [login EXCEPT !.reset = "none", !.again = FALSE,
                               !.unclean = login.unclean, !.jar = jar]
    BY <1>1, <1>2 DEF Logins
  <1>4. LoginSound(app, login') /\ login'.cookie = None /\ ~login'.pending
        /\ login.cookie = None
    BY <1>2, <1>3, ResetLemma DEF Logins
  <1>5. CASE Waits(Resetting)
    <2>1. Present /\ Calm
      BY <1>5, WaitsLemma DEF Resetting
    <2>2. Good(app, login') <=> Good(app, login)
      BY <1>4 DEF Good
    <2>3. Ends /\ UNCHANGED <<app, proxy, ask>>
      BY <1>5 DEF ResetVoid
    <2>4. QED BY <1>4, <2>1, <2>2, <2>3, EndsLemma DEF Present, Calm
  <1>6. CASE ~Waits(Resetting)
    BY <1>4, <1>6, LoginStep DEF ResetVoid
  <1>7. QED BY <1>5, <1>6

LEMMA ResetAgainStep ==
  ASSUME Inv, ResetAgain
  PROVE  Inv'
PROOF
  <1>1. PICK r \in Removals :
          /\ login' = [RevokeCalled([login EXCEPT !.reset = "none"], r.saved)
                         EXCEPT !.again = FALSE]
          /\ app' = [app EXCEPT !.locked = r.locked]
    BY DEF ResetAgain
  <1>2. r.saved \in BOOLEAN /\ r.locked \in BOOLEAN /\ (app.locked => r.locked)
    BY DEF Removals
  <1>3. /\ Quiet /\ LoginSound(app, login) /\ login \in Logins /\ app \in Apps
        /\ login.cookie = None /\ UNCHANGED <<proxy, ask>>
        /\ ProxySound(app, proxy) /\ (app.requested => app.locked)
    BY DEF ResetAgain, Inv, Together, LoginSound, Wanted
  <1>4. /\ app' \in Apps /\ app'.profile = app.profile /\ app'.desired = app.desired
        /\ app'.requested = app.requested /\ (app'.requested => app'.locked)
        /\ app.locked => app'.locked
    BY <1>1, <1>2, <1>3 DEF Apps
  <1>5. LoginSound(app, login') /\ ~login'.pending /\ login'.cookie = None
    <2> DEFINE m == [login EXCEPT !.reset = "none", !.again = FALSE]
    <2>1. LoginSound(app, m)
      BY <1>3 DEF LoginSound, Logins
    <2>2. login' = RevokeCalled(m, r.saved)
      BY <1>1, <1>3 DEF RevokeCalled, Deactivated, Invalidated, Logins
    <2>3. QED BY <1>2, <2>1, <2>2, RevokeLemma
  <1>6. LoginSound(app', login') /\ ProxySound(app', proxy')
    BY <1>3, <1>4, <1>5, ProfileLemma
  <1>7. CASE Waits({"reset"}) /\ Ends
    <2>1. Present /\ Calm /\ Stage(op) = "reset"
      BY <1>7, WaitsLemma
    <2>2. proxy.gate # "open"
      BY <2>1 DEF Present, Placed, Halted
    <2>3. QED BY <1>3, <1>4, <1>6, <1>7, <2>1, <2>2, EndsLemma DEF Present, Calm
  <1>8. CASE /\ op' = IF op = None THEN None ELSE [op EXCEPT !.authOk = FALSE]
             /\ UNCHANGED drain
    <2>1. CASE op = None
      <3>1. Wanted(app', login', proxy', op')
        BY <1>3, <1>4, <1>5, <1>8, <2>1 DEF Inv, Together, Wanted, Good
      <3>2. QED
        BY <1>3, <1>4, <1>5, <1>6, <1>8, <2>1, <3>1
        DEF Inv, Together, LoginNotForgotten
    <2>2. CASE op # None
      <3>1. /\ OpSound(op) /\ op \in Operations /\ Placed(login, proxy, op)
            /\ Stage(op) \notin {"done", "select", "reload", "window"}
            /\ OpWanted(app, proxy, op)
        BY <1>3, <2>2, QuietLemma
      <3>2. /\ op' \in Operations /\ op'.todo = op.todo /\ op'.kind = op.kind
            /\ op'.target = op.target /\ op'.at = op.at /\ op'.behind = op.behind
            /\ op'.confirmed = op.confirmed /\ op'.draftOk = op.draftOk /\ ~op'.authOk
        BY <1>8, <2>2, <3>1 DEF Operations
      <3>3. Stage(op') = Stage(op) /\ op' # None
        BY <3>2, NoneAssumption DEF Stage
      <3>4. Stopping(op') <=> Stopping(op)
        BY <2>2, <3>2, <3>3 DEF Stopping, Valid
      <3>5. OpSound(op')
        BY <3>1, <3>2, <3>3, <3>4, SameLemma DEF OpSound
      <3>6. Placed(login', proxy', op') /\ OpWanted(app', proxy', op')
        <4>1. Placed(login', proxy', op')
          BY <1>3, <3>1, <3>2, <3>3 DEF Placed, Halted, WaitsAt
        <4>2. KeysAllowed(app', op')
          BY <1>4, <3>1, <3>2 DEF OpWanted, KeysAllowed
        <4>3. OpWanted(app', proxy', op')
          BY <1>3, <1>4, <3>1, <3>2, <3>3, <4>2 DEF OpWanted, WaitsAt
        <4>4. QED BY <4>1, <4>3
      <3>7. Wanted(app', login', proxy', op')
        BY <1>3, <1>4, <2>2, <3>2, <3>3, <3>4
        DEF Inv, Together, Wanted, Good, WaitsAt
      <3>8. QED
        BY <1>3, <1>4, <1>5, <1>6, <1>8, <2>2, <3>2, <3>3, <3>5, <3>6, <3>7
        DEF Inv, Together, LoginNotForgotten
    <2>3. QED BY <2>1, <2>2
  <1>9. QED BY <1>7, <1>8 DEF ResetAgain

LEMMA WindowStep ==
  ASSUME Inv, Window
  PROVE  Inv'
PROOF
  <1>1. Go("window")
    BY DEF Window
  <1>2. Present /\ Calm /\ op.at = "go" /\ Stage(op) = "window"
    BY <1>1, GoLemma
  <1>3. login.cookie = None /\ LoginSound(app, login)
    BY <1>2 DEF Present, Placed
  <1>4. LoginSound(app, login') /\ login'.cookie = None
    BY <1>3 DEF Window, Opened, LoginSound, Logins
  <1>5. /\ app' \in Apps /\ app'.profile = app.profile /\ app'.locked = app.locked
        /\ app'.requested = app.requested /\ (app.desired => app'.desired)
    BY <1>2 DEF Window, Present, Apps
  <1>6. Continues(op) \in Operations
    BY <1>2, ContinuesLemma DEF Present, OpSound
  <1>7. /\ op' \in Operations /\ op'.todo = Tail(op.todo) /\ op'.kind = op.kind
        /\ op'.target = op.target /\ op'.at = "go" /\ ~op'.behind
        /\ op'.confirmed = op.confirmed
    BY <1>2, <1>6 DEF Window, Present, Continues, Operations
  <1>8. /\ UNCHANGED <<proxy, ask, drain>>
        /\ op.kind \in {"auth-revoked", "prepare-exit"} => ~op'.confirmed
        /\ LoginSound(app', login') /\ ProxySound(app', proxy')
        /\ proxy.gate = "open" => proxy.ignored
    BY <1>2, <1>3, <1>4, <1>5, <1>7, ProfileLemma
    DEF Window, Present, OpSound, Calm, Good
  <1>9. QED
    BY <1>2, <1>4, <1>5, <1>7, <1>8, GoesOn DEF Present, Calm

-----------------------------------------------------------------------------
(* What is written, and what is awaited.                                   *)

\* A store that is found to be locked fails the operation, and stops the proxy.
LEMMA LockedLemma ==
  ASSUME Present, Calm, Valid(op), Fails([app EXCEPT !.locked = TRUE], login, proxy)
  PROVE  Inv'
PROOF
  <1> DEFINE a == [app EXCEPT !.locked = TRUE]
  <1>1. /\ a \in Apps /\ a.profile = app.profile /\ a.locked
        /\ a.requested = app.requested /\ a.desired = app.desired
    BY DEF Present, Apps
  <1>2. Fails(a, login, proxy)
    OBVIOUS
  <1> HIDE DEF a
  <1>3. LoginSound(a, login) /\ ProxySound(a, proxy)
    BY <1>1, ProfileLemma DEF Present
  <1>4. Failing(a, login, proxy, op)
    BY <1>1, <1>3 DEF Calm, Failing, Good
  <1>5. QED BY <1>2, <1>4, FailsNow

LEMMA SelectStep ==
  ASSUME Inv, Select
  PROVE  Inv'
PROOF
  <1>1. Go("select")
    BY DEF Select
  <1>2. Present /\ Calm /\ op.at = "go" /\ Stage(op) = "select" /\ Valid(op)
    BY <1>1, GoLemma
  <1>3. /\ proxy.gate # "open" /\ proxy.start = None /\ Clean(login)
        /\ LoginSound(app, login) /\ ProxySound(app, proxy) /\ app \in Apps
    BY <1>2 DEF Present, Placed, Halted
  <1>4. op.target \in Profiles
    BY <1>2, StageLemma DEF Present, Operations
  <1>5. CASE Fails(app, login, proxy)
    BY <1>2, <1>5, FailsNow DEF Calm
  <1>6. ASSUME ~app.locked, NEW cookie \in {op.target, None}, NEW desired \in BOOLEAN,
               app' = Bound(app, op.target, desired), login' = ProfileSet(login, cookie),
               op' = [Continues(op) EXCEPT !.authOk = TRUE],
               UNCHANGED <<proxy, ask, drain>>
        PROVE  Inv'
    <2>1. app' \in Apps /\ app'.profile = op.target /\ ~app'.locked /\ ~app'.requested
      BY <1>2, <1>3, <1>4, <1>6 DEF Bound, Apps, Calm
    <2>2. LoginSound(app', login')
      BY <1>3, <1>4, <1>6, <2>1, ProfileSetLemma
    <2>3. ProxySound(app', proxy')
      BY <1>3, <1>6 DEF ProxySound
    <2>4. Continues(op) \in Operations
      BY <1>2, ContinuesLemma DEF Present, OpSound
    <2>5. /\ op' \in Operations /\ op'.todo = Tail(op.todo) /\ op'.kind = op.kind
          /\ op'.target = op.target /\ op'.at = "go" /\ ~op'.behind
          /\ op'.confirmed = op.confirmed
      BY <1>2, <1>6, <2>4 DEF Present, Continues, Operations
    <2>6. op.kind \in {"auth-revoked", "prepare-exit"} => ~op'.confirmed
      BY <1>2, <2>5 DEF Present, OpSound
    <2>7. QED
      BY <1>2, <1>3, <1>6, <2>1, <2>2, <2>3, <2>5, <2>6, GoesOn DEF Present, Calm
  <1>7. ASSUME NEW profile \in {app.profile, op.target},
               Fails([app EXCEPT !.locked = TRUE, !.profile = profile], login, proxy)
        PROVE  Inv'
    <2> DEFINE a == [app EXCEPT !.locked = TRUE, !.profile = profile]
    <2>1. a \in Apps /\ a.locked
      BY <1>3, <1>4 DEF Apps
    <2>2. Fails(a, login, proxy)
      BY <1>7
    <2> HIDE DEF a
    <2>3. LoginSound(a, login) /\ ProxySound(a, proxy)
      BY <1>3 DEF LoginSound, ProxySound, Clean
    <2>4. Failing(a, login, proxy, op)
      BY <1>2, <1>3, <2>1, <2>3 DEF Calm, Failing
    <2>5. QED BY <1>2, <2>2, <2>4, FailsNow
  <1>8. QED BY <1>5, <1>6, <1>7 DEF Select

LEMMA WriteStep ==
  ASSUME Inv, Write \/ Secrets
  PROVE  Inv'
PROOF
  <1>1. Go("write") \/ Go("secrets")
    BY DEF Write, Secrets
  <1>2. Present /\ Calm /\ op.at = "go" /\ Stage(op) \in {"write", "secrets"} /\ Valid(op)
    BY <1>1, GoLemma
  <1>3. CASE Fails(app, login, proxy)
    BY <1>2, <1>3, FailsNow DEF Calm
  <1>4. CASE Goes
    BY <1>2, <1>4, GoesStep DEF Goes, Present
  <1>5. CASE Fails([app EXCEPT !.locked = TRUE], login, proxy)
    BY <1>2, <1>5, LockedLemma
  <1>6. QED BY <1>3, <1>4, <1>5 DEF Write, Secrets

LEMMA ReloadStep ==
  ASSUME Inv, Reload
  PROVE  Inv'
PROOF
  <1>1. Go("reload")
    BY DEF Reload
  <1>2. Present /\ Calm /\ op.at = "go" /\ Stage(op) = "reload" /\ Valid(op)
    BY <1>1, GoLemma
  <1>3. /\ proxy.gate # "open" /\ proxy.start = None /\ Clean(login)
        /\ LoginSound(app, login) /\ ProxySound(app, proxy) /\ app \in Apps
    BY <1>2 DEF Present, Placed, Halted
  <1>4. CASE Fails([app EXCEPT !.locked = TRUE], login, proxy)
    BY <1>2, <1>4, LockedLemma
  <1>5. ASSUME NEW profile \in Profiles, NEW saved \in BOOLEAN, NEW desired \in BOOLEAN,
               LET a == Unlocked(Bound(app, profile, desired))
                   l == ProfileSet(login, IF saved THEN profile ELSE None)
               IN \/ /\ app' = a /\ login' = l
                     /\ op' = [Continues(op) EXCEPT !.authOk = TRUE]
                     /\ UNCHANGED <<proxy, ask, drain>>
                  \/ Fails(a, l, proxy)
        PROVE  Inv'
    <2> DEFINE a == Unlocked(Bound(app, profile, desired))
               l == ProfileSet(login, IF saved THEN profile ELSE None)
    <2>1. a \in Apps /\ a.profile = profile /\ ~a.requested /\ ~a.locked
      BY <1>3 DEF Unlocked, Bound, Apps
    <2>2. \/ /\ app' = a /\ login' = l
             /\ op' = [Continues(op) EXCEPT !.authOk = TRUE]
             /\ UNCHANGED <<proxy, ask, drain>>
          \/ Fails(a, l, proxy)
      BY <1>5
    <2> HIDE DEF a
    <2>3. LoginSound(a, l)
      BY <1>3, <2>1, ProfileSetLemma
    <2> HIDE DEF l
    <2>4. ProxySound(a, proxy)
      BY <1>3 DEF ProxySound
    <2>5. CASE Fails(a, l, proxy)
      <3>1. Failing(a, l, proxy, op)
        BY <1>2, <1>3, <2>1, <2>3, <2>4 DEF Calm, Failing
      <3>2. QED BY <1>2, <2>5, <3>1, FailsNow
    <2>6. CASE /\ app' = a /\ login' = l
               /\ op' = [Continues(op) EXCEPT !.authOk = TRUE]
               /\ UNCHANGED <<proxy, ask, drain>>
      <3>1. Continues(op) \in Operations
        BY <1>2, ContinuesLemma DEF Present, OpSound
      <3>2. /\ op' \in Operations /\ op'.todo = Tail(op.todo) /\ op'.kind = op.kind
            /\ op'.target = op.target /\ op'.at = "go" /\ ~op'.behind
            /\ op'.confirmed = op.confirmed
        BY <1>2, <2>6, <3>1 DEF Present, Continues, Operations
      <3>3. op.kind \in {"auth-revoked", "prepare-exit"} => ~op'.confirmed
        BY <1>2, <3>2 DEF Present, OpSound
      <3>4. QED
        BY <1>2, <1>3, <2>1, <2>3, <2>4, <2>6, <3>2, <3>3, GoesOn DEF Present, Calm
    <2>7. QED BY <2>2, <2>5, <2>6
  <1>6. QED BY <1>4, <1>5 DEF Reload

LEMMA AwaitStep ==
  ASSUME Inv, Await
  PROVE  Inv'
PROOF
  <1>1. Go("await")
    BY DEF Await
  <1>2. Present /\ Calm /\ op.at = "go" /\ Stage(op) = "await"
    BY <1>1, GoLemma
  <1>3. op' = Awaits(op) /\ UNCHANGED <<app, login, proxy, ask, drain>>
    BY DEF Await
  <1>4. /\ op' \in Operations /\ op'.todo = op.todo /\ op'.kind = op.kind
        /\ op'.target = op.target /\ op'.at = "wait" /\ ~op'.behind
        /\ op'.confirmed = op.confirmed
    BY <1>2, <1>3 DEF Present, Awaits, Operations
  <1>5. /\ op.kind \in {"auth-revoked", "prepare-exit"} => ~op'.confirmed
        /\ Halted(op) => proxy.gate # "open"
    BY <1>2, <1>4 DEF Present, OpSound, Placed
  <1>6. QED
    BY <1>2, <1>3, <1>4, <1>5, WaitsNow DEF Present, Calm

LEMMA AwaitedStep ==
  ASSUME Inv, Awaited
  PROVE  Inv'
PROOF
  <1>1. Waits({"await"})
    BY DEF Awaited
  <1>2. Present /\ Calm /\ op.at = "wait" /\ Stage(op) = "await"
    BY <1>1, WaitsLemma
  <1>3. CASE Goes
    BY <1>2, <1>3, GoesStep DEF Goes, Present
  <1>4. CASE Fails(app, login, proxy)
    BY <1>2, <1>4, FailsNow DEF Calm
  <1>5. QED BY <1>3, <1>4 DEF Awaited

LEMMA LeaveStep ==
  ASSUME Inv, Leave
  PROVE  Inv'
PROOF
  <1>1. Go("leave")
    BY DEF Leave
  <1>2. Present /\ Calm /\ op.at = "go" /\ Stage(op) = "leave"
    BY <1>1, GoLemma
  <1>3. CASE Fails(app, login, proxy)
    BY <1>2, <1>3, FailsNow DEF Calm
  <1>4. CASE /\ app' = [app EXCEPT !.down = TRUE] /\ login' = Invalidated(login)
             /\ op' = Continues(op) /\ UNCHANGED <<proxy, ask, drain>>
    <2>1. /\ app' \in Apps /\ app'.profile = app.profile
          /\ app'.locked = app.locked /\ app'.requested = app.requested
      BY <1>2, <1>4 DEF Present, Apps
    <2>2. LoginSound(app', login') /\ ProxySound(app', proxy') /\ proxy'.gate # "open"
      BY <1>2, <1>4, <2>1, DeactivatedLemma, ProfileLemma DEF Present, Placed, Halted
    <2>3. Continues(op) \in Operations
      BY <1>2, ContinuesLemma DEF Present, OpSound
    <2>4. /\ op' \in Operations /\ op'.todo = Tail(op.todo) /\ op'.kind = op.kind
          /\ op'.target = op.target /\ op'.at = "go" /\ ~op'.behind
          /\ op'.confirmed = op.confirmed
      BY <1>2, <1>4, <2>3 DEF Present, Continues, Operations
    <2>5. op.kind \in {"auth-revoked", "prepare-exit"} => ~op'.confirmed
      BY <1>2, <2>4 DEF Present, OpSound
    <2>6. QED
      BY <1>2, <1>4, <2>1, <2>2, <2>4, <2>5, GoesOn DEF Present, Calm
  <1>5. QED BY <1>3, <1>4 DEF Leave

-----------------------------------------------------------------------------
(* The start of the proxy.                                                 *)

\* An operation that starts the proxy, or is about to.
LEMMA StartsLemma ==
  ASSUME op' # None, OpSound(op'), Stage(op') \in {"start", "preflight", "listen"},
         app'.desired, Stage(op') # "start" => ~app'.locked,
         app' \in Apps, LoginSound(app', login'), ProxySound(app', proxy'),
         app'.requested => app'.locked, ~proxy'.stop,
         proxy'.gate = "open" => proxy'.ignored \/ Good(app', login'),
         proxy'.start # None =>
           (proxy'.ignored \/ Good(app', login')) /\ WaitsAt(op', {"listen"}),
         ask' \in {None, "asks", "outdated"}, ask' # None => op'.kind \in Resumable,
         drain' \in BOOLEAN
  PROVE  Inv'
PROOF
  <1>1. Placed(login', proxy', op')
    BY DEF Placed, Halted, WaitsAt
  <1>2. OpWanted(app', proxy', op')
    <2>1. op'.kind \notin KeyKinds
      BY StageLemma
    <2>2. QED BY <2>1 DEF OpWanted, KeysAllowed, WaitsAt
  <1>3. Wanted(app', login', proxy', op')
    BY DEF Wanted
  <1>4. QED
    BY <1>1, <1>2, <1>3 DEF Inv, Together, LoginNotForgotten

LEMMA StartIfStep ==
  ASSUME Inv, StartIf
  PROVE  Inv'
PROOF
  <1>1. Go("startIf")
    BY DEF StartIf
  <1>2. Present /\ Calm /\ op.at = "go" /\ Stage(op) = "startIf"
    BY <1>1, GoLemma
  <1>3. UNCHANGED <<app, login, proxy, ask, drain>>
    BY DEF StartIf
  <1>4. CASE app.desired /\ op' = [op EXCEPT !.todo = <<"start">> \o Tail(op.todo)]
    <2>1. /\ op' \in Operations /\ op' = [op EXCEPT !.todo = <<"start">>]
          /\ Ordered(op') /\ Stage(op') = "start"
      BY <1>2, <1>4, StartIfLemma DEF Present, OpSound
    <2>2. /\ op'.kind = op.kind /\ op'.at = "go" /\ ~op'.behind
          /\ op'.confirmed = op.confirmed
      BY <1>2, <2>1 DEF Present, Operations
    <2>3. OpSound(op') /\ op' # None
      BY <1>2, <2>1, <2>2, NoneAssumption DEF Present, OpSound
    <2>4. QED
      BY <1>2, <1>3, <1>4, <2>1, <2>2, <2>3, StartsLemma DEF Present, Calm
  <1>5. CASE op' = Continues(op)
    BY <1>2, <1>3, <1>5, GoesStep DEF Present
  <1>6. QED BY <1>4, <1>5 DEF StartIf

\* A start that is being made, once the portal has been asked or need not be.
LEMMA TurnedLemma ==
  ASSUME Present, Stage(op) \in {"start", "preflight"},
         NEW stage \in {"preflight", "listen"}, op' = Turns(op, stage)
  PROVE  /\ OpSound(op') /\ op' # None /\ Stage(op') = stage
         /\ op'.kind = op.kind /\ op'.at = "wait"
PROOF
  <1>1. /\ op' \in Operations /\ op' = [op EXCEPT !.todo = <<stage>>, !.at = "wait"]
        /\ Ordered(op') /\ Stage(op') = stage
    BY TurnsLemma DEF Present, OpSound
  <1>2. /\ op'.kind = op.kind /\ op'.at = "wait" /\ ~op'.behind
        /\ op'.confirmed = op.confirmed
    BY <1>1 DEF Present, Operations
  <1>3. QED BY <1>1, <1>2, NoneAssumption DEF Present, OpSound

LEMMA NewEpochLemma ==
  ASSUME NEW a, NEW l, LoginSound(a, l)
  PROVE  /\ LoginSound(a, NewEpoch(l)) /\ ~NewEpoch(l).pending
         /\ NewEpoch(l).cookie = l.cookie
  BY DEF LoginSound, NewEpoch, Logins

LEMMA StartStep ==
  ASSUME Inv, Start
  PROVE  Inv'
PROOF
  <1>1. Go("start")
    BY DEF Start
  <1>2. Present /\ Calm /\ op.at = "go" /\ Stage(op) = "start"
    BY <1>1, GoLemma
  <1> DEFINE a == [app EXCEPT !.desired = @ \/ op.kind = "start"]
  <1>3. /\ a \in Apps /\ a.profile = app.profile /\ a.desired
        /\ a.locked = app.locked /\ a.requested = app.requested
    BY <1>2 DEF Present, OpWanted, Apps
  <1>4. \/ Fails(a, login, proxy)
        \/ /\ Authenticated(op, login) /\ ~app.locked
           /\ IF proxy.shown = "started"
              THEN /\ proxy' = [proxy EXCEPT !.start = login.cookie]
                   /\ op' = Turns(op, "listen")
                   /\ app' = a /\ UNCHANGED login
              ELSE /\ op' = Turns(op, "preflight")
                   /\ app' = [a EXCEPT !.rejected = FALSE]
                   /\ login' = NewEpoch(login) /\ UNCHANGED proxy
           /\ UNCHANGED <<ask, drain>>
    BY DEF Start
  <1> HIDE DEF a
  <1>5. /\ LoginSound(a, login) /\ ProxySound(a, proxy)
        /\ proxy.gate = "open" => proxy.ignored \/ Good(a, login)
    BY <1>2, <1>3, ProfileLemma DEF Present, Calm, Good
  <1>6. CASE Fails(a, login, proxy)
    <2>1. Failing(a, login, proxy, op)
      BY <1>2, <1>3, <1>5 DEF Calm, Failing
    <2>2. QED BY <1>2, <1>6, <2>1, FailsNow
  <1>7. CASE /\ Authenticated(op, login) /\ ~app.locked
             /\ proxy' = [proxy EXCEPT !.start = login.cookie]
             /\ op' = Turns(op, "listen") /\ app' = a /\ UNCHANGED <<login, ask, drain>>
    <2>1. Good(a, login) /\ login.cookie # None
      BY <1>3, <1>7 DEF Good, Authenticated
    <2>2. /\ OpSound(op') /\ op' # None /\ Stage(op') = "listen"
          /\ op'.kind = op.kind /\ op'.at = "wait"
      BY <1>2, <1>7, TurnedLemma
    <2>3. /\ ProxySound(a, proxy') /\ proxy'.gate = proxy.gate /\ ~proxy'.stop
          /\ proxy'.ignored = proxy.ignored
      BY <1>2, <1>5, <1>7 DEF ProxySound, Proxies, LoginSound, Logins, Calm
    <2>4. QED
      BY <1>2, <1>3, <1>5, <1>7, <2>1, <2>2, <2>3, StartsLemma
      DEF Present, Calm, WaitsAt
  <1>8. CASE /\ Authenticated(op, login) /\ ~app.locked
             /\ op' = Turns(op, "preflight") /\ app' = [a EXCEPT !.rejected = FALSE]
             /\ login' = NewEpoch(login) /\ UNCHANGED <<proxy, ask, drain>>
    <2>1. /\ app' \in Apps /\ app'.profile = a.profile /\ app'.desired
          /\ app'.locked = a.locked /\ app'.requested = a.requested
      BY <1>3, <1>8 DEF Apps
    <2>2. LoginSound(app', login') /\ ProxySound(app', proxy') /\ Good(app', login')
      BY <1>3, <1>5, <1>8, <2>1, NewEpochLemma, ProfileLemma DEF Good, Authenticated
    <2>3. /\ OpSound(op') /\ op' # None /\ Stage(op') = "preflight"
          /\ op'.kind = op.kind /\ op'.at = "wait"
      BY <1>2, <1>8, TurnedLemma
    <2>4. QED
      BY <1>2, <1>3, <1>8, <2>1, <2>2, <2>3, StartsLemma DEF Present, Calm
  <1>9. QED BY <1>4, <1>6, <1>7, <1>8

LEMMA PreflightEndsStep ==
  ASSUME Inv, PreflightEnds
  PROVE  Inv'
PROOF
  <1>1. Waits({"preflight"})
    BY DEF PreflightEnds
  <1>2. Present /\ Calm /\ op.at = "wait" /\ Stage(op) = "preflight"
    BY <1>1, WaitsLemma
  <1>3. CASE Fails(app, login, proxy)
    BY <1>2, <1>3, FailsNow DEF Calm
  <1>4. CASE Fails([app EXCEPT !.rejected = TRUE], login, proxy)
    <2> DEFINE a == [app EXCEPT !.rejected = TRUE]
    <2>1. /\ a \in Apps /\ a.profile = app.profile /\ a.desired = app.desired
          /\ a.locked = app.locked /\ a.requested = app.requested
      BY <1>2 DEF Present, Apps
    <2>2. Fails(a, login, proxy)
      BY <1>4
    <2> HIDE DEF a
    <2>3. LoginSound(a, login) /\ ProxySound(a, proxy)
      BY <1>2, <2>1, ProfileLemma DEF Present
    <2>4. Failing(a, login, proxy, op)
      BY <1>2, <2>1, <2>3 DEF Calm, Failing, Good
    <2>5. QED BY <1>2, <2>2, <2>4, FailsNow
  <1>5. CASE /\ Authenticated(op, login)
             /\ proxy' = [proxy EXCEPT !.start = login.cookie,
                                       !.shown = IF proxy.gate = "open" THEN @
                                                 ELSE "starting"]
             /\ op' = Turns(op, "listen") /\ UNCHANGED <<app, login, ask, drain>>
    <2>1. ~app.locked /\ app.desired
      BY <1>2, <1>5 DEF Present, OpWanted, Authenticated
    <2>2. Good(app, login) /\ login.cookie # None
      BY <1>5, <2>1 DEF Good, Authenticated
    <2>3. /\ OpSound(op') /\ op' # None /\ Stage(op') = "listen"
          /\ op'.kind = op.kind /\ op'.at = "wait"
      BY <1>2, <1>5, TurnedLemma
    <2>4. ProxySound(app, proxy') /\ ~proxy'.stop
      BY <1>2, <1>5 DEF Present, ProxySound, Proxies, LoginSound, Logins, Calm
    <2>5. QED
      BY <1>2, <1>5, <2>1, <2>2, <2>3, <2>4, StartsLemma DEF Present, Calm, WaitsAt
  <1>6. QED BY <1>3, <1>4, <1>5 DEF PreflightEnds

LEMMA ProxyStartsStep ==
  ASSUME Inv, ProxyStarts
  PROVE  Inv'
PROOF
  <1>1. proxy.start # None /\ ~proxy.stop /\ Wanted(app, login, proxy, op)
    BY DEF ProxyStarts, Inv, Together
  <1>2. /\ op # None /\ WaitsAt(op, {"listen"})
        /\ proxy.ignored \/ Good(app, login)
        /\ app.requested => app.locked
    BY <1>1 DEF Wanted
  <1>3. OpSound(op)
    BY <1>2 DEF Inv, Together
  <1>4. Waits({"listen"})
    BY <1>2, <1>3, StageLemma DEF Waits, WaitsAt, OpSound
  <1>5. Present /\ op.at = "wait" /\ Stage(op) = "listen"
    BY <1>4, WaitsLemma
  <1>6. app.desired
    BY <1>5 DEF Present, OpWanted
  <1> DEFINE p == [proxy EXCEPT !.gate = "open", !.of = proxy.start, !.start = None,
                                !.shown = IF proxy.gate = "open" THEN @ ELSE "started"]
  <1>7. /\ ProxySound(app, p) /\ p.start = None /\ ~p.stop
        /\ p.ignored = proxy.ignored
    BY <1>1, <1>5 DEF Present, ProxySound, Proxies, Ids
  <1>8. CASE /\ proxy' = p /\ op' = Continues(op)
             /\ UNCHANGED <<app, login, ask, drain>>
    <2>1. Continues(op) \in Operations
      BY <1>5, ContinuesLemma DEF Present, OpSound
    <2>2. /\ op' \in Operations /\ op'.todo = Tail(op.todo) /\ op'.kind = op.kind
          /\ op'.target = op.target /\ op'.at = "go" /\ ~op'.behind
          /\ op'.confirmed = op.confirmed
      BY <1>5, <1>8, <2>1 DEF Present, Continues, Operations
    <2>3. op.kind \in {"auth-revoked", "prepare-exit"} => ~op'.confirmed
      BY <1>5, <2>2 DEF Present, OpSound
    <2> HIDE DEF p
    <2>4. QED
      BY <1>2, <1>5, <1>6, <1>7, <1>8, <2>2, <2>3, GoesOn DEF Present
  <1>9. CASE Fails(app, login, p)
    <2> HIDE DEF p
    <2>1. Failing(app, login, p, op)
      BY <1>2, <1>5, <1>6, <1>7 DEF Failing, Present
    <2>2. QED BY <1>5, <1>9, <2>1, FailsNow
  <1>10. ASSUME NEW gate \in {"closed", "shut"},
                Fails(app, login, [proxy EXCEPT !.gate = gate, !.start = None,
                                                !.shown = "other"])
         PROVE  Inv'
    <2> DEFINE q == [proxy EXCEPT !.gate = gate, !.start = None, !.shown = "other"]
    <2>1. ProxySound(app, q) /\ q.start = None /\ ~q.stop /\ q.gate # "open"
      BY <1>1, <1>5 DEF Present, ProxySound, Proxies, Ids
    <2>2. Fails(app, login, q)
      BY <1>10
    <2> HIDE DEF q
    <2>3. Failing(app, login, q, op)
      BY <1>2, <1>5, <2>1 DEF Failing, Present
    <2>4. QED BY <1>5, <2>2, <2>3, FailsNow
  <1>11. QED
    BY <1>4, <1>8, <1>9, <1>10 DEF ProxyStarts

-----------------------------------------------------------------------------
(* The keys, and what an aborted operation has left at work.               *)

\* A key action that is given up because its login has changed.
LEMMA VoidedLemma ==
  ASSUME Present, Voided, proxy.start = None, app.requested => app.locked,
         ProxySound(app, proxy'), proxy'.start = None, ~proxy'.stop,
         proxy'.gate = "open" => app.desired \/ app.requested,
         proxy'.gate = "open" => proxy'.ignored \/ Good(app, login)
  PROVE  Inv'
PROOF
  <1>1. Ends /\ UNCHANGED <<app, login, ask>>
    BY DEF Voided
  <1>2. QED BY <1>1, EndsLemma DEF Present

LEMMA ChooseStep ==
  ASSUME Inv, Choose
  PROVE  Inv'
PROOF
  <1>1. Go("choose")
    BY DEF Choose
  <1>2. Present /\ Calm /\ op.at = "go" /\ Stage(op) = "choose"
    BY <1>1, GoLemma
  <1>3. KeysFree
    BY <1>1, <1>2, KeysFreeLemma
  <1>4. CASE Fails(app, login, proxy)
    BY <1>2, <1>4, FailsNow DEF Calm
  <1>5. CASE Voided /\ UNCHANGED proxy
    BY <1>2, <1>5, VoidedLemma DEF Calm, Present
  <1>6. CASE op' = Awaits(op) /\ UNCHANGED <<app, login, proxy, ask, drain>>
    <2>1. /\ op' \in Operations /\ op'.todo = op.todo /\ op'.kind = op.kind
          /\ op'.target = op.target /\ op'.at = "wait" /\ ~op'.behind
          /\ op'.confirmed = op.confirmed /\ op'.authOk = op.authOk
      BY <1>2, <1>6 DEF Present, Awaits, Operations
    <2>2. /\ op.kind \in {"auth-revoked", "prepare-exit"} => ~op'.confirmed
          /\ ~Halted(op)
      BY <1>2, <2>1 DEF Present, OpSound, Halted, WaitsAt
    <2>3. KeysGoOn
      BY <1>3, <1>6, <2>1 DEF KeysFree, KeysGoOn
    <2>4. QED
      BY <1>2, <1>6, <2>1, <2>2, <2>3, WaitsNow DEF Present, Calm
  <1>7. CASE Goes
    BY <1>2, <1>3, <1>7, GoesStep DEF Goes, Present
  <1>8. QED BY <1>4, <1>5, <1>6, <1>7 DEF Choose

LEMMA ChosenStep ==
  ASSUME Inv, Chosen
  PROVE  Inv'
PROOF
  <1>1. Waits({"choose"})
    BY DEF Chosen
  <1>2. Present /\ Calm /\ op.at = "wait" /\ Stage(op) = "choose"
    BY <1>1, WaitsLemma
  <1>3. KeysFree
    BY <1>2 DEF Present, OpWanted, KeysAllowed, KeysFree
  <1>4. CASE Goes
    BY <1>2, <1>3, <1>4, GoesStep DEF Goes, Present
  <1>5. CASE Ends /\ UNCHANGED <<app, login, proxy, ask>>
    BY <1>2, <1>5, EndsLemma DEF Present, Calm
  <1>6. CASE Fails(app, login, proxy)
    BY <1>2, <1>6, FailsNow DEF Calm
  <1>7. QED BY <1>4, <1>5, <1>6 DEF Chosen

LEMMA KeysStep ==
  ASSUME Inv, Keys
  PROVE  Inv'
PROOF
  <1>1. Go("keys")
    BY DEF Keys
  <1>2. Present /\ Calm /\ op.at = "go" /\ Stage(op) = "keys"
    BY <1>1, GoLemma
  <1>3. KeysFree
    BY <1>1, <1>2, KeysFreeLemma
  <1>4. CASE Fails(app, login, proxy)
    BY <1>2, <1>4, FailsNow DEF Calm
  <1>5. CASE Voided /\ UNCHANGED proxy
    BY <1>2, <1>5, VoidedLemma DEF Calm, Present
  <1>6. CASE /\ Current(op, login) /\ proxy' = StopCalled(proxy) /\ op' = Awaits(op)
             /\ login' = NewEpoch(login) /\ UNCHANGED <<app, ask, drain>>
    <2>1. /\ ProxySound(app, proxy') /\ proxy'.gate # "open" /\ proxy'.start = None
      BY <1>2, <1>6, CallsLemma DEF Present
    <2>2. LoginSound(app, login')
      BY <1>2, <1>6, NewEpochLemma DEF Present
    <2>3. /\ op' \in Operations /\ op'.todo = op.todo /\ op'.kind = op.kind
          /\ op'.target = op.target /\ op'.at = "wait" /\ ~op'.behind
          /\ op'.authOk = op.authOk /\ op'.confirmed = op.confirmed
      BY <1>2, <1>6 DEF Present, Awaits, Operations
    <2>4. op.kind \in {"auth-revoked", "prepare-exit"} => ~op'.confirmed
      BY <1>2, <2>3 DEF Present, OpSound
    <2>5. KeysGoOn
      BY <1>3, <1>6, <2>3 DEF KeysFree, KeysGoOn
    <2>6. QED
      BY <1>2, <1>6, <2>1, <2>2, <2>3, <2>4, <2>5, WaitsNow DEF Present, Calm
  <1>7. QED BY <1>4, <1>5, <1>6 DEF Keys

LEMMA KeysEndStep ==
  ASSUME Inv, KeysEnd
  PROVE  Inv'
PROOF
  <1>1. Waits({"keys"}) /\ ~proxy.stop
    BY DEF KeysEnd
  <1>2. Present /\ op.at = "wait" /\ Stage(op) = "keys"
    BY <1>1, WaitsLemma
  <1>3. proxy.start = None /\ (app.requested => app.locked)
    BY <1>2 DEF Inv, Together, Wanted, WaitsAt
  <1> DEFINE current == Current(op, login)
             runs == [proxy EXCEPT !.gate = "open", !.of = login.cookie,
                                   !.shown = "started"]
             halted == {[proxy EXCEPT !.gate = gate, !.shown = "other"] :
                          gate \in {"closed", "shut"}}
  <1>4. ASSUME NEW p \in halted
        PROVE  ProxySound(app, p) /\ p.start = None /\ ~p.stop /\ p.gate # "open"
    BY <1>1, <1>2, <1>3 DEF Present, ProxySound, Proxies
  <1>5. ASSUME current, op.target # None
        PROVE  /\ ProxySound(app, runs) /\ runs.start = None /\ ~runs.stop
               /\ Good(app, login) /\ Valid(op) /\ ~app.requested
    <2>1. ~app.locked /\ app.desired /\ login.cookie # None /\ Valid(op)
      BY <1>2, <1>5, StageLemma
      DEF Present, OpWanted, KeysAllowed, Current, Authenticated
    <2>2. ProxySound(app, runs) /\ runs.start = None /\ ~runs.stop
      BY <1>1, <1>2, <1>3, <2>1
      DEF Present, ProxySound, Proxies, LoginSound, Logins
    <2>3. QED BY <1>3, <2>1, <2>2 DEF Good
  <1>6. CASE /\ current /\ proxy' \in IF op.target # None THEN {runs} ELSE halted
             /\ op' = Continues(op) /\ UNCHANGED <<app, login, ask, drain>>
    <2>1. Continues(op) \in Operations
      BY <1>2, ContinuesLemma DEF Present, OpSound
    <2>2. /\ op' \in Operations /\ op'.todo = Tail(op.todo) /\ op'.kind = op.kind
          /\ op'.target = op.target /\ op'.at = "go" /\ ~op'.behind
          /\ op'.confirmed = op.confirmed
      BY <1>2, <1>6, <2>1 DEF Present, Continues, Operations
    <2>3. op.kind \in {"auth-revoked", "prepare-exit"} => ~op'.confirmed
      BY <1>2, <2>2 DEF Present, OpSound
    <2>4. /\ ProxySound(app, proxy') /\ proxy'.start = None /\ ~proxy'.stop
          /\ proxy'.gate = "open" => Good(app, login)
      BY <1>4, <1>5, <1>6
    <2>5. KeysGoOn
      BY <1>2, <1>6, <2>2 DEF Present, OpWanted, KeysAllowed, KeysGoOn, Continues, Operations
    <2> HIDE DEF current, runs, halted
    <2>6. QED
      BY <1>2, <1>3, <1>6, <2>2, <2>3, <2>4, <2>5, GoesOn DEF Present, Good
  <1>7. ASSUME NEW p, NEW locked \in {app.locked, TRUE},
               \/ p \in halted
               \/ current /\ op.target # None /\ p = runs,
               Fails([app EXCEPT !.locked = locked], login, p)
        PROVE  Inv'
    <2> DEFINE a == [app EXCEPT !.locked = locked]
    <2>1. /\ a \in Apps /\ a.profile = app.profile /\ a.desired = app.desired
          /\ a.requested = app.requested /\ (app.locked => a.locked)
      BY <1>2, <1>7 DEF Present, Apps
    <2>2. Fails(a, login, p)
      BY <1>7
    <2>3. /\ ProxySound(app, p) /\ p.start = None /\ ~p.stop
          /\ p.gate = "open" => Good(app, login) /\ Valid(op) /\ ~app.requested
      BY <1>4, <1>5, <1>7
    <2> HIDE DEF a, current, runs, halted
    <2>4. LoginSound(a, login) /\ ProxySound(a, p)
      BY <1>2, <2>1, <2>3, ProfileLemma DEF Present
    <2>5. Failing(a, login, p, op)
      BY <1>2, <1>3, <2>1, <2>3, <2>4 DEF Failing, Good, Apps
    <2>6. QED BY <1>2, <2>2, <2>5, FailsNow
  <1>8. CASE Voided /\ proxy' \in halted
    BY <1>2, <1>3, <1>4, <1>8, VoidedLemma
  <1>9. QED
    BY <1>6, <1>7, <1>8 DEF KeysEnd

LEMMA LingeringEndsStep ==
  ASSUME Inv, LingeringEnds
  PROVE  Inv'
PROOF
  <1>1. op # None /\ op.behind /\ ~proxy.stop /\ UNCHANGED <<login, ask, drain>>
    BY DEF LingeringEnds
  <1>2. /\ OpSound(op) /\ Stopping(op) /\ op \in Operations
        /\ ask \in {None, "asks", "outdated"} /\ (ask # None => op.kind \in Resumable)
        /\ app \in Apps /\ LoginSound(app, login) /\ ProxySound(app, proxy)
        /\ drain \in BOOLEAN /\ Wanted(app, login, proxy, op)
    BY <1>1 DEF Inv, Together, OpSound
  <1>3. /\ ask = None /\ proxy.start = None /\ (app.requested => app.locked)
    BY <1>2 DEF Stopping, Halting, Resumable, Wanted, WaitsAt
  <1>4. op' = [op EXCEPT !.behind = FALSE]
    BY DEF LingeringEnds
  <1>5. /\ op' \in Operations /\ op'.todo = op.todo /\ op'.kind = op.kind
        /\ op'.target = op.target /\ op'.at = op.at /\ ~op'.behind
        /\ op'.confirmed = op.confirmed /\ op'.draftOk = op.draftOk
    BY <1>2, <1>4 DEF Operations
  <1>6. OpSound(op') /\ Stopping(op')
    <2>1. Stage(op') = Stage(op) /\ op' # None
      BY <1>5, NoneAssumption DEF Stage
    <2>2. Stopping(op')
      BY <1>2, <1>5, <2>1 DEF Stopping, Valid
    <2>3. OpSound(op')
      BY <1>2, <1>5, <2>1, SameLemma DEF OpSound
    <2>4. QED BY <2>2, <2>3
  <1>7. /\ app' \in Apps /\ app'.profile = app.profile
        /\ app'.requested => app'.locked
        /\ ProxySound(app, proxy') /\ proxy'.start = None
    <2>1. CASE UNCHANGED <<app, proxy>>
      BY <1>2, <1>3, <2>1
    <2>2. CASE /\ proxy.gate # "open"
               /\ \E gate \in {"closed", "shut"} : proxy' = [proxy EXCEPT !.gate = gate]
               /\ \E locked \in {app.locked, TRUE} : app' = [app EXCEPT !.locked = locked]
      <3>1. ProxySound(app, proxy') /\ proxy'.start = None
        BY <1>1, <1>2, <1>3, <2>2 DEF ProxySound, Proxies
      <3>2. /\ app' \in Apps /\ app'.profile = app.profile
            /\ app'.requested => app'.locked
        BY <1>2, <1>3, <2>2 DEF Apps
      <3>3. QED BY <3>1, <3>2
    <2>3. QED BY <2>1, <2>2 DEF LingeringEnds
  <1>8. LoginSound(app', login') /\ ProxySound(app', proxy')
    BY <1>1, <1>2, <1>7, ProfileLemma
  <1>9. QED BY <1>1, <1>2, <1>3, <1>6, <1>7, <1>8, StopsLemma

-----------------------------------------------------------------------------
(* The user.                                                               *)

LEMMA DrainStep ==
  ASSUME Inv, Drain
  PROVE  Inv'
PROOF
  <1>1. /\ drain' = FALSE /\ UNCHANGED <<app, proxy, ask>>
        /\ LoginSound(app, login)
    BY DEF Drain, Inv, Together
  <1>2. CASE op = None /\ ask = None /\ login.pending /\ ~app.locked /\ ~app.down
    <2>1. PICK kind \in {"authenticated-start", "authenticated"} :
            op' = Launched(kind, None, FALSE)
      BY <1>2 DEF Drain
    <2>2. login' = NewEpoch(login)
      BY <1>2 DEF Drain
    <2>3. LoginSound(app, login') /\ login'.cookie = login.cookie
      BY <1>1, <2>2, NewEpochLemma
    <2>4. kind \in Kinds /\ kind # "activate-profile" /\ kind # "focus-login"
      BY DEF Kinds
    <2>5. None \in Ids /\ drain' \in BOOLEAN
      BY <1>1 DEF Ids
    <2>6. QED BY <1>1, <1>2, <2>1, <2>3, <2>4, <2>5, BeginsLemma
  <1>3. CASE ~(op = None /\ ask = None /\ login.pending /\ ~app.locked /\ ~app.down)
    <2>1. UNCHANGED <<op, login>>
      BY <1>3 DEF Drain
    <2>2. LoginNotForgotten'
      BY <1>1, <1>3, <2>1 DEF LoginNotForgotten
    <2>3. app' = app /\ login' = login /\ proxy' = proxy /\ op' = op /\ ask' = ask
      BY <1>1, <2>1
    <2>4. Together(app', login', proxy', op', ask')
      BY <2>3 DEF Inv
    <2>5. drain' \in BOOLEAN
      BY <1>1
    <2>6. QED BY <2>2, <2>4, <2>5 DEF Inv
  <1>4. QED BY <1>2, <1>3

LEMMA CallStep ==
  ASSUME Inv, NEW kind \in Actions, Call(kind)
  PROVE  Inv'
PROOF
  <1>1. /\ op = None /\ ask = None /\ UNCHANGED <<app, login, proxy, ask, drain>>
        /\ LoginSound(app, login) /\ drain \in BOOLEAN
    BY DEF Call, Idle, Inv, Together
  <1> DEFINE k == IF kind = "login" /\ login.status = "pending" THEN "focus-login"
                  ELSE kind
         target == IF kind \in KeyKinds /\ proxy.shown = "started"
                   THEN app.profile ELSE None
  <1>2. op' = Launched(k, target, FALSE)
    BY DEF Call
  <1>3. k \in Kinds /\ k # "activate-profile"
    BY DEF Kinds, Actions, KeyKinds
  <1>4. k = "focus-login" => login.cookie = None
    BY <1>1 DEF Actions, KeyKinds, LoginSound
  <1>5. target \in Ids
    BY DEF Ids, Inv, Together, Apps
  <1>6. target # None => app.desired \/ app.locked
    <2>1. target # None => proxy.shown = "started"
      OBVIOUS
    <2>2. ~proxy.stop
      BY <1>1 DEF Inv, Together, Wanted, Stopping
    <2>3. proxy.shown = "started" => proxy.gate = "open"
      BY <2>2 DEF Inv, Together, ProxySound
    <2>4. proxy.gate = "open" => app.desired \/ app.locked
      BY <1>1 DEF Inv, Together, Wanted, Stopping
    <2>5. QED BY <2>1, <2>3, <2>4
  <1> HIDE DEF k, target
  <1>7. QED BY <1>1, <1>2, <1>3, <1>4, <1>5, <1>6, BeginsLemma

LEMMA CallSwitchStep ==
  ASSUME Inv, NEW kind \in Switching, NEW target \in Profiles \cup {None},
         CallSwitch(kind, target)
  PROVE  Inv'
PROOF
  <1>1. /\ op = None /\ ask = None /\ UNCHANGED <<app, login, proxy, ask, drain>>
        /\ LoginSound(app, login) /\ drain \in BOOLEAN
        /\ op' = Launched(kind, target, FALSE)
        /\ kind = "activate-profile" => target # None
    BY DEF CallSwitch, Idle, Inv, Together
  <1>2. /\ kind \in Kinds /\ kind # "focus-login" /\ target \in Ids
        /\ kind \notin KeyKinds
    BY DEF Kinds, Switching, KeyKinds, Ids
  <1>3. QED BY <1>1, <1>2, BeginsLemma

\* The slot and what is asked change alone.
LEMMA AskStopStep ==
  ASSUME Inv, AskStop
  PROVE  Inv'
PROOF
  <1>1. ask' = "asks" /\ UNCHANGED <<app, login, proxy, op, drain>>
    BY DEF AskStop
  <1>2. op # None /\ op.kind \in Resumable
    BY DEF AskStop, Cancellable, Resumable
  <1>3. QED
    BY <1>1, <1>2
    DEF Inv, Together, LoginNotForgotten, Wanted, Placed, OpWanted

\* A stop that is confirmed takes the place of what was being started.
LEMMA ConfirmedStopLemma ==
  ASSUME Inv, op # None => op.kind \in Resumable,
         app' = [app EXCEPT !.desired = FALSE], proxy' = Cancelled(proxy),
         op' = ConfirmedStop, ask' = None, UNCHANGED login, drain' \in BOOLEAN
  PROVE  Inv'
PROOF
  <1>1. Lingers = FALSE
    BY LingersLemma DEF Lingers
  <1>2. Plan("stop", None) = <<"confirm", "halt">>
    BY DEF Plan
  <1>3. Tail(<<"confirm", "halt">>) = <<"halt">>
    OBVIOUS
  <1>4. /\ op' = [kind |-> "stop", target |-> None, todo |-> <<"halt">>, at |-> "go",
                  confirmed |-> TRUE, draftOk |-> TRUE, authOk |-> TRUE,
                  behind |-> FALSE]
    BY <1>1, <1>2, <1>3 DEF ConfirmedStop, Launched
  <1>5. <<"halt">> \in Seq(StageNames) /\ "stop" \in Kinds
    <2>1. "halt" \in StageNames
      BY NamesLemma
    <2>2. <<"halt">> \in Seq(StageNames)
      BY <2>1
    <2>3. QED BY <2>2 DEF Kinds, Actions
  <1>6. op' \in Operations
    BY <1>4, <1>5 DEF Operations
  <1>7. Ordered(op') /\ Stage(op') = "halt"
    BY <1>4 DEF Ordered, Stage, Fitting, KeyKinds
  <1>8. Stopping(op')
    <2>1. op' # None
      BY <1>6, NoneAssumption
    <2>2. op'.kind = "stop" /\ op'.at = "go" /\ op'.draftOk
      BY <1>4
    <2>3. QED BY <1>7, <2>1, <2>2 DEF Stopping, Halting, Valid
  <1>9. OpSound(op')
    BY <1>4, <1>6, <1>7 DEF OpSound
  <1>10. /\ app \in Apps /\ LoginSound(app, login) /\ ProxySound(app, proxy)
         /\ app.requested => app.locked
    BY DEF Inv, Together, Wanted
  <1>11. /\ app' \in Apps /\ app'.profile = app.profile
         /\ app'.requested => app'.locked
    BY <1>10 DEF Apps
  <1>12. LoginSound(app', login') /\ ProxySound(app', proxy') /\ proxy'.start = None
    BY <1>10, <1>11, CallsLemma, ProfileLemma
  <1>13. QED BY <1>8, <1>9, <1>11, <1>12, StopsLemma

LEMMA StopAtOnceStep ==
  ASSUME Inv, StopAtOnce
  PROVE  Inv'
PROOF
  <1>1. op.kind \in Resumable
    BY DEF StopAtOnce, Cancellable, Resumable
  <1>2. drain' \in BOOLEAN
    BY DEF StopAtOnce, Inv
  <1>3. QED BY <1>1, <1>2, ConfirmedStopLemma DEF StopAtOnce

LEMMA AskAnsweredStep ==
  ASSUME Inv, NEW accepted \in BOOLEAN, AskAnswered(accepted)
  PROVE  Inv'
PROOF
  <1>1. /\ ask # None /\ ask' = None /\ drain' = TRUE /\ login' = login
        /\ op # None => op.kind \in Resumable
    BY DEF AskAnswered, Inv, Together
  <1>2. CASE /\ app' = [app EXCEPT !.desired = FALSE] /\ proxy' = Cancelled(proxy)
             /\ op' = ConfirmedStop
    BY <1>1, <1>2, ConfirmedStopLemma
  <1>3. CASE UNCHANGED <<app, proxy, op>>
    BY <1>1, <1>3
    DEF Inv, Together, LoginNotForgotten, Wanted, Placed, OpWanted
  <1>4. QED BY <1>2, <1>3 DEF AskAnswered

\* The operation forgets something that it has been told.
LEMMA ForgetsLemma ==
  ASSUME NEW o, NEW n \in Operations, OpSound(o),
         n.todo = o.todo, n.kind = o.kind, n.target = o.target, n.at = o.at,
         n.behind = o.behind, n.confirmed = o.confirmed,
         Valid(o) /\ Stopping(o) => Valid(n)
  PROVE  /\ OpSound(n) /\ Stage(n) = Stage(o) /\ n # None
         /\ Stopping(o) => Stopping(n)
         /\ Halted(n) <=> Halted(o)
         /\ \A stages : WaitsAt(n, stages) <=> WaitsAt(o, stages)
PROOF
  <1>1. Stage(n) = Stage(o) /\ n # None
    BY NoneAssumption DEF Stage
  <1>2. Stopping(o) => Stopping(n)
    BY <1>1 DEF Stopping
  <1>3. OpSound(n)
    BY <1>1, <1>2, SameLemma DEF OpSound
  <1>4. QED BY <1>1, <1>2, <1>3 DEF Halted, WaitsAt

LEMMA SetDirtyStep ==
  ASSUME Inv, SetDirty
  PROVE  Inv'
PROOF
  <1>1. /\ Quiet /\ UNCHANGED <<app, login, proxy, drain>>
        /\ ask' \in {None, "asks", "outdated"} /\ (ask' # None => ask # None)
        /\ op' = IF op = None THEN None ELSE [op EXCEPT !.draftOk = FALSE]
    BY DEF SetDirty
  <1>2. ask = None => ask' = None
    BY DEF SetDirty
  <1>3. CASE op = None
    <2>1. op' = None
      BY <1>1, <1>3
    <2>2. ask # None => ask' # None
      BY NoneAssumption DEF SetDirty
    <2>3. QED
      BY <1>1, <1>3, <2>1, <2>2 DEF Inv, Together, LoginNotForgotten, Wanted, Stopping
  <1>4. CASE op # None
    <2>1. /\ OpSound(op) /\ op \in Operations
          /\ Placed(login, proxy, op) /\ OpWanted(app, proxy, op)
          /\ (op.at = "wait" /\ ~op.behind) \/ (Stopping(op) /\ op.behind)
      BY <1>1, <1>4, QuietLemma DEF Quiet, Stopping
    <2>2. /\ op' \in Operations /\ op'.todo = op.todo /\ op'.kind = op.kind
          /\ op'.target = op.target /\ op'.at = op.at /\ op'.behind = op.behind
          /\ op'.confirmed = op.confirmed /\ op'.authOk = op.authOk
      BY <1>1, <1>4, <2>1 DEF Operations
    <2>3. Stopping(op) => Valid(op')
      BY <2>1, <2>2 DEF Stopping, OpSound, Halting, Valid
    <2>4. /\ OpSound(op') /\ Stage(op') = Stage(op) /\ op' # None
          /\ Stopping(op) => Stopping(op')
          /\ Halted(op') <=> Halted(op)
          /\ \A stages : WaitsAt(op', stages) <=> WaitsAt(op, stages)
      BY <2>1, <2>2, <2>3, ForgetsLemma
    <2>5. Placed(login', proxy', op') /\ OpWanted(app', proxy', op')
      BY <1>1, <2>1, <2>2, <2>4 DEF Placed, OpWanted, KeysAllowed
    <2>6. Wanted(app', login', proxy', op')
      BY <1>1, <1>4, <2>2, <2>4 DEF Inv, Together, Wanted
    <2>7. QED
      BY <1>1, <1>2, <1>4, <2>2, <2>4, <2>5, <2>6
      DEF Inv, Together, LoginNotForgotten
  <1>5. QED BY <1>3, <1>4

LEMMA PrepareExitStep ==
  ASSUME Inv, PrepareExit
  PROVE  Inv'
PROOF
  <1>1. /\ app' = [app EXCEPT !.down = TRUE, !.desired = FALSE]
        /\ login' = NewEpoch(login) /\ proxy' = Cancelled(proxy)
        /\ op' = Launched("prepare-exit", None, Lingers) /\ ask' = None
        /\ drain' \in BOOLEAN
    BY DEF PrepareExit, Inv
  <1>2. /\ app \in Apps /\ LoginSound(app, login) /\ ProxySound(app, proxy)
        /\ app.requested => app.locked
    BY DEF Inv, Together, Wanted
  <1>3. /\ app' \in Apps /\ app'.profile = app.profile
        /\ app'.requested => app'.locked
    BY <1>1, <1>2 DEF Apps
  <1>4. LoginSound(app', login') /\ ProxySound(app', proxy') /\ proxy'.start = None
    BY <1>1, <1>2, <1>3, CallsLemma, NewEpochLemma, ProfileLemma
  <1>5. "prepare-exit" \in Kinds /\ None \in Ids /\ Lingers \in BOOLEAN
    BY LingersLemma DEF Kinds, Ids
  <1>6. OpSound(op') /\ Stopping(op')
    BY <1>1, <1>5, LaunchedLemma
  <1>7. QED BY <1>1, <1>3, <1>4, <1>6, StopsLemma

-----------------------------------------------------------------------------
(* The login window, the portal and the proxy.                             *)

\* What the portal is known to say is all that changes for an operation.
LEMMA ToldLemma ==
  ASSUME Inv, Quiet, UNCHANGED <<proxy, op, ask>>,
         NEW rejected \in BOOLEAN, app' = [app EXCEPT !.rejected = rejected],
         LoginSound(app, login'), login'.cookie # None \/ login'.cookie = login.cookie,
         login'.pending => drain' \/ login.pending,
         drain' \in BOOLEAN, drain => drain'
  PROVE  Inv'
PROOF
  <1>1. /\ app' \in Apps /\ app'.profile = app.profile /\ app'.desired = app.desired
        /\ app'.locked = app.locked /\ app'.requested = app.requested
        /\ app'.down = app.down
    BY DEF Inv, Together, Apps
  <1>2. LoginSound(app', login') /\ ProxySound(app', proxy')
    BY <1>1, ProfileLemma DEF Inv, Together
  <1>3. Wanted(app', login', proxy', op')
    BY <1>1 DEF Inv, Together, Wanted, Good
  <1>4. op' # None => Placed(login', proxy', op') /\ OpWanted(app', proxy', op')
    BY <1>1, QuietLemma DEF Placed, OpWanted, KeysAllowed
  <1>5. LoginNotForgotten'
    BY <1>1 DEF Inv, LoginNotForgotten
  <1>6. QED
    BY <1>1, <1>2, <1>3, <1>4, <1>5 DEF Inv, Together

LEMMA CapturedStep ==
  ASSUME Inv, Captured
  PROVE  Inv'
PROOF
  <1>1. /\ Quiet /\ UNCHANGED <<proxy, op, ask>> /\ drain' = TRUE
        /\ app' = [app EXCEPT !.rejected = FALSE]
        /\ login.owner /\ login.jar # None
        /\ login' = [login EXCEPT !.cookie = login.jar, !.status = "success",
                                  !.window = FALSE, !.pending = TRUE]
    BY DEF Captured
  <1>2. LoginSound(app, login)
    BY DEF Inv, Together
  <1>3. LoginSound(app, login') /\ login'.cookie # None
    BY <1>1, <1>2 DEF LoginSound, Logins
  <1>4. QED BY <1>1, <1>3, ToldLemma

LEMMA RemoteStateStep ==
  ASSUME Inv, RemoteState
  PROVE  Inv'
PROOF
  <1>1. /\ Quiet /\ UNCHANGED <<login, proxy, op, ask, drain>>
        /\ app' = [app EXCEPT !.rejected = ~app.rejected]
        /\ LoginSound(app, login) /\ app.rejected \in BOOLEAN /\ drain \in BOOLEAN
    BY DEF RemoteState, Inv, Together, Apps
  <1>2. QED BY <1>1, ToldLemma

LEMMA WindowEventsStep ==
  ASSUME Inv, SignsIn \/ WindowClosed
  PROVE  Inv'
PROOF
  <1>1. /\ Quiet /\ UNCHANGED <<app, proxy, op, ask, drain>>
        /\ LoginSound(app, login) /\ app \in Apps
    BY DEF SignsIn, WindowClosed, Inv, Together
  <1>2. CASE SignsIn
    <2>1. /\ LoginSound(app, login') /\ login'.cookie = login.cookie
          /\ login'.pending = login.pending
      BY <1>1, <1>2 DEF SignsIn, LoginSound, Logins, Apps, Ids
    <2>2. QED BY <1>1, <2>1, LoginStep
  <1>3. CASE WindowClosed
    <2>1. /\ LoginSound(app, login') /\ login'.cookie = login.cookie
          /\ login'.pending = login.pending
      BY <1>1, <1>3 DEF WindowClosed, LoginSound, Logins
    <2>2. QED BY <1>1, <2>1, LoginStep
  <1>4. QED BY <1>2, <1>3

LEMMA ProxyErrorStep ==
  ASSUME Inv, ProxyError
  PROVE  Inv'
PROOF
  <1>1. /\ Quiet /\ UNCHANGED <<app, login, op, ask, drain>>
        /\ proxy' = [proxy EXCEPT !.shown = "other"]
        /\ LoginSound(app, login) /\ ProxySound(app, proxy) /\ drain \in BOOLEAN
        /\ Wanted(app, login, proxy, op)
    BY DEF ProxyError, Inv, Together
  <1>2. /\ ProxySound(app, proxy') /\ proxy'.gate = proxy.gate
        /\ proxy'.start = proxy.start /\ proxy'.stop = proxy.stop
        /\ proxy'.ignored = proxy.ignored
    BY <1>1 DEF ProxySound, Proxies
  <1>3. Wanted(app, login', proxy', op)
    BY <1>1, <1>2 DEF Wanted
  <1>4. op # None => Placed(login', proxy', op)
    BY <1>1, <1>2, QuietLemma DEF Placed
  <1>5. QED BY <1>1, <1>2, <1>3, <1>4, StaysLemma

\* The loss of the cookie is known, or it stops the proxy.
LEMMA AuthRequiredLemma ==
  ASSUME Inv, Quiet, NEW a, NEW l, AuthRequired(a, l),
         a \in Apps, a.profile = app.profile, a.desired = app.desired,
         a.requested = app.requested, app.locked => a.locked,
         LoginSound(a, l), l = login => a = app
  PROVE  Inv'
PROOF
  <1>1. /\ ask \in {None, "asks", "outdated"} /\ drain \in BOOLEAN
        /\ app.requested => app.locked
        /\ ProxySound(app, proxy) /\ Wanted(app, login, proxy, op)
    BY DEF Inv, Together, Wanted
  <1>2. ProxySound(a, proxy)
    BY <1>1, ProfileLemma
  <1>3. CASE l.cookie = None /\ a.rejected
    <2> DEFINE b == op.authOk /\ l = login
               ignored == proxy.ignored \/ proxy.gate = "open" \/ proxy.start # None
    <2>1. /\ app' = a /\ login' = l /\ UNCHANGED <<ask, drain>>
          /\ proxy' = [proxy EXCEPT !.ignored = ignored]
          /\ op' = IF op = None THEN None ELSE [op EXCEPT !.authOk = b]
      BY <1>3 DEF AuthRequired
    <2>2. ~l.pending
      BY <1>3 DEF LoginSound
    <2>3. /\ ProxySound(a, proxy') /\ proxy'.gate = proxy.gate
          /\ proxy'.start = proxy.start /\ proxy'.stop = proxy.stop
          /\ proxy'.gate = "open" \/ proxy'.start # None => proxy'.ignored
      BY <1>2, <2>1 DEF ProxySound, Proxies
    <2>4. CASE op = None
      <3>1. op' = None
        BY <2>1, <2>4
      <3>2. Wanted(app', login', proxy', op')
        BY <1>1, <2>1, <2>3, <2>4, <3>1 DEF Wanted, Stopping
      <3>3. QED
        BY <1>1, <2>1, <2>2, <2>3, <3>1, <3>2 DEF Inv, Together, LoginNotForgotten
    <2>5. CASE op # None
      <3>1. /\ OpSound(op) /\ op \in Operations
            /\ Stage(op) \notin {"done", "select", "reload", "window"}
            /\ Placed(login, proxy, op) /\ OpWanted(app, proxy, op)
        BY <2>5, QuietLemma
      <3>2. b \in BOOLEAN
        BY <3>1 DEF Operations
      <3>3. op' = [op EXCEPT !.authOk = b]
        BY <2>1, <2>5
      <3>4. b => op.authOk /\ ~(l # login)
        OBVIOUS
      <3> HIDE DEF b, ignored
      <3>5. /\ op' \in Operations /\ op'.todo = op.todo /\ op'.kind = op.kind
            /\ op'.target = op.target /\ op'.at = op.at /\ op'.behind = op.behind
            /\ op'.confirmed = op.confirmed /\ op'.draftOk = op.draftOk
            /\ op'.authOk = b
        BY <3>1, <3>2, <3>3 DEF Operations
      <3>6. /\ OpSound(op') /\ Stage(op') = Stage(op) /\ op' # None
            /\ Stopping(op) => Stopping(op')
            /\ Halted(op') <=> Halted(op)
            /\ \A stages : WaitsAt(op', stages) <=> WaitsAt(op, stages)
        BY <3>1, <3>5, ForgetsLemma DEF Valid
      <3>7. op'.authOk => op.authOk /\ a = app
        BY <3>4, <3>5
      <3>8. Placed(login', proxy', op')
        BY <2>3, <3>1, <3>6 DEF Placed
      <3>9. OpWanted(app', proxy', op')
        <4>1. KeysAllowed(app', op')
          BY <1>1, <2>1, <3>1, <3>5, <3>6, <3>7 DEF OpWanted, KeysAllowed
        <4>2. QED BY <2>1, <3>1, <3>5, <3>6, <3>7, <4>1 DEF OpWanted
      <3>10. Wanted(app', login', proxy', op')
        BY <1>1, <2>1, <2>3, <2>5, <3>6 DEF Wanted
      <3>11. QED
        BY <1>1, <2>1, <2>2, <2>3, <2>5, <3>5, <3>6, <3>8, <3>9, <3>10
        DEF Inv, Together, LoginNotForgotten
    <2>6. QED BY <2>4, <2>5
  <1>4. CASE ~(l.cookie = None /\ a.rejected)
    <2>1. PICK r \in Removals :
            /\ a.locked => r.locked
            /\ login' = RevokeCalled(l, r.saved)
            /\ app' = [a EXCEPT !.rejected = TRUE, !.locked = r.locked]
      BY <1>4 DEF AuthRequired
    <2>2. /\ proxy' = Cancelled(proxy) /\ ask' = None /\ drain' = drain
          /\ op' = Launched("auth-revoked", None, Lingers)
      BY <1>4 DEF AuthRequired
    <2>3. r.saved \in BOOLEAN /\ r.locked \in BOOLEAN
      BY DEF Removals
    <2>4. /\ app' \in Apps /\ app'.profile = a.profile
          /\ app'.requested => app'.locked
      BY <1>1, <2>1, <2>3 DEF Apps
    <2>5. LoginSound(app', login') /\ ProxySound(app', proxy') /\ proxy'.start = None
      <3>1. LoginSound(a, login')
        BY <2>1, <2>3, RevokeLemma
      <3>2. ProxySound(a, proxy') /\ proxy'.start = None
        BY <1>2, <2>2, CallsLemma
      <3>3. QED BY <2>4, <3>1, <3>2, ProfileLemma
    <2>6. "auth-revoked" \in Kinds /\ None \in Ids /\ Lingers \in BOOLEAN
      BY LingersLemma DEF Kinds, Ids
    <2>7. OpSound(op') /\ Stopping(op')
      BY <2>2, <2>6, LaunchedLemma
    <2>8. QED BY <1>1, <2>2, <2>4, <2>5, <2>7, StopsLemma
  <1>5. QED BY <1>3, <1>4

LEMMA CookieLostStep ==
  ASSUME Inv, CookieLost
  PROVE  Inv'
PROOF
  <1>1. PICK r \in Removals, jar \in {login.jar, None} :
          AuthRequired([app EXCEPT !.locked = r.locked],
                       [Invalidated(login) EXCEPT !.jar = jar])
    BY DEF CookieLost
  <1> DEFINE a == [app EXCEPT !.locked = r.locked]
             l == [Invalidated(login) EXCEPT !.jar = jar]
  <1>2. r.locked \in BOOLEAN /\ (app.locked => r.locked)
    BY DEF Removals
  <1>3. Quiet /\ login.owner /\ app \in Apps /\ LoginSound(app, login)
    BY DEF CookieLost, Inv, Together
  <1>4. /\ a \in Apps /\ a.profile = app.profile /\ a.desired = app.desired
        /\ a.requested = app.requested /\ (app.locked => a.locked)
    BY <1>2, <1>3 DEF Apps
  <1>5. AuthRequired(a, l)
    BY <1>1
  <1>6. LoginSound(app, Invalidated(login)) /\ ~Invalidated(login).owner
    BY <1>3, DeactivatedLemma
  <1>7. LoginSound(app, l) /\ ~l.owner
    BY <1>3, <1>6 DEF LoginSound, Logins, Ids
  <1> HIDE DEF a, l
  <1>8. LoginSound(a, l) /\ l # login
    BY <1>3, <1>4, <1>7, ProfileLemma
  <1>9. QED BY <1>3, <1>4, <1>5, <1>8, AuthRequiredLemma

LEMMA UnauthorizedStep ==
  ASSUME Inv, Unauthorized
  PROVE  Inv'
  BY AuthRequiredLemma DEF Unauthorized, Inv, Together

-----------------------------------------------------------------------------
(* Every step.                                                             *)

LEMMA InitLemma == Init => Inv
PROOF
  <1>1. SUFFICES ASSUME Init PROVE Inv
    OBVIOUS
  <1>2. PICK profile \in Profiles, saved \in BOOLEAN, locked \in BOOLEAN,
             desired \in BOOLEAN :
          /\ app = [profile |-> profile, locked |-> locked, requested |-> FALSE,
                    desired |-> desired /\ ~locked, rejected |-> FALSE, down |-> FALSE]
          /\ login = [cookie |-> IF saved /\ ~locked THEN profile ELSE None,
                      status |-> IF saved /\ ~locked THEN "success" ELSE "idle",
                      owner |-> FALSE, window |-> FALSE, jar |-> None, unclean |-> TRUE,
                      reset |-> "none", again |-> FALSE, pending |-> FALSE]
    BY <1>1 DEF Init
  <1>3. proxy = [gate |-> "closed", of |-> None, start |-> None, stop |-> FALSE,
                 shown |-> "other", ignored |-> FALSE]
    BY <1>1 DEF Init
  <1>4. op = None /\ ask = None /\ drain \in BOOLEAN
    BY <1>1 DEF Init
  <1>5. app \in Apps /\ app.profile = profile /\ ~app.requested
    BY <1>2 DEF Apps
  <1>6. LoginSound(app, login) /\ ~login.pending
    BY <1>2, <1>5, NoneAssumption DEF LoginSound, Logins, Ids
  <1>7. /\ ProxySound(app, proxy) /\ proxy.gate # "open" /\ proxy.start = None
        /\ ~proxy.stop
    BY <1>3 DEF ProxySound, Proxies, Ids
  <1>8. QED
    BY <1>4, <1>5, <1>6, <1>7 DEF Inv, Together, Wanted, LoginNotForgotten

LEMMA StepLemma == Inv /\ [Next]_vars => Inv'
PROOF
  <1>1. SUFFICES ASSUME Inv, [Next]_vars PROVE Inv'
    OBVIOUS
  <1>2. CASE UNCHANGED vars
    <2>1. /\ app' = app /\ login' = login /\ proxy' = proxy /\ op' = op /\ ask' = ask
          /\ drain' = drain
      BY <1>2 DEF vars
    <2>2. Together(app', login', proxy', op', ask')
      BY <1>1, <2>1 DEF Inv
    <2>3. LoginNotForgotten'
      BY <1>1, <2>1 DEF Inv, LoginNotForgotten
    <2>4. QED BY <1>1, <2>1, <2>2, <2>3 DEF Inv
  <1>3. CASE Stages
    <2>1. CASE Finish \/ Rejected \/ Refused
      BY <1>1, <2>1, EndingStep
    <2>2. CASE Confirm
      BY <1>1, <2>2, ConfirmStep
    <2>3. CASE Halt
      BY <1>1, <2>3, HaltStep
    <2>4. CASE Reset \/ Revoke
      BY <1>1, <2>4, ResetStep
    <2>5. CASE AwaitRevoked
      BY <1>1, <2>5, AwaitRevokedStep
    <2>6. CASE Window
      BY <1>1, <2>6, WindowStep
    <2>7. CASE Select
      BY <1>1, <2>7, SelectStep
    <2>8. CASE Write \/ Secrets
      BY <1>1, <2>8, WriteStep
    <2>9. CASE Reload
      BY <1>1, <2>9, ReloadStep
    <2>10. CASE Await
      BY <1>1, <2>10, AwaitStep
    <2>11. CASE Leave
      BY <1>1, <2>11, LeaveStep
    <2>12. CASE StartIf
      BY <1>1, <2>12, StartIfStep
    <2>13. CASE Start
      BY <1>1, <2>13, StartStep
    <2>14. CASE Choose
      BY <1>1, <2>14, ChooseStep
    <2>15. CASE Keys
      BY <1>1, <2>15, KeysStep
    <2>16. CASE Drain
      BY <1>1, <2>16, DrainStep
    <2>17. QED
      BY <1>3, <2>1, <2>2, <2>3, <2>4, <2>5, <2>6, <2>7, <2>8, <2>9, <2>10, <2>11,
         <2>12, <2>13, <2>14, <2>15, <2>16 DEF Stages
  <1>4. CASE Awaiting
    <2>1. CASE \E ok \in BOOLEAN : ProxyStops(ok)
      BY <1>1, <2>1, ProxyStopsStep
    <2>2. CASE ResetDone
      BY <1>1, <2>2, ResetDoneStep
    <2>3. CASE ResetFails
      BY <1>1, <2>3, ResetFailsStep
    <2>4. CASE ResetVoid
      BY <1>1, <2>4, ResetVoidStep
    <2>5. CASE ResetAgain
      BY <1>1, <2>5, ResetAgainStep
    <2>6. CASE Awaited
      BY <1>1, <2>6, AwaitedStep
    <2>7. CASE PreflightEnds
      BY <1>1, <2>7, PreflightEndsStep
    <2>8. CASE ProxyStarts
      BY <1>1, <2>8, ProxyStartsStep
    <2>9. CASE KeysEnd
      BY <1>1, <2>9, KeysEndStep
    <2>10. CASE LingeringEnds
      BY <1>1, <2>10, LingeringEndsStep
    <2>11. QED
      BY <1>4, <2>1, <2>2, <2>3, <2>4, <2>5, <2>6, <2>7, <2>8, <2>9, <2>10
      DEF Awaiting
  <1>5. CASE User
    <2>1. CASE \E kind \in Actions : Call(kind)
      BY <1>1, <2>1, CallStep
    <2>2. CASE \E kind \in Switching, target \in Profiles \cup {None} :
                 CallSwitch(kind, target)
      BY <1>1, <2>2, CallSwitchStep
    <2>3. CASE AskStop
      BY <1>1, <2>3, AskStopStep
    <2>4. CASE StopAtOnce
      BY <1>1, <2>4, StopAtOnceStep
    <2>5. CASE SetDirty
      BY <1>1, <2>5, SetDirtyStep
    <2>6. CASE PrepareExit
      BY <1>1, <2>6, PrepareExitStep
    <2>7. CASE \E accepted \in BOOLEAN : Confirmed(accepted)
      BY <1>1, <2>7, ConfirmedStep
    <2>8. CASE \E accepted \in BOOLEAN : AskAnswered(accepted)
      BY <1>1, <2>8, AskAnsweredStep
    <2>9. CASE Chosen
      BY <1>1, <2>9, ChosenStep
    <2>10. QED
      BY <1>5, <2>1, <2>2, <2>3, <2>4, <2>5, <2>6, <2>7, <2>8, <2>9 DEF User
  <1>6. CASE Outside
    <2>1. CASE Captured
      BY <1>1, <2>1, CapturedStep
    <2>2. CASE CookieLost
      BY <1>1, <2>2, CookieLostStep
    <2>3. CASE SignsIn \/ WindowClosed
      BY <1>1, <2>3, WindowEventsStep
    <2>4. CASE Unauthorized
      BY <1>1, <2>4, UnauthorizedStep
    <2>5. CASE RemoteState
      BY <1>1, <2>5, RemoteStateStep
    <2>6. CASE ProxyError
      BY <1>1, <2>6, ProxyErrorStep
    <2>7. QED
      BY <1>6, <2>1, <2>2, <2>3, <2>4, <2>5, <2>6 DEF Outside
  <1>7. QED BY <1>1, <1>2, <1>3, <1>4, <1>5, <1>6 DEF Next

LEMMA InvLemma == Spec => []Inv
  BY InitLemma, StepLemma, PTL DEF Spec

-----------------------------------------------------------------------------
(* Another profile is selected.                                            *)

\* A failure leaves the profile as it was found.
LEMMA FailsKeeps ==
  ASSUME NEW a \in Apps, NEW l, NEW p, Fails(a, l, p)
  PROVE  app'.profile = a.profile
PROOF
  <1>1. [a EXCEPT !.requested = TRUE, !.desired = FALSE].profile = a.profile
    BY DEF Apps
  <1>2. QED BY <1>1 DEF Fails

\* With anything else that an action says of the controller, too.
LEMMA KeepsLemma ==
  ASSUME NEW a \in Apps, NEW b \in BOOLEAN
  PROVE  /\ [a EXCEPT !.locked = b] \in Apps
         /\ [a EXCEPT !.locked = b].profile = a.profile
         /\ [a EXCEPT !.desired = b] \in Apps
         /\ [a EXCEPT !.desired = b].profile = a.profile
         /\ [a EXCEPT !.rejected = b] \in Apps
         /\ [a EXCEPT !.rejected = b].profile = a.profile
         /\ [a EXCEPT !.down = b].profile = a.profile
         /\ [a EXCEPT !.rejected = TRUE, !.locked = b].profile = a.profile
         /\ [a EXCEPT !.down = TRUE, !.desired = b].profile = a.profile
  BY DEF Apps

LEMMA StagesKeep ==
  ASSUME Inv, Stages
  PROVE  Select \/ Reload \/ app'.profile = app.profile
PROOF
  <1>1. app \in Apps /\ app.locked \in BOOLEAN /\ app.desired \in BOOLEAN
    BY DEF Inv, Together, Apps
  <1>2. CASE Finish \/ Rejected \/ Refused \/ Confirm \/ Reset \/ AwaitRevoked \/ Await
             \/ StartIf \/ Choose \/ Keys \/ Drain
    BY <1>1, <1>2, FailsKeeps
    DEF Finish, Rejected, Refused, Confirm, Reset, AwaitRevoked, Await, StartIf, Choose,
        Keys, Drain, Goes, Voided
  <1>3. CASE Halt
    <2>1. PICK b \in BOOLEAN :
            Fails(app, login, proxy) \/ app' = [app EXCEPT !.desired = b]
      BY <1>1, <1>3 DEF Halt
    <2>2. CASE app' = [app EXCEPT !.desired = b]
      BY <1>1, <2>2 DEF Apps
    <2>3. QED BY <1>1, <2>1, <2>2, FailsKeeps
  <1>4. CASE Revoke
    BY <1>1, <1>4, KeepsLemma DEF Revoke, Removals
  <1>5. CASE Window
    BY <1>1, <1>5, KeepsLemma DEF Window
  <1>6. CASE Write \/ Secrets
    BY <1>1, <1>6, FailsKeeps, KeepsLemma DEF Write, Secrets, Goes
  <1>7. CASE Leave
    BY <1>1, <1>7, FailsKeeps, KeepsLemma DEF Leave
  <1>8. CASE Start
    <2> DEFINE a == [app EXCEPT !.desired = @ \/ op.kind = "start"]
    <2>1. a \in Apps /\ a.profile = app.profile
      BY <1>1 DEF Apps
    <2>2. \/ Fails(a, login, proxy) \/ app' = a
          \/ app' = [a EXCEPT !.rejected = FALSE]
      BY <1>8 DEF Start
    <2> HIDE DEF a
    <2>3. CASE app' = [a EXCEPT !.rejected = FALSE]
      BY <2>1, <2>3 DEF Apps
    <2>4. QED BY <2>1, <2>2, <2>3, FailsKeeps
  <1>9. QED
    BY <1>2, <1>3, <1>4, <1>5, <1>6, <1>7, <1>8 DEF Stages

LEMMA AwaitingKeeps ==
  ASSUME Inv, Awaiting
  PROVE  app'.profile = app.profile
PROOF
  <1>1. app \in Apps /\ app.locked \in BOOLEAN
    BY DEF Inv, Together, Apps
  <1>2. CASE \E ok \in BOOLEAN : ProxyStops(ok)
    BY <1>1, <1>2, FailsKeeps DEF ProxyStops
  <1>3. CASE ResetDone \/ ResetFails \/ ResetVoid \/ Awaited
    BY <1>1, <1>3, FailsKeeps DEF ResetDone, ResetFails, ResetVoid, Awaited, Goes
  <1>4. CASE ResetAgain
    BY <1>1, <1>4, KeepsLemma DEF ResetAgain, Removals
  <1>5. CASE PreflightEnds
    BY <1>1, <1>5, FailsKeeps, KeepsLemma DEF PreflightEnds
  <1>6. CASE ProxyStarts
    BY <1>1, <1>6, FailsKeeps DEF ProxyStarts
  <1>7. CASE KeysEnd
    <2>1. ASSUME NEW p, NEW locked \in {app.locked, TRUE},
                 Fails([app EXCEPT !.locked = locked], login, p)
          PROVE  app'.profile = app.profile
      <3> DEFINE a == [app EXCEPT !.locked = locked]
      <3>1. a \in Apps /\ a.profile = app.profile
        BY <1>1 DEF Apps
      <3>2. Fails(a, login, p)
        BY <2>1
      <3> HIDE DEF a
      <3>3. QED BY <3>1, <3>2, FailsKeeps
    <2>2. QED BY <1>7, <2>1 DEF KeysEnd, Voided
  <1>8. CASE LingeringEnds
    <2>1. \/ app' = app
          \/ \E locked \in {app.locked, TRUE} : app' = [app EXCEPT !.locked = locked]
      BY <1>8 DEF LingeringEnds
    <2>2. QED BY <1>1, <2>1 DEF Apps
  <1>9. QED
    BY <1>2, <1>3, <1>4, <1>5, <1>6, <1>7, <1>8 DEF Awaiting

LEMMA UserKeeps ==
  ASSUME Inv, User \/ Outside
  PROVE  app'.profile = app.profile
PROOF
  <1>1. app \in Apps /\ app.rejected \in BOOLEAN
    BY DEF Inv, Together, Apps
  <1>2. CASE User
    <2>1. CASE \E accepted \in BOOLEAN : Confirmed(accepted)
      BY <1>1, <2>1, FailsKeeps DEF Confirmed
    <2>2. CASE \E accepted \in BOOLEAN : AskAnswered(accepted)
      BY <1>1, <2>2, KeepsLemma DEF AskAnswered
    <2>3. CASE StopAtOnce \/ PrepareExit
      BY <1>1, <2>3, KeepsLemma DEF StopAtOnce, PrepareExit
    <2>4. CASE AskStop \/ SetDirty \/ (\E kind \in Actions : Call(kind))
      BY <2>4 DEF AskStop, SetDirty, Call
    <2>5. CASE \E kind \in Switching, target \in Profiles \cup {None} :
                 CallSwitch(kind, target)
      BY <2>5 DEF CallSwitch
    <2>6. CASE Chosen
      BY <1>1, <2>6, FailsKeeps DEF Chosen, Goes
    <2>7. QED BY <1>2, <2>1, <2>2, <2>3, <2>4, <2>5, <2>6 DEF User
  <1>3. CASE Outside
    <2>1. ASSUME NEW a \in Apps, NEW l, a.profile = app.profile, AuthRequired(a, l)
          PROVE  app'.profile = app.profile
      <3>1. \/ app' = a
            \/ \E r \in Removals :
                 app' = [a EXCEPT !.rejected = TRUE, !.locked = r.locked]
        BY <2>1 DEF AuthRequired
      <3>2. ASSUME NEW b
            PROVE  [a EXCEPT !.rejected = TRUE, !.locked = b].profile = a.profile
        BY DEF Apps
      <3>3. QED BY <2>1, <3>1, <3>2
    <2>2. CASE CookieLost
      <3>1. PICK r \in Removals :
              \E l : AuthRequired([app EXCEPT !.locked = r.locked], l)
        BY <2>2 DEF CookieLost
      <3> DEFINE a == [app EXCEPT !.locked = r.locked]
      <3>2. a \in Apps /\ a.profile = app.profile
        BY <1>1, KeepsLemma DEF Removals
      <3>3. \E l : AuthRequired(a, l)
        BY <3>1
      <3> HIDE DEF a
      <3>4. QED BY <2>1, <3>2, <3>3
    <2>3. CASE Unauthorized
      BY <1>1, <2>1, <2>3 DEF Unauthorized
    <2>4. CASE Captured \/ RemoteState
      BY <1>1, <2>4, KeepsLemma DEF Captured, RemoteState
    <2>5. CASE SignsIn \/ WindowClosed \/ ProxyError
      BY <2>5 DEF SignsIn, WindowClosed, ProxyError
    <2>6. QED BY <1>3, <2>2, <2>3, <2>4, <2>5 DEF Outside
  <1>4. QED BY <1>2, <1>3

Switched ==
  app'.profile # app.profile =>
    /\ proxy.gate # "open" /\ proxy.start = None
    /\ login.cookie = None /\ ~login.unclean /\ login.jar = None

LEMMA SwitchLemma == Inv /\ [Next]_vars => [Switched]_vars
PROOF
  <1>1. SUFFICES ASSUME Inv, Next, app'.profile # app.profile PROVE Switched
    BY DEF Switched
  <1>2. Select \/ Reload
    BY <1>1, StagesKeep, AwaitingKeeps, UserKeeps DEF Next
  <1>3. PICK stage \in {"select", "reload"} : Go(stage)
    BY <1>2 DEF Select, Reload
  <1>4. Present /\ Stage(op) = stage
    BY <1>1, <1>3, GoLemma
  <1>5. QED BY <1>4 DEF Present, Placed, Halted, Clean, Switched

-----------------------------------------------------------------------------
(* What the invariant says.                                                *)

\* Whatever takes the slot, and however what was in it ends, a login that came
\* meanwhile is still going to be acted upon (drainAuthentication).
THEOREM LoginsAreKept == Spec => []LoginNotForgotten
PROOF
  <1>1. Inv => LoginNotForgotten
    BY DEF Inv
  <1>2. QED BY <1>1, InvLemma, PTL

\* Where no operation is at work, the proxy serves only if that is wanted, the
\* store can be written and there is a login (assertToken, onAuthRequired,
\* lockStorage).
THEOREM ServingIsWanted == Spec => []ServesOnlyIfWanted
PROOF
  <1>1. Inv => ServesOnlyIfWanted
    BY DEF Inv, Together, Wanted, Good, Stopping, ServesOnlyIfWanted
  <1>2. QED BY <1>1, InvLemma, PTL

\* The login and the proxy are those of the profile that is shown, and another
\* one is selected only when nothing of the last one is left (activateStage,
\* retryLoad, needsPartitionReset).
THEOREM ProfilesAreApart == Spec => ProfilesStayApart
PROOF
  <1>1. Inv => TypeOK
    <2>1. SUFFICES ASSUME Inv PROVE TypeOK
      OBVIOUS
    <2>2. /\ app \in Apps /\ LoginSound(app, login) /\ proxy \in Proxies
          /\ drain \in BOOLEAN /\ ask \in {None, "asks", "outdated"}
          /\ op # None => op \in Operations
      BY <2>1 DEF Inv, Together, ProxySound, OpSound
    <2>3. QED BY <2>2 DEF TypeOK, LoginSound, Apps, Logins, Proxies
  <1>2. Inv => IdentitiesStayApart
    BY DEF Inv, Together, LoginSound, ProxySound, IdentitiesStayApart
  <1>3. Spec => [](TypeOK /\ IdentitiesStayApart)
    BY <1>1, <1>2, InvLemma, PTL
  <1>4. Spec => [][Switched]_vars
    BY SwitchLemma, InvLemma, PTL DEF Spec
  <1>5. Spec => SwitchIsClean
    BY <1>4 DEF SwitchIsClean, Switched
  <1>6. QED BY <1>3, <1>5, PTL DEF ProfilesStayApart
=============================================================================
