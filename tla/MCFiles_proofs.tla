---------------------------- MODULE MCFiles_proofs --------------------------
(***************************************************************************)
(* Theorems about the queue of file transfers, for every set of contexts,  *)
(* every limit and every number of transfers; and about the publication of *)
(* one file, for any contents and any number of parts: what is published   *)
(* is what was verified, it replaces nothing unseen, and the result tells  *)
(* what is left.                                                           *)
(***************************************************************************)
EXTENDS MCFiles, FiniteSetTheorems, WellFoundedInduction, TLAPS

-----------------------------------------------------------------------------
(* Least and greatest transfers.                                           *)

LEMMA Least ==
  ASSUME NEW n \in Nat, NEW S, S \subseteq 1..n, S # {}
  PROVE  \E m \in S : \A k \in S : m <= k
<1> DEFINE T == {1..k : k \in S}
<1>1. IsFiniteSet(1..n)
  BY FS_Interval
<1>2. T \subseteq SUBSET (1..n) /\ T # {}
  <2>1. \A k \in S : 1..k \in SUBSET (1..n)
    OBVIOUS
  <2>2. PICK k \in S : TRUE
    OBVIOUS
  <2>3. 1..k \in T
    OBVIOUS
  <2>4. QED
    BY <2>1, <2>3
<1>3. PICK t \in T : \A u \in T : <<u, t>> \notin StrictSubsetOrdering(1..n)
  <2>1. /\ IsWellFoundedOn(StrictSubsetOrdering(1..n), FiniteSubsetsOf(1..n))
        /\ SUBSET (1..n) = FiniteSubsetsOf(1..n)
    BY <1>1, FS_StrictSubsetOrderingWellFounded, FS_Subset DEF FiniteSubsetsOf
  <2>2. QED
    BY ZenonT(60), <2>1, <1>2, WFMin
<1>4. PICK m \in S : t = 1..m
  OBVIOUS
<1>5. ASSUME NEW k \in S, k < m
      PROVE  FALSE
  <2>1. 1..k \in T /\ 1..k \subseteq 1..m /\ m \in 1..m /\ m \notin 1..k
    BY <1>5
  <2>2. <<1..k, 1..m>> \in StrictSubsetOrdering(1..n)
    BY <2>1, <1>2, <1>4 DEF StrictSubsetOrdering
  <2>3. QED
    BY <2>1, <2>2, <1>3, <1>4
<1>6. QED
  BY <1>5

LEMMA Greatest ==
  ASSUME NEW n \in Nat, NEW S, S \subseteq 1..n, S # {}
  PROVE  \E m \in S : \A k \in S : k <= m
<1> DEFINE T == {n + 1 - k : k \in S}
<1>1. T \subseteq 1..(n + 1) /\ T # {}
  <2>1. \A k \in S : n + 1 - k \in 1..(n + 1)
    OBVIOUS
  <2>2. PICK k \in S : TRUE
    OBVIOUS
  <2>3. n + 1 - k \in T
    OBVIOUS
  <2>4. QED
    BY <2>1, <2>3
<1>2. PICK t \in T : \A k \in T : t <= k
  <2>1. n + 1 \in Nat
    OBVIOUS
  <2> HIDE DEF T
  <2>2. QED
    BY <1>1, <2>1, Least
<1>3. PICK m \in S : t = n + 1 - m
  OBVIOUS
<1>4. \A k \in S : n + 1 - m <= n + 1 - k
  BY <1>2, <1>3
<1>5. \A k \in S : k <= m
  BY <1>4
<1>6. QED
  BY <1>5

LEMMA JobSets ==
  /\ IsFiniteSet(Jobs)
  /\ \A S \in SUBSET Jobs : IsFiniteSet(S) /\ Cardinality(S) \in Nat
<1>1. IsFiniteSet(Jobs)
  BY FS_Interval, LimitAssumption DEF Jobs
<1>2. QED
  BY <1>1, FS_Subset, FS_CardinalityType

-----------------------------------------------------------------------------
(* What pump starts.                                                       *)

\* pump never starts more transfers than there are places.
LEMMA PumpedFits ==
  ASSUME NEW st, NEW run \in SUBSET Jobs, Cardinality(run) <= MaxInflight
  PROVE  Cardinality(run \cup Pumped(st, run)) <= MaxInflight
<1> DEFINE B == Pumped(st, run)
<1>1. B \subseteq Jobs
  BY DEF Pumped, Queued
<1>2. CASE B = {}
  BY <1>2
<1>3. CASE B # {}
  <2>1. PICK m \in B : \A k \in B : k <= m
    BY <1>1, <1>3, Greatest, LimitAssumption DEF Jobs
  <2> DEFINE L == {i \in Queued(st) : i < m}
  <2>2. Cardinality(L) + Cardinality(run) < MaxInflight
    BY DEF Pumped
  <2>3. B \ {m} \subseteq L
    BY <2>1, <1>1 DEF Pumped, Queued, Jobs
  <2>4. L \subseteq Jobs
    BY DEF Queued
  <2>5. Cardinality(B \ {m}) <= Cardinality(L)
    BY <2>3, <2>4, JobSets, FS_Subset
  <2>6. Cardinality(B) - 1 = Cardinality(B \ {m})
    BY <1>1, JobSets, FS_RemoveElement
  <2>7. /\ Cardinality(run) \in Nat /\ Cardinality(B) \in Nat
        /\ Cardinality(L) \in Nat /\ Cardinality(run \cap B) \in Nat
    BY <1>1, <2>4, JobSets
  <2>8. Cardinality(run \cup B) =
          Cardinality(run) + Cardinality(B) - Cardinality(run \cap B)
    BY <1>1, JobSets, FS_Union
  <2> HIDE DEF B, L
  <2>9. QED
    BY <2>2, <2>5, <2>6, <2>7, <2>8, LimitAssumption DEF B
<1>4. QED
  BY <1>2, <1>3

\* If pump leaves a transfer in the queue, then every place is taken.
LEMMA PumpedFills ==
  ASSUME NEW st, NEW run \in SUBSET Jobs, Queued(st) \cap run = {},
         Queued(st) \ Pumped(st, run) # {}
  PROVE  Cardinality(run \cup Pumped(st, run)) >= MaxInflight
<1> DEFINE B == Pumped(st, run)
           W == Queued(st) \ B
<1>1. W \subseteq Jobs /\ W # {} /\ B \subseteq Jobs
  BY DEF Pumped, Queued
<1>2. PICK m \in W : \A k \in W : m <= k
  BY <1>1, Least, LimitAssumption DEF Jobs
<1> DEFINE L == {i \in Queued(st) : i < m}
<1>3. ~ (Cardinality(L) + Cardinality(run) < MaxInflight)
  BY DEF Pumped
<1>4. L \subseteq B /\ L \subseteq Jobs /\ run \cap L = {}
  BY <1>1, <1>2 DEF Queued, Jobs
<1>5. Cardinality(run \cup L) =
        Cardinality(run) + Cardinality(L) - Cardinality(run \cap L)
  BY <1>4, JobSets, FS_Union
<1>6. Cardinality(run \cap L) = 0
  BY <1>4, FS_EmptySet
<1>7. Cardinality(run \cup L) <= Cardinality(run \cup B)
  <2>1. run \cup L \in SUBSET (run \cup B) /\ run \cup B \in SUBSET Jobs
    BY <1>1, <1>4
  <2>2. QED
    BY <2>1, JobSets, FS_Subset
<1>8. /\ Cardinality(run) \in Nat /\ Cardinality(L) \in Nat
      /\ Cardinality(run \cup B) \in Nat
  BY <1>1, <1>4, JobSets
<1> HIDE DEF B, L
<1>9. QED
  BY <1>3, <1>5, <1>6, <1>7, <1>8, LimitAssumption DEF B

-----------------------------------------------------------------------------
(* The inductive invariant.                                                *)

\* A transfer in the queue is not at work, none is at work that was not
\* created, and there is nothing in the list after the shutdown.
Waiting ==
  /\ \A j \in Jobs : status[j] = "queued" => j \notin running
  /\ running \subseteq 1..created
  /\ \A j \in Jobs : j > created => status[j] = "unlisted"
  /\ disposed => status = Cleared

IInv == TypeOK /\ Waiting /\ InflightBound /\ NoIdlePlace /\ OwnContextOnly

\* trim only drops settled transfers.
LEMMA TrimmedShape ==
  ASSUME NEW st \in [Jobs -> Statuses], NEW run
  PROVE  /\ Trimmed(st, run) \in [Jobs -> Statuses]
         /\ \A j \in Jobs : Trimmed(st, run)[j] \in {st[j], "unlisted"}
         /\ \A j \in Jobs : st[j] \in {"queued", "running"} =>
              Trimmed(st, run)[j] = st[j]
         /\ Queued(Trimmed(st, run)) = Queued(st)
  BY DEF Trimmed, Statuses, Settled, Ended, Queued

\* The queue advances within its limits.
LEMMA AdvanceInv ==
  ASSUME NEW st \in [Jobs -> Statuses], NEW run \in SUBSET Jobs,
         Cardinality(run) <= MaxInflight,
         \A j \in Jobs : st[j] = "running" => j \in run,
         Queued(st) \cap run = {},
         disposed => Queued(st) = {},
         Advance(st, run)
  PROVE  /\ status' \in [Jobs -> Statuses]
         /\ \A j \in Jobs : status'[j] = "running" => j \in running'
         /\ \A j \in Jobs : status'[j] = "queued" => j \notin running'
         /\ \A j \in Jobs : status'[j] = "unlisted" <=> st[j] = "unlisted"
         /\ run \subseteq running' /\ running' \subseteq run \cup Queued(st)
         /\ InflightBound' /\ NoIdlePlace'
<1> DEFINE begun == IF disposed THEN {} ELSE Pumped(st, run)
<1>1. /\ status' = [j \in Jobs |-> IF j \in begun THEN "running" ELSE st[j]]
      /\ running' = run \cup begun
  BY DEF Advance
<1>2. begun \subseteq Queued(st)
  BY DEF Pumped
<1>3. begun = Pumped(st, run)
  BY <1>2 DEF Pumped
<1> HIDE DEF begun
<1>4. Queued(status') = Queued(st) \ begun
  BY <1>1 DEF Queued
<1>5. InflightBound'
  BY <1>1, <1>3, PumpedFits DEF InflightBound
<1>6. NoIdlePlace'
  <2>1. SUFFICES ASSUME Queued(st) \ Pumped(st, run) # {}
                 PROVE  Cardinality(run \cup Pumped(st, run)) >= MaxInflight
    BY <1>1, <1>3, <1>4 DEF NoIdlePlace
  <2>2. QED
    BY <2>1, PumpedFills
<1>7. QED
  BY <1>1, <1>2, <1>5, <1>6 DEF Queued, Statuses

LEMMA InitInv == Init => IInv
<1>1. SUFFICES ASSUME Init PROVE IInv
  OBVIOUS
<1>2. Queued(status) = {}
  BY <1>1 DEF Init, Cleared, Queued
<1>3. Cardinality({}) = 0
  BY FS_EmptySet
<1>4. TypeOK
  <2>1. status \in [Jobs -> Statuses] /\ \A j \in Jobs : status[j] = "unlisted"
    BY <1>1 DEF Init, Cleared, Statuses
  <2>2. key \in [Jobs -> Contexts \cup {None}]
    BY <1>1 DEF Init
  <2>3. created \in 0..MaxJobs /\ running = {}
    BY <1>1, LimitAssumption DEF Init
  <2>4. dialog \in [key : Contexts \cup {None}, at : {"none", "select", "confirm"},
                    overwrite : BOOLEAN]
    BY <1>1 DEF Init, NoDialog
  <2>5. disposed \in BOOLEAN
    BY <1>1 DEF Init
  <2>6. context \in Contexts \cup {None} /\ currentKey \in Contexts \cup {None}
    BY <1>1 DEF Init
  <2>7. \A j \in Jobs : status[j] = "running" => j \in running
    BY <2>1
  <2>8. QED
    BY <2>1, <2>2, <2>3, <2>4, <2>5, <2>6, <2>7 DEF TypeOK
<1>5. Waiting
  BY <1>1 DEF Init, Waiting, Cleared
<1>6. InflightBound /\ NoIdlePlace
  BY <1>1, <1>2, <1>3, LimitAssumption DEF Init, InflightBound, NoIdlePlace
<1>7. OwnContextOnly
  BY <1>1 DEF Init, OwnContextOnly, Cleared
<1>8. QED
  BY <1>4, <1>5, <1>6, <1>7 DEF IInv

LEMMA ChosenInv ==
  ASSUME IInv, Chosen
  PROVE  IInv'
<1> DEFINE st == [status EXCEPT ![created'] = "queued"]
<1>1. /\ created < MaxJobs /\ created' = created + 1
      /\ key' = [key EXCEPT ![created'] = dialog.key]
      /\ Advance(st, running) /\ dialog' = NoDialog
      /\ UNCHANGED <<context, currentKey, disposed>>
      /\ ~disposed /\ context = dialog.key
  BY DEF Chosen, Enqueue
<1>2. created' \in Jobs /\ created' \notin running /\ created' \in 0..MaxJobs
  BY <1>1, LimitAssumption DEF IInv, TypeOK, Waiting, Jobs
<1>3. st \in [Jobs -> Statuses]
  BY <1>2 DEF IInv, TypeOK, Statuses
<1>4. /\ \A j \in Jobs : st[j] = "running" => j \in running
      /\ Queued(st) \cap running = {}
      /\ running \in SUBSET Jobs /\ Cardinality(running) <= MaxInflight
  BY <1>2 DEF IInv, TypeOK, Waiting, Queued, InflightBound
<1> HIDE DEF st
<1>5. /\ status' \in [Jobs -> Statuses]
      /\ \A j \in Jobs : status'[j] = "running" => j \in running'
      /\ \A j \in Jobs : status'[j] = "queued" => j \notin running'
      /\ \A j \in Jobs : status'[j] = "unlisted" <=> st[j] = "unlisted"
      /\ running' \subseteq running \cup Queued(st)
      /\ InflightBound' /\ NoIdlePlace'
  BY <1>1, <1>3, <1>4, AdvanceInv
<1>6. \A j \in Jobs \ {created'} : st[j] = status[j] /\ key'[j] = key[j]
  BY <1>1, <1>2 DEF st, IInv, TypeOK
<1>7. key' \in [Jobs -> Contexts \cup {None}] /\ key'[created'] = context
  BY <1>1, <1>2 DEF IInv, TypeOK
<1>8. /\ \A j \in Jobs : j > created' => st[j] = "unlisted"
      /\ Queued(st) \subseteq 1..created'
  BY <1>1, <1>2, <1>6 DEF IInv, TypeOK, Waiting, Queued, Jobs
<1>9. TypeOK' /\ Waiting'
  <2>1. running' \subseteq Jobs /\ running' \subseteq 1..created'
    BY <1>1, <1>2, <1>4, <1>5, <1>8 DEF IInv, TypeOK, Waiting, Queued
  <2>2. TypeOK'
    BY <1>1, <1>2, <1>5, <1>7, <2>1 DEF IInv, TypeOK, NoDialog
  <2>3. \A j \in Jobs : j > created' => status'[j] = "unlisted"
    BY <1>5, <1>8
  <2>4. QED
    BY <1>1, <1>5, <2>1, <2>2, <2>3 DEF Waiting
<1>10. OwnContextOnly'
  <2>1. /\ currentKey = context
        /\ \A j \in Jobs : status[j] # "unlisted" => key[j] = context
    BY <1>1 DEF IInv, OwnContextOnly
  <2>2. \A j \in Jobs : status'[j] # "unlisted" => key'[j] = context
    BY <1>5, <1>6, <1>7, <2>1
  <2>3. QED
    BY <1>1, <1>9, <2>1, <2>2 DEF OwnContextOnly, Aborted, TypeOK
<1>11. QED
  BY <1>5, <1>9, <1>10 DEF IInv

LEMMA EndsInv ==
  ASSUME IInv, NEW j \in Jobs, NEW outcome \in Ended, Ends(j, outcome)
  PROVE  IInv'
<1> DEFINE ended == [status EXCEPT ![j] = Verdict(j, outcome)]
           rest == running \ {j}
           st == Trimmed(ended, rest)
<1>1. /\ j \in running /\ Advance(st, rest)
      /\ UNCHANGED <<context, currentKey, key, created, dialog, disposed>>
  BY DEF Ends
<1>2. Verdict(j, outcome) \in Ended \cup {"unlisted"}
      /\ (Verdict(j, outcome) = "unlisted" <=> status[j] = "unlisted")
  BY DEF Verdict, Ended
<1>3. ended \in [Jobs -> Statuses]
  BY <1>2 DEF IInv, TypeOK, Statuses
<1>4. /\ ended[j] \notin {"queued", "running"}
      /\ ended[j] = "unlisted" <=> status[j] = "unlisted"
      /\ \A i \in Jobs \ {j} : ended[i] = status[i]
  BY <1>2 DEF IInv, TypeOK, Ended
<1> HIDE DEF ended
<1>5. /\ st \in [Jobs -> Statuses]
      /\ \A i \in Jobs : st[i] \in {ended[i], "unlisted"}
      /\ Queued(st) = Queued(ended)
  BY <1>3, TrimmedShape
<1> HIDE DEF st
<1>6. rest \subseteq Jobs /\ Cardinality(rest) <= MaxInflight
  <2>1. running \in SUBSET Jobs /\ rest \in SUBSET running
    BY DEF IInv, TypeOK
  <2>2. Cardinality(rest) <= Cardinality(running)
    BY <2>1, JobSets, FS_Subset
  <2>3. Cardinality(rest) \in Nat /\ Cardinality(running) \in Nat
    BY <2>1, JobSets
  <2>4. QED
    BY <2>1, <2>2, <2>3, LimitAssumption DEF IInv, InflightBound
<1>7. /\ \A i \in Jobs : st[i] = "running" => i \in rest
      /\ Queued(st) \cap rest = {}
      /\ disposed => Queued(st) = {}
      /\ Queued(st) \subseteq Queued(status)
  BY ZenonT(60), <1>4, <1>5 DEF IInv, TypeOK, Waiting, Queued, Cleared
<1>8. /\ status' \in [Jobs -> Statuses]
      /\ \A i \in Jobs : status'[i] = "running" => i \in running'
      /\ \A i \in Jobs : status'[i] = "queued" => i \notin running'
      /\ \A i \in Jobs : status'[i] = "unlisted" <=> st[i] = "unlisted"
      /\ running' \subseteq rest \cup Queued(st)
      /\ InflightBound' /\ NoIdlePlace'
  BY <1>1, <1>5, <1>6, <1>7, AdvanceInv
<1>9. \A i \in Jobs : status[i] = "unlisted" => status'[i] = "unlisted"
  BY <1>4, <1>5, <1>8
<1>10. running' \subseteq 1..created
  BY <1>7, <1>8 DEF IInv, TypeOK, Waiting, Queued, Jobs
<1>11. TypeOK' /\ Waiting'
  <2>1. disposed => status' = Cleared
    BY <1>8, <1>9 DEF IInv, Waiting, Cleared
  <2>2. QED
    <3>1. running' \subseteq Jobs
      BY <1>6, <1>8 DEF Queued
    <3>2. TypeOK'
      BY <1>1, <1>8, <3>1 DEF IInv, TypeOK
    <3>3. \A i \in Jobs : i > created' => status'[i] = "unlisted"
      BY <1>1, <1>9 DEF IInv, Waiting
    <3>4. QED
      BY <1>1, <1>8, <1>10, <2>1, <3>2, <3>3 DEF Waiting
<1>12. OwnContextOnly'
  <2>1. SUFFICES ASSUME ~disposed PROVE OwnContextOnly'
    BY <1>1 DEF OwnContextOnly
  <2>2. /\ currentKey = context
        /\ \A i \in Jobs : status[i] # "unlisted" => key[i] = context
    BY <2>1 DEF IInv, OwnContextOnly
  <2>3. \A i \in Jobs : status'[i] # "unlisted" => key'[i] = context
    BY <1>1, <1>9, <2>2
  <2>4. running' \subseteq Jobs
    BY <1>6, <1>8 DEF Queued
  <2>5. QED
    BY <1>1, <2>2, <2>3, <2>4 DEF OwnContextOnly, Aborted
<1>13. QED
  BY <1>8, <1>11, <1>12 DEF IInv

LEMMA CancelInv ==
  ASSUME IInv, NEW j \in Jobs, Cancel(j)
  PROVE  IInv'
<1> DEFINE st == [status EXCEPT ![j] = "cancelled"]
<1>1. Adopted = status /\ currentKey = context
  BY DEF Cancel, IInv, OwnContextOnly, Adopted
<1>2. /\ status[j] \in {"queued", "running"}
      /\ status' = Trimmed(st, running)
      /\ currentKey' = context /\ ~disposed
      /\ UNCHANGED <<context, key, running, created, dialog, disposed>>
  BY <1>1 DEF Cancel
<1>3. st \in [Jobs -> Statuses]
  BY DEF IInv, TypeOK, Statuses, Ended
<1>4. st[j] = "cancelled" /\ \A i \in Jobs \ {j} : st[i] = status[i]
  BY DEF IInv, TypeOK
<1> HIDE DEF st
<1>5. /\ status' \in [Jobs -> Statuses]
      /\ \A i \in Jobs : status'[i] \in {st[i], "unlisted"}
      /\ Queued(status') = Queued(st)
  BY <1>2, <1>3, TrimmedShape
<1>6. Queued(status') \subseteq Queued(status)
  BY <1>4, <1>5 DEF Queued
<1>7. TypeOK' /\ Waiting' /\ OwnContextOnly'
  BY <1>1, <1>2, <1>4, <1>5
  DEF IInv, TypeOK, Waiting, OwnContextOnly, Aborted, Jobs
<1>8. InflightBound' /\ NoIdlePlace'
  BY <1>2, <1>6 DEF IInv, InflightBound, NoIdlePlace
<1>9. QED
  BY <1>7, <1>8 DEF IInv

\* Whatever clears the list leaves the transfers at work alone.
LEMMA ClearedInv ==
  ASSUME IInv, status' = Cleared,
         UNCHANGED <<key, running, created, dialog>>
  PROVE  /\ \A j \in Jobs : status'[j] = "unlisted"
         /\ status' \in [Jobs -> Statuses]
         /\ Waiting' /\ InflightBound' /\ NoIdlePlace'
  BY DEF IInv, TypeOK, Waiting, InflightBound, NoIdlePlace, Cleared, Queued,
         Statuses, Jobs

LEMMA StepInv == IInv /\ [Next]_vars => IInv'
<1>1. SUFFICES ASSUME IInv, [Next]_vars PROVE IInv'
  OBVIOUS
<1>2. ASSUME NEW overwrite \in BOOLEAN, Open(overwrite) PROVE IInv'
  <2>1. Adopted = status
    BY <1>1, <1>2 DEF Open, IInv, OwnContextOnly, Adopted
  <2>2. QED
    BY <1>1, <1>2, <2>1
    DEF Open, IInv, TypeOK, Waiting, InflightBound, NoIdlePlace,
        OwnContextOnly, Aborted
<1>3. ASSUME Dismiss PROVE IInv'
  BY <1>1, <1>3
  DEF Dismiss, IInv, TypeOK, Waiting, InflightBound, NoIdlePlace,
      OwnContextOnly, Aborted, NoDialog
<1>4. ASSUME Selected PROVE IInv'
  BY <1>1, <1>4
  DEF Selected, IInv, TypeOK, Waiting, InflightBound, NoIdlePlace,
      OwnContextOnly, Aborted
<1>5. ASSUME NEW value \in Contexts \cup {None}, Change(value) PROVE IInv'
  <2>1. CASE disposed
    BY <1>1, <1>5, <2>1
    DEF Change, IInv, TypeOK, Waiting, InflightBound, NoIdlePlace, OwnContextOnly
  <2>2. CASE ~disposed
    <3>1. status' = Cleared /\ currentKey' = value /\ context' = value
      BY <1>1, <1>5, <2>2 DEF Change, IInv, OwnContextOnly
    <3>2. QED
      BY <1>1, <1>5, <3>1, ClearedInv DEF Change, IInv, TypeOK, OwnContextOnly, Aborted
  <2>3. QED
    BY <2>1, <2>2
<1>6. ASSUME Dispose PROVE IInv'
  BY <1>1, <1>6, ClearedInv DEF Dispose, IInv, TypeOK, OwnContextOnly
<1>7. ASSUME End PROVE IInv'
  BY <1>1, <1>7, EndsInv DEF End
<1>8. ASSUME NEW j \in Jobs, Cancel(j) PROVE IInv'
  BY <1>1, <1>8, CancelInv
<1>9. ASSUME UNCHANGED vars PROVE IInv'
  BY <1>1, <1>9
  DEF vars, IInv, TypeOK, Waiting, InflightBound, NoIdlePlace, OwnContextOnly,
      Aborted
<1>10. QED
  BY <1>1, <1>2, <1>3, <1>4, <1>5, <1>6, <1>7, <1>8, <1>9, ChosenInv DEF Next

LEMMA Invariance == Spec => []IInv
  BY InitInv, StepInv, PTL DEF Spec

\* The list, the transfers at work and the dialog always have the shape that
\* execute, pump and trim rely on.
THEOREM TransfersTyped == Spec => []TypeOK
  BY Invariance, PTL DEF IInv

\* However transfers start, are cancelled and end, and whatever the limit is,
\* never more of them are at work than MAX_INFLIGHT allows (execute, pump).
THEOREM InflightBounded == Spec => []InflightBound
  BY Invariance, PTL DEF IInv

\* Never more transfers are at work than MAX_INFLIGHT allows, and one waits only
\* while every place is taken (pump).
THEOREM PlacesAlwaysUsed == Spec => []PlacesUsed
PROOF
  <1>1. IInv => PlacesUsed BY DEF IInv, PlacesUsed
  <1>2. QED BY <1>1, Invariance, PTL

\* No transfer is ever listed, or at work unaborted, in a context other than
\* the one it was started in (adopt, isCurrent, assertCurrent).
THEOREM TransfersOwnContext == Spec => []OwnContextOnly
  BY Invariance, PTL DEF IInv

-----------------------------------------------------------------------------
(* The publication of one file.                                            *)

\* A content is told from a missing file, from a directory, and from what
\* others made or the portal spoilt.
Others == {Publication!NoFile, Publication!Foreign, Publication!Directory}
ContentsAreFiles == Contents \cap (Others \cup {Publication!Bad}) = {}

\* The steps of each direction.
UpSteps == {"start", "preflight", "init", "chunks", "single", "compare",
            "readback", "recheck", "move", "replace", "confirm", "done", "failed"}
DownSteps == {"start", "receive", "verify", "publish", "unlink", "done", "failed"}

\* An upload and a download go their own ways, and the first hash is known
\* once the transfer has begun.
OnItsWay ==
  /\ source \in Contents
  /\ pc \in IF Publication!Up THEN UpSteps ELSE DownSteps
  /\ pc \notin {"start", "failed"} => before \in Contents

\* What may be published: the copy that was read back.
Verified ==
  /\ pc \in {"recheck", "move", "replace", "publish"} => copy = before
  /\ pc \in {"unlink", "done"} => placed = before
  /\ pc = "confirm" => target = placed \/ target \in Others

\* What an upload leaves: nothing before the negotiation; from then on the
\* result tells it, until the move has taken the copy away.
Leftovers ==
  Publication!Up =>
        /\ pc \in {"start", "preflight", "init"} => copy = Publication!NoFile /\ ~tempDir
        /\ pc \notin {"start", "preflight", "init", "done", "failed"} => retained
        /\ pc # "failed" => (tempDir => multipart)
        /\ pc \notin {"confirm", "done", "failed"} => target # Publication!Bad
        /\ pc = "confirm" => mayBeChanged

PublicationInv == OnItsWay /\ Verified /\ Leftovers /\ Publication!LeftoversTold

\* The initial states.
LEMMA PublicationInit == ContentsAreFiles /\ Publication!Init => PublicationInv
  BY DEF Others, ContentsAreFiles, Publication!Init, PublicationInv, OnItsWay,
         Verified, Leftovers, Publication!LeftoversTold, Publication!Options,
         Publication!Up, UpSteps, DownSteps, Publication!Ended,
         Publication!NoFile, Publication!Bad, Publication!Foreign,
         Publication!Directory

\* What the transfer itself does before it touches the target.
LEMMA CopyLemma ==
  ASSUME ContentsAreFiles, PublicationInv,
         \/ Publication!Start \/ Publication!Preflight \/ Publication!Small
         \/ Publication!SendSingle \/ Publication!SendChunk \/ Publication!Merge
         \/ (\E offered \in BOOLEAN : Publication!Negotiate(offered))
         \/ Publication!Compare \/ Publication!Readback
         \/ Publication!Receive \/ Publication!Verify
  PROVE  PublicationInv'
PROOF
  <1> USE DEF PublicationInv, OnItsWay, Verified, Others, Leftovers,
              Publication!LeftoversTold, Publication!Up, UpSteps, DownSteps,
              Publication!Ended, Publication!GoTo, Publication!world,
              Publication!told, Publication!job
  <1>1. CASE Publication!Start
    BY <1>1 DEF Publication!Start
  <1>2. CASE Publication!Preflight \/ Publication!Small
    BY <1>2 DEF Publication!Preflight, Publication!Small
  <1>3. CASE Publication!SendSingle
    BY <1>3 DEF Publication!SendSingle
  <1>4. CASE Publication!SendChunk
    BY <1>4 DEF Publication!SendChunk
  <1>5. CASE Publication!Merge
    BY <1>5 DEF Publication!Merge
  <1>6. CASE \E offered \in BOOLEAN : Publication!Negotiate(offered)
    BY <1>6 DEF Publication!Negotiate
  <1>7. CASE Publication!Compare \/ Publication!Readback
    BY <1>7 DEF Publication!Compare, Publication!Readback
  <1>8. CASE Publication!Receive
    BY <1>8 DEF Publication!Receive
  <1>9. CASE Publication!Verify
    BY <1>9 DEF Publication!Verify
  <1>10. QED BY <1>1, <1>2, <1>3, <1>4, <1>5, <1>6, <1>7, <1>8, <1>9

\* The publication.
LEMMA PublicationLemma ==
  ASSUME ContentsAreFiles, PublicationInv,
         \/ Publication!Recheck \/ Publication!Move \/ Publication!Replace
         \/ Publication!Confirm \/ Publication!Publish \/ Publication!Unlink
  PROVE  PublicationInv'
PROOF
  <1> USE DEF Others, ContentsAreFiles, PublicationInv, OnItsWay, Verified,
              Leftovers, Publication!LeftoversTold, Publication!Up, UpSteps,
              DownSteps, Publication!Ended, Publication!GoTo,
              Publication!world, Publication!told, Publication!job,
              Publication!NoFile, Publication!Bad, Publication!Foreign,
              Publication!Directory
  <1>1. CASE Publication!Recheck
    BY <1>1 DEF Publication!Recheck
  <1>2. CASE Publication!Move
    BY <1>2 DEF Publication!Move
  <1>3. CASE Publication!Replace
    BY <1>3 DEF Publication!Replace
  <1>4. CASE Publication!Confirm
    BY <1>4 DEF Publication!Confirm
  <1>5. CASE Publication!Publish
    BY <1>5 DEF Publication!Publish
  <1>6. CASE Publication!Unlink
    BY <1>6 DEF Publication!Unlink
  <1>7. QED BY <1>1, <1>2, <1>3, <1>4, <1>5, <1>6

\* A failure, with what the request that was given up may have done.
LEMMA FailLemma ==
  ASSUME ContentsAreFiles, PublicationInv, Publication!Fail \/ Publication!FailDownload
  PROVE  PublicationInv'
PROOF
  <1> USE DEF Others, ContentsAreFiles, PublicationInv, OnItsWay, Verified,
              Leftovers, Publication!LeftoversTold, Publication!Up, UpSteps,
              DownSteps, Publication!Ended, Publication!GoTo,
              Publication!NoFile, Publication!Bad, Publication!Foreign,
              Publication!Directory
  <1>1. CASE Publication!Fail /\ pc = "init"
    BY <1>1 DEF Publication!Fail, Publication!Lost
  <1>2. CASE Publication!Fail /\ pc = "single"
    BY <1>2 DEF Publication!Fail, Publication!Lost
  <1>3. CASE Publication!Fail /\ pc = "move"
    BY <1>3 DEF Publication!Fail, Publication!Lost
  <1>4. CASE Publication!Fail /\ pc = "replace"
    BY <1>4 DEF Publication!Fail, Publication!Lost
  <1>5. CASE Publication!Fail /\ pc \notin {"init", "single", "move", "replace"}
    BY <1>5 DEF Publication!Fail, Publication!Lost, Publication!world
  <1>6. CASE Publication!FailDownload
    BY <1>6 DEF Publication!FailDownload, Publication!job, Publication!told
  <1>7. QED BY <1>1, <1>2, <1>3, <1>4, <1>5, <1>6

\* The others.
LEMMA OthersLemma ==
  ASSUME ContentsAreFiles, PublicationInv,
         \/ Publication!SourceChanges \/ Publication!TargetChanges
         \/ UNCHANGED Publication!vars
  PROVE  PublicationInv'
PROOF
  <1> USE DEF Others, ContentsAreFiles, PublicationInv, OnItsWay, Verified,
              Leftovers, Publication!LeftoversTold, Publication!Up, UpSteps,
              DownSteps, Publication!Ended, Publication!job, Publication!told,
              Publication!NoFile, Publication!Bad, Publication!Foreign,
              Publication!Directory
  <1>1. CASE Publication!SourceChanges
    BY <1>1 DEF Publication!SourceChanges
  <1>2. CASE Publication!TargetChanges
    BY <1>2 DEF Publication!TargetChanges
  <1>3. CASE UNCHANGED Publication!vars
    BY <1>3 DEF Publication!vars
  <1>4. QED BY <1>1, <1>2, <1>3

\* Every step.
LEMMA PublicationNext ==
  ASSUME ContentsAreFiles, PublicationInv, [Publication!Next]_(Publication!vars)
  PROVE  PublicationInv'
  BY CopyLemma, PublicationLemma, FailLemma, OthersLemma DEF Publication!Next

\* The invariant of every behaviour.
LEMMA PublicationInvariance ==
  ASSUME ContentsAreFiles PROVE Publication!Spec => []PublicationInv
PROOF
  <1>1. Publication!Init => PublicationInv
    BY PublicationInit
  <1>2. PublicationInv /\ [Publication!Next]_(Publication!vars) => PublicationInv'
    BY PublicationNext
  <1>3. QED BY <1>1, <1>2, PTL DEF Publication!Spec

\* Each part that is run beside the others behaves as its own module says.
LEMMA FilesIsPublication == FilesSpec => Publication!Spec
PROOF
  <1>1. FilesInit => Publication!Init
    BY DEF FilesInit
  <1>2. [FilesNext]_<<part, vars, publication, updates>> => [Publication!Next]_(Publication!vars)
    BY DEF FilesNext, publication, Publication!vars
  <1>3. QED BY <1>1, <1>2, PTL DEF FilesSpec, Publication!Spec

LEMMA FilesIsQueue == FilesSpec => Spec
PROOF
  <1>1. FilesInit => Init
    BY DEF FilesInit
  <1>2. [FilesNext]_<<part, vars, publication, updates>> => [Next]_vars
    BY DEF FilesNext
  <1>3. QED BY <1>1, <1>2, PTL DEF FilesSpec, Spec

-----------------------------------------------------------------------------
\* A transfer that succeeds has put into the target what the source held
\* when it began, whatever others and the portal do meanwhile.
THEOREM PublicationVerified ==
  ASSUME ContentsAreFiles
  PROVE  /\ Publication!Spec => []Publication!PublishedIsVerified
         /\ FilesSpec => []PublishedIsVerified
PROOF
  <1>1. PublicationInv => Publication!PublishedIsVerified
    BY DEF PublicationInv, OnItsWay, Verified, Others,
           Publication!PublishedIsVerified
  <1>2. Publication!Spec => []Publication!PublishedIsVerified
    BY <1>1, PublicationInvariance, PTL
  <1>3. QED BY <1>2, FilesIsPublication, PTL DEF PublishedIsVerified

\* The target is touched only with a verified copy in hand, and by a
\* download that may not overwrite only while there is none.
THEOREM PublicationClobbersNothing ==
  ASSUME ContentsAreFiles
  PROVE  /\ Publication!Spec => Publication!NothingClobbered
         /\ FilesSpec => NothingClobbered
PROOF
  <1> DEFINE Careful ==
        placed' # placed =>
          /\ opt.direction = "download" /\ ~opt.overwrite => target = Publication!NoFile
          /\ copy = before
  <1>1. ASSUME PublicationInv, Publication!Next PROVE Careful
    <2> USE DEF PublicationInv, OnItsWay, Verified, Others, Publication!Up,
                UpSteps, DownSteps, Publication!GoTo
    <2>1. CASE Publication!Move \/ Publication!Replace
      BY <1>1, <2>1 DEF Publication!Move, Publication!Replace
    <2>2. CASE Publication!Publish
      BY <1>1, <2>2 DEF Publication!Publish
    <2>3. CASE Publication!Fail
      BY <1>1, <2>3 DEF Publication!Fail, Publication!Lost
    <2>4. CASE ~(Publication!Move \/ Publication!Replace \/ Publication!Publish \/ Publication!Fail)
      <3>1. placed' = placed
        BY <1>1, <2>4 DEF Publication!Next, Publication!Start,
                          Publication!Preflight, Publication!Negotiate,
                          Publication!Small, Publication!SendSingle,
                          Publication!SendChunk, Publication!Merge,
                          Publication!Compare, Publication!Readback,
                          Publication!Recheck, Publication!Confirm,
                          Publication!Receive, Publication!Verify,
                          Publication!Unlink, Publication!FailDownload,
                          Publication!SourceChanges,
                          Publication!TargetChanges, Publication!job
      <3>2. QED BY <3>1
    <2>5. QED BY <2>1, <2>2, <2>3, <2>4
  <1>2. PublicationInv /\ [Publication!Next]_(Publication!vars) => [Careful]_(Publication!vars)
    BY <1>1
  <1>3. Publication!Spec => Publication!NothingClobbered
    BY <1>2, PublicationInvariance, PTL DEF Publication!Spec, Publication!NothingClobbered
  <1>4. QED BY <1>3, FilesIsPublication, PTL DEF NothingClobbered

\* A result tells what is left on the portal and of the target, and a
\* download that is reported as completed leaves nothing.
THEOREM PublicationTellsLeftovers ==
  ASSUME ContentsAreFiles
  PROVE  /\ Publication!Spec => []Publication!LeftoversTold
         /\ FilesSpec => []LeftoversTold
PROOF
  <1>1. PublicationInv => Publication!LeftoversTold
    BY DEF PublicationInv
  <1>2. Publication!Spec => []Publication!LeftoversTold
    BY <1>1, PublicationInvariance, PTL
  <1>3. QED BY <1>2, FilesIsPublication, PTL DEF LeftoversTold

-----------------------------------------------------------------------------
(* The update of the program and its ways out.                              *)

\* An operation is where its kind can be.
Operation ==
  /\ op \in [kind : {"none", "check", "download", "install"},
             at : {"none", "ask", "fetch", "verify", "verified", "prepare",
                   "staging", "handoff"},
             event : {"none", "seen", "error"}]
  /\ op.kind = "none" <=> op = Updates!NoOp
  /\ op.kind = "check" => op.at = "ask"
  /\ op.kind = "download" => op.at \in {"fetch", "verify"}
  /\ op.kind = "install" =>
       op.at \in {"prepare", "verify", "verified", "staging", "handoff"}

\* What the hand-over and its quit say of themselves.
HandOverFlags ==
  /\ intent \in [on : BOOLEAN, armed : BOOLEAN, failed : BOOLEAN, issued : BOOLEAN]
  /\ marker \in {"none", "valid", "invalid"} /\ native \subseteq {"notice", "quit"}

\* From the hand-over on the program wants a restart, and no candidate is
\* looked for or installed any more; only what was handed over can announce a quit; an
\* installation that is past its preparation keeps the proxy stopped; and the
\* file it has verified is the candidate, unless others have changed it since.
Handing ==
  /\ native # {} \/ marker = "valid" => handed # Updates!NotHanded
  /\ handed # Updates!NotHanded \/ intent.on \/ op.at \in {"staging", "handoff"}
       => restartRequired
  /\ restartRequired =>
       /\ op.kind \notin {"check", "download"}
       /\ op.at \notin {"prepare", "verify", "verified"}
  /\ job = "install" => op.kind = "install"
  /\ op.kind = "install" /\ op.at # "prepare" => prepared
  /\ op.at = "verified" => cache = candidate \/ tampered

\* Whoever may quit has cleaned up or had a fatal error; the code says whether
\* there was one until the cleanup has ended.
Leaving ==
  /\ left \in {"no", "update", "quit", "exit"}
  /\ preparation \in {"none", "running", "done", "failed"} /\ code \in {0, 1}
  /\ allowQuit => shuttingDown /\ (fatal \/ prepared)
  /\ preparation # "none" => shuttingDown
  /\ job = "exit" => ~shuttingDown
  /\ preparation = "done" => prepared
  /\ left # "exit" => (code = 1 <=> fatal) /\ waiting # "settled"

UpdatesInv ==
  /\ Updates!TypeOK /\ Operation /\ HandOverFlags /\ Handing /\ Leaving
  /\ Updates!UpdateLeavesClean /\ Updates!ExitCodeIsTold

\* The initial states.
LEMMA UpdatesInit == ASSUME MaxVersion \in Nat, Updates!Init PROVE UpdatesInv
PROOF
  <1> USE DEF Updates!Init, Updates!CoordinatorInit, Updates!NoOp,
              Updates!NoIntent, Updates!NotHanded
  <1>1. Updates!TypeOK
    BY DEF Updates!TypeOK, Updates!Running
  <1>2. Operation /\ HandOverFlags
    BY DEF Operation, HandOverFlags
  <1>3. Handing
    BY DEF Handing
  <1>4. Leaving
    BY DEF Leaving
  <1>5. Updates!UpdateLeavesClean /\ Updates!ExitCodeIsTold
    BY DEF Updates!UpdateLeavesClean, Updates!ExitCodeIsTold
  <1>6. QED BY <1>1, <1>2, <1>3, <1>4, <1>5 DEF UpdatesInv

\* Checking and downloading.
LEMMA LookingLemma ==
  ASSUME MaxVersion \in Nat, UpdatesInv, left = "no",
         \/ Updates!Check \/ Updates!Checked \/ Updates!Download
         \/ Updates!DownloadEvent \/ Updates!Fetched \/ Updates!Downloaded
  PROVE  UpdatesInv'
PROOF
  <1> USE DEF UpdatesInv, Updates!TypeOK, Operation, HandOverFlags, Handing,
              Leaving, Updates!UpdateLeavesClean, Updates!ExitCodeIsTold,
              Updates!NoOp, Updates!NotHanded, Updates!LockedPhases,
              Updates!Op, Updates!Publish, Updates!OpFails, Updates!main,
              Updates!world, Updates!coordinator
  <1>1. CASE Updates!Check
    BY <1>1 DEF Updates!Check
  <1>2. CASE Updates!Checked
    BY <1>2 DEF Updates!Checked
  <1>3. CASE Updates!Download
    BY <1>3 DEF Updates!Download
  <1>4. CASE Updates!DownloadEvent
    BY <1>4 DEF Updates!DownloadEvent
  <1>5. CASE Updates!Fetched
    BY <1>5 DEF Updates!Fetched
  <1>6. CASE Updates!Downloaded
    BY <1>6 DEF Updates!Downloaded
  <1>7. QED BY <1>1, <1>2, <1>3, <1>4, <1>5, <1>6

\* An installation, up to the hand-over.
LEMMA InstallingLemma ==
  ASSUME MaxVersion \in Nat, UpdatesInv, left = "no",
         \/ Updates!Install \/ Updates!Prepare \/ Updates!VerifyAgain
         \/ Updates!SignatureInvalid \/ Updates!HandOff
         \/ Updates!Staged \/ Updates!HandOffFails \/ Updates!Revoked
  PROVE  UpdatesInv'
PROOF
  <1> USE DEF UpdatesInv, Updates!TypeOK, Operation, HandOverFlags, Handing,
              Leaving, Updates!UpdateLeavesClean, Updates!ExitCodeIsTold,
              Updates!NoOp, Updates!NotHanded, Updates!LockedPhases,
              Updates!Op, Updates!Publish, Updates!OpFails, Updates!main,
              Updates!world, Updates!coordinator, Updates!JobEnds,
              Updates!IntentFails, Updates!HandOver, Updates!NoIntent
  <1>1. CASE Updates!Install
    BY <1>1 DEF Updates!Install
  <1>2. CASE Updates!Prepare
    BY <1>2 DEF Updates!Prepare
  <1>3. CASE Updates!HandOff
    <2>1. Updates!TypeOK'
      BY <1>3 DEF Updates!HandOff
    <2>2. Operation'
      BY <1>3 DEF Updates!HandOff
    <2>3. HandOverFlags'
      BY ZenonT(60), <1>3 DEF Updates!HandOff
    <2>4. Handing'
      BY <1>3 DEF Updates!HandOff
    <2>5. Leaving'
      BY <1>3 DEF Updates!HandOff
    <2>6. Updates!UpdateLeavesClean' /\ Updates!ExitCodeIsTold'
      BY <1>3 DEF Updates!HandOff
    <2>7. QED BY <2>1, <2>2, <2>3, <2>4, <2>5, <2>6
  <1>4. CASE Updates!Staged
    <2>1. Updates!TypeOK'
      BY <1>4 DEF Updates!Staged
    <2>2. Operation'
      BY <1>4 DEF Updates!Staged
    <2>3. HandOverFlags'
      BY <1>4 DEF Updates!Staged
    <2>4. Handing'
      BY <1>4 DEF Updates!Staged
    <2>5. Leaving'
      BY <1>4 DEF Updates!Staged
    <2>6. Updates!UpdateLeavesClean' /\ Updates!ExitCodeIsTold'
      BY <1>4 DEF Updates!Staged
    <2>7. QED BY <2>1, <2>2, <2>3, <2>4, <2>5, <2>6
  <1>5. CASE Updates!HandOffFails
    BY <1>5 DEF Updates!HandOffFails
  <1>6. CASE Updates!Revoked
    <2>1. Updates!TypeOK'
      BY <1>6 DEF Updates!Revoked
    <2>2. Operation'
      BY <1>6 DEF Updates!Revoked
    <2>3. HandOverFlags'
      BY <1>6 DEF Updates!Revoked
    <2>4. Handing'
      BY <1>6 DEF Updates!Revoked
    <2>5. Leaving'
      BY <1>6 DEF Updates!Revoked
    <2>6. Updates!UpdateLeavesClean' /\ Updates!ExitCodeIsTold'
      BY <1>6 DEF Updates!Revoked
    <2>7. QED BY <2>1, <2>2, <2>3, <2>4, <2>5, <2>6
  <1>7. CASE Updates!VerifyAgain
    <2>1. Updates!TypeOK'
      BY <1>7 DEF Updates!VerifyAgain, Updates!Verified
    <2>2. Operation'
      BY <1>7 DEF Updates!VerifyAgain, Updates!Verified
    <2>3. HandOverFlags'
      BY <1>7 DEF Updates!VerifyAgain, Updates!Verified
    <2>4. Handing'
      BY <1>7 DEF Updates!VerifyAgain, Updates!Verified
    <2>5. Leaving'
      BY <1>7 DEF Updates!VerifyAgain, Updates!Verified
    <2>6. Updates!UpdateLeavesClean' /\ Updates!ExitCodeIsTold'
      BY <1>7 DEF Updates!VerifyAgain, Updates!Verified
    <2>7. QED BY <2>1, <2>2, <2>3, <2>4, <2>5, <2>6
  <1>8. CASE Updates!SignatureInvalid
    BY <1>8 DEF Updates!SignatureInvalid
  <1>9. QED BY <1>1, <1>2, <1>3, <1>4, <1>5, <1>6, <1>7, <1>8

\* The quit that the updater announces, and every other quit.
LEMMA QuitLemma ==
  ASSUME MaxVersion \in Nat, UpdatesInv, left = "no",
         Updates!Notice \/ (\E mine \in BOOLEAN : Updates!BeforeQuit(mine))
  PROVE  UpdatesInv'
PROOF
  <1> USE DEF UpdatesInv, Updates!TypeOK, Operation, HandOverFlags, Handing,
              Leaving, Updates!UpdateLeavesClean, Updates!ExitCodeIsTold,
              Updates!NoOp, Updates!NotHanded, Updates!LockedPhases,
              Updates!Publish, Updates!OpFails, Updates!main, Updates!service,
              Updates!coordinator, Updates!JobEnds, Updates!IntentFails
  <1>1. CASE Updates!Notice
    <2>1. Updates!TypeOK'
      BY <1>1 DEF Updates!Notice, Updates!MarkerOf
    <2>2. Operation'
      BY <1>1 DEF Updates!Notice, Updates!MarkerOf
    <2>3. HandOverFlags'
      BY <1>1 DEF Updates!Notice, Updates!MarkerOf
    <2>4. Handing'
      BY <1>1 DEF Updates!Notice, Updates!MarkerOf
    <2>5. Leaving'
      BY <1>1 DEF Updates!Notice, Updates!MarkerOf
    <2>6. Updates!UpdateLeavesClean' /\ Updates!ExitCodeIsTold'
      BY <1>1 DEF Updates!Notice, Updates!MarkerOf
    <2>7. QED BY <2>1, <2>2, <2>3, <2>4, <2>5, <2>6
  <1>2. ASSUME NEW mine \in BOOLEAN, Updates!BeforeQuit(mine), fatal
        PROVE  UpdatesInv'
    <2>1. Updates!TypeOK'
      BY <1>2 DEF Updates!BeforeQuit
    <2>2. Operation'
      BY <1>2 DEF Updates!BeforeQuit
    <2>3. HandOverFlags'
      BY <1>2 DEF Updates!BeforeQuit
    <2>4. Handing'
      BY <1>2 DEF Updates!BeforeQuit
    <2>5. Leaving'
      BY <1>2 DEF Updates!BeforeQuit
    <2>6. Updates!UpdateLeavesClean' /\ Updates!ExitCodeIsTold'
      BY <1>2 DEF Updates!BeforeQuit
    <2>7. QED BY <2>1, <2>2, <2>3, <2>4, <2>5, <2>6
  <1>3. ASSUME NEW mine \in BOOLEAN, Updates!BeforeQuit(mine), ~fatal,
               Updates!Consume
        PROVE  UpdatesInv'
    <2>1. Updates!TypeOK'
      BY <1>3 DEF Updates!BeforeQuit, Updates!Consume
    <2>2. Operation'
      BY <1>3 DEF Updates!BeforeQuit, Updates!Consume
    <2>3. HandOverFlags'
      BY <1>3 DEF Updates!BeforeQuit, Updates!Consume
    <2>4. Handing'
      BY <1>3 DEF Updates!BeforeQuit, Updates!Consume
    <2>5. Leaving'
      BY <1>3 DEF Updates!BeforeQuit, Updates!Consume
    <2>6. Updates!UpdateLeavesClean' /\ Updates!ExitCodeIsTold'
      BY <1>3 DEF Updates!BeforeQuit, Updates!Consume
    <2>7. QED BY <2>1, <2>2, <2>3, <2>4, <2>5, <2>6
  <1>4. ASSUME NEW mine \in BOOLEAN, Updates!BeforeQuit(mine), ~fatal,
               Updates!OrdinaryQuit
        PROVE  UpdatesInv'
    <2>1. Updates!TypeOK'
      BY <1>4 DEF Updates!BeforeQuit, Updates!OrdinaryQuit
    <2>2. Operation'
      BY <1>4 DEF Updates!BeforeQuit, Updates!OrdinaryQuit
    <2>3. HandOverFlags'
      BY <1>4 DEF Updates!BeforeQuit, Updates!OrdinaryQuit
    <2>4. Handing'
      BY <1>4 DEF Updates!BeforeQuit, Updates!OrdinaryQuit
    <2>5. Leaving'
      BY <1>4 DEF Updates!BeforeQuit, Updates!OrdinaryQuit
    <2>6. Updates!UpdateLeavesClean' /\ Updates!ExitCodeIsTold'
      BY <1>4 DEF Updates!BeforeQuit, Updates!OrdinaryQuit
    <2>7. QED BY <2>1, <2>2, <2>3, <2>4, <2>5, <2>6
  <1>5. QED BY <1>1, <1>2, <1>3, <1>4 DEF Updates!BeforeQuit

\* The exits, and what goes on beside.
LEMMA ExitLemma ==
  ASSUME MaxVersion \in Nat, UpdatesInv, left = "no",
         \/ Updates!Exit \/ Updates!Fatal \/ Updates!Cleanup
         \/ Updates!Settles \/ Updates!Forced
         \/ Updates!StartProxy \/ Updates!Edit \/ Updates!Tamper
  PROVE  UpdatesInv'
PROOF
  <1> USE DEF UpdatesInv, Updates!TypeOK, Operation, HandOverFlags, Handing,
              Leaving, Updates!UpdateLeavesClean, Updates!ExitCodeIsTold,
              Updates!NoOp, Updates!NoIntent, Updates!NotHanded,
              Updates!LockedPhases, Updates!Dispose, Updates!Requested,
              Updates!Worse, Updates!main, Updates!service, Updates!world,
              Updates!coordinator
  <1>1. CASE Updates!Exit
    <2>1. Updates!TypeOK'
      BY <1>1 DEF Updates!Exit
    <2>2. Operation'
      <3>1. op' = op \/ op' = Updates!NoOp
        BY <1>1 DEF Updates!Exit
      <3>2. CASE op' = op
        BY <3>2
      <3>3. CASE op' = Updates!NoOp
        BY <3>3
      <3>4. QED BY <3>1, <3>2, <3>3
    <2>3. HandOverFlags'
      <3>1. /\ intent' = intent \/ intent' = Updates!NoIntent
            /\ marker' = marker \/ marker' = "none"
            /\ UNCHANGED native
        BY <1>1 DEF Updates!Exit
      <3>2. CASE intent' = intent
        BY <3>1, <3>2
      <3>3. CASE intent' = Updates!NoIntent
        BY <3>1, <3>3
      <3>4. QED BY <3>1, <3>2, <3>3
    <2>4. Handing'
      BY <1>1 DEF Updates!Exit
    <2>5. Leaving'
      BY <1>1 DEF Updates!Exit
    <2>6. Updates!UpdateLeavesClean' /\ Updates!ExitCodeIsTold'
      BY <1>1 DEF Updates!Exit
    <2>7. QED BY <2>1, <2>2, <2>3, <2>4, <2>5, <2>6
  <1>2. CASE Updates!Fatal
    BY <1>2 DEF Updates!Fatal
  <1>3. CASE Updates!Cleanup
    <2>1. Updates!TypeOK'
      BY <1>3 DEF Updates!Cleanup, Updates!CleanupEnds
    <2>2. Operation'
      BY <1>3 DEF Updates!Cleanup, Updates!CleanupEnds
    <2>3. HandOverFlags'
      BY <1>3 DEF Updates!Cleanup, Updates!CleanupEnds
    <2>4. Handing'
      BY <1>3 DEF Updates!Cleanup, Updates!CleanupEnds
    <2>5. Leaving'
      BY <1>3 DEF Updates!Cleanup, Updates!CleanupEnds
    <2>6. Updates!UpdateLeavesClean' /\ Updates!ExitCodeIsTold'
      BY <1>3 DEF Updates!Cleanup, Updates!CleanupEnds
    <2>7. QED BY <2>1, <2>2, <2>3, <2>4, <2>5, <2>6
  <1>4. CASE Updates!Settles
    BY <1>4 DEF Updates!Settles, Updates!Settle
  <1>5. CASE Updates!Forced
    <2>1. Updates!TypeOK'
      BY <1>5 DEF Updates!Forced, Updates!Force
    <2>2. Operation'
      BY <1>5 DEF Updates!Forced, Updates!Force
    <2>3. HandOverFlags'
      BY <1>5 DEF Updates!Forced, Updates!Force
    <2>4. Handing'
      BY <1>5 DEF Updates!Forced, Updates!Force
    <2>5. Leaving'
      BY <1>5 DEF Updates!Forced, Updates!Force
    <2>6. Updates!UpdateLeavesClean' /\ Updates!ExitCodeIsTold'
      BY <1>5 DEF Updates!Forced, Updates!Force
    <2>7. QED BY <2>1, <2>2, <2>3, <2>4, <2>5, <2>6
  <1>6. CASE Updates!StartProxy
    BY <1>6 DEF Updates!StartProxy
  <1>7. CASE Updates!Edit
    BY <1>7 DEF Updates!Edit
  <1>8. CASE Updates!Tamper
    BY <1>8 DEF Updates!Tamper
  <1>9. QED BY <1>1, <1>2, <1>3, <1>4, <1>5, <1>6, <1>7, <1>8

\* Every step.
LEMMA UpdatesNext ==
  ASSUME MaxVersion \in Nat, UpdatesInv, [Updates!Next]_(Updates!vars)
  PROVE  UpdatesInv'
PROOF
  <1>1. CASE Updates!Next
    BY <1>1, LookingLemma, InstallingLemma, QuitLemma, ExitLemma
       DEF Updates!Next
  <1>2. CASE UNCHANGED Updates!vars
    BY <1>2 DEF UpdatesInv, Updates!TypeOK, Operation, HandOverFlags, Handing,
                Leaving, Updates!UpdateLeavesClean, Updates!ExitCodeIsTold,
                Updates!NoOp, Updates!NotHanded, Updates!LockedPhases,
                Updates!vars, Updates!service, Updates!main, Updates!world,
                Updates!coordinator
  <1>3. QED BY <1>1, <1>2

\* The invariant of every behaviour.
LEMMA UpdatesInvariance ==
  ASSUME MaxVersion \in Nat PROVE Updates!Spec => []UpdatesInv
PROOF
  <1>1. Updates!Init => UpdatesInv
    BY UpdatesInit
  <1>2. UpdatesInv /\ [Updates!Next]_(Updates!vars) => UpdatesInv'
    BY UpdatesNext
  <1>3. QED BY <1>1, <1>2, PTL DEF Updates!Spec

\* The update service beside the other parts behaves as its module says.
LEMMA FilesIsUpdates == FilesSpec => Updates!Spec
PROOF
  <1>1. FilesInit => Updates!Init
    BY DEF FilesInit
  <1>2. [FilesNext]_<<part, vars, publication, updates>> => [Updates!Next]_(Updates!vars)
    BY DEF FilesNext, updates, Updates!vars, Updates!service, Updates!main,
           Updates!world, Updates!coordinator
  <1>3. QED BY <1>1, <1>2, PTL DEF FilesSpec, Updates!Spec

\* The updater is given only what was verified, no quit leaves a proxy running
\* or a history unwritten, and the exit code tells of every failure, for any
\* versions and platforms and in whatever order quits, errors and timers come.
THEOREM UpdatesExitClean ==
  ASSUME MaxVersion \in Nat
  PROVE  /\ Updates!Spec => [](Updates!UpdateLeavesClean /\ Updates!ExitCodeIsTold)
         /\ FilesSpec => []ExitsAreClean
PROOF
  <1>1. UpdatesInv => ExitsAreClean
    BY DEF UpdatesInv, ExitsAreClean
  <1>2. ExitsAreClean => Updates!UpdateLeavesClean /\ Updates!ExitCodeIsTold
    BY DEF ExitsAreClean
  <1>3. QED BY <1>1, <1>2, UpdatesInvariance, FilesIsUpdates, PTL
=============================================================================
