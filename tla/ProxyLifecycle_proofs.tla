------------------------ MODULE ProxyLifecycle_proofs ------------------------
(***************************************************************************)
(* Proofs about ProxyLifecycle, for every number of calls and every set of *)
(* sessions.                                                               *)
(***************************************************************************)
EXTENDS ProxyLifecycle, TLAPS

-----------------------------------------------------------------------------
(* The inductive invariant.                                                *)

\* The operations that wait have not begun.
Operations == [kind : {"begin", "stop"}, candidate : BOOLEAN,
               generation : Nat, at : {"enter"}, then : {"end"}]

\* The operation at work may still create an instance.
MayCreate ==
  \/ job.at \in {"enter", "material"}
  \/ job.then = "replace" /\ job.at \in {"stopping", "stopped", "released"}

\* Every instance comes of a call, and every operation that may still create
\* one is a call of its own.
Counted ==
  /\ queue \in Seq(Operations)
  /\ created + Len(queue) + (IF MayCreate THEN 1 ELSE 0) <= calls

\* The instance that is owned is the last one created; those that were not
\* created yet are untouched.
Creation ==
  /\ current \in {None, created}
  /\ \A i \in Instances :
       i > created => server[i] = NewServer /\ record[i] = NewRecord

\* What a server's listener, start, stop and sessions know of each other.
Consistent(s) ==
  /\ s.listener # "none" \/ s.start = "listening" \/ s.channel => s.handle
  /\ s.listener = "bound" => s.start = "done"
  /\ s.start \in {"aborting", "failing"} => s.listener = "none"
  /\ s.start \in Unsettled => ~s.channel
  /\ s.stop \in {"draining", "closing"} =>
       s.start \notin Unsettled /\ ~s.channel /\ s.sessions = {}
  /\ s.stop = "closing" => s.listener = "none"

\* What the controller's record of an instance says of its server.
Recorded(i) ==
  /\ server[i].stop # "none" => i = current /\ record[i].cancelled
  /\ record[i].started => server[i].start = "done"
  /\ record[i].started /\ ~record[i].cancelled => server[i].listener = "bound"
  /\ record[i].candidate /\ record[i].stopRequested => record[i].cancelled
  /\ record[i].registered \subseteq server[i].sessions

\* Where the operation at work is says whether an instance is owned; one that
\* has stopped has nothing left behind the port.
JobKnows ==
  /\ job.at \in {"starting", "begun", "failed", "stopping", "stopped", "stuck"}
       => current # None
  /\ job.at \in {"material", "released"} => current = None
  /\ job.at = "stopped" =>
       /\ ~Active(server[current]) /\ record[current].cancelled
       /\ server[current].stop = "none"

\* The candidate whose activation awaits an answer was started, and still is
\* unless it was cancelled.
Activating ==
  LET i == activating.instance
  IN i # None => /\ record[i].candidate
                 /\ record[i].started \/ record[i].cancelled

\* More than ShownTruth says: nothing is admitted while "stopped" is shown,
\* and "started" is about an instance that nobody has cancelled.
ShownKnows ==
  ~disposed =>
    /\ shown = "stopped" => \A i \in Instances :
         /\ ~server[i].accepting /\ ~server[i].channel
         /\ server[i].sessions = {}
    /\ shown = "started" =>
         /\ current # None /\ record[current].started
         /\ ~record[current].candidate /\ ~record[current].cancelled
    /\ \A i \in Instances : Serving(i) => shown \in {"started", "error"}

Inv ==
  /\ TypeOK /\ Counted /\ Creation
  /\ \A i \in Instances : Consistent(server[i]) /\ Recorded(i)
  /\ OneOwner /\ GateDiscipline
  /\ JobKnows /\ Activating /\ ShownKnows
  /\ HistoryFollowsSessions
-----------------------------------------------------------------------------
(* What halting a server does to it.                                       *)

\* Close(StopCall(s)) shuts the gate and asks for a stop unless there is
\* nothing to stop; a start under way is told that it was cancelled.
LEMMA StopCallFacts ==
  ASSUME NEW s \in ServerStates
  PROVE  /\ Close(StopCall(s)) \in ServerStates
         /\ Close(StopCall(s)).listener = s.listener
         /\ Close(StopCall(s)).handle = s.handle
         /\ Close(StopCall(s)).accepting = FALSE
         /\ Close(StopCall(s)).start = s.start
         /\ Close(StopCall(s)).channel = s.channel
         /\ Close(StopCall(s)).sessions = s.sessions
         /\ Close(StopCall(s)).stop =
              IF s.stop = "none" /\ Active(s) THEN "queued" ELSE s.stop
BY DEF ServerStates, Close, StopCall, Unsettled

LEMMA CloseFacts ==
  ASSUME NEW s \in ServerStates
  PROVE  /\ Close(s) \in ServerStates
         /\ Close(s).listener = s.listener
         /\ Close(s).handle = s.handle
         /\ Close(s).accepting = FALSE
         /\ Close(s).start = s.start
         /\ Close(s).channel = s.channel
         /\ Close(s).sessions = s.sessions
         /\ Close(s).stop = s.stop
BY DEF ServerStates, Close

LEMMA NothingIsTyped == 
  /\ NewServer \in ServerStates /\ NewRecord \in Records /\ NoJob \in Jobs
  /\ NotActivating \in [instance : Instances \cup {None}, generation : Nat]
BY DEF NewServer, NewRecord, NoJob, ServerStates, Records, Jobs, Unsettled,
       NotActivating

LEMMA OperationsAreJobs == Operations \subseteq Jobs
BY DEF Operations, Jobs

LEMMA InitInv == Init => Inv
<1> SUFFICES ASSUME Init PROVE Inv
  OBVIOUS
<1> USE DEF Init
<1>1. TypeOK
  <2>1. queue \in Seq(Jobs) /\ job \in Jobs
    BY NothingIsTyped
  <2>2. /\ record \in [Instances -> Records]
        /\ server \in [Instances -> ServerStates]
    BY NothingIsTyped
  <2>3. activating \in [instance : Instances \cup {None}, generation : Nat]
    BY NothingIsTyped
  <2>4. history \in [Sessions -> {"none", "open", "final"}]
    OBVIOUS
  <2>5. created \in Instances \cup {None} /\ calls \in 0..MaxCalls
    BY MaxCallsAssumption DEF None
  <2> QED
    BY <2>1, <2>2, <2>3, <2>4, <2>5 DEF TypeOK
<1>2. Counted
  BY MaxCallsAssumption DEF Counted, MayCreate, NoJob
<1>3. Creation
  BY DEF Creation, None
<1>4. \A i \in Instances : Consistent(server[i]) /\ Recorded(i)
  BY DEF Consistent, Recorded, NewServer, NewRecord, Unsettled
<1>5. OneOwner /\ GateDiscipline
  BY DEF OneOwner, GateDiscipline, Active, NewServer, Unsettled
<1>6. JobKnows /\ Activating
  BY DEF JobKnows, Activating, NoJob, NotActivating
<1>7. ShownKnows
  BY DEF ShownKnows, Serving, NewServer
<1>8. HistoryFollowsSessions
  BY DEF HistoryFollowsSessions
<1> QED
  BY <1>1, <1>2, <1>3, <1>4, <1>5, <1>6, <1>7, <1>8 DEF Inv

-----------------------------------------------------------------------------
(* Types.                                                                  *)

LEMMA EnqueueTyped ==
  ASSUME Inv, NEW kind \in {"begin", "stop"}, NEW candidate \in BOOLEAN,
         NEW gen \in Nat, Enqueue(kind, candidate, gen)
  PROVE  queue' \in Seq(Operations) /\ queue' \in Seq(Jobs)
         /\ Len(queue') = Len(queue) + 1
BY OperationsAreJobs DEF Enqueue, Inv, TypeOK, Counted, Operations, Jobs

LEMMA CallsTyped ==
  Inv /\ (\E candidate \in BOOLEAN : Start(candidate)) => TypeOK'
BY EnqueueTyped, MaxCallsAssumption DEF Inv, TypeOK, Start, Call

-----------------------------------------------------------------------------
(* What a call does without waiting for the queue: the owned instance is   *)
(* halted, its record marked.                                              *)

\* The part of the invariant that is about instances.
Port ==
  /\ record \in [Instances -> Records] /\ server \in [Instances -> ServerStates]
  /\ Creation
  /\ \A i \in Instances : Consistent(server[i]) /\ Recorded(i)
  /\ OneOwner /\ GateDiscipline /\ HistoryFollowsSessions

LEMMA PortOfInv == Inv => Port
BY DEF Inv, Port, TypeOK

\* An instance that was not created is not owned.
LEMMA OwnedIsInstance ==
  ASSUME Inv, current # None
  PROVE  /\ current \in Instances /\ current = created
         /\ server[current] \in ServerStates /\ record[current] \in Records
BY DEF Inv, TypeOK, Creation

\* The server of the owned instance keeps all it has but the gate, which is
\* shut, and may be asked to stop; its record may be marked.
Halts(t, q) ==
  LET s == server[current]  r == record[current]
  IN /\ server' = [server EXCEPT ![current] = t]
     /\ record' = [record EXCEPT ![current] = q]
     /\ t \in ServerStates /\ q \in Records
     /\ t.listener = s.listener /\ t.handle = s.handle /\ t.start = s.start
     /\ t.channel = s.channel /\ t.sessions = s.sessions /\ ~t.accepting
     /\ \/ t.stop = s.stop
        \/ t.stop = "queued" /\ s.stop = "none" /\ Active(s) /\ q.cancelled
     /\ q.candidate = r.candidate /\ q.started = r.started
     /\ q.registered = r.registered
     /\ r.cancelled => q.cancelled
     /\ q.candidate /\ q.stopRequested => q.cancelled

LEMMA HaltKeepsPort ==
  ASSUME Inv, current # None, NEW t, NEW q, Halts(t, q),
         UNCHANGED <<current, created, history>>
  PROVE  Port'
<1> USE OwnedIsInstance, PortOfInv DEF Halts
<1>1. record' \in [Instances -> Records] /\ server' \in [Instances -> ServerStates]
  BY DEF Port
<1>2. Creation'
  BY DEF Port, Creation, Instances, None
<1>3. ASSUME NEW i \in Instances PROVE Consistent(server[i])' /\ Recorded(i)'
  <2>1. CASE i = current
    BY <2>1 DEF Port, Consistent, Recorded
  <2>2. CASE i # current
    BY <2>2 DEF Port, Consistent, Recorded
  <2> QED
    BY <2>1, <2>2
<1>4. OneOwner'
  BY DEF Port, OneOwner, Active
<1>5. GateDiscipline'
  BY DEF Port, GateDiscipline
<1>6. HistoryFollowsSessions'
  BY DEF Port, HistoryFollowsSessions
<1> QED
  BY <1>1, <1>2, <1>3, <1>4, <1>5, <1>6 DEF Port

LEMMA CancelListenHalts ==
  ASSUME Inv, CancelListen
  PROVE  \/ UNCHANGED <<record, server>>
         \/ /\ current # None /\ Cancellable(current)
            /\ \E t, q : Halts(t, q) /\ q.cancelled
<1>1. CASE current # None /\ Cancellable(current)
  <2> DEFINE t == Close(StopCall(server[current]))
             q == [record[current] EXCEPT !.cancelled = TRUE]
  <2>1. q \in Records
    BY <1>1, OwnedIsInstance DEF Records
  <2>2. server' = [server EXCEPT ![current] = t] /\ record' = [record EXCEPT ![current] = q]
    BY <1>1, OwnedIsInstance DEF CancelListen, Inv, TypeOK
  <2>3. Halts(t, q) /\ q.cancelled
    <3> HIDE DEF t
    <3>1. t = Close(StopCall(server[current]))
      BY DEF t
    <3> QED
      BY <1>1, <2>1, <2>2, <3>1, OwnedIsInstance, StopCallFacts DEF Halts, Records
  <2> QED
    BY <1>1, <2>3
<1>2. CASE ~(current # None /\ Cancellable(current))
  BY <1>2 DEF CancelListen
<1> QED
  BY <1>1, <1>2

LEMMA StopNowHalts ==
  ASSUME Inv, StopNow
  PROVE  \/ current = None /\ UNCHANGED <<record, server>>
         \/ /\ current # None
            /\ \E t, q : /\ Halts(t, q)
                         /\ Cancellable(current) => q.cancelled
                         /\ q.cancelled = record[current].cancelled
                              \/ Cancellable(current)
<1>1. CASE current # None
  <2> DEFINE t == Close(IF Cancellable(current) THEN StopCall(server[current])
                        ELSE server[current])
             q == [record[current] EXCEPT !.stopRequested = TRUE,
                     !.cancelled = @ \/ Cancellable(current)]
  <2>1. q \in Records
    BY <1>1, OwnedIsInstance DEF Records, Cancellable
  <2>2. server' = [server EXCEPT ![current] = t] /\ record' = [record EXCEPT ![current] = q]
    BY <1>1, OwnedIsInstance DEF StopNow, Inv, TypeOK
  <2>3. CASE Cancellable(current)
    <3>1. t = Close(StopCall(server[current]))
      BY <2>3
    <3> HIDE DEF t
    <3> QED
      BY <1>1, <2>1, <2>2, <2>3, <3>1, OwnedIsInstance, StopCallFacts DEF Halts, Records
  <2>4. CASE ~Cancellable(current)
    <3>1. t = Close(server[current])
      BY <2>4
    <3> HIDE DEF t
    <3> QED
      BY <1>1, <2>1, <2>2, <2>4, <3>1, OwnedIsInstance, CloseFacts
      DEF Halts, Records, Cancellable
  <2> QED
    BY <2>3, <2>4
<1>2. CASE current = None
  BY <1>2 DEF StopNow
<1> QED
  BY <1>1, <1>2

\* A call that halts the owned instance without waiting for the queue, and
\* the operation it puts there, disturb none of what is known.
LEMMA CallHalts ==
  ASSUME Inv, UNCHANGED <<current, created, history, activating, shown, job>>,
         disposed' \in BOOLEAN, disposed => disposed',
         \/ UNCHANGED <<record, server>>
         \/ /\ current # None
            /\ \E t, q : /\ Halts(t, q)
                         /\ q.cancelled => record[current].cancelled
                                             \/ Cancellable(current)
  PROVE  Port' /\ JobKnows' /\ Activating' /\ ShownKnows'
<1> USE OwnedIsInstance
<1>1. CASE UNCHANGED <<record, server>>
  <2>1. Port'
    BY <1>1, PortOfInv
    DEF Port, Creation, OneOwner, Active, GateDiscipline, Consistent, Recorded,
        HistoryFollowsSessions
  <2>2. JobKnows' /\ Activating'
    BY <1>1 DEF Inv, JobKnows, Active, Activating
  <2>3. ShownKnows'
    BY <1>1 DEF Inv, ShownKnows, Serving
  <2> QED
    BY <2>1, <2>2, <2>3
<1>2. CASE ~UNCHANGED <<record, server>>
  <2>1. PICK t, q : /\ current # None /\ Halts(t, q)
                    /\ q.cancelled => record[current].cancelled
                                        \/ Cancellable(current)
    BY <1>2
  <2>2. Port'
    BY <2>1, HaltKeepsPort
  <2>3. JobKnows'
    BY <2>1 DEF Inv, TypeOK, JobKnows, Active, Halts
  <2>4. Activating'
    BY <2>1 DEF Inv, TypeOK, Activating, Halts
  <2>5. ShownKnows'
    BY <2>1 DEF Inv, TypeOK, ShownKnows, Serving, Halts, Cancellable
  <2> QED
    BY <2>2, <2>3, <2>4, <2>5
<1> QED
  BY <1>1, <1>2

\* The queue takes one operation more for every call.
LEMMA EnqueueCounted ==
  ASSUME Inv, Call, UNCHANGED <<created, job>>,
         \/ UNCHANGED queue
         \/ \E kind \in {"begin", "stop"}, candidate \in BOOLEAN, gen \in Nat :
              Enqueue(kind, candidate, gen)
  PROVE  Counted' /\ queue' \in Seq(Jobs) /\ calls' \in 0..MaxCalls
<1>1. queue' \in Seq(Operations) /\ Len(queue') <= Len(queue) + 1
  BY EnqueueTyped DEF Inv, Counted, TypeOK
<1>2. calls' = calls + 1 /\ calls' \in 0..MaxCalls
  BY MaxCallsAssumption DEF Inv, TypeOK, Call
<1>3. queue' \in Seq(Jobs)
  BY EnqueueTyped DEF Inv, TypeOK
<1>4. Len(queue) \in Nat /\ Len(queue') \in Nat /\ created \in Nat /\ calls \in Nat
  BY <1>1, MaxCallsAssumption DEF Inv, TypeOK, Instances, None
<1>5. MayCreate' <=> MayCreate
  BY DEF MayCreate
<1> QED
  BY <1>1, <1>2, <1>3, <1>4, <1>5 DEF Inv, Counted

LEMMA CallsInv == Inv /\ Calls => Inv'
<1> SUFFICES ASSUME Inv, Calls PROVE Inv'
  OBVIOUS
<1>1. ASSUME NEW candidate \in BOOLEAN, Start(candidate) PROVE Inv'
  <2>1. Counted' /\ queue' \in Seq(Jobs) /\ calls' \in 0..MaxCalls
    BY <1>1, EnqueueCounted DEF Start, Inv, TypeOK
  <2>2. Port' /\ JobKnows' /\ Activating' /\ ShownKnows'
    BY <1>1, CallHalts DEF Start, Inv, TypeOK
  <2>3. TypeOK'
    BY <1>1, <2>1 DEF Start, Inv, TypeOK
  <2> QED
    BY <2>1, <2>2, <2>3 DEF Inv, Port
<1>2. CASE CancelPendingStart
  <2>1. Counted' /\ queue' \in Seq(Jobs) /\ calls' \in 0..MaxCalls
    BY <1>2, EnqueueCounted DEF CancelPendingStart
  <2>2. Port' /\ JobKnows' /\ Activating' /\ ShownKnows'
    BY <1>2, CallHalts, CancelListenHalts DEF CancelPendingStart, Inv, TypeOK
  <2>3. TypeOK'
    BY <1>2, <2>1, <2>2 DEF CancelPendingStart, Supersede, Inv, TypeOK, Port
  <2> QED
    BY <2>1, <2>2, <2>3 DEF Inv, Port
<1>3. CASE Stop
  <2>1. Counted' /\ queue' \in Seq(Jobs) /\ calls' \in 0..MaxCalls
    BY <1>3, EnqueueCounted DEF Stop
  <2>2. Port' /\ JobKnows' /\ Activating' /\ ShownKnows'
    BY <1>3, CallHalts, StopNowHalts DEF Stop, Inv, TypeOK
  <2>3. TypeOK'
    BY <1>3, <2>1, <2>2 DEF Stop, Supersede, Inv, TypeOK, Port
  <2> QED
    BY <2>1, <2>2, <2>3 DEF Inv, Port
<1>4. CASE Dispose
  <2>1. Counted' /\ queue' \in Seq(Jobs) /\ calls' \in 0..MaxCalls
    BY <1>4, EnqueueCounted DEF Dispose
  <2>2. Port' /\ JobKnows' /\ Activating' /\ ShownKnows'
    BY <1>4, CallHalts, CancelListenHalts DEF Dispose, Inv, TypeOK
  <2>3. TypeOK'
    BY <1>4, <2>1, <2>2 DEF Dispose, Supersede, Inv, TypeOK, Port
  <2> QED
    BY <2>1, <2>2, <2>3 DEF Inv, Port
<1>5. CASE Activate
  <2>1. Port' /\ JobKnows' /\ ShownKnows' /\ Counted'
    BY <1>5, PortOfInv
    DEF Activate, Inv, Port, Creation, OneOwner, Active, GateDiscipline,
        Consistent, Recorded, HistoryFollowsSessions, JobKnows, ShownKnows,
        Serving, Counted, MayCreate
  <2>2. Activating'
    BY <1>5 DEF Activate, Activating, Inv
  <2>3. TypeOK'
    BY <1>5 DEF Activate, Inv, TypeOK
  <2> QED
    BY <2>1, <2>2, <2>3 DEF Inv, Port
<1> QED
  BY <1>1, <1>2, <1>3, <1>4, <1>5 DEF Calls

-----------------------------------------------------------------------------
(* What the operation at work does.                                        *)

LEMMA MayCreateTyped == MayCreate \in BOOLEAN
BY DEF MayCreate

\* An operation that goes on creates no more than it might have before.
LEMMA CountedFrame ==
  ASSUME Inv, UNCHANGED <<queue, created, calls>>, MayCreate' => MayCreate
  PROVE  Counted'
BY MaxCallsAssumption DEF Inv, TypeOK, Counted, Instances, None

\* stopRecord halts the owned instance; if it has nothing to stop, it has
\* stopped already.
LEMMA StopRecordHalts ==
  ASSUME Inv, current # None, NEW then, StopRecord(then)
  PROVE  \E t, q : /\ Halts(t, q) /\ q.cancelled
                   /\ t.stop = "none" <=> job'.at = "stopped"
                   /\ t.stop = "none" => ~Active(t)
<1> DEFINE t == Close(StopCall(server[current]))
           q == [record[current] EXCEPT !.cancelled = TRUE]
<1>1. q \in Records
  BY OwnedIsInstance DEF Records
<1>2. /\ server' = [server EXCEPT ![current] = t]
      /\ record' = [record EXCEPT ![current] = q]
      /\ t.stop = "none" <=> job'.at = "stopped"
  BY OwnedIsInstance DEF StopRecord, Inv, TypeOK, Jobs
<1>3. Halts(t, q) /\ q.cancelled /\ (t.stop = "none" => ~Active(t))
  <2> HIDE DEF t
  <2>1. t = Close(StopCall(server[current]))
    BY DEF t
  <2> QED
    BY <1>1, <1>2, <2>1, OwnedIsInstance, StopCallFacts DEF Halts, Records, Active
<1> QED
  BY <1>2, <1>3

LEMMA StopRecordInv ==
  ASSUME Inv, current # None,
         NEW then \in {"replace", "cancelled", "failed", "end"},
         then = "replace" => job.at = "enter", StopRecord(then),
         UNCHANGED <<current, created, queue, generation, disposed, activating,
                     history, calls>>
  PROVE  Inv'
<1> USE OwnedIsInstance
<1>1. PICK t, q : /\ Halts(t, q) /\ q.cancelled
                  /\ t.stop = "none" <=> job'.at = "stopped"
                  /\ t.stop = "none" => ~Active(t)
  BY StopRecordHalts
<1>2. job' \in Jobs /\ job'.then = then /\ job'.at \in {"stopped", "stopping"}
  BY DEF StopRecord, Inv, TypeOK, Jobs
<1>3. Port'
  BY <1>1, HaltKeepsPort
<1>4. Counted'
  BY <1>2, CountedFrame DEF MayCreate
<1>5. JobKnows'
  BY <1>1, <1>2 DEF Inv, TypeOK, JobKnows, Active, Halts
<1>6. Activating'
  BY <1>1 DEF Inv, TypeOK, Activating, Halts
<1>7. shown' = IF Visible(current) THEN "stopping" ELSE shown
  BY DEF StopRecord, Notify
<1>8. ShownKnows'
  <2>1. CASE Visible(current)
    BY <1>1, <1>7, <2>1 DEF Inv, TypeOK, ShownKnows, Serving, Halts, GateDiscipline
  <2>2. CASE ~Visible(current)
    BY <1>1, <1>7, <2>2 DEF Inv, TypeOK, ShownKnows, Serving, Halts, Visible
  <2> QED
    BY <2>1, <2>2
<1>9. TypeOK'
  BY <1>2, <1>3, <1>7 DEF Inv, TypeOK, Port
<1> QED
  BY <1>3, <1>4, <1>5, <1>6, <1>8, <1>9 DEF Inv, Port

\* The next instance is one of those that were not created yet.
LEMMA NextInstance ==
  ASSUME Inv, MayCreate
  PROVE  /\ created + 1 \in Instances /\ created \in Nat
         /\ server[created + 1] = NewServer /\ record[created + 1] = NewRecord
         /\ created + 1 + Len(queue) <= calls
<1>1. created \in Nat /\ calls \in Nat /\ Len(queue) \in Nat
  BY MaxCallsAssumption DEF Inv, TypeOK, Instances, None
<1>2. created + 1 + Len(queue) <= calls
  BY <1>1 DEF Inv, Counted
<1>3. created + 1 \in Instances
  BY <1>1, <1>2, MaxCallsAssumption DEF Inv, TypeOK, Instances
<1> QED
  BY <1>1, <1>2, <1>3 DEF Inv, Creation

LEMMA CreateServerInv ==
  ASSUME Inv, current = None, MayCreate, CreateServer,
         UNCHANGED <<queue, generation, disposed, activating, history, calls>>
  PROVE  Inv'
<1> DEFINE i == created + 1
           t == [NewServer EXCEPT !.accepting = ~job.candidate, !.start = "queued"]
           q == [NewRecord EXCEPT !.candidate = job.candidate]
<1>1. /\ i \in Instances /\ created \in Nat /\ i + Len(queue) <= calls
      /\ server[i] = NewServer /\ record[i] = NewRecord
  BY NextInstance
<1>2. /\ server' = [server EXCEPT ![i] = t] /\ record' = [record EXCEPT ![i] = q]
      /\ current' = i /\ created' = i
      /\ shown' = IF job.candidate THEN shown ELSE "starting"
      /\ job' = [job EXCEPT !.at = "starting"]
  BY <1>1 DEF CreateServer, Inv, TypeOK, NewServer, NewRecord
<1>3. /\ t \in ServerStates /\ q \in Records
      /\ t.listener = "none" /\ ~t.handle /\ (t.accepting <=> ~job.candidate)
      /\ t.start = "queued" /\ t.stop = "none" /\ ~t.channel /\ t.sessions = {}
      /\ (q.candidate <=> job.candidate) /\ ~q.cancelled /\ ~q.stopRequested
      /\ ~q.started /\ q.registered = {}
  BY DEF Inv, TypeOK, Jobs, NewServer, NewRecord, ServerStates, Records, Unsettled
<1>4. /\ job.candidate \in BOOLEAN /\ job' \in Jobs /\ job'.at = "starting"
  BY <1>2 DEF Inv, TypeOK, Jobs
<1> HIDE DEF t, q
<1>5. \A j \in Instances : ~Active(server[j]) /\ ~server[j].accepting
  BY DEF Inv, OneOwner, GateDiscipline, Instances, None
<1>6. TypeOK'
  BY <1>1, <1>2, <1>3, <1>4 DEF Inv, TypeOK
<1>7. Counted'
  BY <1>1, <1>2, <1>4 DEF Inv, Counted, MayCreate
<1>8. Creation'
  BY <1>1, <1>2 DEF Inv, TypeOK, Creation, Instances
<1>9. ASSUME NEW j \in Instances PROVE Consistent(server[j])' /\ Recorded(j)'
  <2>1. CASE j = i
    BY <1>1, <1>2, <1>3, <2>1 DEF Inv, TypeOK, Consistent, Recorded, Unsettled
  <2>2. CASE j # i
    BY <1>1, <1>2, <2>2 DEF Inv, TypeOK, Consistent, Recorded, Instances, None
  <2> QED
    BY <2>1, <2>2
<1>10. OneOwner' /\ GateDiscipline'
  BY <1>1, <1>2, <1>3, <1>5 DEF Inv, TypeOK, OneOwner, GateDiscipline, Active
<1>11. JobKnows'
  BY <1>1, <1>2, <1>4 DEF JobKnows, Instances, None
<1>12. Activating'
  BY <1>1, <1>2 DEF Inv, TypeOK, Activating, NewRecord
<1>13. ShownKnows'
  BY <1>1, <1>2, <1>3, <1>5 DEF Inv, TypeOK, ShownKnows, Serving
<1>14. HistoryFollowsSessions'
  BY <1>1, <1>2, <1>3 DEF Inv, TypeOK, HistoryFollowsSessions
<1> QED
  BY <1>6, <1>7, <1>8, <1>9, <1>10, <1>11, <1>12, <1>13, <1>14 DEF Inv

\* An operation ends; what it may have reported is an error, or nothing.
LEMMA EndJobInv ==
  ASSUME Inv, EndJob, shown' \in {shown, "error"},
         UNCHANGED <<current, created, record, server, queue, generation,
                     disposed, activating, history, calls>>
  PROVE  Inv'
<1>1. Counted'
  BY CountedFrame DEF EndJob, NoJob, MayCreate
<1>2. JobKnows'
  BY DEF EndJob, NoJob, JobKnows
<1>3. Activating' /\ ShownKnows'
  BY DEF Inv, Activating, ShownKnows, Serving
<1>4. Port'
  BY PortOfInv
  DEF Port, Creation, OneOwner, Active, GateDiscipline, Consistent, Recorded,
      HistoryFollowsSessions
<1>5. TypeOK'
  BY NothingIsTyped DEF EndJob, Inv, TypeOK
<1> QED
  BY <1>1, <1>2, <1>3, <1>4, <1>5 DEF Inv, Port

\* An operation goes on to another point of its own; what it may have reported
\* is an error, or nothing.
LEMMA JobStepInv ==
  ASSUME Inv, job' \in Jobs, JobKnows', MayCreate' => MayCreate,
         shown' \in {shown, "error"},
         UNCHANGED <<current, created, record, server, queue, generation,
                     disposed, activating, history, calls>>
  PROVE  Inv'
<1>1. Counted'
  BY CountedFrame
<1>2. Activating' /\ ShownKnows'
  BY DEF Inv, Activating, ShownKnows, Serving
<1>3. Port'
  BY PortOfInv
  DEF Port, Creation, OneOwner, Active, GateDiscipline, Consistent, Recorded,
      HistoryFollowsSessions
<1>4. TypeOK'
  BY DEF Inv, TypeOK
<1> QED
  BY <1>1, <1>2, <1>3, <1>4 DEF Inv, Port

LEMMA ProceedInv ==
  ASSUME Inv, ~Stale => current = None, MayCreate, Proceed,
         UNCHANGED <<queue, generation, disposed, activating, history, calls>>
  PROVE  Inv'
<1>1. CASE ~Stale /\ job.candidate
  BY <1>1, CreateServerInv, EndJobInv DEF Proceed, CreateFails
<1>2. CASE Stale
  BY <1>2, EndJobInv DEF Proceed, EndJob
<1>3. CASE ~Stale /\ ~job.candidate
  <2>1. job' = [job EXCEPT !.at = "material"] /\ current' = None
        /\ UNCHANGED <<current, created, record, server, shown>>
    BY <1>3 DEF Proceed
  <2>2. job' \in Jobs /\ job'.at = "material"
    BY <2>1 DEF Inv, TypeOK, Jobs
  <2>3. JobKnows'
    BY <2>1, <2>2 DEF JobKnows
  <2> QED
    BY <2>1, <2>2, <2>3, JobStepInv
<1> QED
  BY <1>1, <1>2, <1>3

\* The owned instance is let go: nothing of it is left behind the port, and
\* its sessions are final.
LEMMA ReleasedInv == Inv /\ Released => Inv'
<1> SUFFICES ASSUME Inv, Released PROVE Inv'
  OBVIOUS
<1> DEFINE i == current
           q == [record[i] EXCEPT !.registered = {}, !.closed = TRUE]
<1>1. /\ i \in Instances /\ record[i] \in Records /\ server[i] \in ServerStates
      /\ ~Active(server[i]) /\ record[i].cancelled /\ server[i].stop = "none"
  BY OwnedIsInstance DEF Released, Inv, JobKnows
<1>2. /\ record' = [record EXCEPT ![i] = q] /\ UNCHANGED server
      /\ history' = Finalised(i, Sessions) /\ current' = None
      /\ shown' = IF Visible(i) THEN "stopped" ELSE shown
      /\ job' = [job EXCEPT !.at = "released"]
  BY <1>1 DEF Released, FinaliseRemaining, Notify, Inv, TypeOK
<1>3. /\ q \in Records /\ q.candidate = record[i].candidate
      /\ q.cancelled = record[i].cancelled /\ q.started = record[i].started
      /\ q.stopRequested = record[i].stopRequested /\ q.registered = {}
  BY <1>1 DEF Records
<1>4. job' \in Jobs /\ job'.at = "released" /\ job'.then = job.then
  BY <1>2 DEF Inv, TypeOK, Jobs
<1> HIDE DEF q
<1>5. Finalised(i, Sessions)
        = [s \in Sessions |-> IF s \in record[i].registered THEN "final"
                              ELSE history[s]]
  BY DEF Finalised
<1>6. \A j \in Instances :
        /\ ~Active(server[j]) /\ ~server[j].accepting
        /\ ~server[j].channel /\ server[j].sessions = {}
  BY <1>1 DEF Inv, OneOwner, GateDiscipline, Consistent, Active
<1>7. TypeOK'
  BY <1>1, <1>2, <1>3, <1>4, <1>5 DEF Released, Inv, TypeOK
<1>8. Counted'
  BY <1>2, <1>4, CountedFrame DEF Released, MayCreate
<1>9. Creation'
  BY <1>1, <1>2 DEF Released, Inv, TypeOK, Creation, Instances, None
<1>10. ASSUME NEW j \in Instances PROVE Consistent(server[j])' /\ Recorded(j)'
  <2>1. CASE j = i
    BY <1>1, <1>2, <1>3, <2>1 DEF Inv, TypeOK, Consistent, Recorded
  <2>2. CASE j # i
    BY <1>1, <1>2, <2>2 DEF Inv, TypeOK, Consistent, Recorded
  <2> QED
    BY <2>1, <2>2
<1>11. OneOwner' /\ GateDiscipline'
  BY <1>2, <1>6 DEF OneOwner, GateDiscipline, Active
<1>12. JobKnows'
  BY <1>2, <1>4 DEF JobKnows
<1>13. Activating'
  BY <1>1, <1>2, <1>3 DEF Released, Inv, TypeOK, Activating
<1>14. ShownKnows'
  BY <1>1, <1>2, <1>3, <1>6
  DEF Released, Inv, TypeOK, ShownKnows, Serving, Visible
<1>15. HistoryFollowsSessions'
  BY <1>1, <1>2, <1>5 DEF Inv, TypeOK, HistoryFollowsSessions
<1> QED
  BY <1>7, <1>8, <1>9, <1>10, <1>11, <1>12, <1>13, <1>14, <1>15 DEF Inv

LEMMA QueueInv == Inv /\ Queue => Inv'
<1> SUFFICES ASSUME Inv, Queue PROVE Inv'
  OBVIOUS
<1>1. CASE Dequeue
  <2>1. /\ queue \in Seq(Operations) /\ queue # <<>> /\ job' = Head(queue)
        /\ queue' = Tail(queue) /\ created \in Nat /\ calls \in Nat
    BY <1>1, MaxCallsAssumption
    DEF Dequeue, Inv, Counted, TypeOK, Instances, None
  <2>2. job' \in Operations /\ queue' \in Seq(Operations)
        /\ Len(queue') = Len(queue) - 1 /\ Len(queue) \in Nat
    BY <2>1
  <2>3. queue' \in Seq(Jobs) /\ job' \in Jobs
    BY <2>1, <2>2, OperationsAreJobs DEF Inv, TypeOK
  <2>4. Counted'
    <3>1. ~MayCreate
      BY <1>1 DEF Dequeue, MayCreate, NoJob
    <3> QED
      BY <1>1, <2>1, <2>2, <3>1 DEF Dequeue, Inv, Counted
  <2>5. JobKnows'
    BY <2>2 DEF JobKnows, Operations
  <2>6. Activating' /\ ShownKnows'
    BY <1>1 DEF Dequeue, Inv, Activating, ShownKnows, Serving
  <2>7. Port'
    BY <1>1, PortOfInv
    DEF Dequeue, Port, Creation, OneOwner, Active, GateDiscipline, Consistent,
        Recorded, HistoryFollowsSessions
  <2>8. TypeOK'
    BY <1>1, <2>3 DEF Dequeue, Inv, TypeOK
  <2> QED
    BY <2>4, <2>5, <2>6, <2>7, <2>8 DEF Inv, Port
<1>2. CASE EnterBegin
  <2>1. CASE ~Stale /\ AlreadyRunning
    BY <1>2, <2>1, EndJobInv DEF EnterBegin
  <2>2. CASE ~Stale /\ ~AlreadyRunning /\ current # None
    BY <1>2, <2>2, StopRecordInv DEF EnterBegin
  <2>3. CASE Stale \/ (~AlreadyRunning /\ current = None)
    <3>1. Proceed /\ (~Stale => current = None) /\ MayCreate
      BY <1>2, <2>3 DEF EnterBegin, MayCreate
    <3> QED
      BY <1>2, <3>1, ProceedInv DEF EnterBegin
  <2> QED
    BY <2>1, <2>2, <2>3
<1>3. CASE EnterStop
  <2>1. CASE current = None
    BY <1>3, <2>1, EndJobInv DEF EnterStop
  <2>2. CASE current # None
    BY <1>3, <2>2, StopRecordInv DEF EnterStop
  <2> QED
    BY <2>1, <2>2
<1>4. CASE Material
  <2>1. CASE Stale
    BY <1>4, <2>1, EndJobInv DEF Material
  <2>2. CASE ~Stale
    <3>1. current = None /\ MayCreate
      BY <1>4 DEF Material, Inv, JobKnows, MayCreate
    <3> QED
      BY <1>4, <2>2, <3>1, CreateServerInv DEF Material
  <2> QED
    BY <2>1, <2>2
<1>5. CASE MaterialFails
  BY <1>5, EndJobInv DEF MaterialFails, CreateFails
<1>6. CASE Begun
  <2>1. CASE record[current].cancelled \/ Stale
    <3>1. current # None
      BY <1>6 DEF Begun, Inv, JobKnows
    <3> QED
      BY <1>6, <2>1, <3>1, StopRecordInv DEF Begun
  <2>2. CASE ~(record[current].cancelled \/ Stale)
    BY <1>6, <2>2, EndJobInv DEF Begun
  <2> QED
    BY <2>1, <2>2
<1>7. CASE StartFailed
  <2>1. current # None
    BY <1>7 DEF StartFailed, Inv, JobKnows
  <2> QED
    BY <1>7, <2>1, StopRecordInv DEF StartFailed
<1>8. CASE Released
  BY <1>8, ReleasedInv
<1>9. CASE Stuck
  <2>1. CASE job.then = "cancelled"
    <3>1. /\ job' = [job EXCEPT !.at = "failed"] /\ shown' \in {shown, "error"}
          /\ UNCHANGED <<current, created, record, server, queue, generation,
                         disposed, activating, history, calls>>
      BY <1>9, <2>1 DEF Stuck, Notify
    <3>2. job' \in Jobs /\ job'.at = "failed"
      BY <3>1 DEF Inv, TypeOK, Jobs
    <3>3. current # None
      BY <1>9 DEF Stuck, Inv, JobKnows
    <3>4. JobKnows' /\ ~MayCreate'
      BY <3>1, <3>2, <3>3 DEF JobKnows, MayCreate
    <3> QED
      BY <3>1, <3>2, <3>4, JobStepInv
  <2>2. CASE job.then # "cancelled"
    BY <1>9, <2>2, EndJobInv DEF Stuck, Notify, EndJob
  <2> QED
    BY <2>1, <2>2
<1>10. CASE Continue
  <2>1. CASE job.then = "replace"
    <3>1. MayCreate /\ current = None
      BY <1>10, <2>1 DEF Continue, MayCreate, Inv, JobKnows
    <3> QED
      BY <1>10, <2>1, <3>1, ProceedInv DEF Continue
  <2>2. CASE job.then # "replace"
    BY <1>10, <2>2, EndJobInv DEF Continue
  <2> QED
    BY <2>1, <2>2
<1> QED
  BY <1>1, <1>2, <1>3, <1>4, <1>5, <1>6, <1>7, <1>8, <1>9, <1>10 DEF Queue

-----------------------------------------------------------------------------
(* The root's answer.                                                      *)

LEMMA OpenedFacts ==
  ASSUME NEW s \in ServerStates
  PROVE  LET t == [s EXCEPT !.accepting = TRUE]
         IN /\ t \in ServerStates /\ t.accepting
            /\ t.listener = s.listener /\ t.handle = s.handle
            /\ t.start = s.start /\ t.stop = s.stop
            /\ t.channel = s.channel /\ t.sessions = s.sessions
BY DEF ServerStates

LEMMA CommittedFacts ==
  ASSUME NEW r \in Records
  PROVE  LET q == [r EXCEPT !.candidate = FALSE]
         IN /\ q \in Records /\ ~q.candidate /\ q.cancelled = r.cancelled
            /\ q.started = r.started /\ q.registered = r.registered
            /\ q.stopRequested = r.stopRequested
BY DEF Records

LEMMA AnswersInv == Inv /\ Answers => Inv'
<1> SUFFICES ASSUME Inv, NEW committed \in BOOLEAN, Activated(committed)
             PROVE  Inv'
  BY DEF Answers
<1> DEFINE i == activating.instance
<1>1. i \in Instances /\ activating' = NotActivating /\ record[i].candidate
      /\ (record[i].started \/ record[i].cancelled)
  BY DEF Activated, Inv, TypeOK, Activating
<1>2. CASE /\ committed /\ current = i /\ ~record[i].cancelled
           /\ ~disposed /\ activating.generation = generation
  <2> DEFINE t == [server[i] EXCEPT !.accepting = TRUE]
             q == [record[i] EXCEPT !.candidate = FALSE]
  <2>1. /\ server' = [server EXCEPT ![i] = t] /\ record' = [record EXCEPT ![i] = q]
        /\ shown' = "started" /\ current' = i
    BY <1>1, <1>2 DEF Activated, Inv, TypeOK
  <2>2. /\ t \in ServerStates /\ t.accepting
        /\ t.listener = server[i].listener /\ t.handle = server[i].handle
        /\ t.start = server[i].start /\ t.stop = server[i].stop
        /\ t.channel = server[i].channel /\ t.sessions = server[i].sessions
    BY <1>1, OpenedFacts DEF Inv, TypeOK
  <2>3. /\ q \in Records /\ ~q.candidate /\ q.cancelled = record[i].cancelled
        /\ q.started = record[i].started /\ q.registered = record[i].registered
        /\ q.stopRequested = record[i].stopRequested
    BY <1>1, CommittedFacts DEF Inv, TypeOK
  <2> HIDE DEF t, q
  <2>4. record[i].started /\ ~record[i].stopRequested /\ ~record[i].cancelled
        /\ server[i].listener = "bound"
    BY <1>1, <1>2 DEF Inv, Recorded
  <2>5. TypeOK'
    BY <1>1, <2>1, <2>2, <2>3, NothingIsTyped DEF Activated, Inv, TypeOK
  <2>6. Counted'
    BY CountedFrame DEF Activated, MayCreate
  <2>7. Creation'
    BY <1>1, <1>2, <2>1 DEF Activated, Inv, TypeOK, Creation, Instances, None
  <2>8. ASSUME NEW j \in Instances PROVE Consistent(server[j])' /\ Recorded(j)'
    <3>1. CASE j = i
      BY <1>1, <1>2, <2>1, <2>2, <2>3, <2>4, <3>1
      DEF Inv, TypeOK, Consistent, Recorded
    <3>2. CASE j # i
      BY <1>1, <1>2, <2>1, <3>2 DEF Inv, TypeOK, Consistent, Recorded
    <3> QED
      BY <3>1, <3>2
  <2>9. OneOwner' /\ GateDiscipline'
    BY <1>1, <1>2, <2>1, <2>2, <2>3, <2>4
    DEF Inv, TypeOK, OneOwner, GateDiscipline, Active
  <2>10. JobKnows'
    BY <1>1, <1>2, <2>1, <2>2, <2>3 DEF Activated, Inv, TypeOK, JobKnows, Active
  <2>11. Activating'
    BY <1>1 DEF Activating, NotActivating
  <2>12. ShownKnows'
    <3>1. i # None
      BY <1>1 DEF Instances, None
    <3>2. record'[i].started /\ ~record'[i].candidate /\ ~record'[i].cancelled
      BY <1>1, <2>1, <2>3, <2>4 DEF Inv, TypeOK
    <3> QED
      BY <2>1, <3>1, <3>2 DEF ShownKnows
  <2>13. HistoryFollowsSessions'
    BY <1>1, <1>2, <2>1, <2>2, <2>3
    DEF Activated, Inv, TypeOK, HistoryFollowsSessions
  <2> QED
    BY <2>5, <2>6, <2>7, <2>8, <2>9, <2>10, <2>11, <2>12, <2>13 DEF Inv
<1>3. CASE ~(/\ committed /\ current = i /\ ~record[i].cancelled
             /\ ~disposed /\ activating.generation = generation)
  <2>1. UNCHANGED <<current, created, record, server, queue, job, generation,
                    disposed, shown, history, calls>>
    BY <1>3 DEF Activated
  <2>2. Counted'
    BY <2>1, CountedFrame DEF MayCreate
  <2>3. JobKnows' /\ Activating' /\ ShownKnows'
    BY <1>1, <2>1
    DEF Inv, JobKnows, Active, Activating, NotActivating, ShownKnows, Serving
  <2>4. Port'
    BY <2>1, PortOfInv
    DEF Port, Creation, OneOwner, Active, GateDiscipline, Consistent, Recorded,
        HistoryFollowsSessions
  <2>5. TypeOK'
    BY <1>1, <2>1, NothingIsTyped DEF Inv, TypeOK
  <2> QED
    BY <2>2, <2>3, <2>4, <2>5 DEF Inv, Port
<1> QED
  BY <1>2, <1>3

-----------------------------------------------------------------------------
(* The steps of servers and clients.                                       *)

\* Everything that still happens to a server happens to the owned one.
LEMMA HappensToOwned ==
  ASSUME Inv, NEW i \in Instances,
         \/ Active(server[i]) \/ server[i].channel
         \/ server[i].listener = "bound" \/ server[i].stop # "none"
  PROVE  /\ i = current /\ current # None
         /\ server[i] \in ServerStates /\ record[i] \in Records
         /\ job.at \notin {"material", "released"}
BY DEF Inv, TypeOK, OneOwner, Consistent, Recorded, Active, Instances, None,
       JobKnows

\* The step gives the owned instance the server t and the record q, and may
\* settle what the operation at work awaits.
OwnedStep(i, t, q) ==
  /\ server' = [server EXCEPT ![i] = t] /\ record' = [record EXCEPT ![i] = q]
  /\ t \in ServerStates /\ q \in Records /\ t.accepting = server[i].accepting
  /\ q.candidate = record[i].candidate /\ q.cancelled = record[i].cancelled
  /\ q.stopRequested = record[i].stopRequested
  /\ UNCHANGED <<current, created, queue, generation, disposed, activating,
                 calls>>
  /\ job' \in Jobs /\ job'.then = job.then
  /\ \/ job'.at = job.at
     \/ job.at = "starting" /\ job'.at \in {"begun", "failed"}
     \/ job.at = "stopping" /\ job'.at \in {"stopped", "stuck"}

\* What t and q have to satisfy for the invariant to hold after such a step:
\* server and record agree, ...
Agrees(i, t, q) ==
  /\ Consistent(t)
  /\ t.stop # "none" => q.cancelled
  /\ q.started => t.start = "done" /\ (q.cancelled \/ t.listener = "bound")
  /\ record[i].started => q.started \/ q.cancelled
  /\ q.registered \subseteq t.sessions
  /\ job'.at = "stopped" => ~Active(t) /\ q.cancelled /\ t.stop = "none"

\* ... the history is about the sessions that are registered, ...
Entered(t, q) ==
  /\ history' \in [Sessions -> {"none", "open", "final"}]
  /\ \A s \in Sessions :
       history'[s] = "open" <=> s \in t.sessions /\ s \in q.registered

\* ... and what is shown is true of the server.
Told(t, q) ==
  /\ shown' \in {"stopped", "starting", "started", "stopping", "error"}
  /\ ~disposed =>
       /\ shown' = "stopped" => ~t.accepting /\ ~t.channel /\ t.sessions = {}
       /\ shown' = "started" => q.started /\ ~q.candidate /\ ~q.cancelled
       /\ t.listener = "bound" /\ t.accepting => shown' \in {"started", "error"}

LEMMA OwnedStepInv ==
  ASSUME Inv, NEW i \in Instances, i = current, current # None,
         job.at \notin {"material", "released"}, server[i] # NewServer,
         NEW t, NEW q, OwnedStep(i, t, q), Agrees(i, t, q), Entered(t, q),
         Told(t, q)
  PROVE  Inv'
<1> USE DEF OwnedStep, Agrees, Entered, Told
<1>1. TypeOK'
  BY DEF Inv, TypeOK
<1>2. Counted'
  BY CountedFrame DEF MayCreate
<1>3. Creation'
  BY DEF Inv, TypeOK, Creation, Instances, None
<1>4. ASSUME NEW j \in Instances PROVE Consistent(server[j])' /\ Recorded(j)'
  <2>1. CASE j = i
    BY <2>1 DEF Inv, TypeOK, Consistent, Recorded
  <2>2. CASE j # i
    BY <2>2 DEF Inv, TypeOK, Consistent, Recorded
  <2> QED
    BY <2>1, <2>2
<1>5. OneOwner' /\ GateDiscipline'
  BY DEF Inv, TypeOK, OneOwner, GateDiscipline, Active
<1>6. JobKnows'
  BY DEF Inv, TypeOK, JobKnows, Active
<1>7. Activating'
  BY DEF Inv, TypeOK, Activating
<1>8. ASSUME NEW j \in Instances, j # i
      PROVE  /\ server'[j] = server[j] /\ ~server[j].accepting
             /\ ~server[j].channel /\ server[j].sessions = {}
  BY <1>8 DEF Inv, TypeOK, OneOwner, GateDiscipline, Consistent, Active
<1>9. server'[i] = t /\ record'[i] = q
  BY DEF Inv, TypeOK
<1>10. ShownKnows'
  BY <1>8, <1>9 DEF ShownKnows, Serving
<1>11. HistoryFollowsSessions'
  BY <1>9 DEF HistoryFollowsSessions
<1> QED
  BY <1>1, <1>2, <1>3, <1>4, <1>5, <1>6, <1>7, <1>10, <1>11 DEF Inv

\* What is known of the owned instance before such a step.
LEMMA OwnedKnown ==
  ASSUME Inv, NEW i \in Instances, i = current, current # None
  PROVE  /\ Consistent(server[i]) /\ Recorded(i)
         /\ record[i].started => record[i].started \/ record[i].cancelled
         /\ job.at = "stopped" =>
              ~Active(server[i]) /\ record[i].cancelled /\ server[i].stop = "none"
         /\ history \in [Sessions -> {"none", "open", "final"}]
         /\ \A s \in Sessions :
              history[s] = "open" <=>
                s \in server[i].sessions /\ s \in record[i].registered
         /\ shown \in {"stopped", "starting", "started", "stopping", "error"}
         /\ server[i].accepting => ~record[i].cancelled /\ ~record[i].candidate
         /\ ~disposed =>
              /\ shown = "stopped" => /\ ~server[i].accepting
                                      /\ ~server[i].channel
                                      /\ server[i].sessions = {}
              /\ shown = "started" => /\ record[i].started
                                      /\ ~record[i].candidate
                                      /\ ~record[i].cancelled
              /\ server[i].listener = "bound" /\ server[i].accepting =>
                   shown \in {"started", "error"}
BY DEF Inv, TypeOK, JobKnows, HistoryFollowsSessions, ShownKnows, Serving,
       GateDiscipline

\* The starting server listens, or its start ends.
LEMMA StartListeningInv ==
  ASSUME Inv, NEW i \in Instances, StartListening(i) PROVE Inv'
<1> DEFINE s == server[i]  r == record[i]
<1>1. /\ i = current /\ current # None /\ s \in ServerStates /\ r \in Records
      /\ job.at \notin {"material", "released"} /\ s.start = "queued"
      /\ s # NewServer
  BY HappensToOwned DEF StartListening, Active, Unsettled, NewServer
<1>2. PICK t \in {[s EXCEPT !.start = "done"],
                  [s EXCEPT !.start = "listening", !.handle = TRUE,
                            !.listener = "binding"]} :
        /\ server' = [server EXCEPT ![i] = t]
        /\ shown' \in {shown, "error"}
        /\ \/ job' = job
           \/ \E outcome \in {"begun", "failed"} :
                job.at = "starting" /\ job' = [job EXCEPT !.at = outcome]
  BY <1>1 DEF StartListening, StartSettles, ErrorEvent, Notify, Inv, TypeOK
<1>3. /\ t \in ServerStates /\ t.accepting = s.accepting /\ t.stop = s.stop
      /\ t.channel = s.channel /\ t.sessions = s.sessions
      /\ \/ /\ t.start = "done" /\ t.listener = s.listener /\ t.handle = s.handle
         \/ t.start = "listening" /\ t.handle /\ t.listener = "binding"
  BY <1>1 DEF ServerStates, Unsettled
<1> HIDE DEF s, r
<1>4. /\ Consistent(s) /\ Recorded(i)
      /\ r.started => s.start = "done"
      /\ s.stop # "none" => r.cancelled
      /\ r.registered \subseteq s.sessions
  BY OwnedKnown, <1>1 DEF Recorded, s, r
<1>5. OwnedStep(i, t, r)
  BY <1>1, <1>2, <1>3
  DEF StartListening, StartUnchanged, OwnedStep, Inv, TypeOK, Jobs, s, r
<1>6. job'.at = "stopped" => job.at = "stopped"
  BY <1>2 DEF Inv, TypeOK, Jobs
<1>7. Agrees(i, t, r)
  BY <1>1, <1>3, <1>4, <1>6, OwnedKnown DEF Agrees, Consistent, Active, Unsettled, s, r
<1>8. Entered(t, r)
  BY <1>1, <1>3, OwnedKnown DEF StartListening, StartUnchanged, Entered, s, r
<1>9. Told(t, r)
  BY <1>1, <1>2, <1>3, OwnedKnown DEF Told, s, r
<1> QED
  BY <1>1, <1>5, <1>7, <1>8, <1>9, OwnedStepInv DEF s

\* The port is bound, and the record marked as started.
LEMMA ListeningInv ==
  ASSUME Inv, NEW i \in Instances, Listening(i) PROVE Inv'
<1> DEFINE s == server[i]  r == record[i]
           t == [s EXCEPT !.listener = "bound", !.start = "done"]
           q == [r EXCEPT !.started = TRUE]
<1>1. /\ i = current /\ current # None /\ s \in ServerStates /\ r \in Records
      /\ job.at \notin {"material", "released"} /\ s.start = "listening"
      /\ s # NewServer
  BY HappensToOwned DEF Listening, Active, Unsettled, NewServer
<1>2. /\ server' = [server EXCEPT ![i] = t] /\ record' = [record EXCEPT ![i] = q]
      /\ shown' = IF r.cancelled \/ ~Visible(i) THEN shown ELSE "started"
      /\ \/ job' = job
         \/ job.at = "starting" /\ job' = [job EXCEPT !.at = "begun"]
  BY <1>1 DEF Listening, StartSettles, Notify, Inv, TypeOK
<1>3. /\ t \in ServerStates /\ t.accepting = s.accepting /\ t.stop = s.stop
      /\ t.channel = s.channel /\ t.sessions = s.sessions
      /\ t.start = "done" /\ t.listener = "bound" /\ t.handle = s.handle
  BY <1>1 DEF ServerStates
<1>4. /\ q \in Records /\ q.candidate = r.candidate
      /\ q.cancelled = r.cancelled /\ q.stopRequested = r.stopRequested
      /\ q.started /\ q.registered = r.registered
  BY <1>1 DEF Records
<1> HIDE DEF s, r, t, q
<1>5. /\ Consistent(s)
      /\ s.stop # "none" => r.cancelled
      /\ r.registered \subseteq s.sessions
  BY OwnedKnown, <1>1 DEF Recorded, s, r
<1>6. OwnedStep(i, t, q)
  BY <1>1, <1>2, <1>3, <1>4
  DEF Listening, StartUnchanged, OwnedStep, Inv, TypeOK, Jobs, s, r
<1>7. job'.at = "stopped" => job.at = "stopped"
  BY <1>2 DEF Inv, TypeOK, Jobs
<1>8. job.at = "stopped" => ~Active(s)
  BY <1>1, OwnedKnown DEF s
<1>9. Agrees(i, t, q)
  BY <1>1, <1>3, <1>4, <1>5, <1>7, <1>8 DEF Agrees, Consistent, Active, Unsettled
<1>10. Entered(t, q)
  BY <1>1, <1>3, <1>4, OwnedKnown DEF Listening, StartUnchanged, Entered, s, r
<1>11. Told(t, q)
  BY <1>1, <1>2, <1>3, <1>4, OwnedKnown DEF Told, Visible, s, r
<1> QED
  BY <1>1, <1>6, <1>9, <1>10, <1>11, OwnedStepInv DEF s

\* The listen fails or was cancelled: what is left of it is to be closed.
LEMMA ListenEndsInv ==
  ASSUME Inv, NEW i \in Instances, ListenEnds(i) PROVE Inv'
<1> DEFINE s == server[i]  r == record[i]
           t == [s EXCEPT !.listener = "none",
                   !.start = IF s.aborted THEN "aborting" ELSE "failing"]
<1>1. /\ i = current /\ current # None /\ s \in ServerStates /\ r \in Records
      /\ job.at \notin {"material", "released"} /\ s.start = "listening"
      /\ s # NewServer
  BY HappensToOwned DEF ListenEnds, Active, Unsettled, NewServer
<1>2. /\ server' = [server EXCEPT ![i] = t] /\ UNCHANGED <<record, job>>
      /\ shown' \in {shown, "error"}
  BY <1>1 DEF ListenEnds, ErrorEvent, Notify, Inv, TypeOK
<1>3. /\ t \in ServerStates /\ t.accepting = s.accepting /\ t.stop = s.stop
      /\ t.channel = s.channel /\ t.sessions = s.sessions
      /\ t.start \in {"aborting", "failing"} /\ t.listener = "none"
      /\ t.handle = s.handle
  BY <1>1 DEF ServerStates, Unsettled
<1> HIDE DEF s, r, t
<1>4. /\ Consistent(s)
      /\ r.started => s.start = "done"
      /\ s.stop # "none" => r.cancelled
      /\ r.registered \subseteq s.sessions
  BY OwnedKnown, <1>1 DEF Recorded, s, r
<1>5. OwnedStep(i, t, r)
  <2>1. record' = [record EXCEPT ![i] = r]
    BY <1>1, <1>2 DEF Inv, TypeOK, r
  <2> QED
    BY <1>1, <1>2, <1>3, <2>1
    DEF ListenEnds, StartUnchanged, OwnedStep, Inv, TypeOK, s, r
<1>6. job.at # "stopped"
  BY <1>1, OwnedKnown DEF Active, Unsettled, s
<1>7. Agrees(i, t, r)
  BY <1>1, <1>2, <1>3, <1>4, <1>6 DEF Agrees, Consistent, Unsettled, r
<1>8. Entered(t, r)
  BY <1>1, <1>3, OwnedKnown DEF ListenEnds, StartUnchanged, Entered, s, r
<1>9. Told(t, r)
  BY <1>1, <1>2, <1>3, OwnedKnown DEF Told, s, r
<1> QED
  BY <1>1, <1>5, <1>7, <1>8, <1>9, OwnedStepInv DEF s

\* The TCP server that does not listen is closed, or cannot be.
LEMMA StartFailsInv ==
  ASSUME Inv, NEW i \in Instances, StartFails(i) PROVE Inv'
<1> DEFINE s == server[i]  r == record[i]
<1>1. /\ i = current /\ current # None /\ s \in ServerStates /\ r \in Records
      /\ job.at \notin {"material", "released"}
      /\ s.start \in {"aborting", "failing"} /\ s # NewServer
  BY HappensToOwned DEF StartFails, Active, Unsettled, NewServer
<1>2. PICK t \in {[s EXCEPT !.handle = FALSE, !.start = "done"],
                  [s EXCEPT !.start = "done"]} :
        /\ server' = [server EXCEPT ![i] = t] /\ UNCHANGED record
        /\ shown' \in {shown, "error"}
        /\ \/ job' = job
           \/ \E outcome \in {"begun", "failed"} :
                job.at = "starting" /\ job' = [job EXCEPT !.at = outcome]
  BY <1>1 DEF StartFails, StartSettles, ErrorEvent, Notify, Inv, TypeOK
<1>3. /\ t \in ServerStates /\ t.accepting = s.accepting /\ t.stop = s.stop
      /\ t.channel = s.channel /\ t.sessions = s.sessions
      /\ t.start = "done" /\ t.listener = s.listener
  BY <1>1 DEF ServerStates, Unsettled
<1> HIDE DEF s, r
<1>4. /\ Consistent(s)
      /\ r.started => s.start = "done"
      /\ s.stop # "none" => r.cancelled
      /\ r.registered \subseteq s.sessions
  BY OwnedKnown, <1>1 DEF Recorded, s, r
<1>5. OwnedStep(i, t, r)
  BY <1>1, <1>2, <1>3
  DEF StartFails, StartUnchanged, OwnedStep, Inv, TypeOK, Jobs, s, r
<1>6. job'.at # "stopped"
  <2>1. job.at # "stopped"
    BY <1>1, OwnedKnown DEF Active, Unsettled, s
  <2> QED
    BY <1>2, <2>1 DEF Inv, TypeOK, Jobs
<1>7. Agrees(i, t, r)
  BY <1>1, <1>3, <1>4, <1>6 DEF Agrees, Consistent, Unsettled, r
<1>8. Entered(t, r)
  BY <1>1, <1>3, OwnedKnown DEF StartFails, StartUnchanged, Entered, s, r
<1>9. Told(t, r)
  BY <1>1, <1>2, <1>3, OwnedKnown DEF Told, s, r
<1> QED
  BY <1>1, <1>5, <1>7, <1>8, <1>9, OwnedStepInv DEF s

\* _doStop ends the sessions of the server, and so their entries.
LEMMA DoStopInv ==
  ASSUME Inv, NEW i \in Instances, DoStop(i) PROVE Inv'
<1> DEFINE s == server[i]  r == record[i]
           t == [s EXCEPT !.stop = "draining", !.channel = FALSE, !.sessions = {}]
           q == [r EXCEPT !.registered = @ \ s.sessions]
<1>1. /\ i = current /\ current # None /\ s \in ServerStates /\ r \in Records
      /\ job.at \notin {"material", "released"} /\ s.stop = "queued"
      /\ s.start \notin Unsettled /\ s # NewServer
  BY HappensToOwned DEF DoStop, NewServer
<1>2. /\ server' = [server EXCEPT ![i] = t] /\ record' = [record EXCEPT ![i] = q]
      /\ UNCHANGED <<job, shown>> /\ history' = Finalised(i, s.sessions)
  BY <1>1 DEF DoStop, Ended, Inv, TypeOK
<1>3. /\ t \in ServerStates /\ t.accepting = s.accepting /\ t.stop = "draining"
      /\ ~t.channel /\ t.sessions = {} /\ t.start = s.start
      /\ t.listener = s.listener /\ t.handle = s.handle
  BY <1>1 DEF ServerStates
<1>4. /\ q \in Records /\ q.candidate = r.candidate
      /\ q.cancelled = r.cancelled /\ q.stopRequested = r.stopRequested
      /\ q.started = r.started /\ q.registered = r.registered \ s.sessions
  BY <1>1 DEF Records
<1>5. history' = [x \in Sessions |-> IF x \in s.sessions /\ x \in r.registered
                                     THEN "final" ELSE history[x]]
  BY <1>2 DEF Finalised
<1> HIDE DEF s, r, t, q
<1>6. /\ Consistent(s) /\ r.cancelled
      /\ r.started => s.start = "done"
      /\ r.registered \subseteq s.sessions
  BY OwnedKnown, <1>1 DEF Recorded, s, r
<1>7. OwnedStep(i, t, q)
  BY <1>1, <1>2, <1>3, <1>4 DEF DoStop, OwnedStep, Inv, TypeOK, s, r
<1>8. job'.at # "stopped"
  BY <1>1, <1>2, OwnedKnown DEF s
<1>9. Agrees(i, t, q)
  BY <1>1, <1>3, <1>4, <1>6, <1>8 DEF Agrees, Consistent, r
<1>10. Entered(t, q)
  BY <1>1, <1>3, <1>4, <1>5, OwnedKnown DEF Entered, s, r
<1>11. Told(t, q)
  BY <1>1, <1>2, <1>3, <1>4, OwnedKnown DEF Told, s, r
<1> QED
  BY <1>1, <1>7, <1>9, <1>10, <1>11, OwnedStepInv DEF s

\* The SCP tasks have ended: nobody is admitted any more.
LEMMA DrainedInv ==
  ASSUME Inv, NEW i \in Instances, Drained(i) PROVE Inv'
<1> DEFINE s == server[i]  r == record[i]
           t == [s EXCEPT !.stop = "closing", !.listener = "none"]
<1>1. /\ i = current /\ current # None /\ s \in ServerStates /\ r \in Records
      /\ job.at \notin {"material", "released"} /\ s.stop = "draining"
      /\ s # NewServer
  BY HappensToOwned DEF Drained, NewServer
<1>2. /\ server' = [server EXCEPT ![i] = t] /\ record' = [record EXCEPT ![i] = r]
      /\ UNCHANGED <<job, shown, history>>
  BY <1>1 DEF Drained, Inv, TypeOK
<1>3. /\ t \in ServerStates /\ t.accepting = s.accepting /\ t.stop = "closing"
      /\ t.channel = s.channel /\ t.sessions = s.sessions /\ t.start = s.start
      /\ t.listener = "none" /\ t.handle = s.handle
  BY <1>1 DEF ServerStates
<1> HIDE DEF s, r, t
<1>4. /\ Consistent(s) /\ r.cancelled
      /\ r.started => s.start = "done"
      /\ r.registered \subseteq s.sessions
  BY OwnedKnown, <1>1 DEF Recorded, s, r
<1>5. OwnedStep(i, t, r)
  BY <1>1, <1>2, <1>3 DEF Drained, OwnedStep, Inv, TypeOK, s, r
<1>6. job'.at # "stopped"
  BY <1>1, <1>2, OwnedKnown DEF s
<1>7. Agrees(i, t, r)
  BY <1>1, <1>3, <1>4, <1>6 DEF Agrees, Consistent, r
<1>8. Entered(t, r)
  BY <1>1, <1>2, <1>3, OwnedKnown DEF Entered, s, r
<1>9. Told(t, r)
  BY <1>1, <1>2, <1>3, OwnedKnown DEF Told, s, r
<1> QED
  BY <1>1, <1>5, <1>7, <1>8, <1>9, OwnedStepInv DEF s

\* The last connection has gone: the stop has succeeded.
LEMMA ClosedInv ==
  ASSUME Inv, NEW i \in Instances, Closed(i) PROVE Inv'
<1> DEFINE s == server[i]  r == record[i]
           t == [s EXCEPT !.handle = FALSE, !.stop = "none"]
           q == [r EXCEPT !.registered = {}, !.closed = TRUE, !.started = FALSE]
<1>1. /\ i = current /\ current # None /\ s \in ServerStates /\ r \in Records
      /\ job.at \notin {"material", "released"} /\ s.stop = "closing"
      /\ s # NewServer
  BY HappensToOwned DEF Closed, NewServer
<1>2. /\ server' = [server EXCEPT ![i] = t] /\ record' = [record EXCEPT ![i] = q]
      /\ history' = Finalised(i, Sessions)
      /\ shown' = IF Visible(i) THEN "stopped" ELSE shown
      /\ job' = IF job.at = "stopping" THEN [job EXCEPT !.at = "stopped"] ELSE job
  BY <1>1 DEF Closed, StopSettles, Notify, Inv, TypeOK
<1>3. /\ t \in ServerStates /\ t.accepting = s.accepting /\ t.stop = "none"
      /\ t.channel = s.channel /\ t.sessions = s.sessions /\ t.start = s.start
      /\ t.listener = s.listener /\ ~t.handle
  BY <1>1 DEF ServerStates
<1>4. /\ q \in Records /\ q.candidate = r.candidate
      /\ q.cancelled = r.cancelled /\ q.stopRequested = r.stopRequested
      /\ ~q.started /\ q.registered = {}
  BY <1>1 DEF Records
<1>5. history' = [x \in Sessions |-> IF x \in r.registered THEN "final"
                                     ELSE history[x]]
  BY <1>2 DEF Finalised
<1> HIDE DEF s, r, t, q
<1>6. /\ Consistent(s) /\ r.cancelled /\ ~s.accepting
      /\ s.start \notin Unsettled /\ ~s.channel /\ s.sessions = {}
      /\ s.listener = "none" /\ r.registered = {}
  BY OwnedKnown, <1>1 DEF Recorded, Consistent, s, r
<1>7. OwnedStep(i, t, q)
  <2>1. job' \in Jobs /\ job'.then = job.then
        /\ (job'.at = job.at \/ (job.at = "stopping" /\ job'.at = "stopped"))
    BY <1>2 DEF Inv, TypeOK, Jobs
  <2> QED
    BY <1>1, <1>2, <1>3, <1>4, <2>1 DEF Closed, OwnedStep, s, r
<1>8. ~Active(t)
  BY <1>3, <1>6 DEF Active
<1>9. Agrees(i, t, q)
  BY <1>1, <1>3, <1>4, <1>6, <1>8 DEF Agrees, Consistent, Unsettled, r
<1>10. Entered(t, q)
  BY <1>1, <1>3, <1>4, <1>5, <1>6, OwnedKnown DEF Entered, s, r
<1>11. Told(t, q)
  BY <1>1, <1>2, <1>3, <1>4, <1>6, OwnedKnown DEF Told, Visible, s, r
<1> QED
  BY <1>1, <1>7, <1>9, <1>10, <1>11, OwnedStepInv DEF s

\* The time is over: the stop has failed and the TCP server is kept.
LEMMA CloseTimeoutInv ==
  ASSUME Inv, NEW i \in Instances, CloseTimeout(i) PROVE Inv'
<1> DEFINE s == server[i]  r == record[i]
           t == [s EXCEPT !.stop = "none"]
<1>1. /\ i = current /\ current # None /\ s \in ServerStates /\ r \in Records
      /\ job.at \notin {"material", "released"} /\ s.stop = "closing"
      /\ s # NewServer
  BY HappensToOwned DEF CloseTimeout, NewServer
<1>2. /\ server' = [server EXCEPT ![i] = t] /\ record' = [record EXCEPT ![i] = r]
      /\ UNCHANGED history /\ shown' \in {shown, "error"}
      /\ job' = IF job.at = "stopping" THEN [job EXCEPT !.at = "stuck"] ELSE job
  BY <1>1 DEF CloseTimeout, StopSettles, ErrorEvent, Notify, Inv, TypeOK
<1>3. /\ t \in ServerStates /\ t.accepting = s.accepting /\ t.stop = "none"
      /\ t.channel = s.channel /\ t.sessions = s.sessions /\ t.start = s.start
      /\ t.listener = s.listener /\ t.handle = s.handle
  BY <1>1 DEF ServerStates
<1> HIDE DEF s, r, t
<1>4. /\ Consistent(s) /\ r.cancelled
      /\ r.started => s.start = "done"
      /\ r.registered \subseteq s.sessions
  BY OwnedKnown, <1>1 DEF Recorded, s, r
<1>5. job' \in Jobs /\ job'.then = job.then
      /\ (job'.at = job.at \/ (job.at = "stopping" /\ job'.at = "stuck"))
  BY <1>2 DEF Inv, TypeOK, Jobs
<1>6. OwnedStep(i, t, r)
  BY <1>1, <1>2, <1>3, <1>5 DEF CloseTimeout, OwnedStep, s, r
<1>7. job'.at # "stopped"
  BY <1>1, <1>5, OwnedKnown DEF s
<1>8. Agrees(i, t, r)
  BY <1>1, <1>3, <1>4, <1>7 DEF Agrees, Consistent, r
<1>9. Entered(t, r)
  BY <1>1, <1>2, <1>3, OwnedKnown DEF Entered, s, r
<1>10. Told(t, r)
  BY <1>1, <1>2, <1>3, OwnedKnown DEF Told, s, r
<1> QED
  BY <1>1, <1>6, <1>8, <1>9, <1>10, OwnedStepInv DEF s

LEMMA ServersInv == Inv /\ Servers => Inv'
BY StartListeningInv, ListeningInv, ListenEndsInv, StartFailsInv, DoStopInv,
   DrainedInv, ClosedInv, CloseTimeoutInv DEF Servers

\* A client gets a channel through the open gate.
LEMMA ChannelInv ==
  ASSUME Inv, NEW i \in Instances, Channel(i) PROVE Inv'
<1> DEFINE s == server[i]  r == record[i]
           t == [s EXCEPT !.channel = TRUE]
<1>1. /\ i = current /\ current # None /\ s \in ServerStates /\ r \in Records
      /\ job.at \notin {"material", "released"} /\ s.listener = "bound"
      /\ s.accepting /\ s # NewServer
  BY HappensToOwned DEF Channel, NewServer
<1>2. /\ server' = [server EXCEPT ![i] = t] /\ record' = [record EXCEPT ![i] = r]
      /\ UNCHANGED <<job, shown, history>>
  BY <1>1 DEF Channel, ClientUnchanged, Inv, TypeOK
<1>3. /\ t \in ServerStates /\ t.accepting = s.accepting /\ t.stop = s.stop
      /\ t.channel /\ t.sessions = s.sessions /\ t.start = s.start
      /\ t.listener = s.listener /\ t.handle = s.handle
  BY <1>1 DEF ServerStates
<1> HIDE DEF s, r, t
<1>4. /\ Consistent(s) /\ ~r.cancelled
      /\ r.started => s.start = "done"
      /\ s.stop = "none" /\ r.registered \subseteq s.sessions
  BY OwnedKnown, <1>1 DEF Recorded, s, r
<1>5. OwnedStep(i, t, r)
  BY <1>1, <1>2, <1>3 DEF Channel, ClientUnchanged, OwnedStep, Inv, TypeOK, s, r
<1>6. job'.at # "stopped"
  BY <1>1, <1>2, <1>4, OwnedKnown DEF s, r
<1>7. Agrees(i, t, r)
  BY <1>1, <1>3, <1>4, <1>6 DEF Agrees, Consistent, Unsettled, r
<1>8. Entered(t, r)
  BY <1>1, <1>2, <1>3, OwnedKnown DEF Entered, s, r
<1>9. Told(t, r)
  BY <1>1, <1>2, <1>3, OwnedKnown DEF Told, s, r
<1> QED
  BY <1>1, <1>5, <1>7, <1>8, <1>9, OwnedStepInv DEF s

\* A channel becomes a session; it is registered unless the instance is a
\* candidate, cancelled or closed.
LEMMA OpenSessionInv ==
  ASSUME Inv, NEW i \in Instances, NEW x \in Sessions, OpenSession(i, x)
  PROVE  Inv'
<1> DEFINE s == server[i]  r == record[i]
           t == [s EXCEPT !.channel = FALSE, !.sessions = @ \cup {x}]
<1>1. /\ i = current /\ current # None /\ s \in ServerStates /\ r \in Records
      /\ job.at \notin {"material", "released"} /\ s.channel /\ s # NewServer
      /\ history[x] = "none" /\ x \notin s.sessions
  BY HappensToOwned DEF OpenSession, NewServer
<1>2. PICK q \in Records :
        /\ record' = [record EXCEPT ![i] = q] /\ q.candidate = r.candidate
        /\ q.cancelled = r.cancelled /\ q.stopRequested = r.stopRequested
        /\ q.started = r.started
        /\ \/ /\ q.registered = r.registered \cup {x}
              /\ history' = [history EXCEPT ![x] = "open"]
           \/ q.registered = r.registered /\ UNCHANGED history
  <2>1. CASE /\ current = i /\ ~r.candidate /\ ~r.cancelled /\ ~r.closed
    <3> DEFINE q == [r EXCEPT !.registered = @ \cup {x}]
    <3>1. record' = [record EXCEPT ![i] = q] /\ history' = [history EXCEPT ![x] = "open"]
      BY <1>1, <2>1 DEF OpenSession, Inv, TypeOK
    <3>2. /\ q \in Records /\ q.candidate = r.candidate
          /\ q.cancelled = r.cancelled /\ q.stopRequested = r.stopRequested
          /\ q.started = r.started /\ q.registered = r.registered \cup {x}
      BY <1>1 DEF Records
    <3> QED
      BY <3>1, <3>2
  <2>2. CASE ~(/\ current = i /\ ~r.candidate /\ ~r.cancelled /\ ~r.closed)
    <3>1. record' = [record EXCEPT ![i] = r] /\ UNCHANGED history
      BY <1>1, <2>2 DEF OpenSession, Inv, TypeOK
    <3> QED
      BY <1>1, <3>1
  <2> QED
    BY <2>1, <2>2
<1>3. /\ server' = [server EXCEPT ![i] = t] /\ UNCHANGED <<job, shown>>
  BY <1>1 DEF OpenSession, ClientUnchanged, Inv, TypeOK
<1>4. /\ t \in ServerStates /\ t.accepting = s.accepting /\ t.stop = s.stop
      /\ ~t.channel /\ t.sessions = s.sessions \cup {x} /\ t.start = s.start
      /\ t.listener = s.listener /\ t.handle = s.handle
  BY <1>1 DEF ServerStates
<1> HIDE DEF s, r, t
<1>5. /\ Consistent(s) /\ (s.stop # "none" => r.cancelled)
      /\ r.started => s.start = "done"
      /\ r.started /\ ~r.cancelled => s.listener = "bound"
      /\ r.registered \subseteq s.sessions
  BY OwnedKnown, <1>1 DEF Recorded, s, r
<1>6. OwnedStep(i, t, q)
  BY <1>1, <1>2, <1>3, <1>4
  DEF OpenSession, ClientUnchanged, OwnedStep, Inv, TypeOK, s, r
<1>7. job'.at # "stopped"
  BY <1>1, <1>3, <1>5, OwnedKnown DEF Active, Consistent, s
<1>8. Agrees(i, t, q)
  BY <1>1, <1>2, <1>4, <1>5, <1>7 DEF Agrees, Consistent, r
<1>9. Entered(t, q)
  BY <1>1, <1>2, <1>4, <1>5, OwnedKnown DEF Entered, s, r
<1>10. Told(t, q)
  BY <1>1, <1>2, <1>3, <1>4, OwnedKnown DEF Told, s, r
<1> QED
  BY <1>1, <1>6, <1>8, <1>9, <1>10, OwnedStepInv DEF s

\* The bridge of a session ends by itself.
LEMMA CloseSessionInv ==
  ASSUME Inv, NEW i \in Instances, NEW x \in Sessions, CloseSession(i, x)
  PROVE  Inv'
<1> DEFINE s == server[i]  r == record[i]
           t == [s EXCEPT !.sessions = @ \ {x}]
           q == [r EXCEPT !.registered = @ \ {x}]
<1>1. /\ i = current /\ current # None /\ s \in ServerStates /\ r \in Records
      /\ job.at \notin {"material", "released"} /\ x \in s.sessions
      /\ s # NewServer
  BY HappensToOwned DEF CloseSession, Active, NewServer
<1>2. /\ server' = [server EXCEPT ![i] = t] /\ record' = [record EXCEPT ![i] = q]
      /\ UNCHANGED <<job, shown>> /\ history' = Finalised(i, {x})
  BY <1>1 DEF CloseSession, ClientUnchanged, Ended, Inv, TypeOK
<1>3. /\ t \in ServerStates /\ t.accepting = s.accepting /\ t.stop = s.stop
      /\ t.channel = s.channel /\ t.sessions = s.sessions \ {x}
      /\ t.start = s.start /\ t.listener = s.listener /\ t.handle = s.handle
  BY <1>1 DEF ServerStates
<1>4. /\ q \in Records /\ q.candidate = r.candidate
      /\ q.cancelled = r.cancelled /\ q.stopRequested = r.stopRequested
      /\ q.started = r.started /\ q.registered = r.registered \ {x}
  BY <1>1 DEF Records
<1>5. history' = [y \in Sessions |-> IF y = x /\ y \in r.registered
                                     THEN "final" ELSE history[y]]
  BY <1>2 DEF Finalised
<1> HIDE DEF s, r, t, q
<1>6. /\ Consistent(s) /\ (s.stop # "none" => r.cancelled)
      /\ r.started => s.start = "done"
      /\ r.started /\ ~r.cancelled => s.listener = "bound"
      /\ r.registered \subseteq s.sessions
  BY OwnedKnown, <1>1 DEF Recorded, s, r
<1>7. OwnedStep(i, t, q)
  BY <1>1, <1>2, <1>3, <1>4
  DEF CloseSession, ClientUnchanged, OwnedStep, Inv, TypeOK, s, r
<1>8. job'.at # "stopped"
  BY <1>1, <1>2, OwnedKnown DEF Active, s
<1>9. Agrees(i, t, q)
  BY <1>1, <1>3, <1>4, <1>6, <1>8 DEF Agrees, Consistent, r
<1>10. Entered(t, q)
  BY <1>1, <1>3, <1>4, <1>5, <1>6, OwnedKnown DEF Entered, s, r
<1>11. Told(t, q)
  BY <1>1, <1>2, <1>3, <1>4, OwnedKnown DEF Told, s, r
<1> QED
  BY <1>1, <1>7, <1>9, <1>10, <1>11, OwnedStepInv DEF s

\* An error that the server survives is shown, and nothing else happens.
LEMMA RuntimeErrorInv ==
  ASSUME Inv, NEW i \in Instances, RuntimeError(i) PROVE Inv'
<1>1. /\ UNCHANGED <<current, created, record, server, queue, job, generation,
                     disposed, activating, history, calls>>
      /\ shown' \in {shown, "error"}
  BY DEF RuntimeError, ErrorEvent, Notify
<1>2. Counted'
  BY <1>1, CountedFrame DEF MayCreate
<1>3. JobKnows' /\ Activating' /\ ShownKnows'
  BY <1>1 DEF Inv, JobKnows, Active, Activating, ShownKnows, Serving
<1>4. Port'
  BY <1>1, PortOfInv
  DEF Port, Creation, OneOwner, Active, GateDiscipline, Consistent, Recorded,
      HistoryFollowsSessions
<1>5. TypeOK'
  BY <1>1 DEF Inv, TypeOK
<1> QED
  BY <1>2, <1>3, <1>4, <1>5 DEF Inv, Port

LEMMA ClientsInv == Inv /\ Clients => Inv'
BY ChannelInv, OpenSessionInv, CloseSessionInv, RuntimeErrorInv DEF Clients

LEMMA StutterInv == Inv /\ UNCHANGED vars => Inv'
<1> SUFFICES ASSUME Inv, UNCHANGED vars PROVE Inv'
  OBVIOUS
<1>1. Counted'
  BY CountedFrame DEF vars, MayCreate
<1>2. JobKnows' /\ Activating' /\ ShownKnows'
  BY DEF vars, Inv, JobKnows, Active, Activating, ShownKnows, Serving
<1>3. Port'
  BY PortOfInv
  DEF vars, Port, Creation, OneOwner, Active, GateDiscipline, Consistent,
      Recorded, HistoryFollowsSessions
<1>4. TypeOK'
  BY DEF vars, Inv, TypeOK
<1> QED
  BY <1>1, <1>2, <1>3, <1>4 DEF Inv, Port

LEMMA Invariance == Spec => []Inv
<1>1. Inv /\ [Next]_vars => Inv'
  BY CallsInv, QueueInv, AnswersInv, ServersInv, ClientsInv, StutterInv DEF Next
<1> QED
  BY <1>1, InitInv, PTL DEF Spec

-----------------------------------------------------------------------------
(* The theorems.                                                           *)

LEMMA InvShowsTruth == Inv => ShownTruth
BY DEF Inv, ShownKnows, ShownTruth, Recorded, TypeOK, None

\* What is behind the port has one owner, who opens the gate only to whom it
\* may and tells the truth about it, in every reachable state: the listeners,
\* starts and sessions of proxy-server.js all belong to the instance that
\* proxy-controller.js owns.
THEOREM PortHasOneOwner == Spec => []PortIsOwned
<1>1. Inv => PortIsOwned
  BY InvShowsTruth DEF Inv, PortIsOwned
<1> QED
  BY <1>1, Invariance, PTL

\* An entry of the session history is open exactly while its session is alive
\* in the owned instance (finalizeSession, finalizeRemaining).
THEOREM HistoryIsTrue == Spec => []HistoryFollowsSessions
<1>1. Inv => HistoryFollowsSessions
  BY DEF Inv
<1> QED
  BY <1>1, Invariance, PTL

-----------------------------------------------------------------------------
(* The lifecycle implements ProxyGate.                                     *)

\* The step changes no instance but i, whose gate it does not open, whose
\* start it does not undo, and which is bound only while it starts.
Onward(i) ==
  /\ \A j \in Instances \ {i} :
       server'[j] = server[j] /\ record'[j] = record[j]
  /\ server'[i].accepting => server[i].accepting
  /\ record'[i].candidate = record[i].candidate
  /\ record[i].cancelled => record'[i].cancelled
  /\ server[i].start = "done" =>
       /\ server'[i].start = "done"
       /\ server'[i].listener = "bound" => server[i].listener = "bound"

\* Of the instances that nobody owns, none is behind the port.
LEMMA OthersAreNotBehind ==
  ASSUME Inv, NEW j \in Instances, j # current
  PROVE  ~Serving(j) /\ ~Gated(j) /\ ~Promise!Behind(j)
BY DEF Inv, OneOwner, Active, Consistent, Serving, Gated, Promise!Behind, Phase

LEMMA PhaseKept ==
  ASSUME Inv, Inv', NEW i \in Instances, i = current, Onward(i)
  PROVE  Promise!Next \/ UNCHANGED Phase
<1>1. ASSUME NEW j \in Instances, j # i PROVE Phase'[j] = Phase[j]
  BY <1>1 DEF Onward, Phase, Serving, Gated
<1>2. /\ Phase \in [Instances -> {"new", "gated", "open", "closed"}]
      /\ Phase' \in [Instances -> {"new", "gated", "open", "closed"}]
  BY DEF Phase
<1>3. Phase' = [Phase EXCEPT ![i] = Phase'[i]]
  BY <1>1, <1>2
<1>4. \A j \in Instances : j # i => ~Promise!Behind(j)
  BY OthersAreNotBehind
<1>5. CASE Phase'[i] = Phase[i]
  BY <1>2, <1>3, <1>5
<1>6. CASE Phase[i] # "closed" /\ Phase'[i] = "closed"
  BY <1>3, <1>6 DEF Promise!Next, Promise!Close
<1>7. CASE server[i].start # "done" /\ Phase'[i] \in {"gated", "open"}
  <2>1. Phase[i] = "new" /\ ~Promise!Behind(i)
    BY <1>7 DEF Inv, Consistent, Phase, Serving, Gated, Promise!Behind
  <2>2. Promise!Bind(i, Phase'[i])
    BY <1>3, <1>4, <2>1 DEF Promise!Bind
  <2> QED
    BY <1>7, <2>2 DEF Promise!Next
<1>8. CASE server[i].start # "done" /\ Phase'[i] = "new"
  <2>1. Phase[i] = "new"
    BY <1>8 DEF Inv, Consistent, Phase, Serving, Gated
  <2> QED
    BY <1>5, <1>8, <2>1
<1>9. CASE server[i].start = "done" /\ Phase'[i] # "closed"
  <2>1. Phase[i] = "open" => Phase'[i] \in {"open", "closed"}
    BY <1>9 DEF Onward, Inv, GateDiscipline, Phase, Serving, Gated
  <2>2. Phase[i] = "gated" => Phase'[i] \in {"gated", "closed"}
    BY <1>9 DEF Onward, Inv, GateDiscipline, Phase, Serving, Gated
  <2>3. Phase[i] = "closed" => Phase'[i] = "closed"
    BY <1>9 DEF Onward, Inv, GateDiscipline, Phase, Serving, Gated
  <2>4. Phase[i] \in {"open", "gated", "closed"}
    BY <1>9 DEF Phase
  <2> QED
    BY <1>5, <1>9, <2>1, <2>2, <2>3, <2>4
<1> QED
  BY <1>2, <1>5, <1>6, <1>7, <1>8, <1>9

LEMMA HaltGoesOn ==
  ASSUME Inv, current # None, NEW t, NEW q, Halts(t, q)
  PROVE  current \in Instances /\ Onward(current)
BY OwnedIsInstance DEF Halts, Onward, Inv, TypeOK

\* Steps that leave servers and records alone, and the creation of an instance
\* (which starts as a new one), do not show.
LEMMA PhaseUnchanged ==
  ASSUME UNCHANGED <<server, record>> PROVE UNCHANGED Phase
BY DEF Phase, Serving, Gated

LEMMA CreationHidden ==
  ASSUME Inv, MayCreate, CreateServer PROVE UNCHANGED Phase
<1>1. /\ created + 1 \in Instances /\ server[created + 1] = NewServer
      /\ server' = [server EXCEPT ![created + 1].accepting = ~job.candidate,
                                  ![created + 1].start = "queued"]
      /\ record' = [record EXCEPT ![created + 1].candidate = job.candidate]
  BY NextInstance DEF CreateServer
<1>2. \A j \in Instances : Phase'[j] = Phase[j]
  BY <1>1 DEF Inv, TypeOK, ServerStates, Records, Phase, Serving, Gated, NewServer
<1> QED
  BY <1>2 DEF Phase

LEMMA ReleaseHidden ==
  ASSUME Inv, Released PROVE UNCHANGED Phase
<1>1. /\ current \in Instances /\ server[current].listener # "bound"
      /\ record' = [record EXCEPT ![current].registered = {},
                                  ![current].closed = TRUE]
      /\ UNCHANGED server
  BY OwnedIsInstance DEF Released, FinaliseRemaining, Inv, JobKnows, Active, Consistent
<1>2. \A j \in Instances : Phase'[j] = Phase[j]
  BY <1>1 DEF Inv, TypeOK, Phase, Serving, Gated
<1> QED
  BY <1>2 DEF Phase

LEMMA CallsImplement ==
  ASSUME Inv, Inv', Calls PROVE Promise!Next \/ UNCHANGED Phase
<1>1. CASE CancelListen /\ UNCHANGED current
  BY <1>1, CancelListenHalts, HaltGoesOn, PhaseKept, PhaseUnchanged
<1>2. CASE StopNow /\ UNCHANGED current
  BY <1>2, StopNowHalts, HaltGoesOn, PhaseKept, PhaseUnchanged
<1>3. CASE UNCHANGED <<server, record>>
  BY <1>3, PhaseUnchanged
<1> QED
  BY <1>1, <1>2, <1>3
  DEF Calls, Start, CancelPendingStart, Stop, Dispose, Activate

LEMMA QueueImplements ==
  ASSUME Inv, Inv', Queue PROVE Promise!Next \/ UNCHANGED Phase
<1>1. ASSUME current # None, NEW then, StopRecord(then), UNCHANGED current
      PROVE  Promise!Next \/ UNCHANGED Phase
  BY <1>1, StopRecordHalts, HaltGoesOn, PhaseKept
<1>2. ASSUME MayCreate, CreateServer PROVE UNCHANGED Phase
  BY <1>2, CreationHidden
<1>3. ASSUME MayCreate, Proceed PROVE UNCHANGED Phase
  BY <1>2, <1>3, PhaseUnchanged DEF Proceed, CreateFails
<1>4. CASE Dequeue \/ MaterialFails \/ Stuck
  BY <1>4, PhaseUnchanged DEF Dequeue, MaterialFails, CreateFails, Stuck
<1>5. CASE EnterBegin
  <2>1. MayCreate
    BY <1>5 DEF EnterBegin, MayCreate
  <2> QED
    BY <1>1, <1>3, <1>5, <2>1, PhaseUnchanged DEF EnterBegin
<1>6. CASE EnterStop
  BY <1>1, <1>6, PhaseUnchanged DEF EnterStop
<1>7. CASE Material
  BY <1>2, <1>7, PhaseUnchanged DEF Material, MayCreate
<1>8. CASE Begun \/ StartFailed
  <2>1. current # None
    BY <1>8 DEF Begun, StartFailed, Inv, JobKnows
  <2> QED
    BY <1>1, <1>8, <2>1, PhaseUnchanged DEF Begun, StartFailed
<1>9. CASE Released
  BY <1>9, ReleaseHidden
<1>10. CASE Continue
  <2>1. job.then = "replace" => MayCreate
    BY <1>10 DEF Continue, MayCreate
  <2> QED
    BY <1>3, <1>10, <2>1, PhaseUnchanged DEF Continue
<1> QED
  BY <1>4, <1>5, <1>6, <1>7, <1>8, <1>9, <1>10 DEF Queue

\* The answer that opens the gate opens that of a gated candidate.
LEMMA AnswersImplement ==
  ASSUME Inv, Inv', NEW committed \in BOOLEAN, Activated(committed)
  PROVE  Promise!Next \/ UNCHANGED Phase
<1> DEFINE i == activating.instance
<1>1. CASE UNCHANGED <<server, record>>
  BY <1>1, PhaseUnchanged
<1>2. CASE ~UNCHANGED <<server, record>>
  <2>1. /\ i \in Instances /\ current = i /\ ~record[i].cancelled
        /\ server' = [server EXCEPT ![i].accepting = TRUE]
        /\ record' = [record EXCEPT ![i].candidate = FALSE]
    BY <1>2 DEF Activated, Inv, TypeOK
  <2>2. record[i].candidate /\ server[i].listener = "bound"
    BY <2>1 DEF Inv, Activating, Recorded, Instances, None
  <2>3. Phase[i] = "gated" /\ Phase'[i] = "open"
    BY <2>1, <2>2
    DEF Inv, TypeOK, ServerStates, GateDiscipline, Phase, Serving, Gated
  <2>4. \A j \in Instances : j # i => Phase'[j] = Phase[j]
    BY <2>1 DEF Inv, TypeOK, Phase, Serving, Gated
  <2>5. Phase' = [Phase EXCEPT ![i] = "open"]
    <3>1. /\ Phase \in [Instances -> {"new", "gated", "open", "closed"}]
          /\ Phase' \in [Instances -> {"new", "gated", "open", "closed"}]
      BY DEF Phase
    <3> QED
      BY <2>3, <2>4, <3>1
  <2> QED
    BY <2>1, <2>3, <2>5 DEF Promise!Next, Promise!Activate
<1> QED
  BY <1>1, <1>2

\* Each step of a server or a client goes on with the owned instance.
LEMMA InstanceImplements ==
  ASSUME Inv, Inv', NEW i \in Instances,
         \/ StartListening(i) \/ Listening(i) \/ ListenEnds(i) \/ StartFails(i)
         \/ DoStop(i) \/ Drained(i) \/ Closed(i) \/ CloseTimeout(i)
         \/ Channel(i) \/ RuntimeError(i)
         \/ \E x \in Sessions : OpenSession(i, x) \/ CloseSession(i, x)
  PROVE  Promise!Next \/ UNCHANGED Phase
<1> USE DEF Inv, TypeOK, ServerStates, Records, Onward
<1>1. CASE RuntimeError(i)
  BY <1>1, PhaseUnchanged DEF RuntimeError
<1>2. CASE StartListening(i) \/ Listening(i) \/ ListenEnds(i) \/ StartFails(i)
  <2>1. i = current
    BY <1>2, HappensToOwned
    DEF StartListening, Listening, ListenEnds, StartFails, Active, Unsettled
  <2>2. Onward(i)
    <3>1. CASE StartListening(i)
      BY <3>1 DEF StartListening, StartSettles
    <3>2. CASE Listening(i)
      BY <3>2 DEF Listening, StartSettles
    <3>3. CASE ListenEnds(i)
      BY <3>3 DEF ListenEnds
    <3>4. CASE StartFails(i)
      <4>1. PICK t \in {[server[i] EXCEPT !.handle = FALSE, !.start = "done"],
                        [server[i] EXCEPT !.start = "done"]} :
              server' = [server EXCEPT ![i] = t] /\ UNCHANGED record
        BY <3>4 DEF StartFails, StartSettles
      <4>2. t.accepting = server[i].accepting /\ t.listener = server[i].listener
            /\ t.start = "done" /\ server[i].start # "done"
        BY ZenonT(60), <3>4, <4>1 DEF StartFails, Unsettled
      <4> QED
        BY <4>1, <4>2
    <3> QED
      BY <1>2, <3>1, <3>2, <3>3, <3>4
  <2> QED
    BY <2>1, <2>2, PhaseKept
<1>3. CASE DoStop(i) \/ Drained(i) \/ Closed(i) \/ CloseTimeout(i)
  <2>1. i = current
    BY <1>3, HappensToOwned DEF DoStop, Drained, Closed, CloseTimeout
  <2>2. Onward(i)
    <3>1. CASE DoStop(i)
      BY <3>1 DEF DoStop, Ended
    <3>2. CASE Drained(i)
      BY <3>2 DEF Drained
    <3>3. CASE Closed(i)
      BY <3>3 DEF Closed, StopSettles
    <3>4. CASE CloseTimeout(i)
      BY <3>4 DEF CloseTimeout, StopSettles
    <3> QED
      BY <1>3, <3>1, <3>2, <3>3, <3>4
  <2> QED
    BY <2>1, <2>2, PhaseKept
<1>4. CASE Channel(i) \/ \E x \in Sessions : OpenSession(i, x) \/ CloseSession(i, x)
  <2>1. i = current
    BY <1>4, HappensToOwned DEF Channel, OpenSession, CloseSession, Active
  <2>2. Onward(i)
    <3>1. CASE Channel(i)
      BY <3>1 DEF Channel
    <3>2. ASSUME NEW x \in Sessions, OpenSession(i, x) PROVE Onward(i)
      <4>1. /\ server' = [server EXCEPT ![i].channel = FALSE,
                                        ![i].sessions = @ \cup {x}]
            /\ \/ record' = [record EXCEPT ![i].registered = @ \cup {x}]
               \/ UNCHANGED record
        BY <3>2 DEF OpenSession
      <4> QED
        BY <4>1
    <3>3. ASSUME NEW x \in Sessions, CloseSession(i, x) PROVE Onward(i)
      BY <3>3 DEF CloseSession, Ended
    <3> QED
      BY <1>4, <3>1, <3>2, <3>3
  <2> QED
    BY <2>1, <2>2, PhaseKept
<1> QED
  BY <1>1, <1>2, <1>3, <1>4

\* The lifecycle keeps the promise of ProxyGate: an instance that was closed
\* never serves again, a candidate serves only once it was activated, and two
\* instances are never behind the port.
THEOREM GateKeepsPromise == Spec => ImplementsProxyGate
<1>1. Init => Promise!Init
  BY DEF Init, Promise!Init, Phase, Serving, Gated, NewServer
<1>2. Inv /\ Inv' /\ [Next]_vars => [Promise!Next]_Phase
  <2> SUFFICES ASSUME Inv, Inv', [Next]_vars
               PROVE  Promise!Next \/ UNCHANGED Phase
    OBVIOUS
  <2>1. CASE UNCHANGED vars
    BY <2>1, PhaseUnchanged DEF vars
  <2>2. CASE Servers
    BY <2>2, InstanceImplements DEF Servers
  <2>3. CASE Clients
    BY <2>3, InstanceImplements DEF Clients
  <2> QED
    BY <2>1, <2>2, <2>3, CallsImplement, QueueImplements, AnswersImplement
    DEF Next, Answers
<1> QED
  BY <1>1, <1>2, Invariance, PTL DEF Spec, ImplementsProxyGate, Promise!Spec
=============================================================================
