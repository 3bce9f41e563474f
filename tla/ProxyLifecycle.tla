--------------------------- MODULE ProxyLifecycle ---------------------------
(***************************************************************************)
(* Starting, replacing and stopping the local SSH proxy: the controller    *)
(* (electron/proxy-controller.js) that owns at most one server, and the    *)
(* life of each server (electron/proxy-server.js: start, _doStart, stop,   *)
(* _doStop, _closeTcpServer).                                              *)
(*                                                                         *)
(* Controller and server each run their operations one after the other on  *)
(* a promise queue; but stop, cancelPendingStart and dispose also act at   *)
(* once on whatever the queue has reached, and every await lets other      *)
(* calls, clients and timers in.  One action is the code between two       *)
(* awaits.  A settled promise hands its outcome to the operation that      *)
(* awaits it (job.at); that operation goes on in a step of its own.        *)
(*                                                                         *)
(* Abstracted: statistics, traffic and log events; the profile and epoch   *)
(* of a scope; SSH authentication; the number of clients (a channel that   *)
(* a client has got and not yet used is one flag per server).              *)
(***************************************************************************)
EXTENDS Naturals, Sequences, FiniteSets

CONSTANTS
  Sessions,    \* sessions that SSH clients may open
  MaxCalls     \* bound on the calls made to the controller

ASSUME MaxCallsAssumption == MaxCalls \in Nat

\* Servers in the order of their creation; a call creates at most one.
Instances == 1..MaxCalls
None == 0

VARIABLES
  current,     \* the instance the controller owns, or None
  created,     \* the last instance created
  record,      \* the controller's record of each instance:
               \*   candidate, cancelled, stopRequested, started
               \*   closed      historyClosed
               \*   registered  the sessions it has to finalise
  server,      \* each server:
               \*   listener    "none", "binding" or "bound"
               \*   handle      it keeps a TCP server object (_server)
               \*   accepting   its gate admits connections and channels
               \*   start       its start: "none", "queued", "listening",
               \*               "aborting" or "failing" (it closes what did
               \*               not get to listen), "done"
               \*   aborted     that start was cancelled
               \*   stop        its stop: "none", "queued", "draining"
               \*               (SCP tasks end), "closing"
               \*   channel     a client holds a channel without a session
               \*   sessions    open sessions
  queue,       \* the controller's operations that have not begun
  job,         \* the operation at work:
               \*   kind, candidate, generation   as it was called
               \*   at    where it is: "enter", "material" (awaits the keys),
               \*         "starting", "begun", "failed", "stopping",
               \*         "stopped", "stuck" (stop failed), "released"
               \*   then  what follows a stop: "replace", "cancelled",
               \*         "failed" or "end"
  generation,  \* startGeneration: an older start is superseded
  disposed,
  activating,  \* the candidate whose activation awaits the root's answer
  shown,       \* the proxy status last reported to the application
  history,     \* each session in the session history: none, open or final
  calls        \* calls made so far (bounds the model; not in the code)

vars == <<current, created, record, server, queue, job, generation, disposed,
          activating, shown, history, calls>>

NewRecord == [candidate |-> FALSE, cancelled |-> FALSE,
              stopRequested |-> FALSE, started |-> FALSE, closed |-> FALSE,
              registered |-> {}]
NewServer == [listener |-> "none", handle |-> FALSE, accepting |-> FALSE,
              start |-> "none", aborted |-> FALSE, stop |-> "none",
              channel |-> FALSE, sessions |-> {}]
NoJob == [kind |-> "none", candidate |-> FALSE, generation |-> 0,
          at |-> "none", then |-> "end"]
NotActivating == [instance |-> None, generation |-> 0]

-----------------------------------------------------------------------------
(* What several steps do.                                                  *)

\* notify: only the owned instance is shown, and a candidate is not.
Visible(i) == current = i /\ ~disposed /\ ~record[i].candidate
Notify(i, status) == shown' = IF Visible(i) THEN status ELSE shown

\* finalizeSession: registered sessions are finalised and forgotten.
Finalised(i, ss) ==
  [s \in Sessions |-> IF s \in ss \cap record[i].registered THEN "final"
                      ELSE history[s]]

\* finalizeRemaining.
FinaliseRemaining(i) ==
  /\ history' = Finalised(i, Sessions)
  /\ record' = [record EXCEPT ![i].registered = {}, ![i].closed = TRUE]

Unsettled == {"queued", "listening", "aborting", "failing"}
Active(s) == s.handle \/ s.start \in Unsettled \/ s.sessions # {}

\* A server's stop up to its first await: the pending start is cancelled and
\* _doStop is queued, unless a stop is pending or there is nothing to stop.
StopCall(s) ==
  [s EXCEPT !.aborted = @ \/ s.start \in Unsettled,
            !.stop = IF @ = "none" /\ Active(s) THEN "queued" ELSE @]
Close(s) == [s EXCEPT !.accepting = FALSE]

EndJob == job' = NoJob
Stale == disposed \/ job.generation # generation

\* stopRecord up to its await.
StopRecord(then) ==
  LET stopped == Close(StopCall(server[current]))
  IN /\ record' = [record EXCEPT ![current].cancelled = TRUE]
     /\ server' = [server EXCEPT ![current] = stopped]
     /\ Notify(current, "stopping")
     /\ job' = [job EXCEPT !.then = then,
                           !.at = IF stopped.stop = "none" THEN "stopped"
                                  ELSE "stopping"]

\* The server is created, attached and told to start.
CreateServer ==
  LET i == created + 1
  IN /\ created' = i /\ current' = i
     /\ record' = [record EXCEPT ![i].candidate = job.candidate]
     /\ server' = [server EXCEPT ![i].accepting = ~job.candidate,
                                 ![i].start = "queued"]
     /\ shown' = IF job.candidate THEN shown ELSE "starting"
     /\ job' = [job EXCEPT !.at = "starting"]

\* No server can be created: whatever the call was for, an error is shown.
CreateFails ==
  /\ shown' = "error"
  /\ EndJob
  /\ UNCHANGED <<current, created, record, server>>

\* begin, once nothing is running: the key material is awaited, except that
\* of a candidate, which came with the call.
Proceed ==
  IF ~Stale /\ job.candidate THEN CreateServer \/ CreateFails
  ELSE /\ job' = IF Stale THEN NoJob ELSE [job EXCEPT !.at = "material"]
       /\ UNCHANGED <<current, created, record, server, shown>>

-----------------------------------------------------------------------------
(* Calls to the controller.                                                *)

Call == calls < MaxCalls /\ calls' = calls + 1

\* Starts called before now are superseded.
Supersede == generation' = generation + 1

Enqueue(kind, candidate, gen) ==
  queue' = Append(queue, [kind |-> kind, candidate |-> candidate,
                          generation |-> gen, at |-> "enter", then |-> "end"])

Start(candidate) ==
  /\ Call
  /\ Enqueue("begin", candidate, generation)
  /\ UNCHANGED <<current, created, record, server, job, generation, disposed,
                 activating, shown, history>>

\* cancelListen: an instance that is starting, or a candidate, is stopped
\* without waiting for the queue.
Cancellable(i) == ~record[i].started \/ record[i].candidate
CancelListen ==
  IF current # None /\ Cancellable(current)
  THEN /\ record' = [record EXCEPT ![current].cancelled = TRUE]
       /\ server' = [server EXCEPT ![current] = Close(StopCall(@))]
  ELSE UNCHANGED <<record, server>>

CancelPendingStart ==
  /\ Call
  /\ Supersede
  /\ CancelListen
  /\ UNCHANGED <<current, created, queue, job, disposed, activating, shown,
                 history>>

\* What stop does without waiting: the gate of the current instance closes.
StopNow ==
  IF current = None THEN UNCHANGED <<record, server>>
  ELSE /\ record' = [record EXCEPT ![current].stopRequested = TRUE,
                       ![current].cancelled = @ \/ Cancellable(current)]
       /\ server' = [server EXCEPT ![current] =
            Close(IF Cancellable(current) THEN StopCall(@) ELSE @)]

Stop ==
  /\ Call
  /\ Supersede
  /\ StopNow
  /\ Enqueue("stop", FALSE, 0)
  /\ UNCHANGED <<current, created, job, disposed, activating, shown, history>>

Dispose ==
  /\ Call
  /\ disposed' = TRUE
  /\ Supersede
  /\ CancelListen
  /\ Enqueue("stop", FALSE, 0)
  /\ UNCHANGED <<current, created, job, activating, shown, history>>

\* activateCandidate asks the root whether its transaction is committed.
Activate ==
  /\ current # None
  /\ record[current].candidate /\ record[current].started
  /\ ~record[current].cancelled /\ ~disposed
  /\ activating = NotActivating
  /\ activating' = [instance |-> current, generation |-> generation]
  /\ UNCHANGED <<current, created, record, server, queue, job, generation,
                 disposed, shown, history, calls>>

\* A plausible error: what was checked before the await is not checked again.
ActivatedUnchecked(committed) ==
  LET i == activating.instance
  IN /\ i # None
     /\ activating' = NotActivating
     /\ IF committed
        THEN /\ server' = [server EXCEPT ![i].accepting = TRUE]
             /\ record' = [record EXCEPT ![i].candidate = FALSE]
             /\ shown' = "started"
        ELSE UNCHANGED <<server, record, shown>>
     /\ UNCHANGED <<current, created, queue, job, generation, disposed,
                    history, calls>>

\* The answer opens the gate only if nothing has happened meanwhile.
Activated(committed) ==
  LET i == activating.instance
  IN /\ i # None
     /\ activating' = NotActivating
     /\ IF /\ committed /\ current = i /\ ~record[i].cancelled
           /\ ~disposed /\ activating.generation = generation
        THEN /\ server' = [server EXCEPT ![i].accepting = TRUE]
             /\ record' = [record EXCEPT ![i].candidate = FALSE]
             /\ shown' = "started"
        ELSE UNCHANGED <<server, record, shown>>
     /\ UNCHANGED <<current, created, queue, job, generation, disposed,
                    history, calls>>

-----------------------------------------------------------------------------
(* The controller's queue.                                                 *)

Dequeue ==
  /\ job = NoJob /\ queue # <<>>
  /\ job' = Head(queue) /\ queue' = Tail(queue)
  /\ UNCHANGED <<current, created, record, server, generation, disposed,
                 activating, shown, history, calls>>

\* begin: refused while shutting down or if superseded; a proxy that runs is
\* kept; whatever else there is, is stopped first.
AlreadyRunning ==
  /\ current # None
  /\ record[current].started /\ ~record[current].cancelled
  /\ ~record[current].candidate /\ ~job.candidate

EnterBegin ==
  /\ job.at = "enter" /\ job.kind = "begin"
  /\ IF ~Stale /\ AlreadyRunning
     THEN EndJob /\ UNCHANGED <<current, created, record, server, shown>>
     ELSE IF ~Stale /\ current # None
     THEN StopRecord("replace") /\ UNCHANGED <<current, created>>
     ELSE Proceed
  /\ UNCHANGED <<queue, generation, disposed, activating, history, calls>>

EnterStop ==
  /\ job.at = "enter" /\ job.kind = "stop"
  /\ IF current = None
     THEN EndJob /\ UNCHANGED <<record, server, shown>>
     ELSE StopRecord("end")
  /\ UNCHANGED <<current, created, queue, generation, disposed, activating,
                 history, calls>>

\* The key material has arrived.
Material ==
  /\ job.at = "material"
  /\ IF Stale
     THEN EndJob /\ UNCHANGED <<current, created, record, server, shown>>
     ELSE CreateServer
  /\ UNCHANGED <<queue, generation, disposed, activating, history, calls>>

\* It has not, or no server can be created with it.
MaterialFails ==
  /\ job.at = "material"
  /\ IF Stale
     THEN EndJob /\ UNCHANGED <<current, created, record, server, shown>>
     ELSE CreateFails
  /\ UNCHANGED <<queue, generation, disposed, activating, history, calls>>

\* The server's start has returned: a start that was cancelled or superseded
\* is stopped again.
Begun ==
  /\ job.at = "begun"
  /\ IF record[current].cancelled \/ Stale
     THEN StopRecord("cancelled")
     ELSE EndJob /\ UNCHANGED <<record, server, shown>>
  /\ UNCHANGED <<current, created, queue, generation, disposed, activating,
                 history, calls>>

\* The catch of begin: the server's start has failed, or the stop of a start
\* that was cancelled has.
StartFailed ==
  /\ job.at = "failed"
  /\ StopRecord(IF record[current].cancelled \/ Stale THEN "end"
                ELSE "failed")
  /\ UNCHANGED <<current, created, queue, generation, disposed, activating,
                 history, calls>>

\* stopRecord after a stop that succeeded.
Released ==
  /\ job.at = "stopped"
  /\ FinaliseRemaining(current)
  /\ Notify(current, "stopped")
  /\ current' = None
  /\ job' = [job EXCEPT !.at = "released"]
  /\ UNCHANGED <<created, server, queue, generation, disposed, activating,
                 calls>>

\* A plausible error: a server that did not stop is forgotten.
StuckForgets ==
  /\ job.at = "stuck"
  /\ Notify(current, "error")
  /\ current' = None
  /\ EndJob
  /\ UNCHANGED <<created, record, server, queue, generation, disposed,
                 activating, history, calls>>

\* stopRecord after a stop that failed: it throws, and the instance is kept
\* for a later stop.  The stop of a cancelled start throws into the catch of
\* begin, which stops it once more.
Stuck ==
  /\ job.at = "stuck"
  /\ Notify(current, "error")
  /\ job' = IF job.then = "cancelled" THEN [job EXCEPT !.at = "failed"]
            ELSE NoJob
  /\ UNCHANGED <<current, created, record, server, queue, generation,
                 disposed, activating, history, calls>>

\* The operation goes on after its stopRecord.
Continue ==
  /\ job.at = "released"
  /\ IF job.then = "replace" THEN Proceed
     ELSE /\ EndJob
          /\ shown' = IF job.then = "failed" THEN "error" ELSE shown
          /\ UNCHANGED <<current, created, record, server>>
  /\ UNCHANGED <<queue, generation, disposed, activating, history, calls>>

-----------------------------------------------------------------------------
(* The server's start.                                                     *)

\* start's promise settles.
StartSettles(i, s, outcome) ==
  /\ server' = [server EXCEPT ![i] = [s EXCEPT !.start = "done"]]
  /\ job' = IF job.at = "starting" THEN [job EXCEPT !.at = outcome] ELSE job

StartUnchanged == UNCHANGED <<current, created, queue, generation, disposed,
                              activating, history, calls>>

\* What the controller shows for an error event of its server.
ErrorEvent(i) == Notify(i, "error")

\* _doStart: the server listens; the host key or the socket may be refused.
StartListening(i) ==
  /\ server[i].start = "queued"
  /\ IF server[i].aborted
     THEN StartSettles(i, server[i], "begun") /\ UNCHANGED shown
     ELSE \/ /\ server' = [server EXCEPT ![i].start = "listening",
                                ![i].handle = TRUE, ![i].listener = "binding"]
             /\ UNCHANGED <<job, shown>>
          \/ StartSettles(i, server[i], "failed") /\ ErrorEvent(i)
  /\ UNCHANGED record
  /\ StartUnchanged

\* The port is bound: the started event marks the record.
Listening(i) ==
  /\ server[i].start = "listening" /\ ~server[i].aborted
  /\ StartSettles(i, [server[i] EXCEPT !.listener = "bound"], "begun")
  /\ record' = [record EXCEPT ![i].started = (@ \/ current = i)]
  /\ IF record[i].cancelled THEN UNCHANGED shown ELSE Notify(i, "started")
  /\ StartUnchanged

\* The listen fails, or ends because the start was cancelled.
ListenEnds(i) ==
  /\ server[i].start = "listening"
  /\ server' = [server EXCEPT ![i].listener = "none",
       ![i].start = IF server[i].aborted THEN "aborting" ELSE "failing"]
  /\ IF server[i].aborted THEN UNCHANGED shown ELSE ErrorEvent(i)
  /\ UNCHANGED <<record, job>>
  /\ StartUnchanged

\* The TCP server that does not listen is closed; that may fail too.
StartFails(i) ==
  /\ server[i].start \in {"aborting", "failing"}
  /\ \/ /\ StartSettles(i, [server[i] EXCEPT !.handle = FALSE],
                        IF server[i].start = "aborting" THEN "begun" ELSE "failed")
        /\ UNCHANGED shown
     \/ StartSettles(i, server[i], "failed") /\ ErrorEvent(i)
  /\ UNCHANGED record
  /\ StartUnchanged

-----------------------------------------------------------------------------
(* The server's stop.                                                      *)

\* A plausible error: the sessions are dropped without telling anybody.
EndedSilently(i, ss) == UNCHANGED <<record, history>>

\* session-close: the controller finalises the sessions that it registered.
Ended(i, ss) ==
  IF current = i
  THEN /\ history' = Finalised(i, ss)
       /\ record' = [record EXCEPT ![i].registered = @ \ ss]
  ELSE UNCHANGED <<record, history>>

\* _doStop ends every session and client.
DoStop(i) ==
  /\ server[i].stop = "queued" /\ server[i].start \notin Unsettled
  /\ Ended(i, server[i].sessions)
  /\ server' = [server EXCEPT ![i].stop = "draining", ![i].channel = FALSE,
                              ![i].sessions = {}]
  /\ UNCHANGED <<current, created, queue, job, generation, disposed,
                 activating, shown, calls>>

\* The SCP tasks have ended: the TCP server is closed and takes no new
\* connection.
Drained(i) ==
  /\ server[i].stop = "draining"
  /\ server' = [server EXCEPT ![i].stop = "closing", ![i].listener = "none"]
  /\ UNCHANGED <<current, created, record, queue, job, generation, disposed,
                 activating, shown, history, calls>>

\* A plausible error: whoever awaits a stop never learns that it failed.
StopSettlesSilently(i, s, outcome) ==
  /\ server' = [server EXCEPT ![i] = [s EXCEPT !.stop = "none"]]
  /\ job' = IF job.at = "stopping" /\ current = i /\ outcome = "stopped"
            THEN [job EXCEPT !.at = outcome] ELSE job

\* stop's promise settles.
StopSettles(i, s, outcome) ==
  /\ server' = [server EXCEPT ![i] = [s EXCEPT !.stop = "none"]]
  /\ job' = IF job.at = "stopping" /\ current = i
            THEN [job EXCEPT !.at = outcome] ELSE job

\* The last connection has gone: the stopped event.
Closed(i) ==
  /\ server[i].stop = "closing"
  /\ StopSettles(i, [server[i] EXCEPT !.handle = FALSE], "stopped")
  /\ IF current = i
     THEN /\ history' = Finalised(i, Sessions)
          /\ record' = [record EXCEPT ![i].registered = {},
                          ![i].closed = TRUE, ![i].started = FALSE]
          /\ Notify(i, "stopped")
     ELSE UNCHANGED <<record, history, shown>>
  /\ UNCHANGED <<current, created, queue, generation, disposed, activating,
                 calls>>

\* Connections remain when the time is over: the TCP server is kept.
CloseTimeout(i) ==
  /\ server[i].stop = "closing" /\ server[i].handle
  /\ StopSettles(i, server[i], "stuck")
  /\ ErrorEvent(i)
  /\ UNCHANGED <<current, created, record, queue, generation, disposed,
                 activating, history, calls>>

-----------------------------------------------------------------------------
(* SSH clients and the network.                                            *)

ClientUnchanged == UNCHANGED <<current, created, queue, job, generation,
                               disposed, activating, shown, calls>>

Channel(i) ==
  /\ server[i].listener = "bound" /\ server[i].accepting
  /\ ~server[i].channel
  /\ server' = [server EXCEPT ![i].channel = TRUE]
  /\ UNCHANGED <<record, history>>
  /\ ClientUnchanged

\* A shell or exec on a channel: the gate is not asked again.
OpenSession(i, s) ==
  /\ server[i].channel
  /\ history[s] = "none" /\ \A j \in Instances : s \notin server[j].sessions
  /\ server' = [server EXCEPT ![i].channel = FALSE, ![i].sessions = @ \cup {s}]
  /\ IF /\ current = i /\ ~record[i].candidate /\ ~record[i].cancelled
        /\ ~record[i].closed
     THEN /\ record' = [record EXCEPT ![i].registered = @ \cup {s}]
          /\ history' = [history EXCEPT ![s] = "open"]
     ELSE UNCHANGED <<record, history>>
  /\ ClientUnchanged

\* The bridge of a session ends by itself.
CloseSession(i, s) ==
  /\ s \in server[i].sessions
  /\ Ended(i, {s})
  /\ server' = [server EXCEPT ![i].sessions = @ \ {s}]
  /\ ClientUnchanged

\* A listening socket reports an error; the server goes on.
RuntimeError(i) ==
  /\ server[i].listener = "bound"
  /\ ErrorEvent(i)
  /\ UNCHANGED <<current, created, record, server, queue, job, generation,
                 disposed, activating, history, calls>>

-----------------------------------------------------------------------------
Init ==
  /\ current = None /\ created = 0
  /\ record = [i \in Instances |-> NewRecord]
  /\ server = [i \in Instances |-> NewServer]
  /\ queue = <<>> /\ job = NoJob
  /\ generation = 0 /\ disposed = FALSE
  /\ activating = NotActivating
  /\ shown = "stopped"
  /\ history = [s \in Sessions |-> "none"]
  /\ calls = 0

Calls ==
  \/ \E candidate \in BOOLEAN : Start(candidate)
  \/ CancelPendingStart \/ Stop \/ Dispose \/ Activate

Queue ==
  \/ Dequeue \/ EnterBegin \/ EnterStop \/ Material \/ MaterialFails \/ Begun
  \/ StartFailed \/ Released \/ Stuck \/ Continue

Answers == \E committed \in BOOLEAN : Activated(committed)

Servers ==
  \E i \in Instances :
    \/ StartListening(i) \/ Listening(i) \/ ListenEnds(i) \/ StartFails(i)
    \/ DoStop(i) \/ Drained(i) \/ Closed(i) \/ CloseTimeout(i)

Clients ==
  \E i \in Instances :
    \/ Channel(i) \/ RuntimeError(i)
    \/ \E s \in Sessions : OpenSession(i, s) \/ CloseSession(i, s)

Next == Calls \/ Queue \/ Answers \/ Servers \/ Clients

\* The event loop runs every settled promise and timer; nothing forces a
\* caller or a client to act.
Spec ==
  /\ Init /\ [][Next]_vars
  /\ WF_vars(Queue) /\ WF_vars(Answers) /\ WF_vars(Servers)

-----------------------------------------------------------------------------
Records == [candidate : BOOLEAN, cancelled : BOOLEAN, stopRequested : BOOLEAN,
            started : BOOLEAN, closed : BOOLEAN,
            registered : SUBSET Sessions]
ServerStates ==
  [listener : {"none", "binding", "bound"}, handle : BOOLEAN,
   accepting : BOOLEAN, start : Unsettled \cup {"none", "done"},
   aborted : BOOLEAN, stop : {"none", "queued", "draining", "closing"},
   channel : BOOLEAN, sessions : SUBSET Sessions]
Jobs == [kind : {"none", "begin", "stop"}, candidate : BOOLEAN,
         generation : Nat,
         at : {"none", "enter", "material", "starting", "begun", "failed",
               "stopping", "stopped", "stuck", "released"},
         then : {"replace", "cancelled", "failed", "end"}]

\* Controller, server and history states have the values their code handles.
TypeOK ==
  /\ current \in Instances \cup {None}
  /\ created \in Instances \cup {None}
  /\ record \in [Instances -> Records]
  /\ server \in [Instances -> ServerStates]
  /\ queue \in Seq(Jobs) /\ job \in Jobs
  /\ generation \in Nat /\ disposed \in BOOLEAN
  /\ activating \in [instance : Instances \cup {None}, generation : Nat]
  /\ shown \in {"stopped", "starting", "started", "stopping", "error"}
  /\ history \in [Sessions -> {"none", "open", "final"}]
  /\ calls \in 0..MaxCalls

\* "A failed stop must retain its server and error listener until a later
\* stop succeeds" (release): whatever holds a TCP server, a start under way
\* or a session is the instance that the controller owns, so that there is
\* never a second one behind the port and none that nobody can stop.
OneOwner ==
  \A i \in Instances : Active(server[i]) => i = current

\* The gate is open only for an instance that nobody has cancelled, asked to
\* stop or failed to commit (stop, cancelListen, stopRecord, startCandidate).
GateDiscipline ==
  \A i \in Instances : server[i].accepting =>
    /\ i = current
    /\ ~record[i].cancelled /\ ~record[i].stopRequested
    /\ ~record[i].candidate

Serving(i) == server[i].listener = "bound" /\ server[i].accepting

\* The reported status is about the port (notify): "stopped" only when no
\* instance serves and none keeps a session, "started" only when the owned
\* instance is bound; and a proxy that serves is reported as started, unless
\* an error of it has been reported.
ShownTruth ==
  ~disposed =>
    /\ shown = "stopped" =>
         \A i \in Instances : ~Serving(i) /\ server[i].sessions = {}
    /\ shown = "started" =>
         current # None /\ server[current].listener = "bound"
    /\ \A i \in Instances : Serving(i) => shown \in {"started", "error"}

\* What is behind the port has one owner, who opens it only to whom it may and
\* tells the truth about it.
PortIsOwned == TypeOK /\ OneOwner /\ GateDiscipline /\ ShownTruth

\* The session history follows the sessions: an entry is open exactly while
\* its session is alive in the owned instance, whatever becomes of its stop;
\* so no entry stays open for ever (finalizeSession, finalizeRemaining).
HistoryFollowsSessions ==
  \A s \in Sessions :
    history[s] = "open" <=>
      /\ current # None
      /\ s \in server[current].sessions /\ s \in record[current].registered

\* Every operation that the controller has accepted is answered, however its
\* servers' starts and stops end.
OperationsEnd == (queue # <<>>) ~> (queue = <<>> /\ job = NoJob)

Gated(i) == /\ server[i].listener = "bound" /\ record[i].candidate
            /\ ~record[i].cancelled
Phase == [i \in Instances |->
            IF Serving(i) THEN "open" ELSE IF Gated(i) THEN "gated"
            ELSE IF server[i].start = "done" THEN "closed" ELSE "new"]
Promise == INSTANCE ProxyGate WITH phase <- Phase

\* The lifecycle keeps the promise the rest of the program is built on: an
\* instance that was closed never serves again, a candidate serves only once
\* it has been activated, and two instances are never behind the port.
ImplementsProxyGate == Promise!Spec
=============================================================================
