--------------------------- MODULE BridgeChannel ---------------------------
(***************************************************************************)
(* The bridge between an SSH channel and the web socket of the portal      *)
(* (_bridgeChannel in electron/proxy-server.js, with the exec parser of    *)
(* electron/exec-codec.js): events of the channel, of the web socket and   *)
(* of a dozen timers meet in one closure, and most of them end it.         *)
(*                                                                         *)
(* The state of the closure is the record b.  The functions of the code    *)
(* call each other, and channel.write may accept, ask to wait or throw     *)
(* whenever it is called: each function is an operator from a state to the *)
(* set of states it may leave.                                             *)
(*                                                                         *)
(* Abstracted: bytes (a block, a frame and a chunk are one unit each, too  *)
(* much is chosen), diagnostics, traffic counters; waitingDrain is the     *)
(* drain deadline being armed.                                             *)
(***************************************************************************)
EXTENDS Naturals, FiniteSets

CONSTANTS
  Sizes,      \* terminal sizes
  MaxPending, \* input blocks that may wait (maxPendingBytes)
  MaxOutput,  \* output blocks that fit the queue (maxQueuedOutputBytes)
  Room        \* frames that fit the buffer of the socket (maxWsBufferedBytes)

VARIABLE b    \* the closure of one bridge

vars == <<b>>

Kinds == {"shell", "exec"}
\* Exit codes: null, the portal's own, and those of the bridge.
PortalCodes == {"null", "0", "7", "126"}
Timers == {"firstData", "poll", "send", "drain", "eofQuiet", "eofDeadline",
           "disconnect", "ping", "pong", "exec", "close"}
NotOpened == <<"not", "opened">>     \* no history record yet
Open == <<"open", "open">>

New == [kind |-> "shell", ws |-> "none", remote |-> FALSE, room |-> Room,
        setup |-> FALSE, pending |-> 0, output |-> 0, paused |-> FALSE,
        inputEnded |-> FALSE, eof |-> "no", parser |-> "PRELUDE",
        size |-> CHOOSE s \in Sizes : TRUE, resize |-> {},
        portal |-> CHOOSE s \in Sizes : TRUE,
        code |-> "none", reason |-> "interrupted", closed |-> FALSE,
        finished |-> FALSE, exit |-> "none", lost |-> FALSE,
        record |-> NotOpened, timers |-> {}]

Live(x) == x.record # NotOpened /\ ~x.closed /\ x.code = "none"
Arm(x, t) == [x EXCEPT !.timers = @ \cup t]
Cancel(x, t) == [x EXCEPT !.timers = @ \ t]

\* _closeSessionRecord: a record is finalised once.
Recorded(x, code, reason) ==
  IF x.record = Open THEN [x EXCEPT !.record = <<code, reason>>] ELSE x

-----------------------------------------------------------------------------
(* cleanup, flushOutput, complete                                          *)

Cleanup(x) ==
  IF x.closed THEN x
  ELSE [Recorded(x, x.code, x.reason) EXCEPT
          !.closed = TRUE, !.timers = {}, !.pending = 0, !.setup = FALSE,
          !.output = 0, !.lost = @ \/ x.output > 0, !.ws = "gone"]

\* A plausible error: nobody watches over a client that does not close.
WrittenUnwatched(x) ==
  IF x.code = "none" THEN {x}
  ELSE LET done == Recorded([x EXCEPT !.finished = TRUE], x.code, x.reason)
       IN {[done EXCEPT !.exit = x.code], Cleanup(done)}

\* Everything was written: with a verdict the exit status is sent now, and
\* the channel closed by force if the client does not close it.
Written(x) ==
  IF x.code = "none" THEN {x}
  ELSE LET done == Recorded([x EXCEPT !.finished = TRUE], x.code, x.reason)
       IN {Arm([done EXCEPT !.exit = x.code], {"close"}), Cleanup(done)}

\* A plausible error: the verdict does not wait for the queue.
FlushOutputEager(x) ==
  IF x.closed \/ x.finished \/ "drain" \in x.timers THEN {x}
  ELSE IF x.output = 0 \/ x.code # "none"
       THEN Written([x EXCEPT !.output = 0, !.lost = x.output > 0])
  ELSE {Cleanup(x)} \cup {Arm([x EXCEPT !.output = n], {"drain"}) : n \in 0..(x.output - 1)}
         \cup Written([x EXCEPT !.output = 0])

FlushOutput(x) ==
  IF x.closed \/ x.finished \/ "drain" \in x.timers THEN {x}
  ELSE IF x.output = 0 THEN Written(x)
  ELSE {Cleanup(x)} \cup {Arm([x EXCEPT !.output = n], {"drain"}) : n \in 0..(x.output - 1)}
         \cup Written([x EXCEPT !.output = 0])

\* The verdict of the bridge: the first one counts.
Complete(x, code, reason) ==
  IF ~Live(x) THEN {x}
  ELSE FlushOutput([x EXCEPT
         !.code = code, !.reason = reason, !.ws = "gone", !.pending = 0, !.setup = FALSE,
         !.timers = @ \cap {"drain", "disconnect", "close"}])

QueueOutput(x) ==
  IF ~Live(x) THEN {x}
  ELSE IF x.output = MaxOutput THEN Complete(x, "125", "output_limit")
  ELSE FlushOutput([x EXCEPT !.output = @ + 1])

-----------------------------------------------------------------------------
(* flushInput: the queue, the latest size and the disconnect, in this order *)

\* A plausible error: what is blocked waits for the next event.
ScheduleFlushNever(x) == x

\* What flushInput cannot send is tried again by the poll.
ScheduleFlush(x) ==
  IF "poll" \in x.timers \/ ~Live(x) THEN x ELSE Arm(x, {"poll", "send"})

Blocked(x) == ScheduleFlush([x EXCEPT !.paused = (x.kind = "shell") \/ @])

Frames(x) == x.pending + (IF x.setup THEN 1 ELSE 0)

\* With the queue empty: the end of the input is passed on once the output
\* has been quiet for a while, or the drain deadline has passed.
FlushEof(x) ==
  IF x.kind = "exec" \/ ~x.inputEnded \/ x.eof = "sent" THEN x
  ELSE IF x.eof = "no" THEN Arm([x EXCEPT !.eof = "draining"], {"eofDeadline", "eofQuiet"})
  ELSE IF x.eof # "due" THEN x
  ELSE IF x.room = 0 THEN ScheduleFlush(x)
  ELSE Arm([x EXCEPT !.eof = "sent", !.room = @ - 1], {"disconnect"})

FlushResize(x) ==
  IF x.resize # {} /\ x.room = 0 THEN ScheduleFlush(x)
  ELSE LET y == IF x.resize = {} THEN x
                ELSE [x EXCEPT !.portal = x.size, !.resize = {}, !.room = @ - 1]
       IN FlushEof(Cancel([y EXCEPT !.paused = @ /\ x.inputEnded], {"send"}))

FlushInput(x) ==
  IF ~Live(x) \/ ~x.remote \/ x.ws # "open" THEN x
  ELSE IF Frames(x) > x.room
       THEN Blocked([x EXCEPT !.room = 0, !.setup = @ /\ x.room = 0,
                              !.pending = IF x.room = 0 THEN @ ELSE Frames(x) - x.room])
  ELSE FlushResize([x EXCEPT !.setup = FALSE, !.pending = 0, !.room = @ - Frames(x)])

-----------------------------------------------------------------------------
(* The events of a live bridge                                             *)

\* Before there is a web socket the request can only be refused: a command
\* with NUL, a command beyond the limit, or no socket.
RejectEarly ==
  /\ b = New
  /\ \E code \in {"1", "125"} : b' = [b EXCEPT !.exit = code, !.closed = TRUE]

\* A shell may begin with the startup command, exec does with its bootstrap.
Begin ==
  /\ b = New
  /\ \E kind \in Kinds, startup \in BOOLEAN :
       b' = [b EXCEPT !.kind = kind, !.ws = "connecting", !.record = Open,
                      !.setup = kind = "exec" \/ startup]

\* The socket opens: the wait for the first data, and the pings of a shell or
\* the time limit of exec, start.  A size that was changed in between is due.
WsOpen ==
  /\ Live(b) /\ b.ws = "connecting"
  /\ b' = Arm([b EXCEPT !.ws = "open",
                        !.resize = IF b.size # b.portal THEN {b.size} ELSE @],
              {"firstData", IF b.kind = "exec" THEN "exec" ELSE "ping"})

\* The upgrade is refused, or the socket fails or closes.
Refused ==
  /\ Live(b) /\ b.ws = "connecting"
  /\ \E reason \in {"auth_error", "network_error"} :
       b' \in Complete(b, IF b.kind = "exec" THEN "255" ELSE "1", reason)
Hangup == Live(b) /\ b.ws # "none" /\ b' \in Complete(b, "255", "network_error")

\* The socket begins to close: nothing can be sent, close follows.
WsClosing == Live(b) /\ b.ws = "open" /\ b' = [b EXCEPT !.ws = "closing"]

Portal == Live(b) /\ b.ws \in {"open", "closing"}

\* exit: of exec the set-up may have failed, and 0 is no proof of success.
SessionEnded ==
  /\ Portal
  /\ \E c \in PortalCodes :
       LET failed == c = "126" /\ b.parser = "PRELUDE"
           code == IF b.kind = "shell" THEN IF c = "null" THEN "0" ELSE c
                   ELSE IF failed THEN "1" ELSE IF c \in {"null", "0"} THEN "255" ELSE c
           interrupted == b.kind = "exec" /\ (failed \/ c \in {"null", "0"})
       IN b' \in Complete(b, code, IF interrupted THEN "interrupted" ELSE "completed")

\* The first data proves that the remote shell is there, and opens the input.
RemoteReady(x) ==
  IF x.remote THEN x
  ELSE FlushInput(Cancel([x EXCEPT !.remote = TRUE], {"firstData"}))

ResetEofQuiet(x) ==
  IF Live(x) /\ x.eof = "draining" THEN Arm(x, {"eofQuiet"}) ELSE x

ShellData ==
  /\ Portal /\ b.kind = "shell"
  /\ b' \in {ResetEofQuiet(x) : x \in QueueOutput(RemoteReady(b))}

\* What one message of exec adds, for the markers of exec-codec: nothing yet,
\* READY (the command is sent), START, output, END with the exit code; a
\* violation of the framing or of a limit ends the bridge.
ParserStep(x) ==
  {x}
    \cup Complete(x, "1", "interrupted") \cup Complete(x, "125", "output_limit")
    \cup (IF x.parser = "PRELUDE"
          THEN {FlushInput([x EXCEPT !.parser = "READY", !.pending = @ + 1])} ELSE {})
    \cup (IF x.parser = "READY" THEN {[x EXCEPT !.parser = "OUTPUT"]} ELSE {})
    \cup (IF x.parser = "OUTPUT"
          THEN QueueOutput(x)
                 \cup UNION {Complete([x EXCEPT !.parser = "COMPLETE"], c, "completed") :
                             c \in {"0", "7"}}
          ELSE {})

ExecData ==
  /\ Portal /\ b.kind = "exec"
  /\ b' \in ParserStep(RemoteReady(b))

\* A pong answers a ping that was queued behind the frames: they are gone.
Pong ==
  /\ Live(b) /\ "pong" \in b.timers
  /\ b' = Cancel([b EXCEPT !.room = Room], {"pong"})

\* The buffer of the socket drains by itself.
BufferDrains == Live(b) /\ b.room < Room /\ b' = [b EXCEPT !.room = Room]

\* Input of the client; the channel delivers nothing while it is paused.
Input ==
  /\ Live(b) /\ ~b.paused /\ ~b.inputEnded
  /\ \/ /\ b.kind = "exec"
        /\ b' \in Complete(b, "1", "interrupted")
     \/ /\ b.kind = "shell"
        /\ b' \in Complete(b, "1", "interrupted")     \* beyond maxPendingBytes
     \/ /\ b.kind = "shell" /\ b.pending < MaxPending
        /\ b' = FlushInput([b EXCEPT !.pending = @ + 1,
                                     !.paused = @ \/ ~b.remote \/ b.ws = "connecting"])

\* The decoder may hold the start of a character back until the end.
InputEnd ==
  /\ Live(b) /\ ~b.paused /\ ~b.inputEnded
  /\ \E carry \in IF b.kind = "shell" THEN {0, 1} ELSE {0} :
       LET x == [b EXCEPT !.inputEnded = TRUE, !.pending = @ + carry]
       IN b' = IF b.kind = "exec" THEN x ELSE FlushInput(x)

\* window-change: only the latest size is kept.
Resize ==
  /\ Live(b)
  /\ \E s \in Sizes \ {b.size} :
       LET x == [b EXCEPT !.size = s, !.resize = {s}]
       IN b' = IF b.remote /\ b.ws # "connecting" THEN ScheduleFlush(x) ELSE x

-----------------------------------------------------------------------------
(* The events that also meet a finishing bridge                            *)

\* onDrain: the output goes on.
Drain ==
  /\ ~b.closed /\ "drain" \in b.timers
  /\ b' \in FlushOutput(Cancel(b, {"drain"}))

\* The client closes the channel, or its connection is gone.
ChannelClose == b.record # NotOpened /\ ~b.closed /\ b' = Cleanup(b)

\* disconnectSession; and stop, which finalises the record itself when the
\* bridge cannot.
Disconnected == Live(b) /\ b' \in Complete(b, "255", "user_disconnect")
Stopped ==
  /\ b.record # NotOpened /\ ~b.closed
  /\ b' \in {Recorded(x, "null", "proxy_stop") : x \in Complete(b, "255", "proxy_stop")}

-----------------------------------------------------------------------------
(* Timers                                                                  *)

Fires(t) == t \in b.timers

FirstDataTimeout ==
  Fires("firstData") /\ b' \in Complete(Cancel(b, {"firstData"}), "255", "remote_not_ready")
Poll == Fires("poll") /\ b' = FlushInput(Cancel(b, {"poll"}))
SendStalled ==
  /\ Fires("send")
  /\ b' \in Complete(Cancel(b, {"send"}), IF b.kind = "exec" THEN "125" ELSE "1", "timeout")
DrainStalled ==
  /\ Fires("drain")
  /\ LET x == [b EXCEPT !.code = "125", !.reason = "timeout", !.exit = "125"]
     IN b' = Cleanup(x)
EofDue(t) ==
  /\ Fires(t)
  /\ b' = IF b.eof = "sent" THEN Cancel(b, {t})
          ELSE FlushInput(Cancel([b EXCEPT !.eof = "due"], {"eofQuiet", "eofDeadline"}))
EofQuiet == EofDue("eofQuiet")
EofDeadline == EofDue("eofDeadline")
DisconnectWait ==
  Fires("disconnect") /\ b' \in Complete(Cancel(b, {"disconnect"}), "0", "user_disconnect")

\* The interval of the pings is longer than the time for a pong.
Ping ==
  /\ Fires("ping") /\ "pong" \notin b.timers /\ b.ws = "open"
  /\ b' = Arm(b, {"pong"})
PongMissing == Fires("pong") /\ b' \in Complete(Cancel(b, {"pong"}), "255", "timeout")
ExecTimeout == Fires("exec") /\ b' \in Complete(Cancel(b, {"exec"}), "124", "timeout")
ForceClose == Fires("close") /\ b' = Cleanup(b)

Next ==
  \/ RejectEarly \/ Begin \/ WsOpen \/ Refused \/ Hangup \/ WsClosing
  \/ SessionEnded \/ ShellData \/ ExecData \/ Pong \/ BufferDrains
  \/ Input \/ InputEnd \/ Resize
  \/ Drain \/ ChannelClose \/ Disconnected \/ Stopped
  \/ FirstDataTimeout \/ Poll \/ SendStalled \/ DrainStalled
  \/ EofQuiet \/ EofDeadline \/ DisconnectWait
  \/ Ping \/ PongMissing \/ ExecTimeout \/ ForceClose

Init == b = New

\* An armed timer fires unless it is cancelled.  Nothing is assumed of those
\* that events arm anew (the quiet of the output, the send deadline), nor of
\* the client and the portal, except that a socket that connects or closes
\* ends in an event (handshakeTimeout, the closing timer of the socket).
Fairness ==
  /\ WF_vars(FirstDataTimeout) /\ WF_vars(Poll) /\ WF_vars(DrainStalled)
  /\ WF_vars(EofDeadline) /\ WF_vars(DisconnectWait) /\ WF_vars(Ping)
  /\ WF_vars(PongMissing) /\ WF_vars(ExecTimeout) /\ WF_vars(ForceClose)
  /\ WF_vars(b.ws \in {"connecting", "closing"} /\ Hangup)

Spec == Init /\ [][Next]_vars /\ Fairness

-----------------------------------------------------------------------------
TypeOK ==
  /\ b.kind \in Kinds /\ b.ws \in {"none", "connecting", "open", "closing", "gone"}
  /\ b.room \in 0..Room /\ b.output \in 0..MaxOutput /\ b.pending \in 0..(MaxPending + 1)
  /\ b.resize \subseteq Sizes /\ b.timers \subseteq Timers
  /\ b.finished => b.code # "none"

\* The client and the history are told the same: the record of an ended
\* bridge is finalised, with the exit code and the reason the client got
\* (stop alone may finalise it before); and an exit code other than 125 is
\* sent only when all output accepted from the portal was written (complete,
\* flushOutput, cleanup, _closeSessionRecord).
ExitIsTold ==
  /\ b.closed => b.record # Open
  /\ b.exit # "none" => b.record \in {NotOpened, <<"null", "proxy_stop">>, <<b.exit, b.reason>>}
  /\ b.exit \notin {"none", "125"} => ~b.lost

\* Whatever can be sent and is not is being polled for: frames, the latest
\* size, the disconnect and a paused client never wait for an event that may
\* not come (flushInput, scheduleFlush, resize).
WorkIsPolled ==
  /\ Live(b) /\ b.remote /\ b.ws = "open"
  /\ \/ Frames(b) > 0 \/ b.portal # b.size \/ b.eof = "due"
     \/ b.paused /\ ~b.inputEnded
  => "poll" \in b.timers

\* A bridge with a verdict, and a shell whose input has ended, are closed
\* some day, whatever the client and the portal do (drain and close deadlines,
\* the end of file, the pings).
BridgeEnds ==
  (b.code # "none" \/ (b.kind = "shell" /\ b.inputEnded)) ~> b.closed
=============================================================================
