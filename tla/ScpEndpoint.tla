---------------------------- MODULE ScpEndpoint ----------------------------
(***************************************************************************)
(* Reading and writing the SCP protocol (electron/scp/protocol.js): the    *)
(* reader pulls from a stream in paused mode and waits for its events, the *)
(* writer waits for the callback of a chunk and, if the stream is full,    *)
(* for drain.  Errors, aborts, time-outs and close meet these waits.       *)
(*                                                                         *)
(* Abstracted: bytes are counted in chunks, and what a record says is not  *)
(* modelled: a record that is malformed fails its operation.               *)
(***************************************************************************)
EXTENDS Naturals

CONSTANTS
  Limit,    \* maxBufferBytes, in chunks
  MaxRead   \* chunks of one record or payload

VARIABLES
  stream,   \* of the input: what it holds, and which events are due
  reader,   \* what the reader does, and whether it failed or was closed
  writer

vars == <<stream, reader, writer>>

\* onReadable runs after data, end and close of the input.
NewStream == [buffered |-> 0, eof |-> FALSE, ended |-> FALSE, destroyed |-> FALSE, due |-> FALSE]
NewEndpoint == [op |-> "none", need |-> 0, failed |-> FALSE, closed |-> FALSE,
                result |-> "none", callback |-> FALSE, drain |-> FALSE]

Broken(e) == e.failed \/ e.closed
Settled(e, result) == [e EXCEPT !.op = "none", !.need = 0, !.result = result]

\* fail: the first error stays, everyone who waits is woken and throws.
Failed(e) == [(IF e.op = "waiting" THEN Settled(e, "error") ELSE e) EXCEPT !.failed = TRUE]
Closed(e) == [(IF e.op = "waiting" THEN Settled(e, "error") ELSE e) EXCEPT !.closed = TRUE]

\* operation: one at a time; the endpoint is checked before and after.
Finished(e) == Settled(e, IF Broken(e) THEN "error" ELSE "ok")

-----------------------------------------------------------------------------
(* The reader                                                              *)

BeginRead ==
  /\ reader.op = "none" /\ ~Broken(reader)
  /\ \E n \in 1..MaxRead : reader' = [reader EXCEPT !.op = "run", !.need = n, !.result = "none"]
  /\ UNCHANGED <<stream, writer>>

\* A plausible error: without data the empty read, which lets the stream emit
\* its end, is skipped.
FillUnarmed ==
  /\ reader.op = "run"
  /\ IF Broken(reader) THEN reader' = Settled(reader, "error") /\ UNCHANGED stream
     ELSE IF stream.buffered > 0
     THEN /\ stream' = [stream EXCEPT !.buffered = @ - 1]
          /\ reader' = IF reader.need = 1 THEN Finished(reader) ELSE [reader EXCEPT !.need = @ - 1]
     ELSE IF stream.ended \/ stream.destroyed
     THEN reader' = Settled(reader, "end") /\ UNCHANGED stream
     ELSE reader' = [reader EXCEPT !.op = "waiting"] /\ UNCHANGED stream
  /\ UNCHANGED writer

\* fill and its callers: a chunk, or the end, or a wait.  The empty read lets
\* the stream emit its end.
Fill ==
  /\ reader.op = "run"
  /\ IF Broken(reader) THEN reader' = Settled(reader, "error") /\ UNCHANGED stream
     ELSE IF stream.buffered > Limit
     THEN reader' = Settled(Failed(reader), "error") /\ UNCHANGED stream
     ELSE IF stream.buffered > 0
     THEN /\ stream' = [stream EXCEPT !.buffered = @ - 1]
          /\ reader' = IF reader.need = 1 THEN Finished(reader) ELSE [reader EXCEPT !.need = @ - 1]
     ELSE IF stream.ended \/ stream.destroyed
     THEN reader' = Settled(reader, "end") /\ UNCHANGED stream
     ELSE /\ reader' = [reader EXCEPT !.op = "waiting"]
          /\ stream' = [stream EXCEPT !.ended = @ \/ stream.eof, !.due = @ \/ stream.eof]
  /\ UNCHANGED writer

\* A record may be malformed.
Malformed ==
  /\ reader.op = "run" /\ reader' = Settled(reader, "error") /\ UNCHANGED <<stream, writer>>

\* The peer sends, ends its input; the channel is destroyed.
Arrives ==
  /\ ~stream.eof /\ ~stream.destroyed /\ stream.buffered <= Limit
  /\ \/ stream' = [stream EXCEPT !.buffered = @ + 1, !.due = TRUE]
     \/ stream' = [stream EXCEPT !.eof = TRUE, !.due = TRUE]
  /\ UNCHANGED <<reader, writer>>

\* readable, end: the limit is checked, who waits for input looks again.
OnReadable ==
  /\ stream.due /\ stream' = [stream EXCEPT !.due = FALSE]
  /\ reader' = IF reader.closed THEN reader
               ELSE IF stream.buffered > Limit THEN Failed(reader)
               ELSE IF reader.op = "waiting" THEN [reader EXCEPT !.op = "run"] ELSE reader
  /\ UNCHANGED writer

\* close of the channel: for the reader an error unless it had ended.
OnClose ==
  /\ ~stream.destroyed
  /\ stream' = [stream EXCEPT !.destroyed = TRUE, !.due = TRUE]
  /\ reader' = IF stream.ended \/ reader.closed THEN reader ELSE Failed(reader)
  /\ writer' = IF writer.closed THEN writer ELSE Failed(writer)

-----------------------------------------------------------------------------
(* The writer                                                              *)

\* writeChunk: refused beyond the limit; else both guarantees are awaited.
BeginWrite ==
  /\ writer.op = "none" /\ ~Broken(writer) /\ ~stream.destroyed
  /\ \E full \in BOOLEAN :
       writer' \in {[writer EXCEPT !.op = "waiting", !.result = "none",
                                   !.callback = FALSE, !.drain = ~full],
                    Settled(writer, "error")}
  /\ UNCHANGED <<stream, reader>>

\* Both guarantees are there.
Written(w) == IF w.callback /\ w.drain THEN Finished(w) ELSE w

Callback ==
  /\ writer.op = "waiting" /\ ~writer.callback
  /\ writer' \in {Written([writer EXCEPT !.callback = TRUE]), Settled(writer, "error")}
  /\ UNCHANGED <<stream, reader>>
Drained ==
  /\ writer.op = "waiting" /\ ~writer.drain
  /\ writer' = Written([writer EXCEPT !.drain = TRUE])
  /\ UNCHANGED <<stream, reader>>

-----------------------------------------------------------------------------
\* An error of the stream or an abort reaches both; the session closes both.
Abort == reader' = Failed(reader) /\ writer' = Failed(writer) /\ UNCHANGED stream
Close == reader' = Closed(reader) /\ writer' = Closed(writer) /\ UNCHANGED stream

\* Every wait has its own time limit.
ReadTimeout == reader.op = "waiting" /\ reader' = Failed(reader) /\ UNCHANGED <<stream, writer>>
WriteTimeout == writer.op = "waiting" /\ writer' = Failed(writer) /\ UNCHANGED <<stream, reader>>

Next ==
  \/ BeginRead \/ Fill \/ Malformed \/ Arrives \/ OnReadable \/ OnClose
  \/ BeginWrite \/ Callback \/ Drained
  \/ Abort \/ Close \/ ReadTimeout \/ WriteTimeout

Init == stream = NewStream /\ reader = NewEndpoint /\ writer = NewEndpoint

\* The event loop delivers events and continues what runs.
Fairness == WF_vars(Fill) /\ WF_vars(OnReadable)

Spec == Init /\ [][Next]_vars /\ Fairness

-----------------------------------------------------------------------------
\* Nobody waits on an endpoint that has failed or was closed, and a write is
\* done only when its buffer is free and there is room again (fail, close,
\* waitFor, writeChunk).
WaitsAreSound ==
  /\ \A e \in {reader, writer} : e.op = "waiting" => ~Broken(e)
  /\ writer.result = "ok" => writer.callback /\ writer.drain

\* No wake-up is lost: a reader that waits while there is input, or none can
\* come any more, goes on, even without its time-out (fill, onReadable).
ReaderWakes ==
  (reader.op = "waiting" /\ (stream.buffered > 0 \/ stream.eof \/ stream.destroyed))
    ~> reader.op # "waiting"
=============================================================================
