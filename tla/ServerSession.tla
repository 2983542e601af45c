--------------------------- MODULE ServerSession ---------------------------
(***************************************************************************)
(* The server's side of a Run or an Attach, from the call on the container *)
(* to the end of the handler (handleRun and handleAttach of                *)
(* server/request_handling.go), with the two goroutines that it starts:    *)
(* streamInput, which feeds what the client sends to the process, and the  *)
(* one in streamProcess that waits for the process.  The output of the     *)
(* process goes through a stream of Streamer, which this module extends:   *)
(* its two readers are the client's connections for standard output and    *)
(* standard error, so that a reader and its pipe have the same name.       *)
(*                                                                         *)
(* The hijacked connection carries payloads both ways: "up" from the       *)
(* client, "down" to it.  The n-th piece of standard input is [data |-> n];*)
(* the n-th signal or window size is [control |-> n]; Eof is the payload   *)
(* with a source and no data.                                              *)
(***************************************************************************)
EXTENDS Streamer

CONSTANTS Statuses    \* exit statuses of the process

ASSUME SessionAssumption == Statuses \subseteq Nat /\ Readers = Pipes

VARIABLES handler,     \* where the handler is
          proc,        \* "none" (a Run is to start it), "running" or "exited"
          exit,        \* what process.Wait returns: a status or WaitError
          connClose,   \* connCloseCh is closed
          stopping,    \* s.stopping is closed
          input,       \* where streamInput is
          feed,        \* the piece of input that it is writing, or 0
          stdin,       \* the pipe: "open", "closed" (EOF) or "broken" (an error)
          readIn,      \* what the process has read from it
          applied,     \* signals and window sizes that reached the process
          up, down,    \* payloads on the connection
          cut,         \* the network has broken it
          clientOpen,  \* the client's end is open
          serverOpen   \* the server's end is open

session == <<connClose, stopping>>
Handler == <<session, handler>>
Process == <<proc, exit, stdin, readIn, applied>>
ends == <<cut, clientOpen, serverOpen>>
Input == <<input, feed>>
Conn == <<up, down, ends>>
streamVars == <<stream, done, pipeVars, readerVars>>
serverVars == <<Handler, Process, Input>>

WaitError == -1
NotExited == -2
Eof == [eof |-> TRUE]
Unknown == [unknown |-> TRUE]     \* a signal that garden does not define
Accepted == [accepted |-> TRUE]   \* the response's header
Refused == [refused |-> TRUE]     \* writeError
Started == [started |-> TRUE]     \* the first payload: process and stream
Ended(e) == [ended |-> e]         \* an exit status, or the error of Wait

Is(payload, field) == field \in DOMAIN payload

ServerTypeOK ==
  /\ handler \in {"start", "select", "return", "ended"}
  /\ proc \in {"none", "running", "exited"}
  /\ exit \in Statuses \cup {WaitError, NotExited}
  /\ connClose \in BOOLEAN /\ stopping \in BOOLEAN
  /\ input \in {"off", "decode", "write", "returned"}
  /\ stdin \in {"open", "closed", "broken"}
  /\ cut \in BOOLEAN /\ clientOpen \in BOOLEAN /\ serverOpen \in BOOLEAN

ServerInit ==
  /\ Init
  /\ pipe = [r \in Readers |-> r]
  /\ handler = "start"
  /\ proc \in {"none", "running"}
  /\ exit = NotExited
  /\ connClose = FALSE /\ stopping = FALSE
  /\ input = "off" /\ feed = 0
  /\ stdin = "open" /\ readIn = <<>> /\ applied = <<>>
  /\ up = <<>> /\ down = <<>> /\ cut = FALSE
  /\ clientOpen = FALSE /\ serverOpen = FALSE
-----------------------------------------------------------------------------
\* A write to a connection that is closed or broken is lost.
SendDown(payloads) == down' = IF serverOpen /\ clientOpen /\ ~cut THEN down \o payloads ELSE down

\* io.PipeWriter keeps the first error it is closed with; Close is the EOF.
ClosePipe(how) == stdin' = IF stdin = "open" THEN how ELSE stdin

\* The stream, the response's header, the first payload, and the goroutines.  Nobody
\* can tell these apart: the process's output waits in the channels meanwhile.
Begin ==
  /\ Stream
  /\ handler' = "select"
  /\ SendDown(<<Accepted, Started>>)
  /\ input' = "decode"
  /\ UNCHANGED <<session, exit, stdin, readIn, applied, feed, up, ends>>

\* The request has arrived: the container is found and runs the process.
Run ==
  /\ handler = "start" /\ serverOpen /\ proc = "none"
  /\ proc' = "running"
  /\ Begin

\* The process has been running; it is found as long as it does.
Attach ==
  /\ handler = "start" /\ serverOpen /\ proc = "running"
  /\ Begin
  /\ UNCHANGED proc

\* container.Run or container.Attach fails: an error and no session.
StartFails ==
  /\ handler = "start" /\ serverOpen
  /\ handler' = "ended"
  /\ SendDown(<<Refused>>)
  /\ ClosePipe("closed")
  /\ UNCHANGED <<session, proc, exit, readIn, applied, Input, up, ends, streamVars>>
-----------------------------------------------------------------------------
\* decoder.Decode fails: the client is gone, or the handler has closed the connection.
InputError ==
  /\ input = "decode"
  /\ \/ up = <<>> /\ (cut \/ ~clientOpen)
     \/ ~serverOpen
  /\ input' = "returned"
  /\ connClose' = TRUE
  /\ ClosePipe("broken")
  /\ UNCHANGED <<handler, stopping, proc, exit, readIn, applied, feed, Conn, streamVars>>

Decode(field) ==
  /\ input = "decode"
  /\ up # <<>> /\ Is(Head(up), field)
  /\ up' = Tail(up)
  /\ UNCHANGED <<down, ends>>

\* Passes on nothing.
InputControl_Dropped ==
  /\ Decode("control")
  /\ UNCHANGED <<Handler, Process, Input, streamVars>>

\* process.SetTTY and process.Signal; a process that has exited refuses.
InputControl ==
  /\ Decode("control")
  /\ applied' = IF proc = "running" THEN Append(applied, Head(up).control) ELSE applied
  /\ UNCHANGED <<Handler, proc, exit, stdin, readIn, Input, streamVars>>

\* A source without data: the input ends, and so does streamInput.
InputEof ==
  /\ Decode("eof")
  /\ ClosePipe("closed")
  /\ input' = "returned"
  /\ UNCHANGED <<Handler, proc, exit, readIn, applied, feed, streamVars>>

\* Neither kill nor terminate, or an empty payload: treated as the end.
InputUnknown ==
  /\ Decode("unknown")
  /\ ClosePipe("closed")
  /\ input' = "returned"
  /\ UNCHANGED <<Handler, proc, exit, readIn, applied, feed, streamVars>>

\* in.Write waits for the process to read.
InputData ==
  /\ Decode("data")
  /\ feed' = Head(up).data
  /\ input' = "write"
  /\ UNCHANGED <<Handler, Process, streamVars>>

\* The process reads it.
InputWritten ==
  /\ input = "write" /\ stdin = "open"
  /\ proc = "running"
  /\ readIn' = Append(readIn, feed)
  /\ feed' = 0
  /\ input' = "decode"
  /\ UNCHANGED <<Handler, proc, exit, stdin, applied, Conn, streamVars>>

\* The pipe was closed meanwhile.
InputWriteFails ==
  /\ input = "write" /\ stdin # "open"
  /\ feed' = 0
  /\ input' = "returned"
  /\ UNCHANGED <<Handler, Process, Conn, streamVars>>
-----------------------------------------------------------------------------
\* Reports a status even when process.Wait fails.
SelectExited_AnyStatus ==
  /\ handler = "select" /\ proc = "exited"
  /\ \E s \in Statuses : SendDown(<<Ended(s)>>)
  /\ ClosePipe("closed")
  /\ handler' = "return"
  /\ UNCHANGED <<session, proc, exit, readIn, applied, Input,
                 up, ends, streamVars>>

\* case status := <-statusCh and case err := <-errCh, which the goroutine that waits
\* for the process fills.
SelectExited ==
  /\ handler = "select" /\ proc = "exited"
  /\ SendDown(<<Ended(exit)>>)
  /\ ClosePipe("closed")
  /\ handler' = "return"
  /\ UNCHANGED <<session, proc, exit, readIn, applied, Input,
                 up, ends, streamVars>>

\* Closes standard input when the server goes.
SelectStopping_ClosesStdin ==
  /\ handler = "select" /\ stopping
  /\ ClosePipe("closed")
  /\ handler' = "return"
  /\ UNCHANGED <<session, proc, exit, readIn, applied, Input, Conn, streamVars>>

\* case <-s.stopping: detach from the process.
SelectStopping ==
  /\ handler = "select" /\ stopping
  /\ handler' = "return"
  /\ UNCHANGED <<session, Process, Input, Conn, streamVars>>

\* case <-connCloseCh
SelectConnClosed ==
  /\ handler = "select" /\ connClose
  /\ handler' = "return"
  /\ UNCHANGED <<session, Process, Input, Conn, streamVars>>

\* Leaves the stream running.
Deferred_NoStop ==
  /\ handler = "return"
  /\ handler' = "ended"
  /\ serverOpen' = FALSE
  /\ UNCHANGED <<session, Process, Input, up, down, cut, clientOpen, streamVars>>

\* The deferred calls: conn.Close, and the streamer's Stop.
Deferred ==
  /\ handler = "return"
  /\ handler' = "ended"
  /\ serverOpen' = FALSE
  /\ Stop
  /\ UNCHANGED <<session, Process, Input, up, down, cut, clientOpen>>
-----------------------------------------------------------------------------
\* The process, which the backend runs: it writes until it exits, and once it has
\* exited its output is complete.
ProcessWrites(p) ==
  /\ proc = "running" /\ handler # "start"
  /\ Write(p)
  /\ UNCHANGED <<serverVars, Conn>>

ProcessExits(e) ==
  /\ proc = "running"
  /\ proc' = "exited" /\ exit' = e
  /\ UNCHANGED <<Handler, stdin, readIn, applied, Input, Conn, streamVars>>

\* GardenServer.Stop closes s.stopping.
ServerStops ==
  /\ ~stopping
  /\ stopping' = TRUE
  /\ UNCHANGED <<handler, connClose, Process, Input, Conn, streamVars>>

\* The handler's own steps, and those of streamInput that wait for nobody but the client.
HandlerStep ==
  \/ Run \/ Attach \/ StartFails
  \/ SelectExited \/ SelectStopping \/ SelectConnClosed
  \/ Deferred

InputStep ==
  \/ InputError \/ InputControl \/ InputEof \/ InputUnknown \/ InputData \/ InputWriteFails
=============================================================================
