--------------------------- MODULE ProcessSession ---------------------------
(***************************************************************************)
(* A process that a client runs, or attaches to, through the server: the   *)
(* client of client/connection (Run, Attach and streamProcess of           *)
(* connection.go, stream_handler.go, process.go, process_stream.go)        *)
(* composed with the server's handler and streamer of ServerSession, over  *)
(* a network that may break.                                               *)
(*                                                                         *)
(* The client hijacks one connection for the session, which carries the    *)
(* payloads, and then one for each output that its caller wants.  Reader   *)
(* r of the streamer serves the connection for output r.                   *)
(***************************************************************************)
EXTENDS ServerSession, FiniteSets

CONSTANTS Outputs,      \* the outputs in the order in which the client opens them
          MaxPayloads,  \* bound: pieces of input, signals and window sizes sent
          MaxFaults     \* bound: things that go wrong

\* The client opens every output once.
ASSUME OutputsAssumption ==
  /\ Outputs \in Seq(Readers) /\ Outputs # <<>>
  /\ \A r \in Readers : \E i \in DOMAIN Outputs : Outputs[i] = r
  /\ \A i, j \in DOMAIN Outputs : Outputs[i] = Outputs[j] => i = j
  /\ Readers \cap {"dial", "call", "first", "returned", "failed", "main"} = {}
  /\ MaxPayloads \in Nat

VARIABLES client,   \* where Run or Attach is
          wants,    \* outputs that the caller gave a writer for
          conns,    \* the client's open connections: "main" and outputs
          source,   \* the goroutine of streamIn
          sent,     \* pieces of input sent
          controls, \* signals and window sizes sent
          saidEof,  \* the end of the input, or an unknown signal, was sent
          copy,     \* the goroutine that copies each output
          waiter,   \* the goroutine that waits for the exit status
          pending,  \* what streamHandler.wait will return
          result    \* what process.Wait returns, once done

inputVars == <<source, sent, controls, saidEof>>
waitVars == <<waiter, pending, result>>
clientVars == <<client, wants, conns, copy, inputVars, waitVars>>
sessionVars == <<serverVars, Conn, streamVars, clientVars>>

NotDone == [status |-> 0, err |-> "not done"]
Result(status, err) == [status |-> status, err |-> err]
Results == {NotDone} \cup [status : Statuses \cup {0}, err : {"none", "process", "decode", "hijack"}]

SessionTypeOK ==
  /\ TypeOK
  /\ ServerTypeOK
  /\ client \in {"dial", "call", "first", "returned", "failed"} \cup Readers
  /\ wants \subseteq Readers
  /\ conns \subseteq Readers \cup {"main"}
  /\ source \in {"none", "copy", "ended", "failed"}
  /\ sent \in 0 .. MaxPayloads
  /\ controls \in 0 .. MaxPayloads
  /\ saidEof \in BOOLEAN
  /\ copy \in [Readers -> {"none", "copying", "done"}]
  /\ waiter \in {"none", "decode", "join", "close", "ended"}
  /\ pending \in Results /\ result \in Results

SessionInit ==
  /\ ServerInit
  /\ client = "dial"
  /\ wants \in SUBSET Readers
  /\ conns = {}
  /\ source = "none" /\ sent = 0 /\ controls = 0 /\ saidEof = FALSE
  /\ copy = [r \in Readers |-> "none"]
  /\ waiter = "none"
  /\ pending = NotDone /\ result = NotDone

\* Things that have gone wrong: connections that broke or are not read any more, a
\* server that stops, input that failed, an output that could not be opened, an
\* unknown signal.
Faults ==
  Cardinality(broken)
  + Cardinality({f \in {"cut", "stop", "input", "open", "unknown"} :
                   \/ f = "cut" /\ cut
                   \/ f = "stop" /\ stopping
                   \/ f = "input" /\ source = "failed"
                   \/ f = "open" /\ result.err = "hijack"
                   \/ f = "unknown" /\ saidEof /\ source # "ended"})

\* bound: only one thing goes wrong in a session with payloads
MayFail == Faults < MaxFaults /\ (Faults > 0 => sent + controls = 0)
MaySend == Faults < MaxFaults /\ sent + controls < MaxPayloads

ServerUnchanged == UNCHANGED <<serverVars, streamVars>>
ClientUnchanged == UNCHANGED clientVars
-----------------------------------------------------------------------------
\* Hijack: the dialer, and the request.
Dial ==
  /\ client = "dial"
  /\ client' = "call"
  /\ conns' = {"main"}
  /\ clientOpen' = TRUE /\ serverOpen' = TRUE
  /\ ServerUnchanged
  /\ UNCHANGED <<up, down, cut, wants, inputVars, copy, waitVars>>

DialFails ==
  /\ client = "dial"
  /\ client' = "failed"
  /\ ServerUnchanged
  /\ UNCHANGED <<Conn, wants, conns, inputVars, copy, waitVars>>

Receive1(payload) ==
  /\ down # <<>> /\ Head(down) = payload
  /\ down' = Tail(down)
  /\ UNCHANGED <<up, ends>>

NothingComes == down = <<>> /\ (cut \/ ~serverOpen)

\* client.Do returns a success.
CallAccepted ==
  /\ client = "call"
  /\ Receive1(Accepted)
  /\ client' = "first"
  /\ ServerUnchanged
  /\ UNCHANGED <<wants, conns, inputVars, copy, waitVars>>

\* It returns another status, or fails.  The connection stays open.
CallFails ==
  /\ client = "call"
  /\ \/ Receive1(Refused)
     \/ NothingComes /\ UNCHANGED Conn
  /\ client' = "failed"
  /\ ServerUnchanged
  /\ UNCHANGED <<wants, conns, inputVars, copy, waitVars>>

\* streamProcess: the first payload is decoded, and the input begins to flow if the
\* caller gave one.
FirstPayload ==
  /\ client = "first"
  /\ Receive1(Started)
  /\ client' = Outputs[1]
  /\ source' \in {"none", "copy"}
  /\ ServerUnchanged
  /\ UNCHANGED <<wants, conns, sent, controls, saidEof, copy, waitVars>>

\* Run returns an error.  The connection stays open.
FirstFails ==
  /\ client = "first" /\ NothingComes
  /\ client' = "failed"
  /\ ServerUnchanged
  /\ UNCHANGED <<Conn, wants, conns, inputVars, copy, waitVars>>
-----------------------------------------------------------------------------
\* What Run does after output r: the next one, or return.
After(r) ==
  LET i == CHOOSE j \in DOMAIN Outputs : Outputs[j] = r
  IN  IF i < Len(Outputs) THEN Outputs[i + 1] ELSE "returned"

\* Starts the waiting goroutine with the last output.
GoesOn(r) ==
  /\ client' = After(r)
  /\ waiter' = IF After(r) = "returned" THEN "decode" ELSE waiter

NotWanted(r) ==
  /\ client = r /\ r \notin wants
  /\ GoesOn(r)
  /\ ServerUnchanged
  /\ UNCHANGED <<Conn, wants, conns, inputVars, copy, pending, result>>

\* hijack(routes.Stdout) and streamOut, hijack(routes.Stderr) and streamErr.
OpenOutput(r) ==
  /\ client = r /\ r \in wants
  /\ conns' = conns \cup {r}
  /\ copy' = [copy EXCEPT ![r] = "copying"]
  /\ GoesOn(r)
  /\ ServerUnchanged
  /\ UNCHANGED <<Conn, wants, inputVars, pending, result>>

\* Goes on to wait for the process, which then exits a second time.
OpenOutputFails_GoesOn(r) ==
  /\ client = r /\ r \in wants /\ MayFail
  /\ \E left \in SUBSET {r} : conns' = (conns \cup left) \ {"main"}
  /\ result' = Result(0, "hijack")
  /\ GoesOn(r)
  /\ clientOpen' = FALSE
  /\ ServerUnchanged
  /\ UNCHANGED <<up, down, cut, serverOpen, wants, inputVars, copy, pending>>

\* The process has exited, as far as the caller is concerned, and the session's
\* connection is closed.  Not so the one just dialled, if the dialer succeeded, nor
\* the one for the other output.
OpenOutputFails(r) ==
  /\ client = r /\ r \in wants /\ MayFail
  /\ \E left \in SUBSET {r} : conns' = (conns \cup left) \ {"main"}
  /\ result' = Result(0, "hijack")
  /\ client' = "returned"
  /\ clientOpen' = FALSE
  /\ ServerUnchanged
  /\ UNCHANGED <<up, down, cut, serverOpen, wants, inputVars, copy, waiter, pending>>

\* The server's end of an output: ServeHTTP, then ServeStdout or ServeStderr.
ServeOutput(r) ==
  /\ r \in conns
  /\ Load(r)
  /\ UNCHANGED <<serverVars, Conn, clientVars>>

\* Its writes may fail as long as the network may.
Served(r) ==
  /\ ReaderStep(r)
  /\ broken' = broken \/ MayFail
  /\ UNCHANGED <<serverVars, Conn, clientVars>>
-----------------------------------------------------------------------------
CanSend == clientOpen /\ ~cut

\* A payload is sent by a goroutine of its own and may overtake the one before it.
Send_Overtakes(payload) ==
  up' \in IF serverOpen THEN {Append(up, payload), <<payload>> \o up} ELSE {up}

\* sendPayload: an error if the connection is closed or broken.
Send(payload) == up' = IF serverOpen THEN Append(up, payload) ELSE up

\* io.Copy in streamIn reads a piece and processStream.Write sends it.
SendInput ==
  /\ source = "copy" /\ MaySend
  /\ CanSend
  /\ Send([data |-> sent + 1])
  /\ sent' = sent + 1
  /\ ServerUnchanged
  /\ UNCHANGED <<down, ends, client, wants, conns, source, controls, saidEof, copy, waitVars>>

\* The caller's input ends: processStream.Close.
SendEof ==
  /\ source = "copy" /\ CanSend
  /\ Send(Eof)
  /\ source' = "ended" /\ saidEof' = TRUE
  /\ ServerUnchanged
  /\ UNCHANGED <<down, ends, client, wants, conns, sent, controls, copy, waitVars>>

\* Reading the caller's input fails, or sending it does: io.Copy returns an error and
\* the end of the input is not sent.
InputFails ==
  /\ source = "copy" /\ MayFail
  /\ source' = "failed"
  /\ ServerUnchanged
  /\ UNCHANGED <<Conn, client, wants, conns, sent, controls, saidEof, copy, waitVars>>

\* process.Signal and process.SetTTY
SendControl ==
  /\ client = "returned" /\ MaySend
  /\ CanSend
  /\ controls' = controls + 1
  /\ Send([control |-> controls + 1])
  /\ ServerUnchanged
  /\ UNCHANGED <<down, ends, client, wants, conns, source, sent, saidEof, copy, waitVars>>

SendUnknown ==
  /\ client = "returned" /\ MaySend /\ MayFail
  /\ CanSend
  /\ Send(Unknown)
  /\ controls' = controls + 1 /\ saidEof' = TRUE
  /\ ServerUnchanged
  /\ UNCHANGED <<down, ends, client, wants, conns, source, sent, copy, waitVars>>
-----------------------------------------------------------------------------
\* io.Copy in streamWithMutex ends with the server's end of the connection, or for a
\* failure of the caller's writer, after which nobody reads the connection.
CopyEnds(r) ==
  /\ copy[r] = "copying" /\ reader[r] \in {"returned", "missed"}
  /\ copy' = [copy EXCEPT ![r] = "done"]
  /\ ServerUnchanged
  /\ UNCHANGED <<Conn, client, wants, conns, inputVars, waitVars>>

CopyFails(r) ==
  /\ MayFail
  /\ copy[r] = "copying" /\ reader[r] \notin {"returned", "missed"}
  /\ copy' = [copy EXCEPT ![r] = "done"]
  /\ broken' = broken \cup {r}
  /\ UNCHANGED <<serverVars, stream, done, pipeVars, reader, pipe, hand, got>>
  /\ UNCHANGED <<Conn, client, wants, conns, inputVars, waitVars>>

\* Takes the error for a status.
WaitDecodes_NoError ==
  /\ waiter = "decode"
  /\ waiter' = "join"
  /\ \/ \E s \in Statuses \cup {WaitError} : Receive1(Ended(s)) /\ pending' = Result(s, "none")
     \/ NothingComes /\ pending' = Result(0, "decode") /\ UNCHANGED Conn
  /\ ServerUnchanged
  /\ UNCHANGED <<client, wants, conns, inputVars, copy, result>>

\* streamHandler.wait: a status, the error of process.Wait, or a failure to decode.
WaitDecodes ==
  /\ waiter = "decode"
  /\ waiter' = "join"
  /\ \/ \E s \in Statuses : Receive1(Ended(s)) /\ pending' = Result(s, "none")
     \/ Receive1(Ended(WaitError)) /\ pending' = Result(0, "process")
     \/ NothingComes /\ pending' = Result(0, "decode") /\ UNCHANGED Conn
  /\ ServerUnchanged
  /\ UNCHANGED <<client, wants, conns, inputVars, copy, result>>

\* Does not wait for the outputs.
Exited_NoJoin ==
  /\ waiter = "join"
  /\ waiter' = "close"
  /\ result' = pending
  /\ ServerUnchanged
  /\ UNCHANGED <<Conn, client, wants, conns, inputVars, copy, pending>>

\* wg.Wait returns when both copies have ended; process.exited
Exited ==
  /\ waiter = "join" /\ \A r \in Readers : copy[r] # "copying"
  /\ waiter' = "close"
  /\ result' = pending
  /\ ServerUnchanged
  /\ UNCHANGED <<Conn, client, wants, conns, inputVars, copy, pending>>

\* Closes the session's connection only.
CloseConns_NotOutputs ==
  /\ waiter = "close"
  /\ waiter' = "ended"
  /\ conns' = conns \ {"main"}
  /\ clientOpen' = FALSE
  /\ ServerUnchanged
  /\ UNCHANGED <<up, down, cut, serverOpen, client, wants, inputVars, copy, pending, result>>

\* The deferred closing of the connections.
CloseConns ==
  /\ waiter = "close"
  /\ waiter' = "ended"
  /\ conns' = {}
  /\ clientOpen' = FALSE
  /\ ServerUnchanged
  /\ UNCHANGED <<up, down, cut, serverOpen, client, wants, inputVars, copy, pending, result>>
-----------------------------------------------------------------------------
\* The network breaks the session's connection: what was on its way may be lost.
Cut ==
  /\ ~cut /\ clientOpen /\ serverOpen /\ MayFail
  /\ cut' = TRUE
  /\ \E i \in 0 .. Len(up), j \in 0 .. Len(down) :
       up' = SubSeq(up, 1, i) /\ down' = SubSeq(down, 1, j)
  /\ ServerUnchanged
  /\ UNCHANGED <<clientOpen, serverOpen, clientVars>>

\* The grace time of the stream ends.  Nobody can tell once every connection that will
\* be opened has found it.
DeleteStream ==
  /\ \E r \in wants : reader[r] = "none"
  /\ Delete
  /\ UNCHANGED <<serverVars, Conn, clientVars>>

ServerMoves ==
  \/ Run /\ ClientUnchanged
  \/ Attach /\ ClientUnchanged
  \/ StartFails /\ ClientUnchanged
  \/ SelectExited /\ ClientUnchanged
  \/ SelectStopping /\ ClientUnchanged
  \/ SelectConnClosed /\ ClientUnchanged
  \/ Deferred /\ ClientUnchanged
  \/ InputError /\ ClientUnchanged
  \/ InputControl /\ ClientUnchanged
  \/ InputEof /\ ClientUnchanged
  \/ InputUnknown /\ ClientUnchanged
  \/ InputData /\ ClientUnchanged
  \/ InputWritten /\ ClientUnchanged
  \/ InputWriteFails /\ ClientUnchanged
  \/ ServerStops /\ MayFail /\ ClientUnchanged
  \/ \E p \in Pipes : ProcessWrites(p) /\ ClientUnchanged
  \/ \E e \in Statuses \cup {WaitError} : ProcessExits(e) /\ ClientUnchanged
  \/ DeleteStream

\* Steps of Run or Attach, and then of the goroutine that waits for the process.
ClientStep ==
  \/ CallAccepted \/ CallFails \/ FirstPayload \/ FirstFails
  \/ \E r \in Readers : NotWanted(r) \/ OpenOutput(r) \/ OpenOutputFails(r)
  \/ WaitDecodes \/ Exited \/ CloseConns

ClientMoves ==
  \/ Dial \/ DialFails \/ ClientStep
  \/ SendInput \/ SendEof \/ InputFails \/ SendControl \/ SendUnknown
  \/ \E r \in Readers : CopyFails(r)

\* Steps of an output's connection: the server's end and then the client's.
OutputStep(r) ==
  \/ ServeOutput(r)
  \/ Served(r)
  \/ CopyEnds(r)

SessionNext ==
  \/ ServerMoves
  \/ ClientMoves
  \/ \E r \in Readers : OutputStep(r)
  \/ Cut

\* Go runs its goroutines: the handler, streamInput, those of each output, and the
\* client's.  Nothing obliges the process to read, write or exit, the caller to send
\* anything, the server to stop or the network to break.
Fairness ==
  /\ WF_sessionVars(HandlerStep /\ ClientUnchanged)
  /\ WF_sessionVars(InputStep /\ ClientUnchanged)
  /\ WF_sessionVars(ClientStep)
  /\ \A r \in Readers : WF_sessionVars(OutputStep(r))

SessionSpec == SessionInit /\ [][SessionNext]_sessionVars /\ Fairness
-----------------------------------------------------------------------------
Done == result # NotDone

\* What process.Wait returns is true: a status is the one the process exited with, and
\* the process's own error is reported only when the backend could not wait for it
\* (connection.go:279-290, request_handling.go:1080-1130), whatever was lost, closed
\* or stopped in between.
WaitFaithful ==
  /\ result.err = "none" => proc = "exited" /\ exit = result.status
  /\ result.err = "process" => proc = "exited" /\ exit = WaitError

\* "finishes streaming stdout and stderr before returning from .Wait"
\* (connection_test.go:1045): when Wait reports how the process ended, the caller's
\* writers have the whole of each output, if it fits the channel, its connection held
\* and the stream was still there when the server looked it up.
OutputBeforeWait ==
  result.err \in {"none", "process"} =>
    \A r \in wants :
      /\ copy[r] = "done"
      /\ reader[r] # "missed" /\ r \notin broken /\ wrote[r] =< Capacity
           => got[r] = [i \in 1 .. wrote[r] |-> i]

\* A process that was started sees its standard input end only because the client said
\* so, or after it has exited: never for a server that stops ("does not close the
\* process's stdin", request_handling_test.go:2092), a connection that breaks, or input
\* that the client cannot read (connection_test.go:1546).
EofIsTheClients ==
  stdin = "closed" => saidEof \/ proc = "exited" \/ stream = "no"

\* The process reads what the client sent, and gets the signals, in the order in which
\* they were sent, with none left out: one payload that is lost ends the session's input.
InputInOrder ==
  /\ readIn = [i \in 1 .. Len(readIn) |-> i] /\ Len(readIn) =< sent
  /\ applied = [i \in 1 .. Len(applied) |-> i] /\ Len(applied) =< controls

\* process.exited is called once: Wait never returns two different answers, not even
\* when an output could not be opened (connection.go:245-276).
WaitIsFinal == [][Done => result' = result]_sessionVars

\* "should not leak net.Conn from Run" (connection_test.go:1079): Wait returns once the
\* process has exited, the server is stopping, or the server has noticed that the
\* connection is gone, and then all the connections of the session get closed: the
\* goroutines on both sides wait for one another only in that direction.  It may also
\* return because an output could not be opened (connection.go:245-276), which leaves the
\* others to the caller; and a process that outlives the session must stop writing some
\* day, as the streamer drains its outputs for as long as it finds something.
WaitReturns ==
  (Done \/ (client = "returned" /\ (proc = "exited" \/ stopping \/ connClose)))
    ~> (Done /\ (result.err # "hijack" => conns = {}))

\* "is eventually killed in the backend" (request_handling_test.go:2127): every signal and
\* window size that was sent before the end of the input, whether that follows or not,
\* reaches the process, unless the process exits or the session ends first.  streamInput
\* handles payloads one by one, so that there are two exceptions: what is sent after the
\* end of the input is not read (request_handling.go:1034), and a process that never reads
\* its input holds up everything behind it (request_handling.go:1036).
SignalReachesProcess ==
  \A n \in 1 .. MaxPayloads :
    (controls >= n /\ ~saidEof) ~>
      (Len(applied) >= n \/ proc = "exited" \/ handler = "ended" \/ [](input = "write"))

\* An output that a connection was or can still be opened for, and that did not break.
Unbroken == {r \in wants : r \notin broken /\ reader[r] # "missed"}

Local == INSTANCE LocalProcess WITH Pipes <- Readers, begun <- (stream # "no"), held <- Unbroken

\* The distance cannot be seen through garden.Process: input, signals, outputs and the answer
\* of Wait are those of LocalProcess, in which every step happens at once, whatever payloads,
\* connections, goroutines and channels they go through (connection.go:199-297,
\* stream_handler.go, process.go, request_handling.go:1000-1143, streamer.go).
IsLocalProcess == Local!LocalSpec
=============================================================================
