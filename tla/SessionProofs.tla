--------------------------- MODULE SessionProofs ---------------------------
(***************************************************************************)
(* What process.Wait reports, when it does, and what a process sees of its *)
(* input, for any number of outputs, pieces of input, signals and faults.  *)
(***************************************************************************)
EXTENDS ProcessSession, StreamerProofs

\* What the server may have written to the session's connection: the end of the process
\* only when it has ended, and as it ended.
Truthful ==
  {Accepted, Refused, Started} \cup (IF proc = "exited" THEN {Ended(exit)} ELSE {})

Reports(r) ==
  /\ r.err = "none" => proc = "exited" /\ exit = r.status
  /\ r.err = "process" => proc = "exited" /\ exit = WaitError

\* Every stage through which the end of the process passes on its way to the caller.
FaithInv == down \in Seq(Truthful) /\ Reports(pending) /\ Reports(result)

faithVars == <<proc, exit, down, pending, result>>

\* A step that leaves all of this alone keeps FaithInv.
LEMMA FaithStutter ==
  ASSUME FaithInv, UNCHANGED faithVars
  PROVE  FaithInv'
BY DEF FaithInv, Truthful, Reports, faithVars

\* The steps of the server that write to the connection, and the process's end.
LEMMA FaithServer ==
  ASSUME FaithInv, Run \/ Attach \/ StartFails \/ SelectExited, UNCHANGED <<pending, result>>
  PROVE  FaithInv'
<1> USE DEF FaithInv
<1>1. exit' = exit /\ (proc = "exited" => proc' = "exited") /\ (proc' = "exited" => proc = "exited")
  BY Zenon DEF Run, Attach, StartFails, SelectExited, Begin
<1>2. Truthful' = Truthful
  BY <1>1 DEF Truthful
<1>3. Reports(pending)' /\ Reports(result)'
  BY <1>1 DEF Reports
<1>4. ASSUME NEW ps \in Seq(Truthful), SendDown(ps)
      PROVE  down' \in Seq(Truthful)
  <2>1. down \o ps \in Seq(Truthful)
    BY <1>4
  <2> QED
    BY <1>4, <2>1 DEF SendDown
<1>5. CASE Run \/ Attach
  <2>1. SendDown(<<Accepted, Started>>)
    BY <1>5, Zenon DEF Run, Attach, Begin
  <2>2. Accepted \in Truthful /\ Started \in Truthful
    BY DEF Truthful
  <2>3. <<Accepted, Started>> \in Seq(Truthful)
    BY <2>2
  <2> QED
    BY <1>2, <1>3, <1>4, <2>1, <2>3, Zenon
<1>6. CASE StartFails
  <2>1. Refused \in Truthful
    BY DEF Truthful
  <2>2. <<Refused>> \in Seq(Truthful) /\ SendDown(<<Refused>>)
    BY <1>6, <2>1 DEF StartFails
  <2> QED
    BY <1>2, <1>3, <1>4, <2>2, Zenon
<1>7. CASE SelectExited
  <2>1. Ended(exit) \in Truthful
    BY <1>7 DEF Truthful, SelectExited
  <2>2. <<Ended(exit)>> \in Seq(Truthful) /\ SendDown(<<Ended(exit)>>)
    BY <1>7, <2>1 DEF SelectExited
  <2> QED
    BY <1>2, <1>3, <1>4, <2>2, Zenon
<1> QED
  BY <1>5, <1>6, <1>7

\* The process ends while nothing has said so yet.
LEMMA FaithProcess ==
  ASSUME FaithInv, NEW e \in Statuses \cup {WaitError}, ProcessExits(e),
         UNCHANGED <<pending, result>>
  PROVE  FaithInv'
<1>1. proc = "running" /\ proc' = "exited" /\ down' = down
  BY DEF ProcessExits, Conn
<1>2. down \in Seq({Accepted, Refused, Started})
  BY <1>1 DEF FaithInv, Truthful
<1>3. {Accepted, Refused, Started} \subseteq Truthful'
  BY DEF Truthful
<1>4. down \in Seq(Truthful')
  BY <1>2, <1>3, SMTT(40)
<1>5. Reports(pending)' /\ Reports(result)'
  BY <1>1 DEF FaithInv, Reports
<1> QED
  BY <1>1, <1>4, <1>5, SMTT(40) DEF FaithInv

\* The client receives a payload, or the network loses some.
LEMMA FaithReceive ==
  ASSUME FaithInv, UNCHANGED <<proc, exit, pending, result>>,
         \/ \E payload : Receive1(payload)
         \/ \E j \in 0 .. Len(down) : down' = SubSeq(down, 1, j)
  PROVE  FaithInv'
<1>1. Truthful' = Truthful /\ Reports(pending)' /\ Reports(result)'
  BY DEF FaithInv, Truthful, Reports
<1>2. down \in Seq(Truthful)
  BY DEF FaithInv
<1>3. CASE \E payload : Receive1(payload)
  <2>1. down # <<>> /\ down' = Tail(down)
    BY <1>3 DEF Receive1
  <2>2. down' \in Seq(Truthful)
    BY <1>2, <2>1, SMTT(40)
  <2> QED
    BY <1>1, <2>2 DEF FaithInv
<1>4. CASE \E j \in 0 .. Len(down) : down' = SubSeq(down, 1, j)
  <2>1. down' \in Seq(Truthful)
    BY <1>2, <1>4
  <2> QED
    BY <1>1, <2>1 DEF FaithInv
<1> QED
  BY <1>3, <1>4, ZenonT(40)

\* streamHandler.wait makes of a payload what it says.
LEMMA FaithWait ==
  ASSUME FaithInv, WaitDecodes
  PROVE  FaithInv'
<1>1. UNCHANGED <<proc, exit, result>>
  BY DEF WaitDecodes, ServerUnchanged, serverVars, Process
<1>2. Truthful' = Truthful /\ Reports(result)'
  BY <1>1 DEF FaithInv, Truthful, Reports
<1>3. ASSUME NEW s, Receive1(Ended(s))
      PROVE  down' \in Seq(Truthful) /\ proc = "exited" /\ exit = s
  <2>1. down # <<>> /\ Head(down) = Ended(s) /\ down' = Tail(down) /\ down \in Seq(Truthful)
    BY <1>3 DEF Receive1, FaithInv
  <2>2. Ended(s) \in Truthful /\ down' \in Seq(Truthful)
    BY <2>1, SMTT(40)
  <2>3. Ended(s) # Accepted /\ Ended(s) # Refused /\ Ended(s) # Started
    BY DEF Ended, Accepted, Refused, Started
  <2>4. proc = "exited" /\ Ended(s) = Ended(exit)
    BY <2>2, <2>3 DEF Truthful
  <2>5. s = exit
    BY <2>4 DEF Ended
  <2> QED
    BY <2>2, <2>4, <2>5
<1>4. CASE \E s \in Statuses : Receive1(Ended(s)) /\ pending' = Result(s, "none")
  <2>1. PICK s \in Statuses : Receive1(Ended(s)) /\ pending' = Result(s, "none")
    BY <1>4
  <2>2. Reports(pending)'
    BY <1>1, <1>3, <2>1, SMTT(40) DEF Reports, Result
  <2> QED
    BY <1>2, <1>3, <2>1, <2>2, ZenonT(40) DEF FaithInv
<1>5. CASE Receive1(Ended(WaitError)) /\ pending' = Result(0, "process")
  <2>1. Reports(pending)'
    BY <1>1, <1>3, <1>5, ZenonT(40) DEF Reports, Result
  <2> QED
    BY <1>2, <1>3, <1>5, <2>1, ZenonT(40) DEF FaithInv
<1>6. CASE pending' = Result(0, "decode") /\ UNCHANGED Conn
  BY <1>2, <1>6 DEF FaithInv, Reports, Result, Conn
<1> QED
  BY <1>4, <1>5, <1>6, SMTT(40) DEF WaitDecodes

\* Steps that neither speak of the process's end nor hear of it.
LEMMA FaithQuiet ==
  ASSUME \/ InputStep /\ ClientUnchanged
         \/ InputWritten /\ ClientUnchanged
         \/ SelectStopping /\ ClientUnchanged
         \/ SelectConnClosed /\ ClientUnchanged
         \/ Deferred /\ ClientUnchanged
         \/ ServerStops /\ ClientUnchanged
         \/ \E p \in Pipes : ProcessWrites(p) /\ ClientUnchanged
         \/ DeleteStream
         \/ Dial \/ DialFails \/ FirstFails \/ CloseConns
         \/ SendInput \/ SendEof \/ InputFails \/ SendControl \/ SendUnknown
         \/ \E r \in Readers : NotWanted(r) \/ OpenOutput(r) \/ CopyFails(r) \/ OutputStep(r)
         \/ UNCHANGED sessionVars
  PROVE  UNCHANGED faithVars
<1> USE DEF faithVars, serverVars, Process, Conn, ends, clientVars, waitVars,
            ServerUnchanged, ClientUnchanged
<1>1. CASE InputStep /\ ClientUnchanged
  BY <1>1, Zenon DEF InputStep, Decode, InputError, InputControl, InputEof, InputUnknown, InputData,
              InputWriteFails
<1>2. CASE (InputWritten \/ SelectStopping \/ SelectConnClosed \/ Deferred \/ ServerStops)
           /\ ClientUnchanged
  BY <1>2, Zenon DEF InputWritten, SelectStopping, SelectConnClosed, Deferred, ServerStops
<1>3. CASE (\E p \in Pipes : ProcessWrites(p) /\ ClientUnchanged) \/ DeleteStream
  BY <1>3, Zenon DEF ProcessWrites, DeleteStream
<1>4. CASE Dial \/ DialFails \/ FirstFails \/ CloseConns
  BY <1>4, Zenon DEF Dial, DialFails, FirstFails, CloseConns
<1>5. CASE SendInput \/ SendEof \/ InputFails \/ SendControl \/ SendUnknown
  BY <1>5, Zenon DEF SendInput, SendEof, InputFails, SendControl, SendUnknown
<1>6. CASE \E r \in Readers : NotWanted(r) \/ OpenOutput(r) \/ CopyFails(r) \/ OutputStep(r)
  BY <1>6, Zenon DEF NotWanted, OpenOutput, CopyFails, OutputStep, ServeOutput, Served, CopyEnds
<1>7. CASE UNCHANGED sessionVars
  BY <1>7, Zenon DEF sessionVars
<1> QED
  BY <1>1, <1>2, <1>3, <1>4, <1>5, <1>6, <1>7, Zenon

\* Each step keeps FaithInv.
LEMMA FaithNext ==
  ASSUME FaithInv, [SessionNext]_sessionVars
  PROVE  FaithInv'
<1>1. CASE (Run \/ Attach \/ StartFails \/ SelectExited) /\ ClientUnchanged
  BY <1>1, FaithServer DEF ClientUnchanged, clientVars, waitVars
<1>2. CASE \E e \in Statuses \cup {WaitError} : ProcessExits(e) /\ ClientUnchanged
  BY <1>2, FaithProcess DEF ClientUnchanged, clientVars, waitVars
<1>3. CASE CallAccepted \/ FirstPayload
  <2>1. UNCHANGED <<proc, exit, pending, result>> /\ \E payload : Receive1(payload)
    BY <1>3, Zenon DEF CallAccepted, FirstPayload, ServerUnchanged, serverVars, Process, waitVars
  <2> QED
    BY <2>1, FaithReceive
<1>4. CASE CallFails
  <2>1. UNCHANGED <<proc, exit, pending, result>> /\ (Receive1(Refused) \/ UNCHANGED Conn)
    BY <1>4 DEF CallFails, ServerUnchanged, serverVars, Process, waitVars
  <2>2. CASE Receive1(Refused)
    BY <2>1, <2>2, FaithReceive, ZenonT(40)
  <2>3. CASE UNCHANGED Conn
    BY <2>1, <2>3, FaithStutter, ZenonT(40) DEF Conn, faithVars
  <2> QED
    BY <2>1, <2>2, <2>3, ZenonT(40)
<1>5. ASSUME NEW r \in Readers, OpenOutputFails(r)
      PROVE  FaithInv'
  <2>1. UNCHANGED <<proc, exit, down, pending>> /\ result' = Result(0, "hijack")
    BY <1>5 DEF OpenOutputFails, ServerUnchanged, serverVars, Process
  <2> QED
    BY <2>1, ZenonT(40) DEF FaithInv, Truthful, Reports, Result
<1>6. CASE WaitDecodes
  BY <1>6, FaithWait, ZenonT(40)
<1>7. CASE Exited
  <2>1. UNCHANGED <<proc, exit, down, pending>> /\ result' = pending
    BY <1>7 DEF Exited, ServerUnchanged, serverVars, Process, Conn
  <2> QED
    BY <2>1, SMTT(40) DEF FaithInv, Truthful, Reports
<1>8. CASE Cut
  <2>1. UNCHANGED <<proc, exit, pending, result>>
    BY <1>8 DEF Cut, ServerUnchanged, serverVars, Process, clientVars, waitVars
  <2>2. \E j \in 0 .. Len(down) : down' = SubSeq(down, 1, j)
    BY <1>8 DEF Cut
  <2> QED
    BY <2>1, <2>2, FaithReceive, ZenonT(40)
<1> QED
  BY <1>1, <1>2, <1>3, <1>4, <1>5, <1>6, <1>7, <1>8, FaithQuiet, FaithStutter, Zenon
  DEF SessionNext, ServerMoves, ClientMoves, ClientStep, InputStep

\* It holds at first.
LEMMA FaithStarts ==
  ASSUME SessionInit
  PROVE  FaithInv
<1>1. down = <<>> /\ pending = NotDone /\ result = NotDone
  BY DEF SessionInit, ServerInit
<1>2. <<>> \in Seq(Truthful)
  OBVIOUS
<1>3. Reports(NotDone)
  BY DEF Reports, NotDone
<1> QED
  BY <1>1, <1>2, <1>3, SMTT(40) DEF FaithInv

\* What Wait returns is how the process ended, whatever was lost, closed or stopped on
\* the way (request_handling.go:1080-1130, stream_handler.go:74-96).
THEOREM WaitIsFaithful == SessionSpec => []WaitFaithful
<1>1. SessionInit => FaithInv
  BY FaithStarts
<1>2. FaithInv /\ [SessionNext]_sessionVars => FaithInv'
  BY FaithNext, SMTT(40)
<1>3. FaithInv => WaitFaithful
  BY DEF FaithInv, Reports, WaitFaithful
<1> QED
  BY <1>1, <1>2, <1>3, PTL DEF SessionSpec
-----------------------------------------------------------------------------
\* Exited is called by the goroutine that waits, which is started last, or by Run when
\* an output cannot be opened, after which that goroutine is not started.
OnceInv ==
  /\ client # "returned" => waiter = "none" /\ ~Done
  /\ waiter \in {"decode", "join"} => ~Done

onceVars == <<client, waiter, result>>

\* Each step keeps OnceInv, and leaves an answer that Wait has given as it is.
LEMMA OnceNext ==
  ASSUME OnceInv, [SessionNext]_sessionVars
  PROVE  OnceInv' /\ (Done => result' = result)
<1> USE DEF OnceInv, Done
<1>1. CASE UNCHANGED onceVars
  BY <1>1, SMTT(40) DEF onceVars
<1>2. CASE ServerMoves \/ Cut \/ UNCHANGED sessionVars
  <2>1. UNCHANGED clientVars
    BY <1>2, Zenon DEF ServerMoves, Cut, ClientUnchanged, DeleteStream, sessionVars
  <2> QED
    BY <1>1, <2>1 DEF clientVars, waitVars, onceVars
<1>3. CASE CallAccepted \/ CallFails \/ FirstFails \/ Dial \/ DialFails
  <2>1. client # "returned" /\ client' # "returned" /\ UNCHANGED <<waiter, result>>
    BY <1>3, Zenon DEF CallAccepted, CallFails, FirstFails, Dial, DialFails, waitVars
  <2> QED
    BY <2>1
<1>4. CASE FirstPayload
  <2>1. client # "returned" /\ UNCHANGED <<waiter, result>>
    BY <1>4, SMTT(40) DEF FirstPayload, waitVars
  <2> QED
    BY <2>1, ZenonT(40)
<1>5. ASSUME NEW r \in Readers, NotWanted(r) \/ OpenOutput(r)
      PROVE  OnceInv' /\ (Done => result' = result)
  <2>1. client # "returned" /\ result' = result /\ GoesOn(r)
    BY <1>5, OutputsAssumption, SMTT(40) DEF NotWanted, OpenOutput
  <2> QED
    BY <2>1, ZenonT(40) DEF GoesOn
<1>6. ASSUME NEW r \in Readers, OpenOutputFails(r)
      PROVE  OnceInv' /\ (Done => result' = result)
  <2>1. client # "returned" /\ client' = "returned" /\ waiter' = waiter
    BY <1>6, OutputsAssumption, SMTT(40) DEF OpenOutputFails
  <2> QED
    BY <2>1, ZenonT(40)
<1>7. CASE WaitDecodes
  BY <1>7, ZenonT(40) DEF WaitDecodes
<1>8. CASE Exited
  BY <1>8, SMTT(40) DEF Exited
<1>9. CASE CloseConns
  BY <1>9 DEF CloseConns
<1>10. CASE SendInput \/ SendEof \/ InputFails \/ SendControl \/ SendUnknown
  BY <1>1, <1>10, Zenon DEF SendInput, SendEof, InputFails, SendControl, SendUnknown, waitVars, onceVars
<1>11. CASE \E r \in Readers : CopyFails(r) \/ OutputStep(r)
  <2>1. UNCHANGED onceVars
    BY <1>11, Zenon DEF CopyFails, OutputStep, ServeOutput, Served, CopyEnds, clientVars, waitVars, onceVars
  <2> QED
    BY <1>1, <2>1
<1> QED
  BY <1>2, <1>3, <1>4, <1>5, <1>6, <1>7, <1>8, <1>9, <1>10, <1>11, ZenonT(40)
  DEF SessionNext, ClientMoves, ClientStep

\* Wait never returns two different answers, however many outputs there are and
\* whichever of them cannot be opened (connection.go:245-290).
THEOREM WaitAnswersOnce == SessionSpec => WaitIsFinal
<1>1. SessionInit => OnceInv
  BY DEF SessionInit, OnceInv, Done
<1>2. OnceInv /\ [SessionNext]_sessionVars => OnceInv'
  BY OnceNext
<1>3. OnceInv /\ [SessionNext]_sessionVars => [Done => result' = result]_sessionVars
  BY OnceNext, SMTT(40)
<1> QED
  BY <1>1, <1>2, <1>3, PTL DEF SessionSpec, WaitIsFinal
-----------------------------------------------------------------------------
Positive == Nat \ {0}

Sound ==
  [data : Positive] \cup [control : Positive] \cup (IF saidEof THEN {Eof, Unknown} ELSE {})

\* What ends the input is on the connection only if the client put it there, and the
\* pipe is open until the handler has made its stream.
EofInv ==
  /\ sent \in Nat /\ controls \in Nat
  /\ saidEof \in BOOLEAN
  /\ up \in Seq(Sound)
  /\ handler = "start" => stream = "no" /\ stdin = "open" /\ input = "off"
  /\ EofIsTheClients

eofVars == <<sent, controls, saidEof, up, handler, stream, stdin, input, proc>>

\* A step that leaves all of this alone keeps EofInv.
LEMMA EofStutter ==
  ASSUME EofInv, UNCHANGED eofVars
  PROVE  EofInv'
BY DEF EofInv, EofIsTheClients, Sound, eofVars

\* Steps of the handler and of the process.
LEMMA EofServer ==
  ASSUME EofInv, UNCHANGED <<sent, controls, saidEof>>,
         \/ Run \/ Attach \/ StartFails \/ SelectExited \/ SelectStopping \/ SelectConnClosed
         \/ Deferred \/ \E e \in Statuses \cup {WaitError} : ProcessExits(e)
  PROVE  EofInv'
<1> USE DEF EofInv, EofIsTheClients, Conn, Process, streamVars, Input, Handler
<1>1. up' = up /\ Sound' = Sound
  BY Zenon DEF Run, Attach, Begin, StartFails, SelectExited, SelectStopping, SelectConnClosed,
         Deferred, ProcessExits, Sound
<1>2. CASE Run \/ Attach
  BY <1>1, <1>2, Zenon DEF Run, Attach, Begin, Stream
<1>3. CASE StartFails
  BY <1>1, <1>3, Zenon DEF StartFails, ClosePipe
<1>4. CASE SelectExited
  BY <1>1, <1>4, Zenon DEF SelectExited, ClosePipe
<1>5. CASE SelectStopping \/ SelectConnClosed
  BY <1>1, <1>5, Zenon DEF SelectStopping, SelectConnClosed
<1>6. CASE Deferred
  BY <1>1, <1>6, Zenon DEF Deferred, Stop
<1>7. CASE \E e \in Statuses \cup {WaitError} : ProcessExits(e)
  BY <1>1, <1>7, Zenon DEF ProcessExits
<1> QED
  BY <1>2, <1>3, <1>4, <1>5, <1>6, <1>7, Zenon

\* Steps of streamInput: it closes the pipe for what the client sent, and only then.
LEMMA EofInput ==
  ASSUME EofInv, UNCHANGED <<sent, controls, saidEof>>, InputStep \/ InputWritten
  PROVE  EofInv'
<1> USE DEF EofInv, EofIsTheClients, Conn, Process, streamVars, Handler, serverVars
<1>1. /\ UNCHANGED <<handler, proc, stream>> /\ input # "off"
      /\ up' = up \/ (up # <<>> /\ up' = Tail(up))
  BY Zenon DEF InputStep, InputError, InputControl, InputEof, InputUnknown, InputData, InputWriteFails,
         InputWritten, Decode
<1>2. Sound' = Sound /\ up' \in Seq(Sound)
  <2>1. Sound' = Sound
    BY DEF Sound
  <2> QED
    BY <1>1, <2>1, SMTT(40)
<1>3. handler # "start"
  BY <1>1
<1>4. stdin' = "closed" => stdin = "closed" \/ InputEof \/ InputUnknown
  BY Zenon DEF InputStep, InputError, InputControl, InputData, InputWriteFails, InputWritten, ClosePipe
<1>5. ASSUME InputEof \/ InputUnknown
      PROVE  saidEof
  <2>1. up # <<>> /\ (Is(Head(up), "eof") \/ Is(Head(up), "unknown"))
    BY <1>5, Zenon DEF InputEof, InputUnknown, Decode
  <2>2. Head(up) \in Sound
    BY <2>1
  <2>3. Head(up) \notin [data : Positive] /\ Head(up) \notin [control : Positive]
    BY <2>1 DEF Is
  <2> QED
    BY <2>2, <2>3 DEF Sound
<1> QED
  BY <1>1, <1>2, <1>3, <1>4, <1>5, ZenonT(40)

\* The client sends.
LEMMA EofSend ==
  ASSUME EofInv, SendInput \/ SendEof \/ SendControl \/ SendUnknown
  PROVE  EofInv'
<1> USE DEF EofInv
<1>1. UNCHANGED <<handler, stream, stdin, input, proc>>
  BY Zenon DEF SendInput, SendEof, SendControl, SendUnknown, ServerUnchanged, serverVars, streamVars,
         Process, Input, Handler
<1>2. sent' \in Nat /\ controls' \in Nat /\ saidEof' \in BOOLEAN /\ (saidEof => saidEof')
  <2>1. sent' \in {sent, sent + 1} /\ controls' \in {controls, controls + 1}
    BY Zenon DEF SendInput, SendEof, SendControl, SendUnknown
  <2>2. saidEof' = saidEof \/ saidEof' = TRUE
    BY Zenon DEF SendInput, SendEof, SendControl, SendUnknown
  <2>3. sent' \in Nat /\ controls' \in Nat
    BY <2>1
  <2>4. saidEof' \in BOOLEAN /\ (saidEof => saidEof')
    BY <2>2, Zenon
  <2> QED
    BY <2>3, <2>4
<1>3. Sound \subseteq Sound'
  BY <1>2 DEF Sound
<1>4. up \in Seq(Sound')
  BY <1>3, SMTT(40)
<1>5. \E payload \in Sound' : Send(payload)
  <2>1. CASE SendInput
    <3>1. [data |-> sent + 1] \in Sound'
      BY DEF Sound, Positive
    <3> QED
      BY <2>1, <3>1, ZenonT(40) DEF SendInput
  <2>2. CASE SendControl
    <3>1. [control |-> controls + 1] \in Sound'
      BY DEF Sound, Positive
    <3> QED
      BY <2>2, <3>1, ZenonT(40) DEF SendControl
  <2>3. CASE SendEof
    BY <2>3, Zenon DEF SendEof, Sound
  <2>4. CASE SendUnknown
    BY <2>4, Zenon DEF SendUnknown, Sound
  <2> QED
    BY <2>1, <2>2, <2>3, <2>4, SMTT(40)
<1>6. up' \in Seq(Sound')
  BY <1>4, <1>5 DEF Send
<1> QED
  BY <1>1, <1>2, <1>6, SMTT(40) DEF EofIsTheClients

\* The other steps of the client and of the network.
LEMMA EofNext ==
  ASSUME EofInv, [SessionNext]_sessionVars
  PROVE  EofInv'
<1> DEFINE serverSide == <<handler, stream, stdin, input, proc>>
<1>1. CASE (HandlerStep \/ \E e \in Statuses \cup {WaitError} : ProcessExits(e)) /\ ClientUnchanged
  BY <1>1, EofServer, ZenonT(40) DEF HandlerStep, ClientUnchanged, clientVars, inputVars
<1>2. CASE (InputStep \/ InputWritten) /\ ClientUnchanged
  BY <1>2, EofInput, SMTT(40) DEF ClientUnchanged, clientVars, inputVars
<1>3. CASE (ServerStops \/ \E p \in Pipes : ProcessWrites(p)) /\ ClientUnchanged
  <2>1. UNCHANGED eofVars
    BY <1>3, Zenon DEF ServerStops, ProcessWrites, Write, ClientUnchanged, clientVars, inputVars, eofVars,
                serverVars, Conn, Process, Input, Handler, streamVars
  <2> QED
    BY <2>1, EofStutter, SMTT(40)
<1>4. CASE DeleteStream
  <2>1. stream = "stored" /\ stream' = "deleted"
        /\ UNCHANGED <<sent, controls, saidEof, up, handler, stdin, input, proc>>
    BY <1>4, SMTT(40) DEF DeleteStream, Delete, clientVars, inputVars, serverVars, Conn, Process, Input, Handler
  <2> QED
    BY <2>1, SMTT(40) DEF EofInv, EofIsTheClients, Sound
<1>5. CASE SendInput \/ SendEof \/ SendControl \/ SendUnknown
  BY <1>5, EofSend, ZenonT(40)
<1>6. CASE Dial \/ DialFails \/ ClientStep \/ InputFails
  <2>1. UNCHANGED serverSide /\ UNCHANGED <<sent, controls, saidEof, up>>
    <3> USE DEF ServerUnchanged, serverVars, streamVars, Process, Input, Handler, inputVars, Conn
    <3>1. CASE Dial \/ DialFails \/ InputFails
      BY <3>1, Zenon DEF Dial, DialFails, InputFails
    <3>2. CASE CallAccepted \/ CallFails \/ FirstPayload \/ FirstFails
      BY <3>2, Zenon DEF CallAccepted, CallFails, FirstPayload, FirstFails, Receive1
    <3>3. CASE \E r \in Readers : NotWanted(r) \/ OpenOutput(r) \/ OpenOutputFails(r)
      BY <3>3, Zenon DEF NotWanted, OpenOutput, OpenOutputFails
    <3>4. CASE WaitDecodes \/ Exited \/ CloseConns
      BY <3>4, Zenon DEF WaitDecodes, Exited, CloseConns, Receive1
    <3> QED
      BY <1>6, <3>1, <3>2, <3>3, <3>4, Zenon DEF ClientStep
  <2> QED
    BY <2>1, EofStutter DEF eofVars
<1>7. CASE \E r \in Readers : CopyFails(r) \/ OutputStep(r)
  <2>1. PICK r \in Readers : CopyFails(r) \/ OutputStep(r)
    BY <1>7, SMTT(40)
  <2>2. stream' = stream
    BY <2>1, Zenon DEF CopyFails, OutputStep, ServeOutput, Served, CopyEnds, Load, ReaderStep, Receive,
                WriteOut, WriteFails, SeeDone, DrainReceive, DrainWrite, DrainEnds, Take, Put,
                PutFails, ServerUnchanged, streamVars
  <2>3. UNCHANGED <<sent, controls, saidEof, up, handler, stdin, input, proc>>
    BY <2>1, Zenon DEF CopyFails, OutputStep, ServeOutput, Served, CopyEnds, ServerUnchanged, serverVars,
                Conn, Process, Input, Handler, clientVars, inputVars
  <2> QED
    BY <2>2, <2>3, EofStutter, ZenonT(40) DEF eofVars
<1>8. CASE Cut
  <2>1. UNCHANGED serverSide /\ UNCHANGED <<sent, controls, saidEof>>
    BY <1>8, Zenon DEF Cut, ServerUnchanged, serverVars, streamVars, Process, Input, Handler, clientVars,
                inputVars
  <2>2. PICK i \in 0 .. Len(up) : up' = SubSeq(up, 1, i)
    BY <1>8, SMTT(40) DEF Cut
  <2>3. up' \in Seq(Sound)
    BY <2>2, SMTT(40) DEF EofInv
  <2>4. Sound' = Sound
    BY <2>1 DEF Sound
  <2> QED
    BY <2>1, <2>3, <2>4, SMTT(40) DEF EofInv, EofIsTheClients
<1>9. CASE UNCHANGED sessionVars
  BY <1>9, EofStutter, Zenon DEF sessionVars, serverVars, streamVars, Conn, Process, Input, Handler,
                          clientVars, inputVars, eofVars
<1> QED
  BY <1>1, <1>2, <1>3, <1>4, <1>5, <1>6, <1>7, <1>8, <1>9, Zenon
  DEF SessionNext, ServerMoves, ClientMoves, HandlerStep, InputStep

\* It holds at first.
LEMMA EofStarts ==
  ASSUME SessionInit
  PROVE  EofInv
<1>1. /\ up = <<>> /\ sent = 0 /\ controls = 0 /\ saidEof = FALSE
      /\ stream = "no" /\ stdin = "open" /\ input = "off"
  BY ZenonT(40) DEF SessionInit, ServerInit, Init
<1>2. <<>> \in Seq(Sound)
  OBVIOUS
<1> QED
  BY <1>1, <1>2, ZenonT(40) DEF EofInv, EofIsTheClients

\* A running process sees its input end only when the client said so, whatever the
\* server, the network or the other outputs do (request_handling.go:1011-1060, 1120-1143).
THEOREM OnlyTheClientEndsInput == SessionSpec => []EofIsTheClients
<1>1. SessionInit => EofInv
  BY EofStarts
<1>2. EofInv /\ [SessionNext]_sessionVars => EofInv'
  BY EofNext
<1>3. EofInv => EofIsTheClients
  BY DEF EofInv
<1> QED
  BY <1>1, <1>2, <1>3, PTL DEF SessionSpec
-----------------------------------------------------------------------------
(***************************************************************************)
(* The outputs.  To the streamer a session is one more history of calls:   *)
(* what was proved of it holds in a session too.                           *)
(***************************************************************************)

\* Every step of a session is a step of the streamer, or none of its business; the
\* client that stops reading an output breaks its connection.
LEMMA StreamSteps ==
  ASSUME [SessionNext]_sessionVars
  PROVE  [Next]_vars \/ \E r \in Readers : CopyFails(r)
<1> USE DEF ServerUnchanged, streamVars, vars, Next
<1>1. CASE ServerMoves
  <2>1. CASE HandlerStep
    BY <2>1, Zenon DEF HandlerStep, Run, Attach, Begin, StartFails, SelectExited, SelectStopping,
                       SelectConnClosed, Deferred
  <2>2. CASE InputStep \/ InputWritten \/ ServerStops
             \/ \E e \in Statuses \cup {WaitError} : ProcessExits(e)
    BY <2>2, Zenon DEF InputStep, InputError, InputControl, InputEof, InputUnknown, InputData,
                       InputWriteFails, InputWritten, ServerStops, ProcessExits
  <2>3. CASE (\E p \in Pipes : ProcessWrites(p)) \/ DeleteStream
    BY <2>3, Zenon DEF ProcessWrites, DeleteStream
  <2> QED
    BY <1>1, <2>1, <2>2, <2>3, Zenon DEF ServerMoves, HandlerStep, InputStep
<1>2. CASE ClientMoves
  BY <1>2, Zenon DEF ClientMoves, ClientStep, Dial, DialFails, CallAccepted, CallFails, FirstPayload,
                     FirstFails, NotWanted, OpenOutput, OpenOutputFails, WaitDecodes, Exited,
                     CloseConns, SendInput, SendEof, InputFails, SendControl, SendUnknown
<1>3. CASE \E r \in Readers : OutputStep(r)
  BY <1>3, Zenon DEF OutputStep, ServeOutput, Served, CopyEnds
<1>4. CASE Cut
  BY <1>4, Zenon DEF Cut
<1>5. CASE UNCHANGED sessionVars
  BY <1>5, Zenon DEF sessionVars
<1> QED
  BY <1>1, <1>2, <1>3, <1>4, <1>5, Zenon DEF SessionNext

\* What the streamer keeps by itself, it keeps in a session.
StreamInv == StreamerType /\ StopOrder /\ DrainedBeforeReturn /\ WholeInv

\* A session keeps it.
LEMMA StreamNext ==
  ASSUME StreamInv, [SessionNext]_sessionVars
  PROVE  StreamInv'
<1>1. CASE [Next]_vars
  BY <1>1, NextType, NextOrder, NextDrained, NextWhole, Zenon DEF StreamInv, StreamerType
<1>2. ASSUME NEW r \in Readers, CopyFails(r)
      PROVE  StreamInv'
  <2>1. broken' = broken \cup {r} /\ UNCHANGED <<stream, done, wrote, last, ch, reader, pipe, hand, got>>
    BY <1>2, Zenon DEF CopyFails, pipeVars
  <2>2. StreamerType'
    BY <2>1, Zenon DEF StreamInv, StreamerType, TypeOK
  <2>3. StopOrder' /\ DrainedBeforeReturn'
    BY <2>1, Zenon DEF StreamInv, StopOrder, DrainedBeforeReturn
  <2>4. \A s \in Readers : (Fits(s)' => Fits(s)) /\ (Whole(s) => Whole(s)')
    BY <2>1, Zenon DEF Fits, OnlyReader, Whole, Held
  <2>5. WholeInv'
    BY <2>1, <2>4, Zenon DEF StreamInv, WholeInv
  <2> QED
    BY <2>2, <2>3, <2>5, Zenon DEF StreamInv
<1> QED
  BY <1>1, <1>2, StreamSteps, Zenon

\* It holds at first.
LEMMA StreamInit == SessionInit => StreamInv
BY InitType, InitDrained, InitWhole, ZenonT(40) DEF SessionInit, ServerInit, StreamInv
-----------------------------------------------------------------------------
\* After the k-th output comes the next one, or Run returns.
LEMMA AfterOutput ==
  ASSUME NEW k \in DOMAIN Outputs
  PROVE  /\ After(Outputs[k]) = IF k < Len(Outputs) THEN Outputs[k + 1] ELSE "returned"
         /\ After(Outputs[k]) \in Readers \cup {"returned"}
<1> DEFINE i == CHOOSE j \in DOMAIN Outputs : Outputs[j] = Outputs[k]
<1>1. i \in DOMAIN Outputs /\ Outputs[i] = Outputs[k]
  BY Zenon
<1>2. i = k
  BY <1>1, OutputsAssumption, Zenon
<1>3. After(Outputs[k]) = IF i < Len(Outputs) THEN Outputs[i + 1] ELSE "returned"
  BY SMTT(40) DEF After
<1> HIDE DEF i
<1>4. k < Len(Outputs) => Outputs[k + 1] \in Readers
  BY OutputsAssumption
<1> QED
  BY <1>2, <1>3, <1>4
-----------------------------------------------------------------------------
\* The client's part of SessionTypeOK.
ClientTypeOK ==
  /\ client \in {"dial", "call", "first", "returned", "failed"} \cup Readers
  /\ wants \subseteq Readers
  /\ conns \subseteq Readers \cup {"main"}
  /\ source \in {"none", "copy", "ended", "failed"}
  /\ sent \in 0 .. MaxPayloads
  /\ controls \in 0 .. MaxPayloads
  /\ saidEof \in BOOLEAN
  /\ copy \in [Readers -> {"none", "copying", "done"}]
  /\ waiter \in {"none", "decode", "join", "close", "ended"}
  /\ pending \in Results /\ result \in Results

\* Each step keeps the types of the server's variables.
LEMMA ServerType ==
  ASSUME ServerTypeOK, [SessionNext]_sessionVars
  PROVE  ServerTypeOK'
<1> DEFINE inner == <<handler, proc, exit, connClose, stopping, input, stdin>>
<1> USE DEF ServerTypeOK, Handler, session, Process, Input, Conn, ends, ServerUnchanged, serverVars
<1>1. CASE HandlerStep
  BY <1>1, ZenonT(120) DEF HandlerStep, Run, Attach, Begin, StartFails, SelectExited, SelectStopping,
                     SelectConnClosed, Deferred, ClosePipe
<1>2. CASE InputStep \/ InputWritten
  BY <1>2, ZenonT(60) DEF InputStep, InputError, InputControl, InputEof, InputUnknown, InputData,
                     InputWriteFails, InputWritten, Decode, ClosePipe
<1>3. CASE ServerStops \/ \E e \in Statuses \cup {WaitError} : ProcessExits(e)
  BY <1>3, ZenonT(120) DEF ServerStops, ProcessExits
<1>4. CASE (\E p \in Pipes : ProcessWrites(p)) \/ DeleteStream
  BY <1>4, ZenonT(120) DEF ProcessWrites, DeleteStream
<1>5. CASE Dial \/ DialFails \/ CloseConns \/ \E r \in Readers : OpenOutputFails(r)
  <2>1. UNCHANGED <<inner, cut>>
    BY <1>5, Zenon DEF Dial, DialFails, CloseConns, OpenOutputFails
  <2>2. clientOpen' \in BOOLEAN /\ serverOpen' \in BOOLEAN
    BY <1>5, Zenon DEF Dial, DialFails, CloseConns, OpenOutputFails
  <2> QED
    BY <2>1, <2>2
<1>6. CASE CallAccepted \/ CallFails \/ FirstPayload \/ FirstFails \/ WaitDecodes \/ Exited
           \/ \E r \in Readers : NotWanted(r) \/ OpenOutput(r)
  <2>1. UNCHANGED <<inner, ends>>
    BY <1>6, Zenon DEF CallAccepted, CallFails, FirstPayload, FirstFails, WaitDecodes, Exited,
                       NotWanted, OpenOutput, Receive1
  <2> QED
    BY <2>1, SMTT(40)
<1>7. CASE SendInput \/ SendEof \/ InputFails \/ SendControl \/ SendUnknown
           \/ \E r \in Readers : CopyFails(r) \/ OutputStep(r)
  <2>1. UNCHANGED <<inner, ends>>
    BY <1>7, Zenon DEF SendInput, SendEof, InputFails, SendControl, SendUnknown, CopyFails,
                       OutputStep, ServeOutput, Served, CopyEnds
  <2> QED
    BY <2>1
<1>8. CASE Cut \/ UNCHANGED sessionVars
  BY <1>8, ZenonT(120) DEF Cut, sessionVars
<1> QED
  BY <1>1, <1>2, <1>3, <1>4, <1>5, <1>6, <1>7, <1>8, ZenonT(40)
  DEF SessionNext, ServerMoves, ClientMoves, ClientStep, HandlerStep, InputStep

\* What streamHandler.wait makes of a payload is a result.
LEMMA WaitResults ==
  ASSUME WaitDecodes
  PROVE  pending' \in Results
<1>1. \A s \in Statuses : Result(s, "none") \in Results
  BY DEF Result, Results
<1>2. Result(0, "process") \in Results /\ Result(0, "decode") \in Results
  BY DEF Result, Results
<1> QED
  BY <1>1, <1>2, Zenon DEF WaitDecodes

\* Each step keeps the types of the client's variables.
LEMMA ClientType ==
  ASSUME ClientTypeOK, [SessionNext]_sessionVars
  PROVE  ClientTypeOK'
<1> USE DEF ClientTypeOK, clientVars, inputVars, waitVars
<1>1. CASE UNCHANGED clientVars
  BY <1>1, Zenon
<1>2. CASE Dial \/ DialFails \/ CallAccepted \/ CallFails \/ FirstFails
  BY <1>2, ZenonT(40) DEF Dial, DialFails, CallAccepted, CallFails, FirstFails
<1>3. CASE FirstPayload
  <2>1. Outputs[1] \in Readers
    BY OutputsAssumption
  <2> QED
    BY <1>3, <2>1, ZenonT(40) DEF FirstPayload
<1>4. ASSUME NEW r \in Readers, NotWanted(r) \/ OpenOutput(r)
      PROVE  ClientTypeOK'
  <2>1. After(r) \in Readers \cup {"returned"}
    BY AfterOutput, OutputsAssumption, Zenon
  <2>2. client' \in Readers \cup {"returned"} /\ waiter' \in {waiter, "decode"}
    BY <1>4, <2>1, ZenonT(40) DEF NotWanted, OpenOutput, GoesOn
  <2>3. copy' \in [Readers -> {"none", "copying", "done"}] /\ conns' \subseteq conns \cup {r}
    BY <1>4, Zenon DEF NotWanted, OpenOutput
  <2>4. UNCHANGED <<wants, source, sent, controls, saidEof, pending, result>>
    BY <1>4, Zenon DEF NotWanted, OpenOutput
  <2> QED
    BY <2>2, <2>3, <2>4, Zenon
<1>5. ASSUME NEW r \in Readers, OpenOutputFails(r)
      PROVE  ClientTypeOK'
  <2>1. Result(0, "hijack") \in Results
    BY DEF Result, Results
  <2> QED
    BY <1>5, <2>1, ZenonT(40) DEF OpenOutputFails
<1>6. CASE WaitDecodes
  BY <1>6, WaitResults, Zenon DEF WaitDecodes
<1>7. CASE Exited \/ CloseConns
  BY <1>7, Zenon DEF Exited, CloseConns
<1>8. CASE SendInput \/ SendControl \/ SendUnknown
  <2>1. sent' \in 0 .. MaxPayloads /\ controls' \in 0 .. MaxPayloads
    <3>1. /\ sent' = sent \/ sent' = sent + 1
          /\ controls' = controls \/ controls' = controls + 1
          /\ sent + controls < MaxPayloads
      BY <1>8, Zenon DEF SendInput, SendControl, SendUnknown, MaySend
    <3> QED
      BY <3>1, OutputsAssumption, SMTT(40)
  <2>2. saidEof' \in BOOLEAN /\ UNCHANGED <<client, wants, conns, source, copy, waiter, pending, result>>
    BY <1>8, Zenon DEF SendInput, SendControl, SendUnknown
  <2> QED
    BY <2>1, <2>2, ZenonT(40)
<1>9. CASE SendEof \/ InputFails
  BY <1>9, Zenon DEF SendEof, InputFails
<1>10. CASE \E r \in Readers : CopyFails(r) \/ CopyEnds(r)
  <2>1. /\ \E r \in Readers : copy' = [copy EXCEPT ![r] = "done"]
        /\ UNCHANGED <<client, wants, conns, source, sent, controls, saidEof, waiter, pending, result>>
    BY <1>10, Zenon DEF CopyFails, CopyEnds
  <2> QED
    BY <2>1, Zenon
<1>11. CASE ServerMoves \/ Cut \/ \E r \in Readers : ServeOutput(r) \/ Served(r)
  BY <1>1, <1>11, Zenon DEF ServerMoves, ClientUnchanged, DeleteStream, Cut, ServeOutput, Served
<1>12. CASE UNCHANGED sessionVars
  BY <1>1, <1>12, Zenon DEF sessionVars
<1> QED
  BY <1>2, <1>3, <1>4, <1>5, <1>6, <1>7, <1>8, <1>9, <1>10, <1>11, <1>12, Zenon
  DEF SessionNext, ClientMoves, ClientStep, OutputStep

\* The types hold at first.
LEMMA InitTypes ==
  ASSUME SessionInit
  PROVE  ServerTypeOK /\ ClientTypeOK
<1>1. 0 \in 0 .. MaxPayloads
  BY OutputsAssumption
<1>2. NotDone \in Results
  BY DEF Results
<1> QED
  BY <1>1, <1>2, Zenon DEF SessionInit, ServerInit, ServerTypeOK, ClientTypeOK

\* Every variable of the session keeps its type: Run goes through its outputs and returns,
\* and Wait returns a status, or one of the errors that the code makes.
THEOREM SessionTypeCorrect == SessionSpec => []SessionTypeOK
<1>1. SessionTypeOK <=> TypeOK /\ ServerTypeOK /\ ClientTypeOK
  BY Zenon DEF SessionTypeOK, ClientTypeOK
<1>2. SessionInit => ServerTypeOK /\ ClientTypeOK
  BY InitTypes
<1>3. StreamInv /\ ServerTypeOK /\ ClientTypeOK /\ [SessionNext]_sessionVars
        => (StreamInv /\ ServerTypeOK /\ ClientTypeOK)'
  BY StreamNext, ServerType, ClientType
<1>4. StreamInv => TypeOK
  BY DEF StreamInv, StreamerType
<1> QED
  BY <1>1, <1>2, <1>3, <1>4, StreamInit, PTL DEF SessionSpec
-----------------------------------------------------------------------------
\* Payloads that do not say how the process ended.
Silent == {Accepted, Refused, Started}

\* The process has ended and nothing was written after Stop.
Telling == proc = "exited" /\ (done => last = wrote)

\* The results that say how the process ended.
Outcomes == {"none", "process"}

\* Who hears how the process ended hears it from a handler that had not stopped the stream
\* when the process had written its last.
TellInv ==
  /\ handler # "ended" => ~done
  /\ ~Telling => /\ down \in Seq(Silent)
                 /\ pending.err \notin Outcomes /\ result.err \notin Outcomes

\* Steps that neither stop the stream nor write to it.
LEMMA TellQuiet ==
  ASSUME \/ InputStep \/ InputWritten \/ ServerStops \/ DeleteStream
         \/ \E e \in Statuses \cup {WaitError} : ProcessExits(e)
         \/ Dial \/ DialFails \/ ClientStep \/ Cut
         \/ SendInput \/ SendEof \/ InputFails \/ SendControl \/ SendUnknown
         \/ \E r \in Readers : CopyFails(r) \/ OutputStep(r)
         \/ UNCHANGED sessionVars
  PROVE  UNCHANGED <<handler, done, last, wrote>>
<1> USE DEF Handler, serverVars, streamVars, pipeVars, ServerUnchanged
<1>1. CASE InputStep \/ InputWritten
  BY <1>1, Zenon DEF InputStep, InputError, InputControl, InputEof, InputUnknown, InputData,
                     InputWriteFails, InputWritten
<1>2. CASE ServerStops \/ DeleteStream \/ \E e \in Statuses \cup {WaitError} : ProcessExits(e)
  BY <1>2, Zenon DEF ServerStops, DeleteStream, Delete, ProcessExits
<1>3. CASE Dial \/ DialFails \/ ClientStep
  BY <1>3, Zenon DEF Dial, DialFails, ClientStep, CallAccepted, CallFails, FirstPayload, FirstFails,
                     NotWanted, OpenOutput, OpenOutputFails, WaitDecodes, Exited, CloseConns
<1>4. CASE SendInput \/ SendEof \/ InputFails \/ SendControl \/ SendUnknown
  BY <1>4, Zenon DEF SendInput, SendEof, InputFails, SendControl, SendUnknown
<1>5. CASE \E r \in Readers : CopyFails(r) \/ OutputStep(r)
  BY <1>5, Zenon DEF CopyFails, OutputStep, ServeOutput, Served, CopyEnds, Load, ReaderStep, Receive,
                     WriteOut, WriteFails, SeeDone, DrainReceive, DrainWrite, DrainEnds, Take, Put,
                     PutFails
<1>6. CASE Cut \/ UNCHANGED sessionVars
  BY <1>6, Zenon DEF Cut, sessionVars
<1> QED
  BY <1>1, <1>2, <1>3, <1>4, <1>5, <1>6, Zenon

\* What the handler and the process do.
LEMMA TellServer ==
  ASSUME TellInv, UNCHANGED <<pending, result>>,
         \/ HandlerStep
         \/ \E p \in Pipes : ProcessWrites(p)
         \/ \E e \in Statuses \cup {WaitError} : ProcessExits(e)
  PROVE  TellInv'
<1> USE DEF TellInv
<1>1. ASSUME NEW ps \in Seq(Silent), SendDown(ps), down \in Seq(Silent)
      PROVE  down' \in Seq(Silent)
  <2>1. down \o ps \in Seq(Silent)
    BY <1>1, SMTT(40)
  <2> QED
    BY <1>1, <2>1, ZenonT(40) DEF SendDown
<1>2. <<Accepted, Started>> \in Seq(Silent) /\ <<Refused>> \in Seq(Silent)
  <2>1. Accepted \in Silent /\ Started \in Silent /\ Refused \in Silent
    BY DEF Silent
  <2> QED
    BY <2>1, SMTT(40)
<1>3. CASE Run \/ Attach
  <2>1. /\ handler = "start" /\ SendDown(<<Accepted, Started>>)
        /\ proc # "exited" /\ proc' # "exited" /\ done' = done
    BY <1>3, Zenon DEF Run, Attach, Begin, Stream
  <2> QED
    BY <1>1, <1>2, <2>1, Zenon DEF Telling
<1>4. CASE StartFails
  <2>1. /\ handler' = "ended" /\ SendDown(<<Refused>>) /\ UNCHANGED <<proc, done, last, wrote>>
    BY <1>4, Zenon DEF StartFails, streamVars, pipeVars
  <2> QED
    BY <1>1, <1>2, <2>1, Zenon DEF Telling
<1>5. CASE SelectExited
  <2>1. handler = "select" /\ handler' = "return" /\ proc = "exited" /\ UNCHANGED <<proc, done, last, wrote>>
    BY <1>5, Zenon DEF SelectExited, streamVars, pipeVars
  <2> QED
    BY <2>1, Zenon DEF Telling
<1>6. CASE SelectStopping \/ SelectConnClosed
  <2>1. handler = "select" /\ handler' = "return" /\ UNCHANGED <<proc, done, last, wrote, down>>
    BY <1>6, Zenon DEF SelectStopping, SelectConnClosed, streamVars, pipeVars, Process, Conn
  <2> QED
    BY <2>1, Zenon DEF Telling
<1>7. CASE Deferred
  <2>1. handler' = "ended" /\ last' = wrote' /\ UNCHANGED <<proc, down>>
    BY <1>7, Zenon DEF Deferred, Stop, Process
  <2> QED
    BY <2>1, Zenon DEF Telling
<1>8. CASE \E p \in Pipes : ProcessWrites(p)
  <2>1. proc # "exited" /\ UNCHANGED <<proc, handler, done, down>>
    BY <1>8, Zenon DEF ProcessWrites, Write, serverVars, Process, Handler, Conn
  <2> QED
    BY <2>1, Zenon DEF Telling
<1>9. CASE \E e \in Statuses \cup {WaitError} : ProcessExits(e)
  <2>1. proc # "exited" /\ UNCHANGED <<handler, done, down>>
    BY <1>9, Zenon DEF ProcessExits, Handler, Conn, streamVars
  <2> QED
    BY <2>1, Zenon DEF Telling
<1> QED
  BY <1>3, <1>4, <1>5, <1>6, <1>7, <1>8, <1>9, ZenonT(40) DEF HandlerStep

\* What the client hears.
LEMMA TellClient ==
  ASSUME TellInv, UNCHANGED <<handler, done, last, wrote>>,
         CallAccepted \/ CallFails \/ FirstPayload \/ WaitDecodes \/ Exited \/ Cut
           \/ \E r \in Readers : OpenOutputFails(r)
  PROVE  TellInv'
<1> USE DEF TellInv
<1>1. proc' = proc
  BY Zenon DEF CallAccepted, CallFails, FirstPayload, WaitDecodes, Exited, Cut, OpenOutputFails,
               ServerUnchanged, serverVars, Process
<1>2. Telling' <=> Telling
  BY <1>1, Zenon DEF Telling
<1> SUFFICES ASSUME ~Telling
             PROVE  /\ down' \in Seq(Silent)
                    /\ pending'.err \notin Outcomes /\ result'.err \notin Outcomes
  BY <1>2, Zenon
<1>3. down \in Seq(Silent) /\ pending.err \notin Outcomes /\ result.err \notin Outcomes
  BY SMTT(40)
<1>4. ASSUME NEW payload, Receive1(payload)
      PROVE  down' \in Seq(Silent) /\ payload \in Silent
  <2>1. down # <<>> /\ payload = Head(down) /\ down' = Tail(down)
    BY <1>4 DEF Receive1
  <2> QED
    BY <1>3, <2>1, SMTT(40)
<1>5. CASE CallAccepted \/ CallFails \/ FirstPayload
  <2>1. UNCHANGED <<pending, result>> /\ ((\E payload : Receive1(payload)) \/ UNCHANGED Conn)
    BY <1>5, Zenon DEF CallAccepted, CallFails, FirstPayload, waitVars
  <2> QED
    BY <1>3, <1>4, <2>1, Zenon DEF Conn
<1>6. CASE WaitDecodes
  <2>1. \A s : Ended(s) \notin Silent
    BY ZenonT(40) DEF Ended, Silent, Accepted, Refused, Started
  <2>2. pending' = Result(0, "decode") /\ UNCHANGED <<down, result>>
    BY <1>4, <1>6, <2>1, Zenon DEF WaitDecodes, Conn
  <2>3. pending'.err \notin Outcomes
    BY <2>2 DEF Result, Outcomes
  <2> QED
    BY <1>3, <2>2, <2>3, ZenonT(40)
<1>7. CASE Exited
  BY <1>3, <1>7, Zenon DEF Exited, Conn
<1>8. ASSUME NEW r \in Readers, OpenOutputFails(r)
      PROVE  /\ down' \in Seq(Silent)
             /\ pending'.err \notin Outcomes /\ result'.err \notin Outcomes
  <2>1. UNCHANGED <<down, pending>> /\ result' = Result(0, "hijack")
    BY <1>8, ZenonT(40) DEF OpenOutputFails
  <2> QED
    BY <1>3, <2>1 DEF Result, Outcomes
<1>9. CASE Cut
  <2>1. UNCHANGED <<pending, result>> /\ \E j \in 0 .. Len(down) : down' = SubSeq(down, 1, j)
    BY <1>9, Zenon DEF Cut, clientVars, waitVars
  <2> QED
    BY <1>3, <2>1
<1> QED
  BY <1>5, <1>6, <1>7, <1>8, <1>9, Zenon

\* Each step keeps TellInv.
LEMMA TellNext ==
  ASSUME TellInv, [SessionNext]_sessionVars
  PROVE  TellInv'
<1>1. CASE \/ HandlerStep /\ ClientUnchanged
           \/ \E p \in Pipes : ProcessWrites(p) /\ ClientUnchanged
           \/ \E e \in Statuses \cup {WaitError} : ProcessExits(e) /\ ClientUnchanged
  BY <1>1, TellServer, Zenon DEF ClientUnchanged, clientVars, waitVars
<1>2. CASE CallAccepted \/ CallFails \/ FirstPayload \/ WaitDecodes \/ Exited \/ Cut
           \/ \E r \in Readers : OpenOutputFails(r)
  BY <1>2, TellClient, TellQuiet, Zenon DEF ClientStep
<1>3. ASSUME UNCHANGED faithVars, UNCHANGED <<handler, done, last, wrote>>
      PROVE  TellInv'
  BY <1>3, Zenon DEF faithVars, TellInv, Telling
<1>4. CASE \/ (InputStep \/ InputWritten \/ ServerStops) /\ ClientUnchanged
           \/ DeleteStream \/ Dial \/ DialFails \/ FirstFails \/ CloseConns
           \/ SendInput \/ SendEof \/ InputFails \/ SendControl \/ SendUnknown
           \/ \E r \in Readers : NotWanted(r) \/ OpenOutput(r) \/ CopyFails(r) \/ OutputStep(r)
           \/ UNCHANGED sessionVars
  <2>1. UNCHANGED <<handler, done, last, wrote>>
    BY <1>4, TellQuiet, Zenon DEF ClientStep
  <2>2. UNCHANGED faithVars
    BY <1>4, FaithQuiet, ZenonT(40)
  <2> QED
    BY <1>3, <2>1, <2>2
<1> QED
  BY <1>1, <1>2, <1>4, Zenon DEF SessionNext, ServerMoves, ClientMoves, ClientStep, HandlerStep, InputStep

\* When Run has passed an output that its caller wants, a goroutine copies it, and that
\* ends only with the server's end of the connection or a broken one.
OpenInv ==
  /\ pipe = [r \in Readers |-> r]
  /\ \A i, k \in DOMAIN Outputs :
       client = Outputs[k] /\ i < k /\ Outputs[i] \in wants => copy[Outputs[i]] # "none"
  /\ waiter # "none" => \A r \in wants : copy[r] # "none"
  /\ \A r \in Readers : copy[r] = "done" => reader[r] \in {"returned", "missed"} \/ r \in broken
  /\ result.err \in Outcomes => \A r \in wants : copy[r] = "done"

\* A reader that has ended stays so, and a broken connection is not mended.
LEMMA ReadersStayEnded ==
  ASSUME TypeOK, [SessionNext]_sessionVars
  PROVE  /\ pipe' = pipe /\ broken \subseteq broken'
         /\ \A r \in Readers : reader[r] \in {"returned", "missed"} => reader'[r] = reader[r]
<1>1. CASE [Next]_vars
  <2>1. pipe' = pipe /\ broken \subseteq broken'
    BY <1>1, Zenon DEF Next, vars, readerVars, Write, Stream, Stop, Delete, Load, ReaderStep, Receive,
                       WriteOut, WriteFails, SeeDone, DrainReceive, DrainWrite, DrainEnds, Take, Put,
                       PutFails
  <2>2. \/ reader' = reader
        \/ \E r \in Readers : \E to : At(r, reader[r], to) /\ reader[r] \notin {"returned", "missed"}
    BY <1>1, Zenon DEF Next, vars, readerVars, Write, Stream, Stop, Delete, Load, ReaderStep, Receive,
                       WriteOut, WriteFails, SeeDone, DrainReceive, DrainWrite, DrainEnds, At
  <2>3. reader \in [Readers -> {"none", "select", "write", "drain", "drainwrite", "returned", "missed"}]
    BY DEF TypeOK
  <2> QED
    BY <2>1, <2>2, <2>3, Zenon DEF At
<1>2. CASE \E r \in Readers : CopyFails(r)
  BY <1>2, Zenon DEF CopyFails
<1> QED
  BY <1>1, <1>2, StreamSteps

\* The client goes on to the next output.
LEMMA OpenGoesOn ==
  ASSUME ClientTypeOK, OnceInv, OpenInv, pipe' = pipe, wants' = wants, result' = result,
         \A s \in Readers : copy[s] = "done" => reader'[s] \in {"returned", "missed"} \/ s \in broken',
         NEW r \in Readers, client = r, GoesOn(r),
         \/ r \notin wants /\ copy' = copy
         \/ copy' = [copy EXCEPT ![r] = "copying"]
  PROVE  OpenInv'
<1>1. PICK k \in DOMAIN Outputs : Outputs[k] = r
  BY OutputsAssumption, Zenon
<1>2. /\ client' = IF k < Len(Outputs) THEN Outputs[k + 1] ELSE "returned"
      /\ waiter' = IF client' = "returned" THEN "decode" ELSE waiter
  BY <1>1, AfterOutput, Zenon DEF GoesOn
<1>3. waiter = "none" /\ ~Done
  BY OutputsAssumption, Zenon DEF OnceInv
<1>4. result'.err \notin Outcomes
  <2>1. result' = NotDone
    BY <1>3, Zenon DEF Done
  <2>2. NotDone.err \notin Outcomes
    BY ZenonT(40) DEF NotDone, Outcomes
  <2> QED
    BY <2>1, <2>2, Zenon
<1>5. /\ copy \in [Readers -> {"none", "copying", "done"}] /\ wants \subseteq Readers
      /\ r \in wants => copy'[r] # "none"
      /\ \A s \in Readers : copy'[s] = copy[s] \/ copy'[s] = "copying"
  <2>1. copy \in [Readers -> {"none", "copying", "done"}] /\ wants \subseteq Readers
    BY Zenon DEF ClientTypeOK
  <2>2. CASE r \notin wants /\ copy' = copy
    BY <2>1, <2>2, Zenon
  <2>3. CASE copy' = [copy EXCEPT ![r] = "copying"]
    BY <2>1, <2>3
  <2> QED
    BY <2>2, <2>3
<1>6. ASSUME NEW i \in DOMAIN Outputs, i =< k, Outputs[i] \in wants
      PROVE  copy'[Outputs[i]] # "none"
  <2>1. i < k \/ i = k
    BY <1>6, OutputsAssumption
  <2>2. i < k => copy[Outputs[i]] # "none"
    BY <1>1, <1>6, Zenon DEF OpenInv
  <2> QED
    BY <1>1, <1>5, <1>6, <2>1, <2>2, ZenonT(40)
<1>7. DOMAIN Outputs = 1 .. Len(Outputs) /\ Len(Outputs) \in Nat
      /\ \A i \in DOMAIN Outputs : Outputs[i] \in Readers /\ Outputs[i] # "returned"
  BY OutputsAssumption
<1>8. ASSUME NEW i \in DOMAIN Outputs, NEW l \in DOMAIN Outputs,
             client' = Outputs[l], i < l, Outputs[i] \in wants
      PROVE  copy'[Outputs[i]] # "none"
  <2>1. k < Len(Outputs) /\ client' = Outputs[k + 1]
    BY <1>2, <1>7, <1>8, Zenon
  <2>2. k + 1 \in DOMAIN Outputs
    BY <1>7, <2>1
  <2>3. l = k + 1
    BY <1>8, <2>1, <2>2, OutputsAssumption, Zenon
  <2>4. i =< k
    BY <1>7, <1>8, <2>3
  <2> QED
    BY <1>6, <1>8, <2>4, Zenon
<1>9. ASSUME waiter' # "none", NEW s \in wants
      PROVE  copy'[s] # "none"
  <2>1. client' = "returned"
    BY <1>2, <1>3, <1>9, Zenon
  <2>2. k < Len(Outputs) => k + 1 \in DOMAIN Outputs
    BY <1>7
  <2>3. ~(k < Len(Outputs))
    BY <1>2, <1>7, <2>1, <2>2, Zenon
  <2>4. PICK i \in DOMAIN Outputs : Outputs[i] = s
    BY <1>5, OutputsAssumption, Zenon
  <2>5. i =< k
    BY <1>7, <2>3, <2>4
  <2> QED
    BY <1>6, <1>9, <2>4, <2>5, Zenon
<1>10. \A s \in Readers : copy'[s] = "done" => reader'[s] \in {"returned", "missed"} \/ s \in broken'
  BY <1>5, Zenon
<1> QED
  BY <1>4, <1>8, <1>9, <1>10, Zenon DEF OpenInv

\* Each step keeps OpenInv.
LEMMA OpenNext ==
  ASSUME TypeOK, ClientTypeOK, OnceInv, OpenInv, [SessionNext]_sessionVars
  PROVE  OpenInv'
<1>1. /\ pipe' = pipe
      /\ \A s \in Readers : copy[s] = "done" => reader'[s] \in {"returned", "missed"} \/ s \in broken'
  BY ReadersStayEnded, Zenon DEF OpenInv
<1>2. ASSUME UNCHANGED <<client, wants, copy>>, waiter' = "none" => waiter = "none",
             waiter = "none" => waiter' = "none",
             result'.err \in Outcomes => result.err \in Outcomes
      PROVE  OpenInv'
  BY <1>1, <1>2, Zenon DEF OpenInv
<1>3. CASE ServerMoves \/ Cut \/ (\E r \in Readers : ServeOutput(r) \/ Served(r)) \/ UNCHANGED sessionVars
  <2>1. UNCHANGED clientVars
    BY <1>3, Zenon DEF ServerMoves, ClientUnchanged, DeleteStream, Cut, ServeOutput, Served, sessionVars
  <2> QED
    BY <1>2, <2>1, Zenon DEF clientVars, waitVars
<1>4. CASE Dial \/ DialFails \/ CallAccepted \/ CallFails \/ FirstFails
  <2>1. client' \in {"call", "first", "failed"} /\ UNCHANGED <<wants, copy, waiter, result>>
    BY <1>4, Zenon DEF Dial, DialFails, CallAccepted, CallFails, FirstFails, waitVars
  <2>2. \A k \in DOMAIN Outputs : client' # Outputs[k]
    BY <2>1, OutputsAssumption
  <2> QED
    BY <1>1, <2>1, <2>2, Zenon DEF OpenInv
<1>5. CASE FirstPayload
  <2>1. client' = Outputs[1] /\ UNCHANGED <<wants, copy, waiter, result>>
    BY <1>5, Zenon DEF FirstPayload, waitVars
  <2>2. ASSUME NEW i \in DOMAIN Outputs, NEW k \in DOMAIN Outputs, client' = Outputs[k]
        PROVE  ~(i < k)
    <3>1. 1 \in DOMAIN Outputs /\ DOMAIN Outputs = 1 .. Len(Outputs)
      BY OutputsAssumption
    <3>2. k = 1
      BY <2>1, <2>2, <3>1, OutputsAssumption, Zenon
    <3> QED
      BY <3>1, <3>2, OutputsAssumption
  <2> QED
    BY <1>1, <2>1, <2>2, Zenon DEF OpenInv
<1>6. ASSUME NEW r \in Readers, NotWanted(r) \/ OpenOutput(r)
      PROVE  OpenInv'
  <2>1. /\ client = r /\ GoesOn(r) /\ UNCHANGED <<wants, result>>
        /\ \/ r \notin wants /\ copy' = copy
           \/ copy' = [copy EXCEPT ![r] = "copying"]
    BY <1>6, Zenon DEF NotWanted, OpenOutput
  <2> QED
    BY <1>1, <2>1, OpenGoesOn
<1>7. ASSUME NEW r \in Readers, OpenOutputFails(r)
      PROVE  OpenInv'
  <2>1. client' = "returned" /\ result' = Result(0, "hijack") /\ UNCHANGED <<wants, copy, waiter>>
    BY <1>7, Zenon DEF OpenOutputFails
  <2>2. result'.err \notin Outcomes
    BY <2>1, SMTT(40) DEF Result, Outcomes
  <2>3. \A k \in DOMAIN Outputs : client' # Outputs[k]
    BY <2>1, OutputsAssumption
  <2> QED
    BY <1>1, <2>1, <2>2, <2>3, Zenon DEF OpenInv
<1>8. CASE WaitDecodes \/ CloseConns
  BY <1>2, <1>8, Zenon DEF WaitDecodes, CloseConns
<1>9. CASE Exited
  <2>1. /\ waiter = "join" /\ waiter' = "close" /\ UNCHANGED <<client, wants, copy>>
        /\ \A r \in Readers : copy[r] # "copying"
    BY <1>9, Zenon DEF Exited
  <2>2. \A r \in wants : copy[r] = "done"
    BY <2>1, Zenon DEF OpenInv, ClientTypeOK
  <2> QED
    BY <1>1, <2>1, <2>2, Zenon DEF OpenInv
<1>10. CASE SendInput \/ SendEof \/ InputFails \/ SendControl \/ SendUnknown
  <2>1. UNCHANGED <<client, wants, copy, waiter, result>>
    BY <1>10, Zenon DEF SendInput, SendEof, InputFails, SendControl, SendUnknown, waitVars
  <2> QED
    BY <1>2, <2>1, Zenon
<1>11. ASSUME NEW r \in Readers, CopyFails(r) \/ CopyEnds(r)
      PROVE  OpenInv'
  <2>1. copy' = [copy EXCEPT ![r] = "done"] /\ UNCHANGED <<client, wants, waiter, result>>
    BY <1>11, Zenon DEF CopyFails, CopyEnds, waitVars
  <2>2. reader'[r] \in {"returned", "missed"} \/ r \in broken'
    BY <1>11, Zenon DEF CopyFails, CopyEnds, ServerUnchanged, streamVars, readerVars
  <2>3. /\ copy \in [Readers -> {"none", "copying", "done"}] /\ wants \subseteq Readers
        /\ \A s \in Readers : copy'[s] = IF s = r THEN "done" ELSE copy[s]
    BY <2>1, Zenon DEF ClientTypeOK
  <2>4. \A i \in DOMAIN Outputs : Outputs[i] \in Readers
    BY OutputsAssumption
  <2>5. \A s \in Readers : copy[s] # "none" => copy'[s] # "none"
    BY <2>3, Zenon
  <2>6. \A s \in Readers : copy[s] = "done" => copy'[s] = "done"
    BY <2>3, Zenon
  <2>7. \A s \in Readers : copy'[s] = "done" => reader'[s] \in {"returned", "missed"} \/ s \in broken'
    BY <1>1, <2>2, <2>3, Zenon
  <2> QED
    BY <1>1, <2>1, <2>3, <2>4, <2>5, <2>6, <2>7, Zenon DEF OpenInv
<1> QED
  BY <1>3, <1>4, <1>5, <1>6, <1>7, <1>8, <1>9, <1>10, <1>11, Zenon
  DEF SessionNext, ClientMoves, ClientStep, OutputStep

\* The invariants on which the order of Wait and the outputs rests.
WaitInv == StreamInv /\ ServerTypeOK /\ ClientTypeOK /\ OnceInv /\ TellInv /\ OpenInv

\* They hold at first.
LEMMA WaitStarts ==
  ASSUME SessionInit
  PROVE  WaitInv
<1>1. OnceInv
  BY Zenon DEF SessionInit, OnceInv, Done
<1>2. TellInv
  <2>1. pending.err \notin Outcomes /\ result.err \notin Outcomes
    BY Zenon DEF SessionInit, NotDone, Outcomes
  <2>2. down = <<>> /\ done = FALSE
    BY Zenon DEF SessionInit, ServerInit, Init
  <2> QED
    BY <2>1, <2>2 DEF TellInv
<1>3. OpenInv
  <2>1. client = "dial" /\ waiter = "none" /\ copy = [r \in Readers |-> "none"]
        /\ pipe = [r \in Readers |-> r] /\ result.err \notin Outcomes
    BY Zenon DEF SessionInit, ServerInit, NotDone, Outcomes
  <2>2. \A k \in DOMAIN Outputs : client # Outputs[k]
    BY <2>1, OutputsAssumption
  <2>3. \A r \in Readers : copy[r] # "done"
    BY <2>1, ZenonT(40)
  <2> QED
    BY <2>1, <2>2, <2>3, Zenon DEF OpenInv
<1> QED
  BY <1>1, <1>2, <1>3, StreamInit, InitTypes, SMTT(40) DEF WaitInv

\* Each step keeps them.
LEMMA WaitNext ==
  ASSUME WaitInv, [SessionNext]_sessionVars
  PROVE  WaitInv'
BY StreamNext, ServerType, ClientType, OnceNext, TellNext, OpenNext DEF WaitInv, StreamInv, StreamerType

\* A reader of a copy that has ended has drained its channel, or its connection broke.
LEMMA WaitMeans ==
  ASSUME WaitInv
  PROVE  OutputBeforeWait
<1> USE DEF WaitInv
<1> SUFFICES ASSUME result.err \in Outcomes, NEW r \in wants
             PROVE  /\ copy[r] = "done"
                    /\ reader[r] # "missed" /\ r \notin broken /\ wrote[r] =< Capacity
                         => got[r] = [i \in 1 .. wrote[r] |-> i]
  BY DEF OutputBeforeWait, Outcomes
<1>1. r \in Readers /\ copy[r] = "done" /\ pipe = [s \in Readers |-> s]
  BY Zenon DEF ClientTypeOK, OpenInv
<1>2. SUFFICES ASSUME reader[r] # "missed", r \notin broken, wrote[r] =< Capacity
               PROVE  got[r] = [i \in 1 .. wrote[r] |-> i]
  BY <1>1, Zenon
<1>3. reader[r] = "returned"
  BY <1>1, <1>2, Zenon DEF OpenInv
<1>4. done /\ last = wrote
  BY <1>1, <1>2, <1>3, Zenon DEF StreamInv, StopOrder, TellInv, Telling
<1>5. pipe[r] = r /\ OnlyReader(r)
  BY <1>1, Zenon DEF OnlyReader
<1>6. CompleteOutput
  BY WholeIsComplete, Zenon DEF StreamInv
<1> QED
  BY <1>1, <1>2, <1>3, <1>4, <1>5, <1>6, Zenon DEF CompleteOutput

\* When Wait reports how the process ended, the caller has the whole of each output that it
\* wanted, if that fits the channel, its connection held and the stream was found
\* (connection.go:225-290, stream_handler.go:37-96, request_handling.go:1080-1130,
\* streamer.go:56-98), whatever the order of the outputs and of the goroutines.
THEOREM WaitFollowsOutput == SessionSpec => []OutputBeforeWait
<1>1. SessionInit => WaitInv
  BY WaitStarts
<1>2. WaitInv /\ [SessionNext]_sessionVars => WaitInv'
  BY WaitNext
<1>3. WaitInv => OutputBeforeWait
  BY WaitMeans, ZenonT(40)
<1> QED
  BY <1>1, <1>2, <1>3, PTL DEF SessionSpec
-----------------------------------------------------------------------------
(***************************************************************************)
(* The input.  Pieces of it and signals are numbered apart, and the        *)
(* numbers of a kind that are on the connection follow what the server has *)
(* taken without a gap, up to a payload that ends the input.               *)
(***************************************************************************)

\* The number of a payload of that kind, and 0 for the others.
Num(field, payload) == IF Is(payload, field) THEN payload[field] ELSE 0

\* streamInput returns when it gets one of these.
Stops(payload) == Is(payload, "eof") \/ Is(payload, "unknown")

\* All numbers between base and n are before position i of s, or something that stops the
\* input is.
Covers(field, s, i, base, n) ==
  \/ \E j \in 1 .. i - 1 : Stops(s[j])
  \/ \A m \in base + 1 .. n - 1 : \E j \in 1 .. i - 1 : Num(field, s[j]) = m

\* The numbers in s grow from base + 1 without a gap and do not pass total.
Consecutive(field, s, base, total) ==
  \A i \in 1 .. Len(s) :
    Num(field, s[i]) # 0 =>
      /\ base < Num(field, s[i]) /\ Num(field, s[i]) =< total
      /\ Covers(field, s, i, base, Num(field, s[i]))
      /\ \A j \in 1 .. i - 1 : Num(field, s[j]) < Num(field, s[i])

\* What Append does, position by position.
LEMMA AppendFacts ==
  ASSUME NEW P, NEW s \in Seq(P), NEW x \in P
  PROVE  /\ Len(s) \in Nat /\ Len(Append(s, x)) = Len(s) + 1 /\ Append(s, x)[Len(s) + 1] = x
         /\ \A i \in 1 .. Len(s) : Append(s, x)[i] = s[i] /\ s[i] \in P
OBVIOUS

\* The positions up to the one after n, and those before each of them.
LEMMA PositionFacts ==
  ASSUME NEW n \in Nat
  PROVE  /\ 1 .. n \subseteq 1 .. n + 1 /\ n + 1 \in 1 .. n + 1
         /\ (n + 1) - 1 = n /\ ((n + 1) + 1) - 1 = n + 1
         /\ \A i \in 1 .. n + 1 : (i \in 1 .. n \/ i = n + 1) /\ \A j \in 1 .. i - 1 : j \in 1 .. n
OBVIOUS

\* A bound is raised by at most one.
LEMMA BoundFacts ==
  \A base, total, more \in Nat :
    base =< total /\ (more = total \/ more = total + 1) =>
      /\ total + 1 \in Nat /\ total + 1 =< total + 1 /\ base < total + 1
      /\ \A n \in Nat : n =< total => n =< more /\ n < total + 1
      /\ 0 < total + 1 /\ total + 1 # 0 /\ total + 1 # total
      /\ \A m \in base + 1 .. (more + 1) - 1 :
           m \in base + 1 .. (total + 1) - 1 \/ (m = more /\ more = total + 1)
OBVIOUS

\* A payload is appended.
LEMMA AppendKeeps ==
  ASSUME NEW P, NEW field, \A x \in P : Num(field, x) \in Nat,
         NEW s \in Seq(P), NEW x \in P, NEW base \in Nat, NEW total \in Nat, NEW more \in {total, total + 1},
         Consecutive(field, s, base, total), base =< total,
         \/ Num(field, x) = total + 1 /\ more = total + 1 /\ Covers(field, s, Len(s) + 1, base, total + 1)
         \/ Num(field, x) = 0
  PROVE  /\ Consecutive(field, Append(s, x), base, more)
         /\ (\/ Num(field, x) = total + 1
             \/ more = total /\ Covers(field, s, Len(s) + 1, base, total + 1)
             \/ Stops(x))
              => Covers(field, Append(s, x), Len(Append(s, x)) + 1, base, more + 1)
<1> DEFINE t == Append(s, x)
<1>1. /\ Len(s) \in Nat /\ Len(t) = Len(s) + 1
      /\ \A i \in 1 .. Len(s) : t[i] = s[i] /\ Num(field, s[i]) \in Nat
      /\ t[Len(s) + 1] = x
  <2>1. /\ Len(s) \in Nat /\ Len(t) = Len(s) + 1 /\ t[Len(s) + 1] = x
        /\ \A i \in 1 .. Len(s) : t[i] = s[i] /\ s[i] \in P
    BY AppendFacts, Zenon
  <2> HIDE DEF t
  <2> QED
    BY <2>1, Zenon
<1>2. /\ 1 .. Len(s) \subseteq 1 .. Len(t) /\ Len(s) + 1 \in 1 .. Len(t)
      /\ (Len(s) + 1) - 1 = Len(s) /\ (Len(t) + 1) - 1 = Len(t)
      /\ \A i \in 1 .. Len(t) : (i \in 1 .. Len(s) \/ i = Len(s) + 1) /\ \A j \in 1 .. i - 1 : j \in 1 .. Len(s)
  BY <1>1, PositionFacts, Zenon
<1>3. /\ total + 1 \in Nat /\ total + 1 =< total + 1 /\ base < total + 1
      /\ \A n \in Nat : n =< total => n =< more /\ n < total + 1
      /\ 0 < total + 1 /\ total + 1 # 0 /\ total + 1 # total
      /\ \A m \in base + 1 .. (more + 1) - 1 :
           m \in base + 1 .. (total + 1) - 1 \/ (m = more /\ more = total + 1)
  <2>1. more \in Nat /\ (more = total \/ more = total + 1)
    BY SMTT(40)
  <2> QED
    BY <2>1, BoundFacts, ZenonT(40)
<1> HIDE DEF t
<1>4. ASSUME NEW i \in 1 .. Len(t), NEW n \in Nat, Covers(field, s, i, base, n)
      PROVE  Covers(field, t, i, base, n)
  <2>1. \A j \in 1 .. i - 1 : t[j] = s[j]
    BY <1>1, <1>2, Zenon
  <2> QED
    BY <1>4, <2>1, ZenonT(40) DEF Covers
<1>5. Consecutive(field, t, base, more)
  <2> SUFFICES ASSUME NEW i \in 1 .. Len(t), Num(field, t[i]) # 0
               PROVE  /\ base < Num(field, t[i]) /\ Num(field, t[i]) =< more
                      /\ Covers(field, t, i, base, Num(field, t[i]))
                      /\ \A j \in 1 .. i - 1 : Num(field, t[j]) < Num(field, t[i])
    BY Zenon DEF Consecutive
  <2>1. CASE i \in 1 .. Len(s)
    <3>1. /\ base < Num(field, s[i]) /\ Num(field, s[i]) =< total
          /\ Covers(field, s, i, base, Num(field, s[i]))
          /\ \A j \in 1 .. i - 1 : Num(field, s[j]) < Num(field, s[i])
      BY <1>1, <2>1, ZenonT(40) DEF Consecutive
    <3>2. Covers(field, t, i, base, Num(field, s[i]))
      BY <1>1, <1>4, <2>1, <3>1, Zenon
    <3>3. \A j \in 1 .. i - 1 : t[j] = s[j]
      BY <1>1, <1>2, Zenon
    <3>4. Num(field, s[i]) =< more
      BY <1>1, <1>3, <2>1, <3>1, Zenon
    <3> QED
      BY <1>1, <2>1, <3>1, <3>2, <3>3, <3>4, Zenon
  <2>2. CASE i = Len(s) + 1
    <3>1. Num(field, x) = total + 1 /\ more = total + 1 /\ Covers(field, s, Len(s) + 1, base, total + 1)
      BY <1>1, <2>2, ZenonT(40)
    <3>2. Covers(field, t, i, base, total + 1)
      BY <1>3, <1>4, <2>2, <3>1, Zenon
    <3>3. \A j \in 1 .. Len(s) : Num(field, s[j]) < total + 1
      BY <1>1, <1>3, ZenonT(40) DEF Consecutive
    <3>4. \A j \in 1 .. i - 1 : Num(field, t[j]) < total + 1
      BY <1>1, <1>2, <3>3, Zenon
    <3>5. Num(field, t[i]) = total + 1
      BY <1>1, <2>2, <3>1, Zenon
    <3> QED
      BY <1>3, <3>1, <3>2, <3>4, <3>5, Zenon
  <2> QED
    BY <1>2, <2>1, <2>2, Zenon
<1>6. CASE Stops(x)
  <2>1. \E j \in 1 .. (Len(t) + 1) - 1 : Stops(t[j])
    BY <1>1, <1>2, <1>6, Zenon
  <2>2. Covers(field, t, Len(t) + 1, base, more + 1)
    BY <2>1, Zenon DEF Covers
  <2> QED
    BY <1>5, <2>2, Zenon DEF t
<1>7. ASSUME Covers(field, s, Len(s) + 1, base, total + 1),
             more = total \/ (Num(field, x) = total + 1 /\ more = total + 1)
      PROVE  Covers(field, t, Len(t) + 1, base, more + 1)
  <2>1. Covers(field, t, Len(s) + 1, base, total + 1)
    BY <1>2, <1>3, <1>4, <1>7, Zenon
  <2>2. CASE \E j \in 1 .. (Len(s) + 1) - 1 : Stops(t[j])
    <3>1. \E j \in 1 .. (Len(t) + 1) - 1 : Stops(t[j])
      BY <1>2, <2>2, Zenon
    <3> QED
      BY <3>1, Zenon DEF Covers
  <2>3. CASE \A m \in base + 1 .. (total + 1) - 1 : \E j \in 1 .. (Len(s) + 1) - 1 : Num(field, t[j]) = m
    <3>1. ASSUME NEW m \in base + 1 .. (more + 1) - 1
          PROVE  \E j \in 1 .. (Len(t) + 1) - 1 : Num(field, t[j]) = m
      <4>1. CASE m \in base + 1 .. (total + 1) - 1
        BY <1>2, <2>3, <4>1, Zenon
      <4>2. CASE m = more /\ more = total + 1
        <5>1. Num(field, x) = total + 1
          BY <1>3, <1>7, <4>2, Zenon
        <5> QED
          BY <1>1, <1>2, <4>2, <5>1, Zenon
      <4> QED
        BY <1>3, <4>1, <4>2, Zenon
    <3> QED
      BY <3>1, Zenon DEF Covers
  <2> QED
    BY <2>1, <2>2, <2>3, Zenon DEF Covers
<1> QED
  BY <1>3, <1>5, <1>6, <1>7, Zenon DEF t

\* The first of a kind on the connection is the next to be taken.
LEMMA HeadIsNext ==
  ASSUME NEW P, NEW field, NEW s \in Seq(P), s # <<>>, NEW base \in Nat, NEW total \in Nat,
         Num(field, Head(s)) \in Nat, Num(field, Head(s)) # 0, Consecutive(field, s, base, total)
  PROVE  Num(field, Head(s)) = base + 1 /\ base + 1 =< total
<1>1. 1 \in 1 .. Len(s) /\ Head(s) = s[1]
  OBVIOUS
<1>2. base < Num(field, s[1]) /\ Num(field, s[1]) =< total /\ Covers(field, s, 1, base, Num(field, s[1]))
  BY <1>1, Zenon DEF Consecutive
<1>3. ~(base + 1 \in base + 1 .. Num(field, s[1]) - 1)
  BY <1>2, SMTT(40) DEF Covers
<1> QED
  BY <1>1, <1>2, <1>3, SMTT(40)

\* What Head and Tail do, position by position.
LEMMA TailFacts ==
  ASSUME NEW P, NEW s \in Seq(P), s # <<>>
  PROVE  /\ Len(s) \in Nat /\ Len(s) = Len(Tail(s)) + 1 /\ Len(Tail(s)) \in Nat /\ 1 \in 1 .. Len(s)
         /\ \A i \in 1 .. Len(Tail(s)) : Tail(s)[i] = s[i + 1] /\ i + 1 \in 1 .. Len(s)
         /\ \A i \in 1 .. Len(s) : s[i] \in P
         /\ Head(s) = s[1]
BY SMTT(40)

\* It is taken, and what is left is still without a gap.
LEMMA TailKeeps ==
  ASSUME NEW P, NEW field, \A x \in P : Num(field, x) \in Nat,
         NEW s \in Seq(P), s # <<>>, NEW base \in Nat, NEW total \in Nat, ~Stops(Head(s)),
         Consecutive(field, s, base, total),
         NEW b, b = IF Num(field, Head(s)) = 0 THEN base ELSE base + 1
  PROVE  /\ Consecutive(field, Tail(s), b, total)
         /\ Covers(field, s, Len(s) + 1, base, total + 1)
              => Covers(field, Tail(s), Len(Tail(s)) + 1, b, total + 1)
<1> DEFINE t == Tail(s)
<1>1. /\ Len(s) \in Nat /\ Len(s) = Len(t) + 1 /\ Len(t) \in Nat /\ 1 \in 1 .. Len(s)
      /\ \A i \in 1 .. Len(t) : t[i] = s[i + 1] /\ i + 1 \in 1 .. Len(s)
      /\ \A i \in 1 .. Len(s) : Num(field, s[i]) \in Nat
      /\ Head(s) = s[1]
  BY TailFacts, Zenon
<1>2. Num(field, s[1]) # 0 => Num(field, s[1]) = base + 1
  BY <1>1, HeadIsNext, ZenonT(40)
<1> HIDE DEF t
<1>3. b \in Nat /\ base =< b /\ Num(field, s[1]) =< b /\ (b = base \/ b = Num(field, s[1]))
  BY <1>1, <1>2, SMTT(40)
<1>4. ASSUME NEW i \in 1 .. Len(t) + 1, NEW n \in Nat, Covers(field, s, i + 1, base, n)
      PROVE  Covers(field, t, i, b, n)
  <2>1. ASSUME NEW j \in 1 .. i + 1 - 1, j # 1
        PROVE  j - 1 \in 1 .. i - 1 /\ t[j - 1] = s[j]
    <3>1. j - 1 \in 1 .. i - 1 /\ j - 1 \in 1 .. Len(t) /\ (j - 1) + 1 = j
      BY <1>1, <2>1
    <3> QED
      BY <1>1, <3>1, ZenonT(40)
  <2>2. CASE \E j \in 1 .. i + 1 - 1 : Stops(s[j])
    BY <1>1, <2>1, <2>2, Zenon DEF Covers
  <2>3. CASE \A m \in base + 1 .. n - 1 : \E j \in 1 .. i + 1 - 1 : Num(field, s[j]) = m
    <3>1. ASSUME NEW m \in b + 1 .. n - 1
          PROVE  \E j \in 1 .. i - 1 : Num(field, t[j]) = m
      <4>1. m \in base + 1 .. n - 1 /\ Num(field, s[1]) # m
        BY <1>1, <1>3, <3>1, SMTT(40)
      <4>2. PICK j \in 1 .. i + 1 - 1 : Num(field, s[j]) = m
        BY <2>3, <4>1, Zenon
      <4> QED
        BY <2>1, <4>1, <4>2, ZenonT(40)
    <3> QED
      BY <3>1, Zenon DEF Covers
  <2>4. \/ \E j \in 1 .. i + 1 - 1 : Stops(s[j])
        \/ \A m \in base + 1 .. n - 1 : \E j \in 1 .. i + 1 - 1 : Num(field, s[j]) = m
    BY <1>4 DEF Covers
  <2> QED
    BY <2>2, <2>3, <2>4, SMTT(40)
<1>5. Consecutive(field, t, b, total)
  <2> SUFFICES ASSUME NEW i \in 1 .. Len(t), Num(field, t[i]) # 0
               PROVE  /\ b < Num(field, t[i]) /\ Num(field, t[i]) =< total
                      /\ Covers(field, t, i, b, Num(field, t[i]))
                      /\ \A j \in 1 .. i - 1 : Num(field, t[j]) < Num(field, t[i])
    BY ZenonT(40) DEF Consecutive
  <2>1. /\ t[i] = s[i + 1] /\ i + 1 \in 1 .. Len(s) /\ i \in 1 .. Len(t) + 1
        /\ 1 \in 1 .. i + 1 - 1 /\ Num(field, s[i + 1]) # 0
    BY <1>1, SMTT(40)
  <2>2. /\ base < Num(field, s[i + 1]) /\ Num(field, s[i + 1]) =< total
        /\ Covers(field, s, i + 1, base, Num(field, s[i + 1]))
        /\ \A j \in 1 .. i + 1 - 1 : Num(field, s[j]) < Num(field, s[i + 1])
    BY <2>1, SMTT(40) DEF Consecutive
  <2>3. Covers(field, t, i, b, Num(field, s[i + 1]))
    BY <1>1, <1>4, <2>1, <2>2, ZenonT(40)
  <2>4. b < Num(field, s[i + 1])
    BY <1>3, <2>1, <2>2, ZenonT(40)
  <2>5. \A j \in 1 .. i - 1 : t[j] = s[j + 1] /\ j + 1 \in 1 .. i + 1 - 1
    BY <1>1, SMTT(40)
  <2> QED
    BY <2>1, <2>2, <2>3, <2>4, <2>5, ZenonT(40)
<1>6. ASSUME Covers(field, s, Len(s) + 1, base, total + 1)
      PROVE  Covers(field, t, Len(t) + 1, b, total + 1)
  <2>1. Len(t) + 1 \in 1 .. Len(t) + 1
    BY <1>1, PositionFacts, Zenon
  <2>2. total + 1 \in Nat
    BY SMTT(40)
  <2> QED
    BY <1>1, <1>4, <1>6, <2>1, <2>2, Zenon
<1> QED
  BY <1>5, <1>6, SMTT(40) DEF t

\* What SubSeq keeps, position by position.
LEMMA SubSeqFacts ==
  ASSUME NEW P, NEW s \in Seq(P), NEW k \in 0 .. Len(s)
  PROVE  /\ Len(s) \in Nat /\ Len(SubSeq(s, 1, k)) = k
         /\ \A i \in 1 .. k : SubSeq(s, 1, k)[i] = s[i] /\ i \in 1 .. Len(s)
         /\ \A i \in 1 .. k : \A j \in 1 .. i - 1 : SubSeq(s, 1, k)[j] = s[j]
BY SMTT(40)

\* The network keeps a prefix.
LEMMA PrefixKeeps ==
  ASSUME NEW P, NEW field, NEW s \in Seq(P), NEW k \in 0 .. Len(s), NEW base, NEW total,
         Consecutive(field, s, base, total)
  PROVE  Consecutive(field, SubSeq(s, 1, k), base, total)
<1> DEFINE t == SubSeq(s, 1, k)
<1>1. /\ Len(s) \in Nat /\ Len(t) = k
      /\ \A i \in 1 .. k : t[i] = s[i] /\ i \in 1 .. Len(s)
  BY SubSeqFacts, Zenon
<1>2. ASSUME NEW i \in 1 .. k
      PROVE  \A j \in 1 .. i - 1 : t[j] = s[j]
  BY SubSeqFacts, Zenon
<1> HIDE DEF t
<1>3. ASSUME NEW i \in 1 .. k, Num(field, t[i]) # 0
      PROVE  /\ base < Num(field, t[i]) /\ Num(field, t[i]) =< total
             /\ Covers(field, t, i, base, Num(field, t[i]))
             /\ \A j \in 1 .. i - 1 : Num(field, t[j]) < Num(field, t[i])
  <2>1. /\ base < Num(field, s[i]) /\ Num(field, s[i]) =< total
        /\ Covers(field, s, i, base, Num(field, s[i]))
        /\ \A j \in 1 .. i - 1 : Num(field, s[j]) < Num(field, s[i])
    BY <1>1, <1>3, Zenon DEF Consecutive
  <2>2. Covers(field, t, i, base, Num(field, s[i]))
    BY <1>2, <2>1, ZenonT(40) DEF Covers
  <2> QED
    BY <1>1, <1>2, <2>1, <2>2, Zenon
<1> QED
  BY <1>1, <1>3, Zenon DEF Consecutive, t

\* Everything that a client can send.
Payloads == [data : Positive] \cup [control : Positive] \cup {Eof, Unknown}

\* The server has taken base of total numbers, and the next ones in s follow.
Numbered(field, s, base, total) ==
  base \in Nat /\ total \in Nat /\ base =< total /\ Consecutive(field, s, base, total)

\* None of the others is lost.
Full(field, s, base, total) == Covers(field, s, Len(s) + 1, base, total + 1)

\* What the client sends still reaches the connection.
Intact == ~cut /\ (client = "dial" \/ serverOpen)

\* The pieces of input that streamInput has taken from the connection.
Taken == Len(readIn) + (IF input = "write" THEN 1 ELSE 0)

\* What the process has read and what streamInput holds are the first pieces that were sent,
\* and what is on the connection continues them: without a gap, and to the last one sent
\* as long as the connection holds.  The same is true of signals until the process exits.
InputInv ==
  /\ readIn \in Seq(Nat) /\ applied \in Seq(Nat) /\ InputInOrder
  /\ client = "dial" => ~clientOpen
  /\ proc \in {"none", "running", "exited"}
  /\ input # "off" => proc # "none"
  /\ input = "write" => feed = Len(readIn) + 1 /\ Taken =< sent
  /\ input # "returned" =>
       Numbered("data", up, Taken, sent) /\ (Intact => Full("data", up, Taken, sent))
  /\ input # "returned" /\ proc # "exited" =>
       /\ Numbered("control", up, Len(applied), controls)
       /\ Intact => Full("control", up, Len(applied), controls)

\* How a payload is numbered.
LEMMA PayloadNums ==
  /\ \A x \in Payloads : Num("data", x) \in Nat /\ Num("control", x) \in Nat
  /\ \A n \in Positive : /\ Num("data", [data |-> n]) = n /\ Num("control", [data |-> n]) = 0
                         /\ Num("control", [control |-> n]) = n /\ Num("data", [control |-> n]) = 0
  /\ \A x \in {Eof, Unknown} : Num("data", x) = 0 /\ Num("control", x) = 0 /\ Stops(x)
  /\ \A x \in Payloads : Is(x, "data") =>
       /\ ~Stops(x) /\ Num("data", x) = x.data /\ Num("data", x) # 0 /\ Num("control", x) = 0
  /\ \A x \in Payloads : Is(x, "control") =>
       /\ ~Stops(x) /\ Num("control", x) = x.control /\ Num("control", x) # 0 /\ Num("data", x) = 0
<1>1. ASSUME NEW x \in [data : Positive]
      PROVE  /\ ~Stops(x) /\ Num("data", x) = x.data /\ Num("data", x) \in Positive /\ Num("control", x) = 0
             /\ ~Is(x, "control")
  BY DEF Num, Is, Stops
<1>2. ASSUME NEW x \in [control : Positive]
      PROVE  /\ ~Stops(x) /\ Num("control", x) = x.control /\ Num("control", x) \in Positive /\ Num("data", x) = 0
             /\ ~Is(x, "data")
  BY ZenonT(40) DEF Num, Is, Stops
<1>3. ASSUME NEW x \in {Eof, Unknown}
      PROVE  Num("data", x) = 0 /\ Num("control", x) = 0 /\ Stops(x) /\ ~Is(x, "data") /\ ~Is(x, "control")
  BY ZenonT(40) DEF Num, Is, Stops, Eof, Unknown
<1>4. \A n \in Positive : [data |-> n] \in [data : Positive] /\ [control |-> n] \in [control : Positive]
                          /\ [data |-> n].data = n /\ [control |-> n].control = n
  OBVIOUS
<1>5. \A n \in Positive : n \in Nat /\ n # 0
  BY DEF Positive
<1>6. \A x \in Payloads : x \in [data : Positive] \/ x \in [control : Positive] \/ x \in {Eof, Unknown}
  BY Zenon DEF Payloads
<1>7. 0 \in Nat
  OBVIOUS
<1>8. \A x \in Payloads : Num("data", x) \in Nat /\ Num("control", x) \in Nat
  BY <1>1, <1>2, <1>3, <1>5, <1>6, <1>7, Zenon
<1>9. \A n \in Positive : /\ Num("data", [data |-> n]) = n /\ Num("control", [data |-> n]) = 0
                          /\ Num("control", [control |-> n]) = n /\ Num("data", [control |-> n]) = 0
  BY <1>1, <1>2, <1>4, Zenon
<1>10. \A x \in Payloads : Is(x, "data") =>
         /\ ~Stops(x) /\ Num("data", x) = x.data /\ Num("data", x) # 0 /\ Num("control", x) = 0
  BY <1>1, <1>2, <1>3, <1>5, <1>6, Zenon
<1>11. \A x \in Payloads : Is(x, "control") =>
         /\ ~Stops(x) /\ Num("control", x) = x.control /\ Num("control", x) # 0 /\ Num("data", x) = 0
  BY <1>1, <1>2, <1>3, <1>5, <1>6, Zenon
<1> QED
  BY <1>3, <1>8, <1>9, <1>10, <1>11, Zenon

\* A payload is sent: it reaches the connection or is lost.
LEMMA SendNumbered ==
  ASSUME NEW field, \A y \in Payloads : Num(field, y) \in Nat,
         NEW s \in Seq(Payloads), NEW x \in Payloads, NEW base, NEW total, NEW more \in {total, total + 1},
         Numbered(field, s, base, total),
         \/ Num(field, x) = total + 1 /\ more = total + 1
         \/ Num(field, x) = 0 /\ (more = total \/ Stops(x))
  PROVE  /\ Numbered(field, s, base, more)
         /\ Full(field, s, base, total)
              => Numbered(field, Append(s, x), base, more) /\ Full(field, Append(s, x), base, more)
<1>1. /\ base \in Nat /\ total \in Nat /\ base =< total /\ Consecutive(field, s, base, total)
      /\ more \in Nat /\ base =< more
  BY DEF Numbered
<1>2. Consecutive(field, s, base, more)
  <2>1. \A i \in 1 .. Len(s) : Num(field, s[i]) \in Nat
    BY SMTT(40)
  <2>2. \A i \in 1 .. Len(s) : Num(field, s[i]) =< total => Num(field, s[i]) =< more
    BY <1>1, <2>1, SMTT(40)
  <2> QED
    BY <1>1, <2>2, Zenon DEF Consecutive
<1>3. ASSUME Full(field, s, base, total)
      PROVE  /\ Consecutive(field, Append(s, x), base, more)
             /\ Covers(field, Append(s, x), Len(Append(s, x)) + 1, base, more + 1)
  BY <1>1, <1>3, AppendKeeps, Zenon DEF Full
<1> QED
  BY <1>1, <1>2, <1>3, Zenon DEF Numbered, Full

\* A payload of either kind is taken.
LEMMA TakeNumbered ==
  ASSUME NEW field, \A y \in Payloads : Num(field, y) \in Nat,
         NEW s \in Seq(Payloads), s # <<>>, ~Stops(Head(s)), NEW base, NEW total,
         Numbered(field, s, base, total),
         NEW b, b = IF Num(field, Head(s)) = 0 THEN base ELSE base + 1
  PROVE  /\ Num(field, Head(s)) # 0 => Num(field, Head(s)) = base + 1
         /\ Numbered(field, Tail(s), b, total)
         /\ Full(field, s, base, total) => Full(field, Tail(s), b, total)
<1>1. base \in Nat /\ total \in Nat /\ base =< total /\ Consecutive(field, s, base, total)
  BY DEF Numbered
<1>2. Num(field, Head(s)) \in Nat
  OBVIOUS
<1>3. Num(field, Head(s)) # 0 => Num(field, Head(s)) = base + 1 /\ base + 1 =< total
  BY <1>1, <1>2, HeadIsNext, Zenon
<1>4. b \in Nat /\ b =< total
  BY <1>1, <1>3, SMTT(40)
<1>5. /\ Consecutive(field, Tail(s), b, total)
      /\ Covers(field, s, Len(s) + 1, base, total + 1)
           => Covers(field, Tail(s), Len(Tail(s)) + 1, b, total + 1)
  BY <1>1, TailKeeps, Zenon
<1> QED
  BY <1>1, <1>3, <1>4, <1>5, Zenon DEF Numbered, Full

\* A sequence that counts goes on counting.
LEMMA CountOn ==
  ASSUME NEW s \in Seq(Nat), s = [i \in 1 .. Len(s) |-> i]
  PROVE  /\ Append(s, Len(s) + 1) \in Seq(Nat)
         /\ Len(Append(s, Len(s) + 1)) = Len(s) + 1
         /\ Append(s, Len(s) + 1) = [i \in 1 .. Len(Append(s, Len(s) + 1)) |-> i]
<1> DEFINE t == Append(s, Len(s) + 1)
<1>1. t \in Seq(Nat) /\ Len(t) = Len(s) + 1 /\ Len(s) \in Nat
  BY SMTT(40)
<1>2. \A i \in 1 .. Len(t) : t[i] = i
  <2>1. \A i \in 1 .. Len(s) : t[i] = s[i] /\ s[i] = i
    OBVIOUS
  <2>2. t[Len(s) + 1] = Len(s) + 1
    OBVIOUS
  <2> QED
    BY <1>1, <2>1, <2>2, SMTT(40)
<1> HIDE DEF t
<1>3. t = [i \in 1 .. Len(t) |-> t[i]]
  BY <1>1, SMTT(40)
<1>4. t = [i \in 1 .. Len(t) |-> i]
  BY <1>2, <1>3, Zenon
<1> QED
  BY <1>1, <1>4, ZenonT(40) DEF t

\* Steps that neither send nor take.
LEMMA InputCarry ==
  ASSUME InputInv, UNCHANGED <<readIn, applied, sent, controls, up>>,
         \/ input' = input /\ feed' = feed
         \/ input' = "returned"
         \/ input = "off" /\ input' = "decode",
         Intact' => Intact, proc' \in {"none", "running", "exited"}, proc = "exited" => proc' = "exited",
         input' # "off" => proc' # "none",
         client' = "dial" => ~clientOpen'
  PROVE  InputInv'
<1>1. InputInOrder'
  BY Zenon DEF InputInv, InputInOrder
<1>2. CASE input' = "returned"
  BY <1>1, <1>2, Zenon DEF InputInv
<1>3. CASE input' # "returned"
  <2>1. input # "returned" /\ Taken' = Taken
    BY <1>3 DEF Taken
  <2>2. input' = "write" => input = "write" /\ feed' = feed
    BY <1>3, Zenon
  <2> QED
    BY <1>1, <2>1, <2>2, Zenon DEF InputInv
<1> QED
  BY <1>2, <1>3

\* The connection carries payloads only.
LEMMA OnlyPayloads ==
  ASSUME EofInv
  PROVE  up \in Seq(Payloads) /\ sent \in Nat /\ controls \in Nat
<1>1. Sound \subseteq Payloads
  BY DEF Sound, Payloads
<1> QED
  BY <1>1, SMTT(40) DEF EofInv

\* The client sends: what it sends is the next of its kind, or ends the input.
LEMMA InputSends ==
  ASSUME EofInv, InputInv, SendInput \/ SendEof \/ SendControl \/ SendUnknown
  PROVE  InputInv'
<1>1. /\ UNCHANGED <<readIn, applied, input, feed, proc, client, clientOpen, serverOpen, cut>>
      /\ clientOpen /\ ~cut
  BY Zenon DEF SendInput, SendEof, SendControl, SendUnknown, ServerUnchanged, serverVars, Process, Input,
               ends, CanSend
<1>2. up \in Seq(Payloads) /\ sent \in Nat /\ controls \in Nat
  BY OnlyPayloads, SMTT(40)
<1>3. PICK x \in Payloads :
        /\ Send(x)
        /\ sent' \in {sent, sent + 1} /\ controls' \in {controls, controls + 1}
        /\ \/ Num("data", x) = sent + 1 /\ sent' = sent + 1
           \/ Num("data", x) = 0 /\ (sent' = sent \/ Stops(x))
        /\ \/ Num("control", x) = controls + 1 /\ controls' = controls + 1
           \/ Num("control", x) = 0 /\ (controls' = controls \/ Stops(x))
  <2>1. CASE SendInput
    <3>1. sent + 1 \in Positive /\ [data |-> sent + 1] \in Payloads
      BY <1>2 DEF Positive, Payloads
    <3> QED
      BY <2>1, <3>1, PayloadNums, ZenonT(40) DEF SendInput
  <2>2. CASE SendControl
    <3>1. controls + 1 \in Positive /\ [control |-> controls + 1] \in Payloads
      BY <1>2 DEF Positive, Payloads
    <3> QED
      BY <2>2, <3>1, PayloadNums, ZenonT(40) DEF SendControl
  <2>3. CASE SendEof
    BY <2>3, PayloadNums, Zenon DEF SendEof, Payloads
  <2>4. CASE SendUnknown
    BY <2>4, PayloadNums, ZenonT(40) DEF SendUnknown, Payloads
  <2> QED
    BY <2>1, <2>2, <2>3, <2>4, ZenonT(40)
<1>4. Taken' = Taken
  BY <1>1 DEF Taken
<1>5. (serverOpen /\ Intact /\ up' = Append(up, x)) \/ (~Intact' /\ up' = up)
  BY <1>1, <1>3, Zenon DEF InputInv, Send, Intact
<1>6. InputInOrder' /\ (Taken =< sent => Taken' =< sent')
  <2>1. Len(readIn) \in Nat /\ Len(applied) \in Nat
    BY SMTT(40) DEF InputInv
  <2>2. Len(readIn) =< sent => Len(readIn) =< sent'
    BY <1>2, <1>3, <2>1, SMTT(40)
  <2>3. Len(applied) =< controls => Len(applied) =< controls'
    BY <1>2, <1>3, <2>1, SMTT(40)
  <2>4. Taken =< sent => Taken =< sent'
    BY <1>2, <1>3, <2>1, SMTT(40) DEF Taken
  <2> QED
    BY <1>1, <1>4, <2>2, <2>3, <2>4, ZenonT(40) DEF InputInv, InputInOrder
<1>7. ASSUME input # "returned"
      PROVE  Numbered("data", up', Taken', sent') /\ (Intact' => Full("data", up', Taken', sent'))
  <2>1. Numbered("data", up, Taken, sent) /\ (Intact => Full("data", up, Taken, sent))
    BY <1>7 DEF InputInv
  <2>2. \A y \in Payloads : Num("data", y) \in Nat
    BY PayloadNums, Zenon
  <2>3. /\ Numbered("data", up, Taken, sent')
        /\ Full("data", up, Taken, sent)
             => Numbered("data", Append(up, x), Taken, sent') /\ Full("data", Append(up, x), Taken, sent')
    BY <1>2, <1>3, <2>1, <2>2, SendNumbered, Zenon
  <2> QED
    BY <1>4, <1>5, <2>1, <2>3, ZenonT(40)
<1>8. ASSUME input # "returned", proc # "exited"
      PROVE  /\ Numbered("control", up', Len(applied'), controls')
             /\ Intact' => Full("control", up', Len(applied'), controls')
  <2>1. /\ Numbered("control", up, Len(applied), controls)
        /\ Intact => Full("control", up, Len(applied), controls)
    BY <1>8 DEF InputInv
  <2>2. \A y \in Payloads : Num("control", y) \in Nat
    BY PayloadNums, Zenon
  <2>3. /\ Numbered("control", up, Len(applied), controls')
        /\ Full("control", up, Len(applied), controls)
             => /\ Numbered("control", Append(up, x), Len(applied), controls')
                /\ Full("control", Append(up, x), Len(applied), controls')
    BY <1>2, <1>3, <2>1, <2>2, SendNumbered, Zenon
  <2> QED
    BY <1>1, <1>5, <2>1, <2>3, ZenonT(40)
<1> QED
  BY <1>1, <1>4, <1>6, <1>7, <1>8, Zenon DEF InputInv

\* streamInput takes a payload off the connection.
LEMMA InputTakes ==
  ASSUME EofInv, InputInv, InputControl \/ InputData, ClientUnchanged
  PROVE  InputInv'
<1> DEFINE x == Head(up)
<1>1. /\ UNCHANGED <<readIn, proc, client, clientOpen, serverOpen, cut, sent, controls>>
      /\ input = "decode" /\ up # <<>> /\ up' = Tail(up)
      /\ Is(x, "data") \/ Is(x, "control")
  BY Zenon DEF InputControl, InputData, Decode, Process, ends, ClientUnchanged, clientVars, inputVars
<1>2. up \in Seq(Payloads) /\ sent \in Nat /\ controls \in Nat /\ x \in Payloads
  <2>1. up \in Seq(Payloads) /\ sent \in Nat /\ controls \in Nat
    BY OnlyPayloads
  <2> QED
    BY <1>1, <2>1, SMTT(40)
<1> HIDE DEF x
<1>3. ~Stops(x)
  BY <1>1, <1>2, PayloadNums, ZenonT(40)
<1>4. Intact' = Intact /\ proc # "none" /\ Taken = Len(readIn) /\ Len(readIn) \in Nat /\ Len(applied) \in Nat
  BY <1>1 DEF Intact, InputInv, Taken
<1>5. ASSUME NEW b, b = IF Num("data", x) = 0 THEN Taken ELSE Taken + 1
      PROVE  /\ Num("data", x) # 0 => Num("data", x) = Taken + 1
             /\ Numbered("data", up', b, sent) /\ (Intact => Full("data", up', b, sent))
  <2>1. \A y \in Payloads : Num("data", y) \in Nat
    BY PayloadNums, ZenonT(40)
  <2>2. Numbered("data", up, Taken, sent) /\ (Intact => Full("data", up, Taken, sent))
    BY <1>1 DEF InputInv
  <2>3. /\ Num("data", x) # 0 => Num("data", x) = Taken + 1
        /\ Numbered("data", Tail(up), b, sent)
        /\ Full("data", up, Taken, sent) => Full("data", Tail(up), b, sent)
    BY <1>1, <1>2, <1>3, <1>5, <2>1, <2>2, TakeNumbered, ZenonT(40) DEF x
  <2> QED
    BY <1>1, <2>2, <2>3, Zenon
<1>6. ASSUME proc # "exited", NEW b, b = IF Num("control", x) = 0 THEN Len(applied) ELSE Len(applied) + 1
      PROVE  /\ Num("control", x) # 0 => Num("control", x) = Len(applied) + 1
             /\ Numbered("control", up', b, controls) /\ (Intact => Full("control", up', b, controls))
  <2>1. \A y \in Payloads : Num("control", y) \in Nat
    BY PayloadNums, ZenonT(40)
  <2>2. /\ Numbered("control", up, Len(applied), controls)
        /\ Intact => Full("control", up, Len(applied), controls)
    BY <1>1, <1>6 DEF InputInv
  <2>3. /\ Num("control", x) # 0 => Num("control", x) = Len(applied) + 1
        /\ Numbered("control", Tail(up), b, controls)
        /\ Full("control", up, Len(applied), controls) => Full("control", Tail(up), b, controls)
    BY <1>1, <1>2, <1>3, <1>6, <2>1, <2>2, TakeNumbered, ZenonT(60) DEF x
  <2> QED
    BY <1>1, <2>2, <2>3, Zenon
<1>7. CASE InputData
  <2>1. /\ Is(x, "data") /\ feed' = x.data /\ input' = "write" /\ applied' = applied
    BY <1>7, ZenonT(40) DEF InputData, Decode, Process, x
  <2>2. Num("data", x) = x.data /\ Num("data", x) # 0 /\ Num("control", x) = 0
    BY <1>2, <2>1, PayloadNums, Zenon
  <2>3. Taken' = Taken + 1
    BY <1>1, <1>4, <2>1 DEF Taken
  <2>4. feed' = Taken + 1 /\ Numbered("data", up', Taken', sent) /\ (Intact => Full("data", up', Taken', sent))
    BY <1>5, <2>1, <2>2, <2>3, Zenon
  <2>5. proc # "exited" => /\ Numbered("control", up', Len(applied), controls)
                           /\ Intact => Full("control", up', Len(applied), controls)
    BY <1>6, <2>2, ZenonT(40)
  <2>6. Taken' =< sent
    BY <2>4, ZenonT(40) DEF Numbered
  <2>7. InputInOrder'
    BY <1>1, <2>1, Zenon DEF InputInv, InputInOrder
  <2> QED
    BY <1>1, <1>4, <2>1, <2>4, <2>5, <2>6, <2>7, Zenon DEF InputInv
<1>8. CASE InputControl
  <2>1. /\ Is(x, "control") /\ input' = input
        /\ applied' = IF proc = "running" THEN Append(applied, x.control) ELSE applied
    BY <1>8 DEF InputControl, Decode, Input, x
  <2>2. Num("control", x) = x.control /\ Num("control", x) # 0 /\ Num("data", x) = 0
    BY <1>2, <2>1, PayloadNums, ZenonT(40)
  <2>3. Taken' = Taken
    BY <1>1, <2>1, SMTT(40) DEF Taken
  <2>4. Numbered("data", up', Taken', sent) /\ (Intact => Full("data", up', Taken', sent))
    BY <1>5, <2>2, <2>3, ZenonT(40)
  <2>5. readIn' = [i \in 1 .. Len(readIn') |-> i] /\ Len(readIn') =< sent'
    BY <1>1 DEF InputInv, InputInOrder
  <2>6. CASE proc = "running"
    <3>1. /\ Num("control", x) = Len(applied) + 1
          /\ Numbered("control", up', Len(applied) + 1, controls)
          /\ Intact => Full("control", up', Len(applied) + 1, controls)
      <4>1. proc # "exited"
        BY <2>6
      <4> QED
        BY <1>6, <2>2, <4>1, Zenon
    <3>2. applied' = Append(applied, Len(applied) + 1)
      BY <2>1, <2>2, <2>6, <3>1, Zenon
    <3>3. /\ applied' \in Seq(Nat) /\ Len(applied') = Len(applied) + 1
          /\ applied' = [i \in 1 .. Len(applied') |-> i]
      BY <3>2, CountOn, ZenonT(40) DEF InputInv, InputInOrder
    <3>4. Len(applied') =< controls'
      BY <1>1, <3>1, <3>3, ZenonT(40) DEF Numbered
    <3> QED
      BY <1>1, <1>4, <2>1, <2>3, <2>4, <2>5, <3>1, <3>3, <3>4, Zenon DEF InputInv, InputInOrder
  <2>7. CASE proc # "running"
    <3>1. applied' = applied
      BY <2>1, <2>7, ZenonT(40)
    <3>2. proc = "exited"
      BY <1>4, <2>7, ZenonT(40) DEF InputInv
    <3> QED
      BY <1>1, <1>4, <2>1, <2>3, <2>4, <2>5, <3>1, <3>2, Zenon DEF InputInv, InputInOrder
  <2> QED
    BY <2>6, <2>7, ZenonT(40)
<1> QED
  BY <1>7, <1>8

\* The process reads the piece that streamInput holds.
LEMMA InputRead ==
  ASSUME InputInv, InputWritten, ClientUnchanged
  PROVE  InputInv'
<1>1. /\ UNCHANGED <<applied, up, proc, client, clientOpen, serverOpen, cut, sent, controls>>
      /\ input = "write" /\ input' = "decode" /\ readIn' = Append(readIn, feed)
  BY ZenonT(40) DEF InputWritten, Conn, ends, ClientUnchanged, clientVars, inputVars
<1>2. feed = Len(readIn) + 1 /\ Taken = Len(readIn) + 1 /\ Taken =< sent
  BY <1>1 DEF InputInv, Taken
<1>3. /\ readIn' \in Seq(Nat) /\ Len(readIn') = Len(readIn) + 1
      /\ readIn' = [i \in 1 .. Len(readIn') |-> i]
  BY <1>1, <1>2, CountOn, ZenonT(40) DEF InputInv, InputInOrder
<1>4. Taken' = Taken /\ Len(readIn') =< sent /\ Intact' = Intact
  <2>1. Len(readIn') \in Nat
    BY <1>3
  <2> QED
    BY <1>1, <1>2, <1>3, <2>1, SMTT(40) DEF Taken, Intact
<1>5. InputInOrder'
  BY <1>1, <1>3, <1>4, Zenon DEF InputInv, InputInOrder
<1> QED
  BY <1>1, <1>3, <1>4, <1>5, Zenon DEF InputInv

\* The network loses the end of what was sent.
LEMMA InputCut ==
  ASSUME EofInv, InputInv, Cut
  PROVE  InputInv'
<1>1. /\ UNCHANGED <<readIn, applied, input, feed, proc, client, clientOpen, serverOpen, sent, controls>>
      /\ cut'
  BY Zenon DEF Cut, ServerUnchanged, serverVars, Process, Input, clientVars, inputVars
<1>2. PICK k \in 0 .. Len(up) : up' = SubSeq(up, 1, k)
  BY DEF Cut
<1>3. up \in Seq(Payloads)
  BY OnlyPayloads
<1>4. \A field, base, total :
        Consecutive(field, up, base, total) => Consecutive(field, SubSeq(up, 1, k), base, total)
  BY <1>3, PrefixKeeps, Zenon
<1>5. \A field, base, total : Numbered(field, up, base, total) => Numbered(field, up', base, total)
  BY <1>2, <1>4, ZenonT(40) DEF Numbered
<1>6. Taken' = Taken /\ ~Intact'
  BY <1>1 DEF Taken, Intact
<1>7. InputInOrder'
  BY <1>1, Zenon DEF InputInv, InputInOrder
<1> QED
  BY <1>1, <1>5, <1>6, <1>7, Zenon DEF InputInv

\* streamInput returns: nothing is taken any more.
LEMMA InputReturns ==
  ASSUME InputInv, input' = "returned", input # "off",
         UNCHANGED <<readIn, applied, sent, controls, proc, client, clientOpen>>
  PROVE  InputInv'
<1>1. InputInOrder'
  BY Zenon DEF InputInv, InputInOrder
<1> QED
  BY <1>1, Zenon DEF InputInv

\* Each step keeps InputInv.
LEMMA InputNext ==
  ASSUME EofInv, InputInv, [SessionNext]_sessionVars
  PROVE  InputInv'
<1> USE DEF serverVars, Process, Input, ends, Conn, ServerUnchanged, ClientUnchanged, clientVars, inputVars
<1> DEFINE still == <<readIn, applied, sent, controls, up>>
<1>1. CASE (InputControl \/ InputData) /\ ClientUnchanged
  BY <1>1, InputTakes, Zenon
<1>2. CASE InputWritten /\ ClientUnchanged
  BY <1>2, InputRead, Zenon
<1>3. CASE SendInput \/ SendEof \/ SendControl \/ SendUnknown
  BY <1>3, InputSends, Zenon
<1>4. CASE Cut
  BY <1>4, InputCut, Zenon
<1>5. CASE (InputError \/ InputEof \/ InputUnknown \/ InputWriteFails) /\ ClientUnchanged
  <2>1. /\ UNCHANGED <<readIn, applied, sent, controls, proc, client, clientOpen>>
        /\ input' = "returned" /\ input \in {"decode", "write"}
    BY <1>5, ZenonT(40) DEF InputError, InputEof, InputUnknown, InputWriteFails, Decode
  <2>2. input # "off"
    BY <2>1, ZenonT(40)
  <2> QED
    BY <2>1, <2>2, InputReturns, Zenon
<1>6. CASE (Run \/ Attach) /\ ClientUnchanged
  <2>1. /\ UNCHANGED still /\ UNCHANGED <<client, clientOpen, serverOpen, cut>>
        /\ handler = "start" /\ input' = "decode" /\ proc' = "running" /\ proc \in {"none", "running"}
    BY <1>6, ZenonT(40) DEF Run, Attach, Begin
  <2>2. input = "off" /\ proc # "exited"
    BY <2>1 DEF EofInv
  <2>3. (Intact' => Intact) /\ (client' = "dial" => ~clientOpen')
    BY <2>1, Zenon DEF Intact, InputInv
  <2> QED
    BY <2>1, <2>2, <2>3, InputCarry, ZenonT(40)
<1>7. ASSUME UNCHANGED still, UNCHANGED <<input, feed, client, clientOpen, cut>>, serverOpen' => serverOpen,
             proc' = proc \/ (proc = "running" /\ proc' = "exited")
      PROVE  InputInv'
  <2>1. (Intact' => Intact) /\ (client' = "dial" => ~clientOpen')
    BY <1>7, ZenonT(40) DEF Intact, InputInv
  <2>2. /\ proc' \in {"none", "running", "exited"} /\ (proc = "exited" => proc' = "exited")
        /\ input' # "off" => proc' # "none"
    BY <1>7, ZenonT(40) DEF InputInv
  <2> QED
    BY <1>7, <2>1, <2>2, InputCarry, ZenonT(40)
<1>8. CASE \/ (StartFails \/ SelectExited \/ SelectStopping \/ SelectConnClosed \/ Deferred) /\ ClientUnchanged
           \/ (ServerStops \/ \E p \in Pipes : ProcessWrites(p)) /\ ClientUnchanged
           \/ (\E e \in Statuses \cup {WaitError} : ProcessExits(e)) /\ ClientUnchanged
           \/ DeleteStream
           \/ UNCHANGED sessionVars
  <2>1. UNCHANGED still
    BY <1>8, ZenonT(40) DEF StartFails, SelectExited, SelectStopping, SelectConnClosed, Deferred, ServerStops,
                       ProcessWrites, ProcessExits, DeleteStream, sessionVars
  <2>2. UNCHANGED <<input, feed, client, clientOpen, cut>>
    BY <1>8, ZenonT(40) DEF StartFails, SelectExited, SelectStopping, SelectConnClosed, Deferred, ServerStops,
                       ProcessWrites, ProcessExits, DeleteStream, sessionVars
  <2>3. serverOpen' = serverOpen \/ serverOpen' = FALSE
    BY <1>8, ZenonT(40) DEF StartFails, SelectExited, SelectStopping, SelectConnClosed, Deferred, ServerStops,
                       ProcessWrites, ProcessExits, DeleteStream, sessionVars
  <2>4. proc' = proc \/ (proc = "running" /\ proc' = "exited")
    BY <1>8, ZenonT(40) DEF StartFails, SelectExited, SelectStopping, SelectConnClosed, Deferred, ServerStops,
                       ProcessWrites, ProcessExits, DeleteStream, sessionVars
  <2>5. serverOpen' => serverOpen
    BY <2>3, Zenon
  <2> QED
    BY <1>7, <2>1, <2>2, <2>4, <2>5, Zenon
<1>9. ASSUME UNCHANGED still, UNCHANGED <<input, feed, proc, cut>>, client' # "dial",
             client = "dial" \/ serverOpen' = serverOpen
      PROVE  InputInv'
  <2>1. Intact' => Intact
    BY <1>9, Zenon DEF Intact
  <2>2. proc' \in {"none", "running", "exited"} /\ (input' # "off" => proc' # "none")
    BY <1>9, Zenon DEF InputInv
  <2> QED
    BY <1>9, <2>1, <2>2, InputCarry, Zenon
<1>10. CASE Dial \/ DialFails \/ CallAccepted \/ CallFails \/ FirstPayload \/ FirstFails
  <2>1. UNCHANGED still /\ UNCHANGED <<input, feed, proc, cut>>
    BY <1>10, ZenonT(40) DEF Dial, DialFails, CallAccepted, CallFails, FirstPayload, FirstFails, Receive1
  <2>2. client = "dial" \/ serverOpen' = serverOpen
    BY <1>10, Zenon DEF Dial, DialFails, CallAccepted, CallFails, FirstPayload, FirstFails, Receive1
  <2>3. client' \in {"call", "failed", "first", Outputs[1]}
    BY <1>10, ZenonT(40) DEF Dial, DialFails, CallAccepted, CallFails, FirstPayload, FirstFails
  <2>4. client' # "dial"
    BY <2>3, OutputsAssumption, SMTT(40)
  <2> QED
    BY <1>9, <2>1, <2>2, <2>4, Zenon
<1>11. ASSUME NEW r \in Readers, NotWanted(r) \/ OpenOutput(r) \/ OpenOutputFails(r)
       PROVE  InputInv'
  <2>1. UNCHANGED still /\ UNCHANGED <<input, feed, proc, cut, serverOpen>>
        /\ client' \in {After(r), "returned"}
    BY <1>11, Zenon DEF NotWanted, OpenOutput, OpenOutputFails, GoesOn
  <2>2. After(r) \in Readers \cup {"returned"}
    BY AfterOutput, OutputsAssumption, ZenonT(40)
  <2>3. client' # "dial"
    BY <2>1, <2>2, OutputsAssumption, ZenonT(40)
  <2> QED
    BY <1>9, <2>1, <2>3, Zenon
<1>12. CASE \/ WaitDecodes \/ Exited \/ InputFails
            \/ \E r \in Readers : CopyFails(r) \/ OutputStep(r)
  <2>1. UNCHANGED still
    BY <1>12, ZenonT(40) DEF WaitDecodes, Exited, InputFails, Receive1, CopyFails, OutputStep, ServeOutput, Served,
                        CopyEnds
  <2>2. UNCHANGED <<input, feed, client, clientOpen, cut, serverOpen, proc>>
    BY <1>12, ZenonT(40) DEF WaitDecodes, Exited, InputFails, Receive1, CopyFails, OutputStep, ServeOutput, Served,
                        CopyEnds
  <2> QED
    BY <1>7, <2>1, <2>2, ZenonT(40)
<1>13. CASE CloseConns
  <2>1. UNCHANGED still /\ UNCHANGED <<input, feed, client, cut, serverOpen, proc>> /\ clientOpen' = FALSE
    BY <1>13, Zenon DEF CloseConns
  <2>2. /\ Intact' => Intact
        /\ proc' \in {"none", "running", "exited"} /\ (input' # "off" => proc' # "none")
    BY <2>1, ZenonT(40) DEF InputInv, Intact
  <2> QED
    BY <2>1, <2>2, InputCarry, Zenon
<1> QED
  BY <1>1, <1>2, <1>3, <1>4, <1>5, <1>6, <1>8, <1>10, <1>11, <1>12, <1>13, ZenonT(40)
  DEF SessionNext, ServerMoves, ClientMoves, ClientStep

\* It holds at first.
LEMMA InputStarts ==
  ASSUME SessionInit
  PROVE  InputInv
<1>1. /\ up = <<>> /\ sent = 0 /\ controls = 0 /\ readIn = <<>> /\ applied = <<>> /\ input = "off"
      /\ clientOpen = FALSE /\ proc \in {"none", "running"}
  BY ZenonT(40) DEF SessionInit, ServerInit
<1>2. Numbered("data", <<>>, 0, 0) /\ Numbered("control", <<>>, 0, 0)
  BY SMTT(40) DEF Numbered, Consecutive
<1>3. Full("data", <<>>, 0, 0) /\ Full("control", <<>>, 0, 0)
  BY DEF Full, Covers
<1>4. /\ <<>> \in Seq(Nat) /\ Len(<<>>) = 0
      /\ <<>> = [i \in 1 .. Len(<<>>) |-> i]
  BY SMTT(40)
<1>5. Taken = 0
  BY <1>1, SMTT(40) DEF Taken
<1>6. InputInOrder
  BY <1>1, <1>4, SMTT(40) DEF InputInOrder
<1> QED
  BY <1>1, <1>2, <1>3, <1>4, <1>5, <1>6, ZenonT(40) DEF InputInv

\* The process reads what the client sent, and gets its signals, in order and with none left
\* out, for any amount of either, whatever the network loses and whoever stops first
\* (request_handling.go:1000-1060, process_stream.go).
THEOREM InputKeepsOrder == SessionSpec => []InputInOrder
<1>1. SessionInit => EofInv /\ InputInv
  BY InputStarts, EofStarts, ZenonT(40)
<1>2. EofInv /\ InputInv /\ [SessionNext]_sessionVars => (EofInv /\ InputInv)'
  BY EofNext, InputNext, ZenonT(40)
<1>3. InputInv => InputInOrder
  BY DEF InputInv
<1> QED
  BY <1>1, <1>2, <1>3, PTL DEF SessionSpec
-----------------------------------------------------------------------------
(***************************************************************************)
(* The session as a whole: seen through garden.Process it is LocalProcess. *)
(***************************************************************************)

\* The streamer hands on what was written, in order, in a session too.
LEMMA SessionInOrder ==
  ASSUME StreamerType, OrderInv, [SessionNext]_sessionVars
  PROVE  OrderInv'
<1>1. CASE [Next]_vars
  BY <1>1, NextInOrder, ZenonT(40)
<1>2. ASSUME NEW r \in Readers, CopyFails(r)
      PROVE  OrderInv'
  <2>1. UNCHANGED <<wrote, ch, pipe, hand, got>>
    BY <1>2, Zenon DEF CopyFails, pipeVars
  <2> QED
    BY <2>1, OrderStays, Zenon
<1> QED
  BY <1>1, <1>2, StreamSteps, Zenon

\* Nothing of the session exists before its stream does, but for an answer that refuses it.
NotBegun ==
  /\ handler \in {"start", "ended"} /\ input = "off"
  /\ client \in {"dial", "call", "failed"} /\ source = "none" /\ waiter = "none"
  /\ down \in Seq({Refused})

BegunInv == stream = "no" => NotBegun

\* What streamHandler.wait will return is a status or an error, never both.
PendingInv ==
  pending \in {NotDone, Result(0, "process"), Result(0, "decode")} \cup {Result(s, "none") : s \in Statuses}

\* The client connects to the outputs that its caller wants, and to no other.
ServedInv ==
  /\ conns \subseteq wants \cup {"main"}
  /\ \A r \in Readers : reader[r] # "none" => r \in wants

\* A stream that there is does not go back to not being there.
LEMMA StreamStays ==
  ASSUME [SessionNext]_sessionVars, stream' = "no"
  PROVE  stream = "no"
<1>1. CASE [Next]_vars
  BY <1>1, ZenonT(40) DEF Next, vars, Write, Stream, Stop, Delete, Load, ReaderStep, Receive, WriteOut,
                     WriteFails, SeeDone, DrainReceive, DrainWrite, DrainEnds, Take, Put, PutFails
<1>2. CASE \E r \in Readers : CopyFails(r)
  BY <1>2, ZenonT(40) DEF CopyFails
<1> QED
  BY <1>1, <1>2, StreamSteps, ZenonT(40)

\* Each step keeps BegunInv.
LEMMA BegunNext ==
  ASSUME BegunInv, [SessionNext]_sessionVars
  PROVE  BegunInv'
<1> DEFINE seen == <<handler, input, client, source, waiter, down>>
<1> USE DEF serverVars, Handler, Input, Conn, ServerUnchanged, ClientUnchanged, clientVars, inputVars, waitVars
<1>1. SUFFICES ASSUME stream' = "no"
               PROVE  NotBegun'
  BY SMTT(40) DEF BegunInv
<1>2. stream = "no" /\ NotBegun
  BY <1>1, StreamStays, ZenonT(40) DEF BegunInv
<1>3. ASSUME UNCHANGED seen
      PROVE  NotBegun'
  BY <1>2, <1>3, ZenonT(40) DEF NotBegun
<1>4. CASE Run \/ Attach \/ DeleteStream
  BY <1>1, <1>2, <1>4, Zenon DEF Run, Attach, Begin, Stream, DeleteStream, Delete
<1>5. CASE StartFails /\ ClientUnchanged
  <2>1. /\ handler' = "ended" /\ UNCHANGED <<input, client, source, waiter>>
        /\ down' = down \/ down' = down \o <<Refused>>
    BY <1>5, ZenonT(40) DEF StartFails, SendDown
  <2>2. down' \in Seq({Refused})
    BY <1>2, <2>1, SMTT(40) DEF NotBegun
  <2> QED
    BY <1>2, <2>1, <2>2, ZenonT(40) DEF NotBegun
<1>6. ~(SelectExited \/ SelectStopping \/ SelectConnClosed \/ Deferred)
  <2>1. handler # "select" /\ handler # "return"
    BY <1>2, ZenonT(40) DEF NotBegun
  <2> QED
    BY <2>1, Zenon DEF SelectExited, SelectStopping, SelectConnClosed, Deferred
<1>7. ~(InputStep \/ InputWritten)
  <2>1. input # "decode" /\ input # "write"
    BY <1>2, ZenonT(40) DEF NotBegun
  <2> QED
    BY <2>1, ZenonT(40) DEF InputStep, InputError, InputControl, InputEof, InputUnknown, InputData,
                       InputWriteFails, InputWritten, Decode
<1>8. CASE \/ (ServerStops \/ \E p \in Pipes : ProcessWrites(p)) /\ ClientUnchanged
           \/ (\E e \in Statuses \cup {WaitError} : ProcessExits(e)) /\ ClientUnchanged
           \/ (\E r \in Readers : CopyFails(r) \/ OutputStep(r))
           \/ UNCHANGED sessionVars
  <2>1. UNCHANGED seen
    BY <1>8, ZenonT(40) DEF ServerStops, ProcessWrites, ProcessExits, CopyFails, OutputStep, ServeOutput,
                       Served, CopyEnds, sessionVars
  <2> QED
    BY <1>3, <2>1, ZenonT(40)
<1>9. CASE Dial \/ DialFails
  BY <1>2, <1>9, ZenonT(40) DEF Dial, DialFails, NotBegun
<1>10. ~CallAccepted /\ ~FirstPayload /\ ~FirstFails
  <2>1. client # "first"
    BY <1>2, ZenonT(40) DEF NotBegun
  <2>2. down # <<>> => Head(down) # Accepted
    <3>1. down # <<>> => Head(down) = Refused
      BY <1>2, SMTT(40) DEF NotBegun
    <3>2. Refused # Accepted
      BY ZenonT(40) DEF Refused, Accepted
    <3> QED
      BY <3>1, <3>2, ZenonT(40)
  <2> QED
    BY <2>1, <2>2, ZenonT(40) DEF CallAccepted, Receive1, FirstPayload, FirstFails
<1>11. CASE CallFails
  <2>1. /\ client' = "failed" /\ UNCHANGED <<handler, input, source, waiter>>
        /\ down' = down \/ (down # <<>> /\ down' = Tail(down))
    BY <1>11, ZenonT(40) DEF CallFails, Receive1
  <2>2. down' \in Seq({Refused})
    BY <1>2, <2>1, SMTT(40) DEF NotBegun
  <2> QED
    BY <1>2, <2>1, <2>2, Zenon DEF NotBegun
<1>12. ~(\E r \in Readers : NotWanted(r) \/ OpenOutput(r) \/ OpenOutputFails(r))
  <2>1. client \notin Readers
    BY <1>2, OutputsAssumption, ZenonT(40) DEF NotBegun
  <2> QED
    BY <2>1, ZenonT(40) DEF NotWanted, OpenOutput, OpenOutputFails
<1>13. ~(WaitDecodes \/ Exited \/ CloseConns)
  <2>1. waiter \notin {"decode", "join", "close"}
    BY <1>2, ZenonT(40) DEF NotBegun
  <2> QED
    BY <2>1, ZenonT(40) DEF WaitDecodes, Exited, CloseConns
<1>14. ~(SendInput \/ SendEof \/ InputFails \/ SendControl \/ SendUnknown)
  <2>1. source # "copy" /\ client # "returned"
    BY <1>2, ZenonT(40) DEF NotBegun
  <2> QED
    BY <2>1, ZenonT(40) DEF SendInput, SendEof, InputFails, SendControl, SendUnknown
<1>15. CASE Cut
  <2>1. UNCHANGED <<handler, input, client, source, waiter>>
    BY <1>15, Zenon DEF Cut
  <2>2. \E j \in 0 .. Len(down) : down' = SubSeq(down, 1, j)
    BY <1>15, ZenonT(40) DEF Cut
  <2>3. down' \in Seq({Refused})
    BY <1>2, <2>2, SMTT(40) DEF NotBegun
  <2> QED
    BY <1>2, <2>1, <2>3, ZenonT(40) DEF NotBegun
<1> QED
  BY <1>4, <1>5, <1>6, <1>7, <1>8, <1>9, <1>10, <1>11, <1>12, <1>13, <1>14, <1>15, ZenonT(40)
  DEF SessionNext, ServerMoves, ClientMoves, ClientStep, InputStep

\* Each step keeps PendingInv.
LEMMA PendingNext ==
  ASSUME PendingInv, [SessionNext]_sessionVars
  PROVE  PendingInv'
<1>1. CASE WaitDecodes
  BY <1>1, ZenonT(40) DEF PendingInv, WaitDecodes
<1>2. pending' = pending \/ WaitDecodes
  BY ZenonT(40) DEF SessionNext, ServerMoves, ClientUnchanged, DeleteStream, Cut, OutputStep, ServeOutput,
               Served, CopyEnds, CopyFails, ClientMoves, ClientStep, Dial, DialFails, CallAccepted,
               CallFails, FirstPayload, FirstFails, NotWanted, OpenOutput, OpenOutputFails, Exited,
               CloseConns, SendInput, SendEof, InputFails, SendControl, SendUnknown, sessionVars,
               clientVars, waitVars
<1> QED
  BY <1>1, <1>2, Zenon DEF PendingInv

\* Each step keeps ServedInv.
LEMMA ServedNext ==
  ASSUME TypeOK, ServedInv, [SessionNext]_sessionVars
  PROVE  ServedInv'
<1>1. wants' = wants
  BY ZenonT(40) DEF SessionNext, ServerMoves, ClientUnchanged, DeleteStream, Cut, OutputStep, ServeOutput,
               Served, CopyEnds, CopyFails, ClientMoves, ClientStep, Dial, DialFails, CallAccepted,
               CallFails, FirstPayload, FirstFails, NotWanted, OpenOutput, OpenOutputFails, WaitDecodes,
               Exited, CloseConns, SendInput, SendEof, InputFails, SendControl, SendUnknown,
               sessionVars, clientVars
<1>2. \/ conns' = conns \/ conns' = {"main"} \/ conns' = {}
      \/ \E r \in wants : conns' \subseteq conns \cup {r}
  BY ZenonT(40) DEF SessionNext, ServerMoves, ClientUnchanged, DeleteStream, Cut, OutputStep, ServeOutput,
               Served, CopyEnds, CopyFails, ClientMoves, ClientStep, Dial, DialFails, CallAccepted,
               CallFails, FirstPayload, FirstFails, NotWanted, OpenOutput, OpenOutputFails, WaitDecodes,
               Exited, CloseConns, SendInput, SendEof, InputFails, SendControl, SendUnknown,
               sessionVars, clientVars
<1>3. conns' \subseteq wants' \cup {"main"}
  BY <1>1, <1>2, ZenonT(40) DEF ServedInv
<1>4. reader \in [Readers -> {"none", "select", "write", "drain", "drainwrite", "returned", "missed"}]
  BY DEF TypeOK
<1>5. \/ reader' = reader
      \/ \E r \in Readers : ServeOutput(r) \/ Served(r)
  <2>1. CASE ServerMoves
    BY <2>1, ZenonT(40) DEF ServerMoves, Run, Attach, Begin, Stream, StartFails, SelectExited, SelectStopping,
         SelectConnClosed, Deferred, Stop, InputError, InputControl, InputEof, InputUnknown, InputData,
         InputWritten, InputWriteFails, ServerStops, ProcessWrites, Write, ProcessExits, DeleteStream,
         Delete, streamVars, readerVars
  <2>2. CASE ClientMoves \/ Cut \/ UNCHANGED sessionVars
    BY <2>2, Zenon DEF ClientMoves, ClientStep, Dial, DialFails, CallAccepted, CallFails, FirstPayload,
         FirstFails, NotWanted, OpenOutput, OpenOutputFails, WaitDecodes, Exited, CloseConns, SendInput,
         SendEof, InputFails, SendControl, SendUnknown, CopyFails, Cut, ServerUnchanged, sessionVars,
         streamVars, readerVars
  <2>3. CASE \E r \in Readers : CopyEnds(r)
    BY <2>3, Zenon DEF CopyEnds, ServerUnchanged, streamVars, readerVars
  <2> QED
    BY <2>1, <2>2, <2>3, ZenonT(40) DEF SessionNext, OutputStep
<1>6. ASSUME NEW r \in Readers, ServeOutput(r) \/ Served(r)
      PROVE  r \in wants /\ \E to : reader' = [reader EXCEPT ![r] = to]
  <2>1. \E to : reader' = [reader EXCEPT ![r] = to]
    BY <1>6, Zenon DEF ServeOutput, Served, Load, ReaderStep, Receive, WriteOut, WriteFails, SeeDone,
                       DrainReceive, DrainWrite, DrainEnds, At
  <2>2. r \in conns \/ reader[r] # "none"
    BY <1>6, ZenonT(40) DEF ServeOutput, Served, ReaderStep, Receive, WriteOut, WriteFails, SeeDone,
                       DrainReceive, DrainWrite, DrainEnds, At
  <2>3. r # "main"
    BY OutputsAssumption, SMTT(40)
  <2> QED
    BY <2>1, <2>2, <2>3, Zenon DEF ServedInv
<1>7. \A r \in Readers : reader'[r] # "none" => r \in wants
  BY <1>4, <1>5, <1>6, Zenon DEF ServedInv
<1> QED
  BY <1>1, <1>3, <1>7, ZenonT(40) DEF ServedInv

\* What LocalProcess sees of the session, apart from whether it has begun and which outputs
\* are unbroken.
callerVars == <<sent, controls, saidEof, wants, result>>
outputVars == <<wrote, got>>

SameSession == (stream' # "no") = (stream # "no")
LocalStep == [Local!LocalNext]_(Local!localVars)

\* A step that changes none of this is a stutter of LocalProcess.
LEMMA LocalStutter ==
  ASSUME UNCHANGED Process, UNCHANGED callerVars, UNCHANGED outputVars, SameSession, Unbroken' = Unbroken
  PROVE  LocalStep
BY Zenon DEF Process, callerVars, outputVars, SameSession, LocalStep, Local!localVars

\* An output stays unbroken while its reader and its connection stay as they are.
LEMMA UnbrokenStays ==
  ASSUME UNCHANGED <<wants, broken, reader>>
  PROVE  Unbroken' = Unbroken
BY Zenon DEF Unbroken

\* The handler starts the session, or refuses it.
LEMMA LocalStarts ==
  ASSUME EofInv, ServerTypeOK, (Run \/ Attach \/ StartFails), UNCHANGED clientVars
  PROVE  LocalStep
<1> USE DEF clientVars, inputVars, waitVars, Process, streamVars, pipeVars, readerVars, Input
<1>1. UNCHANGED callerVars /\ UNCHANGED outputVars
  BY Zenon DEF Run, Attach, Begin, Stream, StartFails, callerVars, outputVars
<1>2. UNCHANGED <<wants, broken, reader>>
  BY Zenon DEF Run, Attach, Begin, Stream, StartFails
<1>3. Unbroken' = Unbroken
  BY <1>2, UnbrokenStays, SMTT(40)
<1>4. stream = "no" /\ stdin = "open"
  BY Zenon DEF EofInv, Run, Attach, StartFails
<1>5. CASE Run \/ Attach
  <2>1. /\ stream' = "stored" /\ proc # "exited" /\ proc' = "running"
        /\ UNCHANGED <<exit, stdin, readIn, applied>>
    BY <1>5, Zenon DEF Run, Attach, Begin, Stream
  <2>2. stream' # "no"
    BY <2>1
  <2>3. Local!Begin
    BY <1>1, <1>3, <1>4, <2>1, <2>2, Zenon DEF Local!Begin, callerVars, outputVars
  <2> QED
    BY <2>3, Zenon DEF LocalStep, Local!LocalNext
<1>6. CASE StartFails
  <2>1. stdin' = "closed" /\ UNCHANGED <<stream, proc, exit, readIn, applied>>
    BY <1>4, <1>6, Zenon DEF StartFails, ClosePipe
  <2>2. Local!Refuse
    BY <1>1, <1>3, <1>4, <2>1, ZenonT(40) DEF Local!Refuse, callerVars, outputVars
  <2> QED
    BY <2>2, Zenon DEF LocalStep, Local!LocalNext
<1> QED
  BY <1>5, <1>6, ZenonT(40)

\* The handler hears of the end of the process, or ends for another reason.
LEMMA LocalHandler ==
  ASSUME BegunInv,
         \/ SelectExited \/ SelectStopping \/ SelectConnClosed \/ Deferred \/ ServerStops,
         UNCHANGED clientVars
  PROVE  LocalStep
<1> USE DEF clientVars, inputVars, waitVars, Process, streamVars, pipeVars, readerVars, Input
<1>1. UNCHANGED callerVars /\ UNCHANGED outputVars
  BY Zenon DEF SelectExited, SelectStopping, SelectConnClosed, Deferred, Stop, ServerStops, callerVars,
               outputVars
<1>2. UNCHANGED <<wants, broken, reader>> /\ UNCHANGED <<stream, proc, exit, readIn, applied>>
  BY Zenon DEF SelectExited, SelectStopping, SelectConnClosed, Deferred, Stop, ServerStops
<1>3. Unbroken' = Unbroken
  BY <1>2, UnbrokenStays, ZenonT(40)
<1>4. CASE UNCHANGED stdin
  BY <1>1, <1>2, <1>3, <1>4, LocalStutter, ZenonT(40) DEF SameSession
<1>5. CASE SelectExited /\ stdin = "open"
  <2>1. stream # "no" /\ stdin' = "closed" /\ proc = "exited"
    BY <1>5, Zenon DEF SelectExited, ClosePipe, BegunInv, NotBegun
  <2>2. Local!InputEnds
    BY <1>1, <1>2, <1>3, <1>5, <2>1, ZenonT(40) DEF Local!InputEnds, callerVars, outputVars
  <2> QED
    BY <2>2, Zenon DEF LocalStep, Local!LocalNext
<1>6. UNCHANGED stdin \/ (SelectExited /\ stdin = "open")
  BY Zenon DEF SelectExited, SelectStopping, SelectConnClosed, Deferred, Stop, ServerStops, ClosePipe
<1> QED
  BY <1>4, <1>5, <1>6, ZenonT(40)

\* streamInput: the next piece or signal reaches the process, or its input ends.
LEMMA LocalInput ==
  ASSUME EofInv, InputInv, InputInv', BegunInv, InputStep \/ InputWritten, UNCHANGED clientVars
  PROVE  LocalStep
<1> USE DEF clientVars, inputVars, waitVars, Process, streamVars, pipeVars, readerVars, Input, Handler
<1>1. UNCHANGED callerVars /\ UNCHANGED outputVars
  BY Zenon DEF InputStep, InputError, InputControl, InputEof, InputUnknown, InputData, InputWriteFails,
               InputWritten, callerVars, outputVars
<1>2. UNCHANGED <<wants, broken, reader>> /\ UNCHANGED <<stream, proc, exit>> /\ input # "off"
  BY Zenon DEF InputStep, InputError, InputControl, InputEof, InputUnknown, InputData, InputWriteFails,
               InputWritten, Decode
<1>3. Unbroken' = Unbroken
  BY <1>2, UnbrokenStays, ZenonT(40)
<1>4. stream # "no"
  BY <1>2, ZenonT(40) DEF BegunInv, NotBegun
<1>5. CASE UNCHANGED <<stdin, readIn, applied>>
  BY <1>1, <1>2, <1>3, <1>5, LocalStutter, ZenonT(40) DEF SameSession
<1>6. CASE InputWritten
  <2>1. proc = "running" /\ stdin = "open" /\ readIn' = Append(readIn, feed) /\ UNCHANGED <<stdin, applied>>
    BY <1>6, Zenon DEF InputWritten
  <2>2. feed = Len(readIn) + 1 /\ Len(readIn) < sent
    <3>1. input = "write" /\ Taken =< sent /\ feed = Len(readIn) + 1
      BY <1>6, ZenonT(40) DEF InputWritten, InputInv
    <3>2. Taken = Len(readIn) + 1 /\ Len(readIn) \in Nat /\ sent \in Nat
      BY <3>1, SMTT(40) DEF Taken, InputInv, EofInv
    <3> QED
      BY <3>1, <3>2, SMTT(40)
  <2>3. Local!Reads
    BY <1>1, <1>2, <1>3, <1>4, <2>1, <2>2, Zenon DEF Local!Reads, callerVars, outputVars
  <2> QED
    BY <2>3, Zenon DEF LocalStep, Local!LocalNext
<1>7. CASE InputControl /\ proc = "running"
  <2> DEFINE n == Head(up).control
  <2>1. applied' = Append(applied, n) /\ UNCHANGED <<stdin, readIn>> /\ UNCHANGED controls
    BY <1>1, <1>7, Zenon DEF InputControl, callerVars
  <2>2. n = Len(applied) + 1 /\ Len(applied) < controls
    <3>1. applied \in Seq(Nat) /\ controls \in Nat
      BY DEF InputInv, EofInv
    <3>2. applied' = [i \in 1 .. Len(applied') |-> i] /\ Len(applied') =< controls
      BY <2>1, Zenon DEF InputInv, InputInOrder
    <3> HIDE DEF n
    <3>3. Len(applied') = Len(applied) + 1 /\ applied'[Len(applied) + 1] = n
      BY <2>1, <3>1
    <3> QED
      BY <3>1, <3>2, <3>3, SMTT(40)
  <2> HIDE DEF n
  <2>3. Local!Signalled
    BY <1>1, <1>2, <1>3, <1>4, <1>7, <2>1, <2>2, Zenon DEF Local!Signalled, callerVars, outputVars
  <2> QED
    BY <2>3, Zenon DEF LocalStep, Local!LocalNext
<1>8. CASE (InputEof \/ InputUnknown) /\ stdin = "open"
  <2>1. stdin' = "closed" /\ UNCHANGED <<readIn, applied>>
    BY <1>8, ZenonT(40) DEF InputEof, InputUnknown, ClosePipe
  <2>2. saidEof
    <3>1. up # <<>> /\ (Is(Head(up), "eof") \/ Is(Head(up), "unknown"))
      BY <1>8, Zenon DEF InputEof, InputUnknown, Decode
    <3>2. Head(up) \in Sound
      BY <3>1, SMTT(40) DEF EofInv
    <3>3. Head(up) \notin [data : Positive] /\ Head(up) \notin [control : Positive]
      BY <3>1 DEF Is
    <3> QED
      BY <3>2, <3>3 DEF Sound
  <2>3. Local!InputEnds
    BY <1>1, <1>2, <1>3, <1>4, <1>8, <2>1, <2>2, Zenon DEF Local!InputEnds, callerVars, outputVars
  <2> QED
    BY <2>3, Zenon DEF LocalStep, Local!LocalNext
<1>9. CASE InputError /\ stdin = "open"
  <2>1. stdin' = "broken" /\ UNCHANGED <<readIn, applied>>
    BY <1>9, Zenon DEF InputError, ClosePipe
  <2>2. Local!InputBreaks
    BY <1>1, <1>2, <1>3, <1>4, <1>9, <2>1, Zenon DEF Local!InputBreaks, callerVars, outputVars
  <2> QED
    BY <2>2, Zenon DEF LocalStep, Local!LocalNext
<1>10. \/ UNCHANGED <<stdin, readIn, applied>> \/ InputWritten
       \/ InputControl /\ proc = "running"
       \/ (InputEof \/ InputUnknown \/ InputError) /\ stdin = "open"
  BY Zenon DEF InputStep, InputError, InputControl, InputEof, InputUnknown, InputData, InputWriteFails,
               ClosePipe
<1> QED
  BY <1>5, <1>6, <1>7, <1>8, <1>9, <1>10, ZenonT(40)

\* The process writes or exits; the stream is deleted.
LEMMA LocalRuns ==
  ASSUME \/ \E p \in Pipes : ProcessWrites(p)
         \/ \E e \in Statuses \cup {WaitError} : ProcessExits(e)
         \/ DeleteStream,
         UNCHANGED clientVars
  PROVE  LocalStep
<1> USE DEF clientVars, inputVars, waitVars, Process, streamVars, pipeVars, readerVars, serverVars
<1>1. UNCHANGED callerVars /\ UNCHANGED <<wants, broken, reader, got, stdin, readIn, applied>>
  BY Zenon DEF ProcessWrites, Write, ProcessExits, DeleteStream, Delete, callerVars
<1>2. Unbroken' = Unbroken
  BY <1>1, UnbrokenStays, SMTT(40)
<1>3. ASSUME NEW p \in Pipes, ProcessWrites(p)
      PROVE  LocalStep
  <2>1. proc = "running" /\ wrote' = [wrote EXCEPT ![p] = @ + 1] /\ UNCHANGED <<stream, proc, exit>>
    BY <1>3, Zenon DEF ProcessWrites, Write
  <2>2. Local!Writes(p)
    BY <1>1, <1>2, <2>1, Zenon DEF Local!Writes, callerVars
  <2> QED
    BY <2>2, SessionAssumption, Zenon DEF LocalStep, Local!LocalNext
<1>4. ASSUME NEW e \in Statuses \cup {WaitError}, ProcessExits(e)
      PROVE  LocalStep
  <2>1. proc = "running" /\ proc' = "exited" /\ exit' = e /\ UNCHANGED <<stream, wrote>>
    BY <1>4, Zenon DEF ProcessExits
  <2>2. Local!Exits(e)
    BY <1>1, <1>2, <2>1, Zenon DEF Local!Exits, callerVars
  <2>3. e \in Statuses \cup {Local!WaitError}
    BY Zenon DEF WaitError, Local!WaitError
  <2> QED
    BY <2>2, <2>3, Zenon DEF LocalStep, Local!LocalNext
<1>5. CASE DeleteStream
  <2>1. stream = "stored" /\ stream' = "deleted" /\ UNCHANGED <<proc, exit, wrote>>
    BY <1>5, Zenon DEF DeleteStream, Delete
  <2>2. SameSession
    BY <2>1 DEF SameSession
  <2> QED
    BY <1>1, <1>2, <2>1, <2>2, LocalStutter, Zenon DEF outputVars
<1> QED
  BY <1>3, <1>4, <1>5, SMTT(40)

\* Steps of the client that the caller does not see.
LEMMA LocalQuiet ==
  ASSUME \/ Dial \/ DialFails \/ CallAccepted \/ CallFails \/ FirstPayload \/ FirstFails \/ WaitDecodes
         \/ CloseConns \/ InputFails \/ Cut
         \/ \E r \in Readers : NotWanted(r) \/ OpenOutput(r) \/ CopyEnds(r)
         \/ UNCHANGED sessionVars
  PROVE  LocalStep
<1> USE DEF clientVars, inputVars, waitVars, Process, streamVars, pipeVars, readerVars, serverVars,
            ServerUnchanged, sessionVars
<1>1. UNCHANGED callerVars
  BY Zenon DEF Dial, DialFails, CallAccepted, CallFails, FirstPayload, FirstFails, WaitDecodes, CloseConns,
               InputFails, Cut, NotWanted, OpenOutput, CopyEnds, callerVars
<1>2. UNCHANGED Process /\ UNCHANGED outputVars /\ UNCHANGED <<stream, broken, reader>>
  BY Zenon DEF Dial, DialFails, CallAccepted, CallFails, FirstPayload, FirstFails, WaitDecodes, CloseConns,
               InputFails, Cut, NotWanted, OpenOutput, CopyEnds, outputVars
<1>3. Unbroken' = Unbroken
  BY <1>1, <1>2, UnbrokenStays, Zenon DEF callerVars
<1>4. SameSession
  BY <1>2, Zenon DEF SameSession
<1> QED
  BY <1>1, <1>2, <1>3, <1>4, LocalStutter, ZenonT(40)

\* The caller sends input, the end of it, or a signal.
LEMMA LocalSends ==
  ASSUME BegunInv, EofInv, SendInput \/ SendEof \/ SendControl \/ SendUnknown
  PROVE  LocalStep
<1> USE DEF waitVars, Process, streamVars, pipeVars, readerVars, serverVars, ServerUnchanged
<1>1. UNCHANGED <<wants, result, proc, exit, stdin, readIn, applied, wrote, got, stream, broken, reader>>
  BY Zenon DEF SendInput, SendEof, SendControl, SendUnknown
<1>2. Unbroken' = Unbroken
  BY <1>1, UnbrokenStays
<1>3. stream # "no"
  <2>1. source = "copy" \/ client = "returned"
    BY Zenon DEF SendInput, SendEof, SendControl, SendUnknown
  <2> QED
    BY <2>1 DEF BegunInv, NotBegun
<1>4. \/ sent' = sent + 1 /\ UNCHANGED <<controls, saidEof>>
      \/ controls' = controls + 1 /\ saidEof' \in {saidEof, TRUE} /\ UNCHANGED sent
      \/ saidEof' = TRUE /\ UNCHANGED <<sent, controls>>
  BY Zenon DEF SendInput, SendEof, SendControl, SendUnknown
<1>5. Local!Sends
  BY <1>1, <1>2, <1>3, <1>4, Zenon DEF Local!Sends
<1> QED
  BY <1>5, Zenon DEF LocalStep, Local!LocalNext

\* Run gives up on an output, and the process has failed as far as the caller knows.
LEMMA LocalOpenFails ==
  ASSUME BegunInv, OnceInv, NEW r \in Readers, OpenOutputFails(r)
  PROVE  LocalStep
<1> USE DEF inputVars, Process, streamVars, pipeVars, readerVars, serverVars, ServerUnchanged
<1>1. /\ UNCHANGED <<wants, proc, exit, stdin, readIn, applied, wrote, got, stream, broken, reader>>
      /\ UNCHANGED <<sent, controls, saidEof>>
      /\ client = r /\ result' = Result(0, "hijack")
  BY Zenon DEF OpenOutputFails
<1>2. Unbroken' = Unbroken
  BY <1>1, UnbrokenStays, ZenonT(40)
<1>3. client \in Readers /\ client \notin {"dial", "call", "failed", "returned"}
  BY <1>1, OutputsAssumption
<1>4. stream # "no" /\ result = NotDone
  BY <1>3, Zenon DEF BegunInv, NotBegun, OnceInv, Done
<1>5. result = Local!NotDone /\ result' = Local!Result(0, "hijack")
  BY <1>1, <1>4, Zenon DEF NotDone, Local!NotDone, Result, Local!Result
<1>6. Local!WaitFails
  BY <1>1, <1>2, <1>4, <1>5, Zenon DEF Local!WaitFails
<1> QED
  BY <1>6, Zenon DEF LocalStep, Local!LocalNext

\* The goroutine that waits tells the caller how the process ended, after all of its output.
LEMMA LocalExited ==
  ASSUME BegunInv, OnceInv, PendingInv, FaithInv, OutputBeforeWait', Exited
  PROVE  LocalStep
<1> USE DEF inputVars, Process, streamVars, pipeVars, readerVars, serverVars, ServerUnchanged
<1>1. /\ UNCHANGED <<wants, proc, exit, stdin, readIn, applied, wrote, got, stream, broken, reader>>
      /\ UNCHANGED <<sent, controls, saidEof>>
      /\ waiter = "join" /\ result' = pending
  BY Zenon DEF Exited
<1>2. Unbroken' = Unbroken
  BY <1>1, UnbrokenStays
<1>3. stream # "no" /\ result = NotDone
  BY <1>1, Zenon DEF BegunInv, NotBegun, OnceInv, Done
<1>4. result = Local!NotDone
  BY <1>3, Zenon DEF NotDone, Local!NotDone
<1>5. CASE pending = NotDone
  BY <1>1, <1>2, <1>3, <1>5, LocalStutter, Zenon DEF callerVars, outputVars, SameSession
<1>6. CASE pending = Result(0, "decode")
  <2>1. result' = Local!Result(0, "decode")
    BY <1>1, <1>6, Zenon DEF Result, Local!Result
  <2>2. Local!WaitFails
    BY <1>1, <1>2, <1>3, <1>4, <2>1, Zenon DEF Local!WaitFails
  <2> QED
    BY <2>2, Zenon DEF LocalStep, Local!LocalNext
<1>7. ASSUME NEW e \in Statuses \cup {WaitError},
             pending = IF e = WaitError THEN Result(0, "process") ELSE Result(e, "none")
      PROVE  LocalStep
  <2>1. pending.err \in {"none", "process"} /\ proc = "exited" /\ exit = e
    <3>1. CASE e = WaitError
      <4>1. pending.err = "process"
        BY <1>7, <3>1, ZenonT(40) DEF Result
      <4> QED
        BY <3>1, <4>1, ZenonT(40) DEF FaithInv, Reports
    <3>2. CASE e # WaitError
      <4>1. pending.err = "none" /\ pending.status = e
        BY <1>7, <3>2 DEF Result
      <4> QED
        BY <3>2, <4>1, ZenonT(40) DEF FaithInv, Reports
    <3> QED
      BY <3>1, <3>2, ZenonT(40)
  <2>2. result' = IF exit = Local!WaitError THEN Local!Result(0, "process") ELSE Local!Result(exit, "none")
    BY <1>1, <1>7, <2>1, Zenon DEF Result, Local!Result, WaitError, Local!WaitError
  <2>3. ASSUME NEW p \in Unbroken
        PROVE  Local!AllCame(p)
    <3>1. p \in wants /\ p \notin broken /\ reader[p] # "missed"
      BY <2>3, Zenon DEF Unbroken
    <3>2. result'.err \in {"none", "process"}
      BY <1>1, <2>1, Zenon
    <3> QED
      BY <1>1, <3>1, <3>2, Zenon DEF OutputBeforeWait, Local!AllCame
  <2>4. Local!WaitReports
    BY <1>1, <1>2, <1>3, <1>4, <2>1, <2>2, <2>3, Zenon DEF Local!WaitReports
  <2> QED
    BY <2>4, Zenon DEF LocalStep, Local!LocalNext
<1>8. CASE pending = Result(0, "process")
  BY <1>7, <1>8, Zenon
<1>9. ASSUME NEW s \in Statuses, pending = Result(s, "none")
      PROVE  LocalStep
  <2>1. s # WaitError
    BY SessionAssumption DEF WaitError
  <2> QED
    BY <1>7, <1>9, <2>1, Zenon
<1> QED
  BY <1>5, <1>6, <1>8, <1>9, Zenon DEF PendingInv

\* An output breaks off when its connection does, or the stream is gone.
LEMMA LocalBreaks ==
  ASSUME ClientTypeOK, NEW r \in Readers, UNCHANGED Process, UNCHANGED callerVars, UNCHANGED outputVars,
         stream' = stream, \A s \in wants : s \in Unbroken' <=> s \in Unbroken /\ s # r
  PROVE  LocalStep
<1>1. Unbroken' = Unbroken \ {r} /\ Unbroken \subseteq wants
  BY Zenon DEF Unbroken, callerVars
<1>2. CASE r \in Unbroken
  <2>1. Local!BreaksOff(r)
    BY <1>1, <1>2, Zenon DEF Local!BreaksOff, Process, callerVars, outputVars
  <2> QED
    BY <1>1, <1>2, <2>1, Zenon DEF LocalStep, Local!LocalNext
<1>3. CASE r \notin Unbroken
  BY <1>1, <1>3, LocalStutter, Zenon DEF SameSession
<1> QED
  BY <1>2, <1>3

\* A reader that stays unbroken changes nothing of the others.
LEMMA ReaderKeepsUnbroken ==
  ASSUME TypeOK, wants \subseteq Readers, NEW r \in Readers, NEW to,
         reader' = [reader EXCEPT ![r] = to], reader[r] # "missed", UNCHANGED wants
  PROVE  /\ broken' = broken /\ to # "missed" => Unbroken' = Unbroken
         /\ broken' = broken \cup {r} \/ (broken' = broken /\ to = "missed") =>
              \A s \in wants : s \in Unbroken' <=> s \in Unbroken /\ s # r
<1>1. \A s \in Readers : reader'[s] = IF s = r THEN to ELSE reader[s]
  BY Zenon DEF TypeOK
<1>2. ASSUME broken' = broken, to # "missed"
      PROVE  Unbroken' = Unbroken
  <2>1. \A s \in wants : reader'[s] = "missed" <=> reader[s] = "missed"
    BY <1>1, <1>2, Zenon
  <2> QED
    BY <1>2, <2>1, Zenon DEF Unbroken
<1>3. ASSUME broken' = broken \cup {r} \/ (broken' = broken /\ to = "missed"), NEW s \in wants
      PROVE  s \in Unbroken' <=> s \in Unbroken /\ s # r
  <2>1. CASE s = r
    BY <1>1, <1>3, <2>1, Zenon DEF Unbroken
  <2>2. CASE s # r
    BY <1>1, <1>3, <2>2, Zenon DEF Unbroken
  <2> QED
    BY <2>1, <2>2
<1> QED
  BY <1>2, <1>3

\* The server's end of an output is opened and served, until one of its ends fails.
LEMMA LocalOutput ==
  ASSUME StreamerType, OrderInv, ClientTypeOK, OpenInv, ServedInv, NEW r \in Readers,
         ServeOutput(r) \/ Served(r) \/ CopyFails(r)
  PROVE  LocalStep
<1> USE DEF clientVars, inputVars, waitVars, streamVars, pipeVars, readerVars, serverVars
<1>1. UNCHANGED Process /\ UNCHANGED callerVars
  BY Zenon DEF ServeOutput, Served, CopyFails, callerVars
<1>2. TypeOK /\ wants \subseteq Readers /\ wants' = wants
  BY <1>1, Zenon DEF StreamerType, ClientTypeOK, callerVars
<1>3. UNCHANGED <<stream, wrote>>
  BY Zenon DEF ServeOutput, Load, Served, ReaderStep, Receive, WriteOut, WriteFails, SeeDone, DrainReceive,
               DrainWrite, DrainEnds, Take, Put, PutFails, CopyFails
<1>4. SameSession
  BY <1>3 DEF SameSession
<1>5. CASE CopyFails(r)
  <2>1. broken' = broken \cup {r} /\ UNCHANGED <<reader, got>>
    BY <1>5, Zenon DEF CopyFails
  <2>2. \A s \in wants : s \in Unbroken' <=> s \in Unbroken /\ s # r
    BY <1>2, <2>1, Zenon DEF Unbroken
  <2> QED
    BY <1>1, <1>3, <2>1, <2>2, LocalBreaks, Zenon DEF outputVars
<1>6. ASSUME NEW from, NEW to, At(r, from, to), from # "missed", to # "missed", UNCHANGED <<broken, got>>
      PROVE  LocalStep
  <2>1. Unbroken' = Unbroken
    BY <1>2, <1>6, ReaderKeepsUnbroken, Zenon DEF At
  <2> QED
    BY <1>1, <1>3, <1>4, <1>6, <2>1, LocalStutter, Zenon DEF outputVars
<1>7. ASSUME NEW from, NEW to, At(r, from, to), from # "missed", got' = got,
             broken' = broken \cup {r} \/ (broken' = broken /\ to = "missed")
      PROVE  LocalStep
  <2>1. \A s \in wants : s \in Unbroken' <=> s \in Unbroken /\ s # r
    BY <1>2, <1>7, ReaderKeepsUnbroken, Zenon DEF At
  <2> QED
    BY <1>1, <1>3, <1>7, <2>1, LocalBreaks, Zenon DEF outputVars
<1>8. ASSUME NEW from \in {"write", "drainwrite"}, NEW to \in {"select", "drain"}, At(r, from, to), Put(r)
      PROVE  LocalStep
  <2>1. from # "missed" /\ from # "none" /\ to # "missed"
    BY <1>8
  <2>2. /\ r \notin broken /\ broken' = broken /\ got' = [got EXCEPT ![r] = Append(@, hand[r])]
        /\ reader[r] = from /\ reader' = [reader EXCEPT ![r] = to]
    BY <1>8, Zenon DEF Put, At
  <2>3. Unbroken' = Unbroken
    BY <1>2, <2>1, <2>2, ReaderKeepsUnbroken, Zenon
  <2>4. r \in wants /\ r \in Unbroken
    BY <2>1, <2>2, Zenon DEF ServedInv, Unbroken
  <2>5. hand[r] \in 1 .. wrote[r] /\ \A i \in 1 .. Len(got[r]) : got[r][i] < hand[r]
    <3>1. pipe[r] = r /\ r \in Pipes
      BY SessionAssumption, Zenon DEF OpenInv
    <3>2. hand[r] # 0
      BY <1>8, <2>2, Zenon DEF StreamerType
    <3>3. hand[r] =< wrote[r] /\ \A i \in 1 .. Len(got[r]) : got[r][i] < hand[r]
      BY <3>1, <3>2, Zenon DEF OrderInv, TakenOrder
    <3>4. hand[r] \in Nat /\ wrote[r] \in Nat
      BY <1>2, <3>1, StreamerAssumption, SMTT(40) DEF TypeOK
    <3> QED
      BY <3>2, <3>3, <3>4
  <2>6. Local!Comes(r, hand[r])
    BY <1>1, <1>3, <2>2, <2>3, <2>4, <2>5, Zenon DEF Local!Comes, Process, callerVars
  <2> QED
    BY <2>4, <2>5, <2>6, Zenon DEF LocalStep, Local!LocalNext
<1>9. CASE ServeOutput(r)
  <2>1. UNCHANGED <<broken, got>> /\ (At(r, "none", "select") \/ At(r, "none", "missed"))
    BY <1>9, Zenon DEF ServeOutput, Load
  <2> QED
    BY <1>6, <1>7, <2>1, Zenon
<1>10. CASE Served(r)
  <2>1. CASE Receive(r) \/ SeeDone(r) \/ DrainReceive(r) \/ DrainEnds(r)
    <3>1. /\ UNCHANGED <<broken, got>>
          /\ \/ At(r, "select", "write") \/ At(r, "select", "drain") \/ At(r, "drain", "drainwrite")
             \/ At(r, "drain", "returned")
      BY <2>1, Zenon DEF Receive, SeeDone, DrainReceive, DrainEnds, Take
    <3> QED
      BY <1>6, <3>1, Zenon
  <2>2. CASE WriteOut(r) \/ WriteFails(r) \/ DrainWrite(r)
    <3>1. CASE Put(r) /\ (At(r, "write", "select") \/ At(r, "drainwrite", "drain"))
      BY <1>8, <3>1, Zenon
    <3>2. CASE PutFails(r) /\ (At(r, "write", "returned") \/ At(r, "drainwrite", "drain"))
      <4>1. got' = got /\ broken' = broken \cup {r}
        BY <3>2, Zenon DEF PutFails
      <4> QED
        BY <1>7, <3>2, <4>1, Zenon
    <3> QED
      BY <2>2, <3>1, <3>2, Zenon DEF WriteOut, WriteFails, DrainWrite
  <2> QED
    BY <1>10, <2>1, <2>2, Zenon DEF Served, ReaderStep
<1> QED
  BY <1>5, <1>9, <1>10, ZenonT(40)

\* The invariants on which the mapping rests.
LocalInv ==
  /\ WaitInv /\ FaithInv /\ EofInv /\ InputInv /\ OrderInv
  /\ BegunInv /\ PendingInv /\ ServedInv

\* Each step keeps them.
LEMMA LocalInvNext ==
  ASSUME LocalInv, [SessionNext]_sessionVars
  PROVE  LocalInv'
<1>1. StreamerType /\ TypeOK
  BY DEF LocalInv, WaitInv, StreamInv, StreamerType
<1> QED
  BY <1>1, WaitNext, FaithNext, EofNext, InputNext, SessionInOrder, BegunNext, PendingNext, ServedNext, ZenonT(40)
  DEF LocalInv

\* They hold at first, when LocalProcess is in its initial state.
LEMMA LocalStarting ==
  ASSUME SessionInit
  PROVE  LocalInv /\ Local!LocalInit
<1>1. /\ stream = "no" /\ handler = "start" /\ input = "off" /\ client = "dial" /\ source = "none"
      /\ waiter = "none" /\ down = <<>> /\ pending = NotDone /\ conns = {} /\ broken = {}
      /\ reader = [r \in Readers |-> "none"]
  BY DEF SessionInit, ServerInit, Init
<1>2. BegunInv /\ PendingInv /\ ServedInv
  <2>1. down \in Seq({Refused})
    BY <1>1
  <2> QED
    BY <1>1, <2>1, Zenon DEF BegunInv, NotBegun, PendingInv, ServedInv
<1>3. OrderInv
  <2>1. /\ pipe \in [Readers -> Pipes]
        /\ ch = [p \in Pipes |-> <<>>] /\ wrote = [p \in Pipes |-> 0]
        /\ got = [r \in Readers |-> <<>>] /\ hand = [r \in Readers |-> 0]
    BY Zenon DEF SessionInit, ServerInit, Init
  <2>2. 1 .. Len(<<>>) = {} /\ 0 =< 0
    BY SMTT(40)
  <2>3. \A p \in Pipes : 1 .. Len(ch[p]) = {} /\ wrote[p] = 0
    BY <2>1, <2>2, Zenon
  <2>4. \A r \in Readers : 1 .. Len(got[r]) = {} /\ hand[r] = 0 /\ pipe[r] \in Pipes
    BY <2>1, <2>2, Zenon
  <2>5. \A r \in Readers : hand[r] =< wrote[pipe[r]]
    BY <2>2, <2>3, <2>4, Zenon
  <2>6. ChannelOrder /\ DeliveredInOrder
    BY <2>3, <2>4, Zenon DEF ChannelOrder, DeliveredInOrder
  <2>7. TakenOrder /\ HandsApart
    BY <2>3, <2>4, <2>5, Zenon DEF TakenOrder, HandsApart
  <2> QED
    BY <2>6, <2>7, Zenon DEF OrderInv
<1>4. LocalInv
  BY <1>2, <1>3, WaitStarts, FaithStarts, EofStarts, InputStarts, SMTT(40) DEF LocalInv
<1>5. Unbroken = wants
  <2>1. wants \subseteq Readers
    BY Zenon DEF SessionInit
  <2>2. \A r \in wants : r \notin broken /\ reader[r] # "missed"
    BY <1>1, <2>1
  <2> QED
    BY <2>2, Zenon DEF Unbroken
<1>6. Local!LocalInit
  BY <1>1, <1>5, SessionAssumption, Zenon DEF SessionInit, ServerInit, Init, Local!LocalInit, NotExited,
     Local!NotExited, NotDone, Local!NotDone
<1> QED
  BY <1>4, <1>6, SMTT(40)

\* Every step of the session is a step of LocalProcess, or one that it does not see.
LEMMA SessionSteps ==
  ASSUME LocalInv, LocalInv', OutputBeforeWait', [SessionNext]_sessionVars
  PROVE  LocalStep
<1> USE DEF LocalInv, WaitInv, StreamInv
<1>1. CASE ServerMoves
  <2>1. UNCHANGED clientVars
    BY <1>1, Zenon DEF ServerMoves, ClientUnchanged, DeleteStream
  <2> QED
    BY <1>1, <2>1, LocalStarts, LocalHandler, LocalInput, LocalRuns, Zenon DEF ServerMoves, InputStep
<1>2. CASE ClientMoves
  BY <1>2, LocalQuiet, LocalSends, LocalOpenFails, LocalExited, LocalOutput, Zenon
  DEF ClientMoves, ClientStep
<1>3. CASE \E r \in Readers : OutputStep(r)
  BY <1>3, LocalQuiet, LocalOutput, Zenon DEF OutputStep
<1>4. CASE Cut \/ UNCHANGED sessionVars
  BY <1>4, LocalQuiet, Zenon
<1> QED
  BY <1>1, <1>2, <1>3, <1>4, Zenon DEF SessionNext

\* The caller of Run or Attach cannot tell the session from a process at hand, for any number
\* of outputs, pieces of input, signals and faults, except that the input or an output may
\* break off and that Wait may not know (connection.go:199-297, stream_handler.go, process.go,
\* request_handling.go:1000-1143, streamer.go).
THEOREM SessionIsLocal == SessionSpec => IsLocalProcess
<1>1. SessionInit => LocalInv /\ Local!LocalInit
  BY LocalStarting
<1>2. LocalInv /\ [SessionNext]_sessionVars => LocalInv'
  BY LocalInvNext
<1>3. LocalInv => OutputBeforeWait
  BY WaitMeans DEF LocalInv
<1>4. LocalInv /\ LocalInv' /\ OutputBeforeWait' /\ [SessionNext]_sessionVars
        => [Local!LocalNext]_(Local!localVars)
  BY SessionSteps DEF LocalStep
<1> QED
  BY <1>1, <1>2, <1>3, <1>4, PTL DEF SessionSpec, IsLocalProcess, Local!LocalSpec
=============================================================================
