---------------------------- MODULE LocalProcess ----------------------------
(***************************************************************************)
(* What the caller of Run or Attach, and the process, may rely on with     *)
(* neither a server nor a network in sight.  The caller gives the process  *)
(* input and signals, and it gets the process's output and, from Wait, how *)
(* the process ended.  All that the distance between them may do is to     *)
(* refuse the session, to break the input off, to break off an output, or  *)
(* to drop pieces of it, and to make Wait return an error of its own.      *)
(***************************************************************************)
EXTENDS Integers, Sequences

CONSTANTS Pipes,      \* the outputs of the process
          Statuses,   \* its exit statuses
          Capacity    \* what is kept of an output that nobody has read yet

VARIABLES proc, exit,        \* the process: "none", "running" or "exited", and how
          begun,             \* Run or Attach has succeeded
          sent, controls,    \* pieces of input and signals that the caller sent
          saidEof,           \* the caller ended the input
          stdin,             \* "open", "closed" (the process sees the end) or "broken"
          readIn, applied,   \* the input that the process has read, and its signals
          wants,             \* the outputs that the caller wants
          wrote,             \* pieces of each output that the process wrote
          got,               \* what came of them
          held,              \* the outputs that were not broken off
          result             \* what Wait returns

localVars ==
  <<proc, exit, begun, sent, controls, saidEof, stdin, readIn, applied, wants, wrote, got, held,
    result>>

WaitError == -1
NotExited == -2
NotDone == [status |-> 0, err |-> "not done"]
Result(status, err) == [status |-> status, err |-> err]

LocalInit ==
  /\ proc \in {"none", "running"} /\ exit = NotExited
  /\ begun = FALSE
  /\ sent = 0 /\ controls = 0 /\ saidEof = FALSE
  /\ stdin = "open" /\ readIn = <<>> /\ applied = <<>>
  /\ wants \in SUBSET Pipes /\ held = wants
  /\ wrote = [p \in Pipes |-> 0] /\ got = [p \in Pipes |-> <<>>]
  /\ result = NotDone

\* Run starts a process, and Attach finds one that runs; or they fail.
Begin ==
  /\ ~begun /\ stdin = "open" /\ proc # "exited"
  /\ begun' = TRUE
  /\ proc' = "running"
  /\ UNCHANGED <<exit, sent, controls, saidEof, stdin, readIn, applied, wants, wrote, got, held,
                 result>>

Refuse ==
  /\ ~begun
  /\ stdin' = "closed"
  /\ UNCHANGED <<proc, exit, begun, sent, controls, saidEof, readIn, applied, wants, wrote, got,
                 held, result>>

\* The process.
Writes(p) ==
  /\ proc = "running"
  /\ wrote' = [wrote EXCEPT ![p] = @ + 1]
  /\ UNCHANGED <<proc, exit, begun, sent, controls, saidEof, stdin, readIn, applied, wants, got,
                 held, result>>

Exits(e) ==
  /\ proc = "running"
  /\ proc' = "exited" /\ exit' = e
  /\ UNCHANGED <<begun, sent, controls, saidEof, stdin, readIn, applied, wants, wrote, got, held,
                 result>>

\* It reads the next piece of the input, or gets the next signal.
Reads ==
  /\ proc = "running" /\ begun /\ stdin = "open"
  /\ Len(readIn) < sent
  /\ readIn' = Append(readIn, Len(readIn) + 1)
  /\ UNCHANGED <<proc, exit, begun, sent, controls, saidEof, stdin, applied, wants, wrote, got,
                 held, result>>

Signalled ==
  /\ proc = "running" /\ begun
  /\ Len(applied) < controls
  /\ applied' = Append(applied, Len(applied) + 1)
  /\ UNCHANGED <<proc, exit, begun, sent, controls, saidEof, stdin, readIn, wants, wrote, got,
                 held, result>>

\* It sees the end of its input when the caller said so, or not before it has exited.
InputEnds ==
  /\ begun /\ stdin = "open"
  /\ saidEof \/ proc = "exited"
  /\ stdin' = "closed"
  /\ UNCHANGED <<proc, exit, begun, sent, controls, saidEof, readIn, applied, wants, wrote, got,
                 held, result>>

InputBreaks ==
  /\ begun /\ stdin = "open"
  /\ stdin' = "broken"
  /\ UNCHANGED <<proc, exit, begun, sent, controls, saidEof, readIn, applied, wants, wrote, got,
                 held, result>>

\* The caller sends a piece of input, a signal or the end of the input; a signal that the
\* process cannot have ends the input too.
Sends ==
  /\ begun
  /\ \/ sent' = sent + 1 /\ UNCHANGED <<controls, saidEof>>
     \/ controls' = controls + 1 /\ saidEof' \in {saidEof, TRUE} /\ UNCHANGED sent
     \/ saidEof' = TRUE /\ UNCHANGED <<sent, controls>>
  /\ UNCHANGED <<proc, exit, begun, stdin, readIn, applied, wants, wrote, got, held, result>>

\* A piece of an output comes, which is later than those that came before it.
Comes(p, n) ==
  /\ p \in held /\ n \in 1 .. wrote[p]
  /\ \A i \in 1 .. Len(got[p]) : got[p][i] < n
  /\ got' = [got EXCEPT ![p] = Append(@, n)]
  /\ UNCHANGED <<proc, exit, begun, sent, controls, saidEof, stdin, readIn, applied, wants, wrote,
                 held, result>>

BreaksOff(p) ==
  /\ p \in held
  /\ held' = held \ {p}
  /\ UNCHANGED <<proc, exit, begun, sent, controls, saidEof, stdin, readIn, applied, wants, wrote,
                 got, result>>

\* Everything that the process wrote has come, of an output that was not broken off and
\* did not have to be dropped.
AllCame(p) == wrote[p] =< Capacity => got[p] = [i \in 1 .. wrote[p] |-> i]

\* Wait returns, once, how the process ended, after all of its output.
WaitReports ==
  /\ result = NotDone
  /\ begun /\ proc = "exited"
  /\ \A p \in held : AllCame(p)
  /\ result' = IF exit = WaitError THEN Result(0, "process") ELSE Result(exit, "none")
  /\ UNCHANGED <<proc, exit, begun, sent, controls, saidEof, stdin, readIn, applied, wants, wrote,
                 got, held>>

\* Or it returns that it will not know.
WaitFails ==
  /\ result = NotDone
  /\ begun
  /\ \E why \in {"decode", "hijack"} : result' = Result(0, why)
  /\ UNCHANGED <<proc, exit, begun, sent, controls, saidEof, stdin, readIn, applied, wants, wrote,
                 got, held>>

LocalNext ==
  \/ Begin \/ Refuse
  \/ \E p \in Pipes : Writes(p)
  \/ \E e \in Statuses \cup {WaitError} : Exits(e)
  \/ Reads \/ Signalled \/ InputEnds \/ InputBreaks
  \/ Sends
  \/ \E p \in wants : (\E n \in 1 .. wrote[p] : Comes(p, n)) \/ BreaksOff(p)
  \/ WaitReports \/ WaitFails

LocalSpec == LocalInit /\ [][LocalNext]_localVars
=============================================================================
