------------------------------ MODULE Streamer ------------------------------
(***************************************************************************)
(* One stream of server/streamer/streamer.go, the chanWriters that a       *)
(* process writes to (server/chanwriter.go), and the readers that serve    *)
(* its pipes, standard output and standard error, to clients.  The handler *)
(* of a Run or an Attach registers the stream and stops it when it ends;   *)
(* the process may have written before that and may write after it.        *)
(*                                                                         *)
(* The n-th write of the process to a pipe is the number n.                *)
(***************************************************************************)
EXTENDS Integers, Sequences

CONSTANTS Pipes,      \* the channels of the stream
          Readers,    \* connections that clients open to read a pipe
          Capacity,   \* the buffer of a channel (4000 in the code)
          MaxWrites   \* bound: writes to each pipe

ASSUME StreamerAssumption == Capacity \in Nat \ {0} /\ MaxWrites \in Nat

VARIABLES stream,   \* "no", "stored" in the map, or "deleted" from it
          done,     \* strm.done is closed
          wrote,    \* writes to each pipe so far
          last,     \* those that came before Stop
          ch,       \* the channel of each pipe
          reader,   \* where each reader is
          pipe,     \* the pipe it reads
          hand,     \* what it has received and not yet written
          got,      \* what it has written to its client
          broken    \* readers whose client cannot be written to any more

pipeVars == <<wrote, last, ch>>
readerVars == <<reader, pipe, hand, got, broken>>
vars == <<stream, done, pipeVars, readerVars>>

Chunks == 1 .. MaxWrites

TypeOK ==
  /\ stream \in {"no", "stored", "deleted"}
  /\ done \in BOOLEAN
  /\ wrote \in [Pipes -> 0 .. MaxWrites]
  /\ last \in [Pipes -> 0 .. MaxWrites]
  /\ ch \in [Pipes -> Seq(Chunks)] /\ \A p \in Pipes : Len(ch[p]) =< Capacity
  /\ reader \in [Readers -> {"none", "select", "write", "drain", "drainwrite",
                             "returned", "missed"}]
  /\ pipe \in [Readers -> Pipes]
  /\ hand \in [Readers -> 0 .. MaxWrites]
  /\ got \in [Readers -> Seq(Chunks)]
  /\ broken \subseteq Readers

Init ==
  /\ stream = "no"
  /\ done = FALSE
  /\ wrote = [p \in Pipes |-> 0]
  /\ last = [p \in Pipes |-> 0]
  /\ ch = [p \in Pipes |-> <<>>]
  /\ reader = [r \in Readers |-> "none"]
  /\ pipe \in [Readers -> Pipes]
  /\ hand = [r \in Readers |-> 0]
  /\ got = [r \in Readers |-> <<>>]
  /\ broken = {}
-----------------------------------------------------------------------------
\* Keeps everything.
Write_Unbounded(p) ==
  /\ wrote[p] < MaxWrites
  /\ wrote' = [wrote EXCEPT ![p] = @ + 1]
  /\ ch' = [ch EXCEPT ![p] = Append(@, wrote[p] + 1)]
  /\ UNCHANGED <<stream, done, last, readerVars>>

\* Sends the caller's buffer, which the next write reuses.
Write_NoCopy(p) ==
  /\ wrote[p] < MaxWrites
  /\ wrote' = [wrote EXCEPT ![p] = @ + 1]
  /\ LET sent == IF Len(ch[p]) < Capacity THEN Len(ch[p]) + 1 ELSE Len(ch[p])
     IN  ch' = [ch EXCEPT ![p] = [i \in 1 .. sent |-> wrote[p] + 1]]
  /\ UNCHANGED <<stream, done, last, readerVars>>

\* chanWriter.Write: a full channel drops the data.
Write(p) ==
  /\ wrote[p] < MaxWrites
  /\ wrote' = [wrote EXCEPT ![p] = @ + 1]
  /\ ch' = IF Len(ch[p]) < Capacity
           THEN [ch EXCEPT ![p] = Append(@, wrote[p] + 1)] ELSE ch
  /\ UNCHANGED <<stream, done, last, readerVars>>

Stream ==
  /\ stream = "no"
  /\ stream' = "stored"
  /\ UNCHANGED <<done, pipeVars, readerVars>>

Stop ==
  /\ stream = "stored" /\ ~done
  /\ done' = TRUE
  /\ last' = wrote
  /\ UNCHANGED <<stream, wrote, ch, readerVars>>

\* Waits for a client to come.
Delete_WhenRead ==
  /\ stream = "stored" /\ done
  /\ \E r \in Readers : reader[r] # "none"
  /\ stream' = "deleted"
  /\ UNCHANGED <<done, pipeVars, readerVars>>

\* The goroutine of Stop, when it has slept for the grace time.
Delete ==
  /\ stream = "stored" /\ done
  /\ stream' = "deleted"
  /\ UNCHANGED <<done, pipeVars, readerVars>>
-----------------------------------------------------------------------------
At(r, from, to) == reader[r] = from /\ reader' = [reader EXCEPT ![r] = to]

\* loadStream; a client knows the stream's name once it is stored.
Load(r) ==
  /\ \/ stream = "stored" /\ At(r, "none", "select")
     \/ stream = "deleted" /\ At(r, "none", "missed")
  /\ UNCHANGED <<stream, done, pipeVars, pipe, hand, got, broken>>

\* case b := <-pipe
Take(r) ==
  /\ ch[pipe[r]] # <<>>
  /\ hand' = [hand EXCEPT ![r] = Head(ch[pipe[r]])]
  /\ ch' = [ch EXCEPT ![pipe[r]] = Tail(@)]
  /\ UNCHANGED <<stream, done, wrote, last, pipe, got, broken>>

\* writer.Write(b), successful or not
Put(r) ==
  /\ r \notin broken
  /\ got' = [got EXCEPT ![r] = Append(@, hand[r])]
  /\ hand' = [hand EXCEPT ![r] = 0]
  /\ UNCHANGED <<stream, done, pipeVars, pipe, broken>>

PutFails(r) ==
  /\ hand' = [hand EXCEPT ![r] = 0]
  /\ broken' = broken \cup {r}
  /\ UNCHANGED <<stream, done, pipeVars, pipe, got>>

Receive(r) == At(r, "select", "write") /\ Take(r)

WriteOut(r) == At(r, "write", "select") /\ Put(r)

WriteFails(r) == At(r, "write", "returned") /\ PutFails(r)

\* Forgets to drain.
SeeDone_Returns(r) ==
  /\ done
  /\ At(r, "select", "returned")
  /\ UNCHANGED <<stream, done, pipeVars, pipe, hand, got, broken>>

\* select may take this case while there is still something to receive.
SeeDone(r) ==
  /\ done
  /\ At(r, "select", "drain")
  /\ UNCHANGED <<stream, done, pipeVars, pipe, hand, got, broken>>

DrainReceive(r) == At(r, "drain", "drainwrite") /\ Take(r)

\* Empties the channel without writing.
DrainWrite_Discards(r) ==
  /\ At(r, "drainwrite", "drain")
  /\ hand' = [hand EXCEPT ![r] = 0]
  /\ UNCHANGED <<stream, done, pipeVars, pipe, got, broken>>

\* An error does not end the drain.
DrainWrite(r) == At(r, "drainwrite", "drain") /\ (Put(r) \/ PutFails(r))

\* Waits for another write, for want of a default case.
DrainEnds_Waits(r) ==
  /\ ch[pipe[r]] = <<>> /\ wrote[pipe[r]] > last[pipe[r]]
  /\ At(r, "drain", "returned")
  /\ UNCHANGED <<stream, done, pipeVars, pipe, hand, got, broken>>

DrainEnds(r) ==
  /\ ch[pipe[r]] = <<>>
  /\ At(r, "drain", "returned")
  /\ UNCHANGED <<stream, done, pipeVars, pipe, hand, got, broken>>
-----------------------------------------------------------------------------
ReaderStep(r) ==
  \/ Receive(r)
  \/ WriteOut(r)
  \/ WriteFails(r)
  \/ SeeDone(r)
  \/ DrainReceive(r)
  \/ DrainWrite(r)
  \/ DrainEnds(r)

Next ==
  \/ \E p \in Pipes : Write(p)
  \/ Stream
  \/ Stop
  \/ Delete
  \/ \E r \in Readers : Load(r) \/ ReaderStep(r)

\* The goroutines of the streamer run: a write to a client succeeds or fails, and
\* sleep ends.  select does not ignore done for ever, since writes are finitely
\* many.  Neither the process, the handler nor a client has to do anything.
Spec ==
  /\ Init
  /\ [][Next]_vars
  /\ WF_vars(Delete)
  /\ \A r \in Readers : WF_vars(ReaderStep(r))
-----------------------------------------------------------------------------
\* Every reader passes on what the process wrote in order and without repetition,
\* and two readers of a pipe never pass on the same write.
DeliveredInOrder ==
  \A r \in Readers :
    /\ \A i, j \in 1 .. Len(got[r]) : i < j => got[r][i] < got[r][j]
    /\ \A s \in Readers \ {r} :
         pipe[r] = pipe[s] => \A i \in 1 .. Len(got[r]), j \in 1 .. Len(got[s]) :
                                got[r][i] # got[s][j]

\* A reader that ends because of Stop leaves nothing in the channel that was there
\* when Stop was called, whichever case select took (streamer.go:72-80).
DrainedBeforeReturn ==
  \A r \in Readers :
    reader[r] = "returned" /\ r \notin broken
      => \A i \in 1 .. Len(ch[pipe[r]]) : ch[pipe[r]][i] > last[pipe[r]]

OnlyReader(r) == \A s \in Readers \ {r} : pipe[s] # pipe[r]

\* The whole output of a process that wrote no more than a channel holds and ended
\* before Stop reaches the client, however late it connects and however the reader,
\* the process and Stop interleave, unless the stream has been deleted.
CompleteOutput ==
  \A r \in Readers :
    /\ reader[r] = "returned" /\ r \notin broken
    /\ OnlyReader(r)
    /\ wrote[pipe[r]] =< Capacity /\ wrote[pipe[r]] = last[pipe[r]]
    => got[r] = [i \in 1 .. last[pipe[r]] |-> i]

\* "should not leak unused streams for longer than the grace time after streaming
\* has been stopped": the stream leaves the map, read or not.
StreamDeleted == done ~> (stream = "deleted")

\* Every reader of a stopped stream ends, be its client connected or not, as long as the
\* process writes nothing more to its pipe: drain goes on while it finds something
\* (streamer.go:84-93), so that a write may keep it from ending, and nothing else does.
ReadersEnd ==
  \A r \in Readers, n \in 0 .. MaxWrites :
    (done /\ reader[r] # "none" /\ wrote[pipe[r]] = n)
      ~> (reader[r] \in {"returned", "missed"} \/ wrote[pipe[r]] > n)
=============================================================================
