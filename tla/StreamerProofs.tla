--------------------------- MODULE StreamerProofs ---------------------------
(***************************************************************************)
(* What a reader of a stopped stream has read, with any number of pipes,   *)
(* readers and writes and channels of any capacity.                        *)
(***************************************************************************)
EXTENDS Streamer, TLAPS

\* A reader that is about to write has something in its hand.
StreamerType ==
  /\ TypeOK
  /\ \A r \in Readers : reader[r] \in {"write", "drainwrite"} => hand[r] # 0

\* What comes after Stop has a greater number than what came before it, and only
\* Stop makes a reader drain its pipe.
StopOrder ==
  /\ \A p \in Pipes : last[p] =< wrote[p]
  /\ \A r \in Readers : reader[r] \in {"drain", "drainwrite"} => done
  /\ \A r \in Readers : reader[r] = "returned" /\ r \notin broken => done

\* The types are kept by a reader that receives from its channel.
LEMMA TakeType ==
  ASSUME StreamerType, NEW r \in Readers, Receive(r) \/ DrainReceive(r)
  PROVE  StreamerType'
<1> USE StreamerAssumption DEF StreamerType, TypeOK
<1> DEFINE p == pipe[r]
<1>1. Take(r)
  BY DEF Receive, DrainReceive
<1>2. p \in Pipes /\ ch[p] \in Seq(Chunks) /\ ch[p] # <<>> /\ Len(ch[p]) =< Capacity
  BY <1>1 DEF Take
<1>3. Head(ch[p]) \in Chunks /\ Tail(ch[p]) \in Seq(Chunks) /\ Len(Tail(ch[p])) =< Capacity
  BY <1>2
<1>4. hand' = [hand EXCEPT ![r] = Head(ch[p])] /\ ch' = [ch EXCEPT ![p] = Tail(ch[p])]
  BY <1>1 DEF Take
<1>5. ch' \in [Pipes -> Seq(Chunks)] /\ \A q \in Pipes : Len(ch'[q]) =< Capacity
  BY <1>2, <1>3, <1>4, Zenon
<1>6. Head(ch[p]) \in 0 .. MaxWrites /\ Head(ch[p]) # 0
  BY <1>3, SMTT(60) DEF Chunks
<1>7. hand' \in [Readers -> 0 .. MaxWrites] /\ hand'[r] # 0
      /\ \A s \in Readers \ {r} : hand'[s] = hand[s]
  BY <1>4, <1>6, Zenon
<1>8. /\ reader' \in [Readers -> {"none", "select", "write", "drain", "drainwrite",
                                  "returned", "missed"}]
      /\ \A s \in Readers \ {r} : reader'[s] = reader[s]
  BY Zenon DEF Receive, DrainReceive, At
<1>9. UNCHANGED <<stream, done, wrote, last, pipe, got, broken>>
  BY <1>1 DEF Take
<1> QED
  BY <1>5, <1>7, <1>8, <1>9, Zenon

\* They are kept by a reader that writes to its client.
LEMMA PutType ==
  ASSUME StreamerType, NEW r \in Readers,
         WriteOut(r) \/ WriteFails(r) \/ DrainWrite(r)
  PROVE  StreamerType'
<1> USE StreamerAssumption DEF StreamerType, TypeOK
<1>1. reader[r] \in {"write", "drainwrite"} /\ (Put(r) \/ PutFails(r))
  BY DEF WriteOut, WriteFails, DrainWrite, At
<1>2. hand[r] \in Chunks
  BY <1>1 DEF Chunks
<1>3. got' \in [Readers -> Seq(Chunks)]
  <2>1. Append(got[r], hand[r]) \in Seq(Chunks)
    BY <1>2
  <2>2. CASE Put(r)
    BY <2>1, <2>2 DEF Put
  <2>3. CASE PutFails(r)
    BY <2>3 DEF PutFails
  <2> QED
    BY <1>1, <2>2, <2>3
<1>4. hand' \in [Readers -> 0 .. MaxWrites] /\ \A s \in Readers \ {r} : hand'[s] = hand[s]
  <2>1. 0 \in 0 .. MaxWrites /\ hand' = [hand EXCEPT ![r] = 0]
    BY <1>1, SMTT(40) DEF Put, PutFails
  <2> QED
    BY <2>1
<1>5. broken' \subseteq Readers
  BY <1>1 DEF Put, PutFails
<1>6. /\ reader' \in [Readers -> {"none", "select", "write", "drain", "drainwrite",
                                  "returned", "missed"}]
      /\ reader'[r] \notin {"write", "drainwrite"}
      /\ \A s \in Readers \ {r} : reader'[s] = reader[s]
  BY Zenon DEF WriteOut, WriteFails, DrainWrite, At
<1>7. UNCHANGED <<stream, done, wrote, last, ch, pipe>>
  BY <1>1 DEF Put, PutFails, pipeVars
<1> QED
  BY <1>3, <1>4, <1>5, <1>6, <1>7, Zenon

\* They are kept by every step.
LEMMA NextType ==
  ASSUME StreamerType, [Next]_vars
  PROVE  StreamerType'
<1> USE StreamerAssumption
<1>1. ASSUME NEW p \in Pipes, Write(p)
      PROVE  StreamerType'
  <2> USE DEF StreamerType, TypeOK
  <2>1. wrote[p] + 1 \in Chunks /\ wrote' \in [Pipes -> 0 .. MaxWrites]
    BY <1>1, SMTT(40) DEF Write, Chunks
  <2>2. ch' \in [Pipes -> Seq(Chunks)] /\ \A q \in Pipes : Len(ch'[q]) =< Capacity
    <3>1. CASE Len(ch[p]) < Capacity
      <4>1. /\ Append(ch[p], wrote[p] + 1) \in Seq(Chunks)
            /\ Len(Append(ch[p], wrote[p] + 1)) =< Capacity
        BY <2>1, <3>1
      <4>2. ch' = [ch EXCEPT ![p] = Append(ch[p], wrote[p] + 1)]
        BY <1>1, <3>1 DEF Write
      <4> QED
        BY <4>1, <4>2, Zenon
    <3>2. CASE ~(Len(ch[p]) < Capacity)
      BY <1>1, <3>2 DEF Write
    <3> QED
      BY <3>1, <3>2
  <2> QED
    BY <1>1, <2>1, <2>2, Zenon DEF Write, readerVars
<1>2. ASSUME Stream \/ Stop \/ Delete
      PROVE  StreamerType'
  BY <1>2, Zenon DEF Stream, Stop, Delete, StreamerType, TypeOK, pipeVars, readerVars
<1>3. ASSUME NEW r \in Readers, Load(r) \/ SeeDone(r) \/ DrainEnds(r)
      PROVE  StreamerType'
  BY <1>3, ZenonT(40) DEF Load, SeeDone, DrainEnds, At, StreamerType, TypeOK, pipeVars
<1>4. CASE UNCHANGED vars
  BY <1>4, Zenon DEF vars, pipeVars, readerVars, StreamerType, TypeOK
<1> QED
  BY <1>1, <1>2, <1>3, <1>4, TakeType, PutType DEF Next, ReaderStep

\* Nothing is written, received or delivered at first.
LEMMA InitType ==
  ASSUME Init
  PROVE  /\ StreamerType
         /\ \A p \in Pipes : Len(ch[p]) = 0
<1>1. /\ ch \in [Pipes -> Seq(Chunks)] /\ got \in [Readers -> Seq(Chunks)]
      /\ \A p \in Pipes : Len(ch[p]) = 0
  BY DEF Init
<1>2. 0 \in 0 .. MaxWrites /\ 0 =< Capacity
  BY StreamerAssumption
<1> QED
  BY <1>1, <1>2, Zenon DEF Init, StreamerType, TypeOK

\* Every variable keeps its type, and no channel holds more than its capacity.
THEOREM TypeCorrect == Spec => []TypeOK
<1>1. Init => StreamerType
  BY InitType
<1>2. StreamerType /\ [Next]_vars => StreamerType'
  BY NextType
<1>3. StreamerType => TypeOK
  BY DEF StreamerType
<1> QED
  BY <1>1, <1>2, <1>3, PTL DEF Spec
-----------------------------------------------------------------------------
\* Stop separates the writes, and nobody drains or ends well before it.
LEMMA NextOrder ==
  ASSUME TypeOK, StopOrder, [Next]_vars
  PROVE  StopOrder'
<1> USE StreamerAssumption DEF StopOrder, TypeOK
<1>1. ASSUME NEW p \in Pipes, Write(p)
      PROVE  StopOrder'
  BY <1>1 DEF Write, readerVars
<1>2. ASSUME Stream \/ Stop \/ Delete
      PROVE  StopOrder'
  BY <1>2 DEF Stream, Stop, Delete, pipeVars, readerVars
<1>3. ASSUME NEW r \in Readers, Load(r) \/ SeeDone(r) \/ DrainEnds(r)
      PROVE  StopOrder'
  BY <1>3, Zenon DEF Load, SeeDone, DrainEnds, At, pipeVars
<1>4. ASSUME NEW r \in Readers, Receive(r) \/ DrainReceive(r)
      PROVE  StopOrder'
  BY <1>4, ZenonT(40) DEF Receive, DrainReceive, Take, At
<1>5. ASSUME NEW r \in Readers, WriteOut(r) \/ WriteFails(r) \/ DrainWrite(r)
      PROVE  StopOrder'
  BY <1>5, ZenonT(40) DEF WriteOut, WriteFails, DrainWrite, Put, PutFails, At, pipeVars
<1>6. CASE UNCHANGED vars
  BY <1>6 DEF vars, pipeVars, readerVars
<1> QED
  BY <1>1, <1>2, <1>3, <1>4, <1>5, <1>6, Zenon DEF Next, ReaderStep

\* What was left in a channel after a reader drained it came after Stop, and so does
\* everything that is written to it later.
LEMMA NextDrained ==
  ASSUME TypeOK, StopOrder, DrainedBeforeReturn, [Next]_vars
  PROVE  DrainedBeforeReturn'
<1> USE StreamerAssumption DEF DrainedBeforeReturn, TypeOK
<1>1. ASSUME NEW p \in Pipes, Write(p)
      PROVE  DrainedBeforeReturn'
  <2> SUFFICES ASSUME NEW r \in Readers, reader[r] = "returned", r \notin broken,
                      NEW i \in 1 .. Len(ch'[pipe[r]])
               PROVE  ch'[pipe[r]][i] > last[pipe[r]]
    BY <1>1, Zenon DEF Write, readerVars
  <2>1. CASE pipe[r] # p \/ ~(Len(ch[p]) < Capacity)
    <3>1. ch'[pipe[r]] = ch[pipe[r]]
      BY <1>1, <2>1, Zenon DEF Write
    <3> QED
      BY <3>1
  <2>2. CASE pipe[r] = p /\ Len(ch[p]) < Capacity
    <3>1. ch'[p] = Append(ch[p], wrote[p] + 1) /\ ch[p] \in Seq(Chunks)
      BY <1>1, <2>2, Zenon DEF Write
    <3>2. wrote[p] + 1 > last[p]
      BY SMTT(40) DEF StopOrder
    <3>3. CASE i = Len(ch[p]) + 1
      BY <2>2, <3>1, <3>2, <3>3
    <3>4. CASE i # Len(ch[p]) + 1
      <4>1. i \in 1 .. Len(ch[p]) /\ ch'[p][i] = ch[p][i]
        BY <2>2, <3>1, <3>4, SMTT(40)
      <4> QED
        BY <2>2, <4>1, Zenon
    <3> QED
      BY <3>3, <3>4
  <2> QED
    BY <2>1, <2>2
<1>2. ASSUME Stop
      PROVE  DrainedBeforeReturn'
  BY <1>2 DEF Stop, StopOrder, readerVars
<1>3. ASSUME Stream \/ Delete
      PROVE  DrainedBeforeReturn'
  BY <1>3, Zenon DEF Stream, Delete, pipeVars, readerVars
<1>4. ASSUME NEW r \in Readers, Load(r) \/ SeeDone(r) \/ DrainEnds(r)
      PROVE  DrainedBeforeReturn'
  <2>1. UNCHANGED <<last, ch, pipe, broken>>
    BY <1>4 DEF Load, SeeDone, DrainEnds, pipeVars
  <2>2. CASE Load(r) \/ SeeDone(r)
    <3>1. \A s \in Readers : reader'[s] = "returned" => reader[s] = "returned"
      BY <2>2, Zenon DEF Load, SeeDone, At
    <3> QED
      BY <2>1, <3>1, Zenon
  <2>3. CASE DrainEnds(r)
    <3>1. Len(ch[pipe[r]]) = 0
      BY <2>3 DEF DrainEnds
    <3>2. \A s \in Readers \ {r} : reader'[s] = reader[s]
      BY <2>3 DEF DrainEnds, At
    <3>3. \A i \in 1 .. Len(ch[pipe[r]]) : FALSE
      BY <3>1
    <3> SUFFICES ASSUME NEW s \in Readers, reader'[s] = "returned", s \notin broken,
                        NEW i \in 1 .. Len(ch[pipe[s]])
                 PROVE  ch[pipe[s]][i] > last[pipe[s]]
      BY <2>1, Zenon
    <3>4. s # r
      BY <3>3
    <3> QED
      BY <3>2, <3>4, Zenon
  <2> QED
    BY <1>4, <2>2, <2>3, Zenon
<1>5. ASSUME NEW r \in Readers, Receive(r) \/ DrainReceive(r)
      PROVE  DrainedBeforeReturn'
  <2> DEFINE q == pipe[r]
  <2>1. /\ ch[q] \in Seq(Chunks) /\ ch[q] # <<>>
        /\ ch' = [ch EXCEPT ![q] = Tail(ch[q])]
        /\ UNCHANGED <<last, pipe, broken>>
    BY <1>5, Zenon DEF Receive, DrainReceive, Take
  <2>2. \A s \in Readers : reader'[s] = "returned" => reader[s] = "returned"
    BY <1>5, Zenon DEF Receive, DrainReceive, At
  <2>3. \A i \in 1 .. Len(Tail(ch[q])) : i + 1 \in 1 .. Len(ch[q]) /\ Tail(ch[q])[i] = ch[q][i + 1]
    BY <2>1, SMTT(40)
  <2> HIDE DEF q
  <2> SUFFICES ASSUME NEW s \in Readers, reader[s] = "returned", s \notin broken,
                      NEW i \in 1 .. Len(ch'[pipe[s]])
               PROVE  ch'[pipe[s]][i] > last[pipe[s]]
    BY <2>1, <2>2, Zenon
  <2>4. CASE pipe[s] = q
    <3>1. ch'[pipe[s]] = Tail(ch[q])
      BY <2>1, <2>4
    <3> QED
      BY <2>3, <2>4, <3>1, ZenonT(40)
  <2>5. CASE pipe[s] # q
    <3>1. ch'[pipe[s]] = ch[pipe[s]]
      BY <2>1, <2>5
    <3> QED
      BY <3>1, SMTT(40)
  <2> QED
    BY <2>4, <2>5
<1>6. ASSUME NEW r \in Readers, WriteOut(r) \/ WriteFails(r) \/ DrainWrite(r)
      PROVE  DrainedBeforeReturn'
  BY <1>6, ZenonT(40) DEF WriteOut, WriteFails, DrainWrite, Put, PutFails, At, pipeVars
<1>7. CASE UNCHANGED vars
  BY <1>7, Zenon DEF vars, pipeVars, readerVars
<1> QED
  BY <1>1, <1>2, <1>3, <1>4, <1>5, <1>6, <1>7, Zenon DEF Next, ReaderStep

\* No reader has begun at first.
LEMMA InitDrained == Init => StopOrder /\ DrainedBeforeReturn
BY DEF Init, StopOrder, DrainedBeforeReturn

\* A reader that ends because of Stop leaves nothing in the channel that was there
\* when Stop was called.
THEOREM StoppedStreamIsDrained == Spec => []DrainedBeforeReturn
<1>1. Init => StopOrder /\ DrainedBeforeReturn
  BY InitDrained
<1>2. TypeOK /\ StopOrder /\ DrainedBeforeReturn /\ [Next]_vars
        => (StopOrder /\ DrainedBeforeReturn)'
  BY NextOrder, NextDrained
<1> QED
  BY <1>1, <1>2, TypeCorrect, PTL DEF Spec
-----------------------------------------------------------------------------
\* What is in a channel was written, and is in the order in which it was.
ChannelOrder ==
  \A p \in Pipes :
    /\ \A i \in 1 .. Len(ch[p]) : ch[p][i] =< wrote[p]
    /\ \A i, j \in 1 .. Len(ch[p]) : i < j => ch[p][i] < ch[p][j]

\* What a reader took came before what is still in the channel, and what it has
\* passed on before what it holds.
TakenOrder ==
  \A r \in Readers :
    /\ hand[r] =< wrote[pipe[r]]
    /\ \A j \in 1 .. Len(ch[pipe[r]]) : hand[r] < ch[pipe[r]][j]
    /\ \A i \in 1 .. Len(got[r]) :
         /\ got[r][i] =< wrote[pipe[r]]
         /\ hand[r] # 0 => got[r][i] < hand[r]
         /\ \A j \in 1 .. Len(ch[pipe[r]]) : got[r][i] < ch[pipe[r]][j]

\* No two readers hold the same write, nor does one hold what another passed on.
HandsApart ==
  \A r, s \in Readers :
    r # s /\ pipe[r] = pipe[s] /\ hand[r] # 0 =>
      /\ hand[r] # hand[s]
      /\ \A i \in 1 .. Len(got[s]) : got[s][i] # hand[r]

OrderInv == ChannelOrder /\ TakenOrder /\ HandsApart /\ DeliveredInOrder

\* What was delivered stays in order while the readers and what they got stay as they are.
LEMMA DeliveredStays ==
  ASSUME DeliveredInOrder, got' = got, pipe' = pipe
  PROVE  DeliveredInOrder'
BY SMTT(60) DEF DeliveredInOrder

\* A step that touches no channel and no reader's output keeps OrderInv.
LEMMA OrderStays ==
  ASSUME OrderInv, UNCHANGED <<wrote, ch, pipe, hand, got>>
  PROVE  OrderInv'
<1>1. ChannelOrder'
  BY Zenon DEF OrderInv, ChannelOrder
<1>2. TakenOrder'
  BY ZenonT(40) DEF OrderInv, TakenOrder
<1>3. HandsApart'
  BY Zenon DEF OrderInv, HandsApart
<1>4. DeliveredInOrder'
  BY DeliveredStays, Zenon DEF OrderInv
<1> QED
  BY <1>1, <1>2, <1>3, <1>4, Zenon DEF OrderInv

\* A write is greater than everything before it.
LEMMA OrderWrite ==
  ASSUME TypeOK, OrderInv, NEW p \in Pipes, Write(p)
  PROVE  OrderInv'
<1> USE StreamerAssumption DEF TypeOK
<1> DEFINE n == wrote[p] + 1
<1>1. /\ UNCHANGED <<pipe, hand, got>>
      /\ wrote' = [wrote EXCEPT ![p] = n]
  BY DEF Write, readerVars
<1>2. \A q \in Pipes : wrote[q] =< wrote'[q]
  BY <1>1, SMTT(40)
<1>3. ASSUME NEW q \in Pipes, NEW i \in 1 .. Len(ch'[q])
      PROVE  \/ i \in 1 .. Len(ch[q]) /\ ch'[q][i] = ch[q][i]
             \/ q = p /\ i = Len(ch[q]) + 1 /\ ch'[q][i] = n
  <2>1. CASE q # p \/ ~(Len(ch[p]) < Capacity)
    BY <1>3, <2>1, Zenon DEF Write
  <2>2. CASE q = p /\ Len(ch[p]) < Capacity
    <3>1. ch'[p] = Append(ch[p], n) /\ ch[p] \in Seq(Chunks)
      BY <2>2 DEF Write
    <3> QED
      BY <1>3, <2>2, <3>1, SMTT(40)
  <2> QED
    BY <2>1, <2>2
<1>4. ChannelOrder'
  <2> SUFFICES ASSUME NEW q \in Pipes
               PROVE  /\ \A i \in 1 .. Len(ch'[q]) : ch'[q][i] =< wrote'[q]
                      /\ \A i, j \in 1 .. Len(ch'[q]) : i < j => ch'[q][i] < ch'[q][j]
    BY Zenon DEF ChannelOrder
  <2>1. /\ \A i \in 1 .. Len(ch[q]) : ch[q][i] =< wrote[q]
        /\ \A i, j \in 1 .. Len(ch[q]) : i < j => ch[q][i] < ch[q][j]
        /\ ch[q] \in Seq(Chunks)
    BY Zenon DEF OrderInv, ChannelOrder
  <2>2. \A i \in 1 .. Len(ch[q]) : ch[q][i] \in Int
    BY <2>1, SMTT(60) DEF Chunks
  <2>3. wrote[q] \in Int /\ wrote'[q] \in Int /\ (q = p => wrote'[q] = n /\ n = wrote[q] + 1)
    BY <1>1, SMTT(40)
  <2>4. \A i \in 1 .. Len(ch'[q]) : ch'[q][i] =< wrote'[q]
    BY <1>2, <1>3, <2>1, <2>2, <2>3, SMTT(120)
  <2>5. ASSUME NEW i \in 1 .. Len(ch'[q]), NEW j \in 1 .. Len(ch'[q]), i < j
        PROVE  ch'[q][i] < ch'[q][j]
    <3>1. Len(ch[q]) \in Nat /\ i \in Int /\ j \in Int
      BY <2>1
    <3>2. CASE j \in 1 .. Len(ch[q]) /\ ch'[q][j] = ch[q][j]
      <4>a. i # Len(ch[q]) + 1
        BY <2>5, <3>1, <3>2, SMTT(40)
      <4>1. i \in 1 .. Len(ch[q]) /\ ch'[q][i] = ch[q][i]
        BY <1>3, <4>a, Zenon
      <4> QED
        BY <2>1, <2>5, <3>2, <4>1
    <3>3. CASE q = p /\ j = Len(ch[q]) + 1 /\ ch'[q][j] = n
      <4>a. i # Len(ch[q]) + 1
        BY <2>5, <3>1, <3>3, SMTT(40)
      <4>1. i \in 1 .. Len(ch[q]) /\ ch'[q][i] = ch[q][i]
        BY <1>3, <4>a, Zenon
      <4>2. ch[q][i] \in Int /\ ch[q][i] =< wrote[q]
        BY <2>1, <2>2, <4>1, Zenon
      <4> QED
        BY <2>3, <3>3, <4>1, <4>2, SMTT(40)
    <3> QED
      BY <1>3, <3>2, <3>3, Zenon
  <2> QED
    BY <2>4, <2>5
<1>5. TakenOrder'
  <2> SUFFICES ASSUME NEW r \in Readers
               PROVE  /\ hand[r] =< wrote'[pipe[r]]
                      /\ \A j \in 1 .. Len(ch'[pipe[r]]) : hand[r] < ch'[pipe[r]][j]
                      /\ \A i \in 1 .. Len(got[r]) :
                           /\ got[r][i] =< wrote'[pipe[r]]
                           /\ hand[r] # 0 => got[r][i] < hand[r]
                           /\ \A j \in 1 .. Len(ch'[pipe[r]]) : got[r][i] < ch'[pipe[r]][j]
    BY <1>1, Zenon DEF TakenOrder
  <2>1. /\ hand[r] =< wrote[pipe[r]]
        /\ \A j \in 1 .. Len(ch[pipe[r]]) : hand[r] < ch[pipe[r]][j]
        /\ \A i \in 1 .. Len(got[r]) :
             /\ got[r][i] =< wrote[pipe[r]]
             /\ hand[r] # 0 => got[r][i] < hand[r]
             /\ \A j \in 1 .. Len(ch[pipe[r]]) : got[r][i] < ch[pipe[r]][j]
    BY Zenon DEF OrderInv, TakenOrder
  <2>2. /\ hand[r] \in Int /\ pipe[r] \in Pipes
        /\ wrote[pipe[r]] \in Int /\ wrote'[pipe[r]] \in Int
        /\ got[r] \in Seq(Chunks)
    BY <1>1
  <2>3. \A i \in 1 .. Len(got[r]) : got[r][i] \in Int
    BY <2>2, SMTT(40) DEF Chunks
  <2>4. pipe[r] = p => n = wrote[pipe[r]] + 1
    OBVIOUS
  <2>5. hand[r] =< wrote'[pipe[r]] /\ \A i \in 1 .. Len(got[r]) : got[r][i] =< wrote'[pipe[r]]
    BY <1>2, <2>1, <2>2, <2>3, SMTT(40)
  <2>6. ASSUME NEW x \in Int, x =< wrote[pipe[r]],
               \A j \in 1 .. Len(ch[pipe[r]]) : x < ch[pipe[r]][j]
        PROVE  \A j \in 1 .. Len(ch'[pipe[r]]) : x < ch'[pipe[r]][j]
    <3> TAKE j \in 1 .. Len(ch'[pipe[r]])
    <3>1. CASE j \in 1 .. Len(ch[pipe[r]]) /\ ch'[pipe[r]][j] = ch[pipe[r]][j]
      BY <2>6, <3>1, SMTT(40)
    <3>2. CASE pipe[r] = p /\ ch'[pipe[r]][j] = n
      BY <2>2, <2>4, <2>6, <3>2
    <3> QED
      BY <1>3, <2>2, <3>1, <3>2, Zenon
  <2> QED
    BY <2>1, <2>2, <2>3, <2>5, <2>6, Zenon
<1>6. HandsApart' /\ DeliveredInOrder'
  BY <1>1 DEF OrderInv, HandsApart, DeliveredInOrder
<1> QED
  BY <1>4, <1>5, <1>6 DEF OrderInv

\* A reader takes the least of what is in the channel, which is greater than
\* everything that was taken before.
LEMMA OrderTake ==
  ASSUME TypeOK, OrderInv, NEW r \in Readers, Take(r)
  PROVE  OrderInv'
<1> USE StreamerAssumption DEF TypeOK
<1> DEFINE q == pipe[r]
           h == Head(ch[q])
<1>1. /\ q \in Pipes /\ ch[q] \in Seq(Chunks) /\ ch[q] # <<>>
      /\ hand' = [hand EXCEPT ![r] = h]
      /\ ch' = [ch EXCEPT ![q] = Tail(ch[q])]
      /\ UNCHANGED <<wrote, pipe, got>>
  BY DEF Take
<1>2. /\ h = ch[q][1] /\ 1 \in 1 .. Len(ch[q])
      /\ \A i \in 1 .. Len(Tail(ch[q])) :
           i + 1 \in 1 .. Len(ch[q]) /\ Tail(ch[q])[i] = ch[q][i + 1]
  BY <1>1, SMTT(40)
<1>3. h \in Chunks /\ h \in Int /\ h # 0
  BY <1>1, SMTT(40) DEF Chunks
<1>4. hand'[r] = h /\ \A s \in Readers \ {r} : hand'[s] = hand[s]
  BY <1>1
<1>5. ASSUME NEW p \in Pipes, NEW i \in 1 .. Len(ch'[p])
      PROVE  \/ p # q /\ ch'[p] = ch[p]
             \/ p = q /\ i + 1 \in 1 .. Len(ch[p]) /\ ch'[p][i] = ch[p][i + 1]
  <2>1. CASE p # q
    BY <1>1, <2>1
  <2>2. CASE p = q
    <3>1. ch'[p] = Tail(ch[q])
      BY <1>1, <2>2
    <3> QED
      BY <1>2, <1>5, <2>2, <3>1, Zenon
  <2> QED
    BY <2>1, <2>2
<1> HIDE DEF q, h
<1>6. ASSUME NEW p \in Pipes, NEW i \in 1 .. Len(ch'[p])
      PROVE  \E k \in 1 .. Len(ch[p]) : ch'[p][i] = ch[p][k] /\ (p = q => k > 1)
  <2>1. CASE p # q
    <3>1. ch'[p] = ch[p]
      BY <1>5, <1>6, <2>1, Zenon
    <3> QED
      BY <1>6, <2>1, <3>1, ZenonT(40)
  <2>2. CASE p = q
    <3>1. i + 1 \in 1 .. Len(ch[p]) /\ ch'[p][i] = ch[p][i + 1]
      BY <1>5, <1>6, <2>2, Zenon
    <3>2. i + 1 > 1
      BY <1>6
    <3> QED
      BY <3>1, <3>2, ZenonT(40)
  <2> QED
    BY <2>1, <2>2
<1>7. ChannelOrder'
  <2> SUFFICES ASSUME NEW p \in Pipes
               PROVE  /\ \A i \in 1 .. Len(ch'[p]) : ch'[p][i] =< wrote[p]
                      /\ \A i, j \in 1 .. Len(ch'[p]) : i < j => ch'[p][i] < ch'[p][j]
    BY <1>1, Zenon DEF ChannelOrder
  <2>1. /\ \A i \in 1 .. Len(ch[p]) : ch[p][i] =< wrote[p]
        /\ \A i, j \in 1 .. Len(ch[p]) : i < j => ch[p][i] < ch[p][j]
    BY Zenon DEF OrderInv, ChannelOrder
  <2>2. \A i \in 1 .. Len(ch'[p]) : ch'[p][i] =< wrote[p]
    BY <1>6, <2>1, Zenon
  <2>3. ASSUME NEW i \in 1 .. Len(ch'[p]), NEW j \in 1 .. Len(ch'[p]), i < j
        PROVE  ch'[p][i] < ch'[p][j]
    <3>1. CASE p # q
      BY <1>5, <2>1, <2>3, <3>1, Zenon
    <3>2. CASE p = q
      <4>1. /\ i + 1 \in 1 .. Len(ch[p]) /\ ch'[p][i] = ch[p][i + 1]
            /\ j + 1 \in 1 .. Len(ch[p]) /\ ch'[p][j] = ch[p][j + 1]
        BY <1>5, <3>2, Zenon
      <4>2. i + 1 < j + 1
        BY <2>3
      <4> QED
        BY <2>1, <4>1, <4>2
    <3> QED
      BY <3>1, <3>2
  <2> QED
    BY <2>2, <2>3
\* Everything taken before is less than the head.
<1>8. ASSUME NEW s \in Readers, pipe[s] = q
      PROVE  hand[s] < h /\ \A i \in 1 .. Len(got[s]) : got[s][i] < h
  BY <1>2, <1>8, Zenon DEF OrderInv, TakenOrder
<1>9. TakenOrder'
  <2> SUFFICES ASSUME NEW s \in Readers
               PROVE  /\ hand'[s] =< wrote[pipe[s]]
                      /\ \A j \in 1 .. Len(ch'[pipe[s]]) : hand'[s] < ch'[pipe[s]][j]
                      /\ \A i \in 1 .. Len(got[s]) :
                           /\ got[s][i] =< wrote[pipe[s]]
                           /\ hand'[s] # 0 => got[s][i] < hand'[s]
                           /\ \A j \in 1 .. Len(ch'[pipe[s]]) : got[s][i] < ch'[pipe[s]][j]
    BY <1>1, ZenonT(40) DEF TakenOrder
  <2>1. /\ hand[s] =< wrote[pipe[s]]
        /\ \A j \in 1 .. Len(ch[pipe[s]]) : hand[s] < ch[pipe[s]][j]
        /\ \A i \in 1 .. Len(got[s]) :
             /\ got[s][i] =< wrote[pipe[s]]
             /\ hand[s] # 0 => got[s][i] < hand[s]
             /\ \A j \in 1 .. Len(ch[pipe[s]]) : got[s][i] < ch[pipe[s]][j]
    BY Zenon DEF OrderInv, TakenOrder
  <2>2. pipe[s] \in Pipes
    OBVIOUS
  <2>3. \A i \in 1 .. Len(got[s]), j \in 1 .. Len(ch'[pipe[s]]) : got[s][i] < ch'[pipe[s]][j]
    BY <1>6, <2>1, <2>2, ZenonT(40)
  <2>4. CASE s # r
    BY <1>4, <1>6, <2>1, <2>2, <2>3, <2>4, ZenonT(40)
  <2>5. CASE s = r
    <3>1. pipe[s] = q /\ hand'[s] = h
      BY <1>4, <2>5 DEF q
    <3>2. h =< wrote[q] /\ \A k \in 1 .. Len(ch[q]) : k > 1 => h < ch[q][k]
      BY <1>1, <1>2, Zenon DEF OrderInv, ChannelOrder
    <3>3. \A j \in 1 .. Len(ch'[q]) : h < ch'[q][j]
      BY <1>1, <1>6, <3>2
    <3>4. \A i \in 1 .. Len(got[s]) : got[s][i] < h
      BY <1>8, <3>1
    <3> QED
      BY <2>1, <2>3, <3>1, <3>2, <3>3, <3>4, Zenon
  <2> QED
    BY <2>4, <2>5, Zenon
<1>10. HandsApart'
  <2> SUFFICES ASSUME NEW s \in Readers, NEW t \in Readers,
                      s # t, pipe[s] = pipe[t], hand'[s] # 0
               PROVE  hand'[s] # hand'[t] /\ \A i \in 1 .. Len(got[t]) : got[t][i] # hand'[s]
    BY <1>1, ZenonT(40) DEF HandsApart
  <2>1. /\ hand[s] # 0 => /\ hand[s] # hand[t]
                          /\ \A i \in 1 .. Len(got[t]) : got[t][i] # hand[s]
        /\ hand[s] \in Int /\ hand[t] \in Int /\ got[t] \in Seq(Chunks)
    BY DEF OrderInv, HandsApart
  <2>2. \A i \in 1 .. Len(got[t]) : got[t][i] \in Int
    BY <2>1, SMTT(120) DEF Chunks
  <2>3. CASE s = r
    <3>1. pipe[t] = q /\ hand'[s] = h /\ hand'[t] = hand[t]
      BY <1>4, <2>3 DEF q
    <3>2. hand[t] < h /\ \A i \in 1 .. Len(got[t]) : got[t][i] < h
      BY <1>8, <3>1
    <3> QED
      BY <1>3, <2>1, <2>2, <3>1, <3>2, SMTT(120)
  <2>4. CASE t = r
    <3>1. pipe[s] = q /\ hand'[t] = h /\ hand'[s] = hand[s]
      BY <1>4, <2>4 DEF q
    <3>2. hand[s] < h
      BY <1>8, <3>1
    <3> QED
      BY <1>3, <2>1, <3>1, <3>2
  <2>5. CASE s # r /\ t # r
    BY <1>4, <2>1, <2>5, Zenon
  <2> QED
    BY <2>3, <2>4, <2>5
<1>11. DeliveredInOrder'
  <2>1. got' = got /\ pipe' = pipe /\ DeliveredInOrder
    BY <1>1 DEF OrderInv
  <2> QED
    BY <2>1, DeliveredStays, Zenon
<1> QED
  BY <1>7, <1>9, <1>10, <1>11, Zenon DEF OrderInv

\* A reader passes on what it holds, or drops it.
LEMMA OrderPut ==
  ASSUME StreamerType, OrderInv, NEW r \in Readers,
         reader[r] \in {"write", "drainwrite"}, Put(r) \/ PutFails(r)
  PROVE  OrderInv'
<1> USE StreamerAssumption DEF TypeOK
<1> DEFINE h == hand[r]
<1>1. /\ TypeOK /\ h \in Chunks /\ h \in Int /\ h # 0 /\ got[r] \in Seq(Chunks)
      /\ pipe[r] \in Pipes
  BY SMTT(40) DEF StreamerType, Chunks
<1>2. /\ UNCHANGED <<wrote, ch, pipe>>
      /\ hand' = [hand EXCEPT ![r] = 0]
      /\ got' = [got EXCEPT ![r] = Append(got[r], h)] \/ got' = got
  BY DEF Put, PutFails, pipeVars
<1>3. hand'[r] = 0 /\ \A s \in Readers \ {r} : hand'[s] = hand[s] /\ got'[s] = got[s]
  BY <1>1, <1>2, Zenon
<1>4. ASSUME NEW i \in 1 .. Len(got'[r])
      PROVE  \/ i \in 1 .. Len(got[r]) /\ got'[r][i] = got[r][i]
             \/ i = Len(got[r]) + 1 /\ got'[r][i] = h
  <2>1. CASE got'[r] = got[r]
    BY <1>4, <2>1
  <2>2. CASE got'[r] = Append(got[r], h)
    BY <1>1, <1>4, <2>2, SMTT(40)
  <2> QED
    BY <1>1, <1>2, <2>1, <2>2, Zenon
<1>5. \A s \in Readers : got[s] \in Seq(Chunks) /\ Len(got[s]) \in Nat
  BY <1>1
<1>6. \A s \in Readers : \A i \in 1 .. Len(got[s]) : got[s][i] \in Int /\ got[s][i] # 0
  BY <1>5, SMTT(60) DEF Chunks
<1>7. ChannelOrder'
  <2>1. ch' = ch /\ wrote' = wrote /\ ChannelOrder
    BY <1>2 DEF OrderInv
  <2> QED
    BY <2>1 DEF ChannelOrder
<1>8. /\ h =< wrote[pipe[r]]
      /\ \A j \in 1 .. Len(ch[pipe[r]]) : h < ch[pipe[r]][j]
      /\ \A i \in 1 .. Len(got[r]) : got[r][i] < h
  BY <1>1, Zenon DEF OrderInv, TakenOrder
<1>9. \A s \in Readers :
        s # r /\ pipe[s] = pipe[r] =>
          /\ hand[s] # h
          /\ \A i \in 1 .. Len(got[s]) : got[s][i] # h
  BY <1>1, Zenon DEF OrderInv, HandsApart
<1>10. TakenOrder'
  <2> SUFFICES ASSUME NEW s \in Readers
               PROVE  /\ hand'[s] =< wrote[pipe[s]]
                      /\ \A j \in 1 .. Len(ch[pipe[s]]) : hand'[s] < ch[pipe[s]][j]
                      /\ \A i \in 1 .. Len(got'[s]) :
                           /\ got'[s][i] =< wrote[pipe[s]]
                           /\ hand'[s] # 0 => got'[s][i] < hand'[s]
                           /\ \A j \in 1 .. Len(ch[pipe[s]]) : got'[s][i] < ch[pipe[s]][j]
    BY <1>2, Zenon DEF TakenOrder
  <2>1. /\ hand[s] =< wrote[pipe[s]]
        /\ \A j \in 1 .. Len(ch[pipe[s]]) : hand[s] < ch[pipe[s]][j]
        /\ \A i \in 1 .. Len(got[s]) :
             /\ got[s][i] =< wrote[pipe[s]]
             /\ hand[s] # 0 => got[s][i] < hand[s]
             /\ \A j \in 1 .. Len(ch[pipe[s]]) : got[s][i] < ch[pipe[s]][j]
    BY Zenon DEF OrderInv, TakenOrder
  <2>2. CASE s # r
    BY <1>3, <2>1, <2>2, Zenon
  <2>3. CASE s = r
    <3>1. 0 =< wrote[pipe[r]]
      BY <1>1
    <3>2. ch[pipe[r]] \in Seq(Chunks)
      BY <1>1
    <3>3. \A j \in 1 .. Len(ch[pipe[r]]) : 0 < ch[pipe[r]][j]
      BY <3>2, SMTT(40) DEF Chunks
    <3>4. ASSUME NEW i \in 1 .. Len(got'[r])
          PROVE  /\ got'[r][i] =< wrote[pipe[r]]
                 /\ \A j \in 1 .. Len(ch[pipe[r]]) : got'[r][i] < ch[pipe[r]][j]
      BY <1>4, <1>8, <2>1, <2>3, <3>4, Zenon
    <3> QED
      BY <1>3, <2>3, <3>1, <3>3, <3>4, ZenonT(40)
  <2> QED
    BY <2>2, <2>3, Zenon
<1>11. HandsApart'
  <2> SUFFICES ASSUME NEW s \in Readers, NEW t \in Readers,
                      s # t, pipe[s] = pipe[t], hand'[s] # 0
               PROVE  hand'[s] # hand'[t] /\ \A i \in 1 .. Len(got'[t]) : got'[t][i] # hand'[s]
    BY <1>2, SMTT(40) DEF HandsApart
  <2>1. s # r /\ hand'[s] = hand[s]
    BY <1>3
  <2>2. hand[s] # hand[t] /\ \A i \in 1 .. Len(got[t]) : got[t][i] # hand[s]
    BY <2>1, SMTT(40) DEF OrderInv, HandsApart
  <2>3. CASE t # r
    BY <1>3, <2>1, <2>2, <2>3, SMTT(40)
  <2>4. CASE t = r
    <3>1. \A i \in 1 .. Len(got'[r]) : got'[r][i] # hand[s]
      BY <1>4, <2>2, <2>4
    <3> QED
      BY <1>3, <2>1, <2>4, <3>1, SMTT(40)
  <2> QED
    BY <2>3, <2>4, SMTT(40)
<1>12. ASSUME NEW s \in Readers
       PROVE  \A i, j \in 1 .. Len(got'[s]) : i < j => got'[s][i] < got'[s][j]
  <2>1. \A i, j \in 1 .. Len(got[s]) : i < j => got[s][i] < got[s][j]
    BY SMTT(40) DEF OrderInv, DeliveredInOrder
  <2>2. CASE s # r
    BY <1>3, <2>1, <2>2, SMTT(40)
  <2>3. CASE s = r
    <3> SUFFICES ASSUME NEW i \in 1 .. Len(got'[r]), NEW j \in 1 .. Len(got'[r]), i < j
                 PROVE  got'[r][i] < got'[r][j]
      BY <2>3
    <3>1. CASE j \in 1 .. Len(got[r]) /\ got'[r][j] = got[r][j]
      <4>1. i \in 1 .. Len(got[r]) /\ got'[r][i] = got[r][i]
        BY <1>4, <1>5, <3>1
      <4> QED
        BY <2>1, <2>3, <3>1, <4>1, SMTT(40)
    <3>2. CASE j = Len(got[r]) + 1 /\ got'[r][j] = h
      <4>1. i \in 1 .. Len(got[r]) /\ got'[r][i] = got[r][i]
        BY <1>4, <1>5, <3>2
      <4> QED
        BY <1>8, <3>2, <4>1, Zenon
    <3> QED
      BY <1>4, <3>1, <3>2
  <2> QED
    BY <2>2, <2>3
<1>13. ASSUME NEW s \in Readers, NEW t \in Readers \ {s}, pipe[s] = pipe[t],
              NEW i \in 1 .. Len(got'[s]), NEW j \in 1 .. Len(got'[t])
       PROVE  got'[s][i] # got'[t][j]
  <2>1. \A k \in 1 .. Len(got[s]), l \in 1 .. Len(got[t]) : got[s][k] # got[t][l]
    BY <1>13 DEF OrderInv, DeliveredInOrder
  <2>2. CASE s # r /\ t # r
    BY <1>3, <1>13, <2>1, <2>2, SMTT(40)
  <2>3. CASE s = r
    <3>1. got'[t] = got[t] /\ \A l \in 1 .. Len(got[t]) : got[t][l] # h
      BY <1>3, <1>9, <1>13, <2>3, SMTT(40)
    <3> QED
      BY <1>4, <1>13, <2>1, <2>3, <3>1, ZenonT(40)
  <2>4. CASE t = r
    <3>1. got'[s] = got[s] /\ \A k \in 1 .. Len(got[s]) : got[s][k] # h
      BY <1>3, <1>9, <1>13, <2>4
    <3> QED
      BY <1>4, <1>13, <2>1, <2>4, <3>1, ZenonT(40)
  <2> QED
    BY <2>2, <2>3, <2>4
<1>14. DeliveredInOrder'
  BY <1>2, <1>12, <1>13, Zenon DEF DeliveredInOrder
<1> QED
  BY <1>7, <1>10, <1>11, <1>14 DEF OrderInv

\* Each step keeps OrderInv.
LEMMA NextInOrder ==
  ASSUME StreamerType, OrderInv, [Next]_vars
  PROVE  OrderInv'
<1>1. TypeOK
  BY SMTT(40) DEF StreamerType
<1>2. ASSUME UNCHANGED <<wrote, ch, pipe, hand, got>>
      PROVE  OrderInv'
  BY <1>2, OrderStays, Zenon
<1>3. CASE \E p \in Pipes : Write(p)
  BY <1>1, <1>3, OrderWrite
<1>4. CASE Stream \/ Stop \/ Delete \/ UNCHANGED vars
  BY <1>2, <1>4, SMTT(40) DEF Stream, Stop, Delete, vars, pipeVars, readerVars
<1>5. ASSUME NEW r \in Readers, Load(r) \/ SeeDone(r) \/ DrainEnds(r)
      PROVE  OrderInv'
  BY <1>2, <1>5 DEF Load, SeeDone, DrainEnds, pipeVars
<1>6. ASSUME NEW r \in Readers, Receive(r) \/ DrainReceive(r)
      PROVE  OrderInv'
  BY <1>1, <1>6, OrderTake DEF Receive, DrainReceive
<1>7. ASSUME NEW r \in Readers, WriteOut(r) \/ WriteFails(r) \/ DrainWrite(r)
      PROVE  OrderInv'
  BY <1>7, OrderPut DEF WriteOut, WriteFails, DrainWrite, At
<1> QED
  BY <1>3, <1>4, <1>5, <1>6, <1>7 DEF Next, ReaderStep

\* Readers pass on what the process wrote in order and without repetition, and no two of
\* them the same write, however many of them share a channel (streamer.go:65-98).
THEOREM OutputInOrder == Spec => []DeliveredInOrder
<1>1. ASSUME Init
      PROVE  StreamerType /\ OrderInv
  <2>1. /\ ch \in [Pipes -> Seq(Chunks)] /\ got \in [Readers -> Seq(Chunks)]
        /\ \A p \in Pipes : Len(ch[p]) = 0
        /\ \A r \in Readers : Len(got[r]) = 0 /\ hand[r] = 0 /\ wrote[pipe[r]] = 0
    BY <1>1 DEF Init
  <2>2. 0 \in 0 .. MaxWrites /\ 0 =< Capacity
    BY StreamerAssumption
  <2>3. StreamerType
    BY <1>1, <2>1, <2>2, Zenon DEF Init, StreamerType, TypeOK
  <2>4. pipe \in [Readers -> Pipes]
    BY <1>1, SMTT(40) DEF Init
  <2>5. OrderInv
    BY <2>1, <2>4 DEF OrderInv, ChannelOrder, TakenOrder, HandsApart, DeliveredInOrder
  <2> QED
    BY <2>3, <2>5
<1>2. StreamerType /\ OrderInv /\ [Next]_vars => (StreamerType /\ OrderInv)'
  BY NextType, NextInOrder
<1>3. OrderInv => DeliveredInOrder
  BY SMTT(40) DEF OrderInv
<1> QED
  BY <1>1, <1>2, <1>3, PTL DEF Spec
-----------------------------------------------------------------------------
Held(r) == IF hand[r] = 0 THEN 0 ELSE 1

\* What the only reader of a pipe passed on, what it holds and what the channel holds
\* are, one after the other, all that was written.
Whole(r) ==
  LET p == pipe[r]
      n == Len(got[r])
  IN  /\ wrote[p] = n + Held(r) + Len(ch[p])
      /\ \A i \in 1 .. n : got[r][i] = i
      /\ hand[r] # 0 => hand[r] = n + 1
      /\ \A j \in 1 .. Len(ch[p]) : ch[p][j] = n + Held(r) + j

Fits(r) == OnlyReader(r) /\ r \notin broken /\ wrote[pipe[r]] =< Capacity

WholeInv ==
  /\ \A r \in Readers : reader[r] \notin {"write", "drainwrite"} => hand[r] = 0
  /\ \A r \in Readers : Fits(r) => Whole(r)

\* As long as the writes fit the channel none is dropped.
LEMMA WholeWrite ==
  ASSUME TypeOK, WholeInv, NEW p \in Pipes, Write(p)
  PROVE  WholeInv'
<1> USE StreamerAssumption DEF TypeOK
<1>1. UNCHANGED <<reader, pipe, hand, got, broken>> /\ wrote' = [wrote EXCEPT ![p] = wrote[p] + 1]
  BY DEF Write, readerVars
<1>2. \A r \in Readers : reader'[r] \notin {"write", "drainwrite"} => hand'[r] = 0
  BY <1>1 DEF WholeInv
<1>3. ASSUME NEW r \in Readers, Fits(r)'
      PROVE  Whole(r)'
  <2>1. pipe[r] \in Pipes /\ OnlyReader(r) /\ r \notin broken /\ wrote'[pipe[r]] =< Capacity
    BY <1>1, <1>3 DEF Fits, OnlyReader
  <2>2. wrote[pipe[r]] =< Capacity
    BY <1>1, <2>1
  <2>3. Whole(r)
    BY <2>1, <2>2 DEF WholeInv, Fits
  <2>4. CASE pipe[r] # p
    <3>1. wrote'[pipe[r]] = wrote[pipe[r]] /\ ch'[pipe[r]] = ch[pipe[r]]
      BY <1>1, <2>1, <2>4, SMTT(40) DEF Write
    <3> QED
      BY <1>1, <2>3, <3>1, Zenon DEF Whole, Held
  <2>5. CASE pipe[r] = p
    <3> DEFINE n == Len(got[r])
    <3>1. got[r] \in Seq(Chunks) /\ n \in Nat /\ ch[p] \in Seq(Chunks) /\ Len(ch[p]) \in Nat
      BY SMTT(40)
    <3>2. Held(r) \in {0, 1} /\ Held(r)' = Held(r)
      BY <1>1 DEF Held
    <3>3. /\ wrote[p] = n + Held(r) + Len(ch[p])
          /\ \A i \in 1 .. n : got[r][i] = i
          /\ hand[r] # 0 => hand[r] = n + 1
          /\ \A j \in 1 .. Len(ch[p]) : ch[p][j] = n + Held(r) + j
      BY <2>3, <2>5 DEF Whole
    <3> HIDE DEF n
    <3>4. wrote'[p] = wrote[p] + 1 /\ wrote[p] + 1 =< Capacity
      BY <1>1, <2>1, <2>5
    <3>5. Len(ch[p]) < Capacity
      BY <3>1, <3>2, <3>3, <3>4, SMTT(60)
    <3>6. ch'[p] = Append(ch[p], wrote[p] + 1)
      BY <3>5 DEF Write
    <3>7. Len(ch'[p]) = Len(ch[p]) + 1
      BY <3>1, <3>6
    <3>8. wrote'[p] = n + Held(r) + Len(ch'[p])
      <4>1. wrote[p] = n + Held(r) + Len(ch[p])
        BY <3>3
      <4>2. n \in Int /\ Held(r) \in Int /\ Len(ch[p]) \in Int
        BY <3>1, <3>2
      <4> QED
        BY <3>4, <3>7, <4>1, <4>2, SMTT(40), SMTT(40)
    <3>9. ASSUME NEW j \in 1 .. Len(ch'[p])
          PROVE  ch'[p][j] = n + Held(r) + j
      <4>1. CASE j = Len(ch[p]) + 1
        <5>1. ch'[p][j] = wrote[p] + 1
          BY <3>1, <3>6, <4>1
        <5>2. wrote[p] = n + Held(r) + Len(ch[p])
          BY <3>3
        <5>3. n \in Int /\ Held(r) \in Int /\ Len(ch[p]) \in Int
          BY <3>1, <3>2, SMTT(40)
        <5> QED
          BY <4>1, <5>1, <5>2, <5>3, SMTT(40)
      <4>2. CASE j # Len(ch[p]) + 1
        <5>1. j \in 1 .. Len(ch[p]) /\ ch'[p][j] = ch[p][j]
          BY <3>1, <3>6, <3>7, <4>2, SMTT(60)
        <5> QED
          BY <3>3, <5>1, SMTT(40)
      <4> QED
        BY <4>1, <4>2
    <3> QED
      BY <1>1, <2>5, <3>2, <3>3, <3>8, <3>9 DEF Whole, n
  <2> QED
    BY <2>4, <2>5
<1> QED
  BY <1>2, <1>3 DEF WholeInv

\* What a reader takes from the channel is in its hand.
LEMMA WholeTake ==
  ASSUME TypeOK, WholeInv, NEW s \in Readers, Receive(s) \/ DrainReceive(s)
  PROVE  WholeInv'
<1> USE StreamerAssumption DEF TypeOK
<1> DEFINE q == pipe[s]
<1>1. /\ q \in Pipes /\ ch[q] \in Seq(Chunks) /\ ch[q] # <<>>
      /\ hand' = [hand EXCEPT ![s] = Head(ch[q])]
      /\ ch' = [ch EXCEPT ![q] = Tail(ch[q])]
      /\ UNCHANGED <<wrote, pipe, got, broken>>
  BY Zenon DEF Receive, DrainReceive, Take
<1>2. /\ reader[s] \in {"select", "drain"} /\ reader'[s] \in {"write", "drainwrite"}
      /\ \A r \in Readers \ {s} : reader'[r] = reader[r]
  BY DEF Receive, DrainReceive, At
<1>3. \A r \in Readers : reader'[r] \notin {"write", "drainwrite"} => hand'[r] = 0
  BY <1>1, <1>2, Zenon DEF WholeInv
<1>4. ASSUME NEW r \in Readers, Fits(r)'
      PROVE  Whole(r)'
  <2>1. Fits(r)
    BY <1>1, <1>4 DEF Fits, OnlyReader
  <2>2. Whole(r)
    BY <2>1 DEF WholeInv
  <2>3. CASE r # s
    <3>1. pipe[r] # q /\ pipe[r] \in Pipes
      BY <2>1, <2>3 DEF Fits, OnlyReader
    <3>2. hand'[r] = hand[r] /\ ch'[pipe[r]] = ch[pipe[r]]
      BY <1>1, <2>3, <3>1
    <3> QED
      BY <1>1, <2>2, <3>2, ZenonT(40) DEF Whole, Held
  <2>4. CASE r = s
    <3> DEFINE n == Len(got[r])
    <3>1. got[r] \in Seq(Chunks) /\ n \in Nat /\ Len(ch[q]) \in Nat
      BY <1>1, SMTT(60)
    <3>2. hand[r] = 0 /\ Held(r) = 0
      BY <1>2, <2>4, Zenon DEF WholeInv, Held
    <3>3. /\ wrote[q] = n + Len(ch[q])
          /\ \A i \in 1 .. n : got[r][i] = i
          /\ \A j \in 1 .. Len(ch[q]) : ch[q][j] = n + j
      BY <2>2, <2>4, <3>1, <3>2 DEF Whole
    <3>4. /\ Head(ch[q]) = ch[q][1] /\ Head(ch[q]) \in Chunks /\ 1 \in 1 .. Len(ch[q])
          /\ Len(Tail(ch[q])) = Len(ch[q]) - 1
          /\ \A j \in 1 .. Len(Tail(ch[q])) :
               j + 1 \in 1 .. Len(ch[q]) /\ Tail(ch[q])[j] = ch[q][j + 1]
      BY <1>1, SMTT(60)
    <3>5. hand'[r] = Head(ch[q]) /\ ch'[q] = Tail(ch[q])
      BY <1>1, <2>4
    <3> HIDE DEF n, q
    <3>6. hand'[r] = n + 1 /\ hand'[r] # 0
      BY <3>1, <3>3, <3>4, <3>5, SMTT(120)
    <3>7. Held(r)' = 1
      BY <3>6 DEF Held
    <3>8. wrote[q] = n + 1 + Len(ch'[q])
      <4>1. wrote[q] = n + Len(ch[q]) /\ Len(ch'[q]) = Len(ch[q]) - 1
        BY <3>3, <3>4, <3>5, Zenon
      <4>2. n \in Int /\ Len(ch[q]) \in Int /\ Len(ch[q]) - 1 \in Int
        BY <3>1
      <4>3. \A a, b \in Int : a + b = a + 1 + (b - 1)
        OBVIOUS
      <4> QED
        BY <4>1, <4>2, <4>3, ZenonT(40)
    <3>9. \A j \in 1 .. Len(ch'[q]) : ch'[q][j] = n + 1 + j
      BY <3>1, <3>3, <3>4, <3>5, SMTT(60)
    <3>10. wrote' = wrote /\ pipe'[r] = q /\ got' = got
      BY <1>1, <2>4 DEF q
    <3> QED
      BY <3>3, <3>6, <3>7, <3>8, <3>9, <3>10, Zenon DEF Whole, n
  <2> QED
    BY <2>3, <2>4
<1> QED
  BY <1>3, <1>4, ZenonT(40) DEF WholeInv

\* What was in its hand has been passed on, or the client is gone.
LEMMA WholePut ==
  ASSUME StreamerType, WholeInv, NEW s \in Readers,
         WriteOut(s) \/ WriteFails(s) \/ DrainWrite(s)
  PROVE  WholeInv'
<1> USE StreamerAssumption DEF TypeOK
<1>1. /\ TypeOK /\ hand[s] # 0 /\ hand[s] \in Chunks
      /\ reader'[s] \notin {"write", "drainwrite"}
      /\ \A r \in Readers \ {s} : reader'[r] = reader[r]
  BY SMTT(40) DEF StreamerType, WriteOut, WriteFails, DrainWrite, At, Chunks
<1>2. /\ UNCHANGED <<wrote, ch, pipe>> /\ hand' = [hand EXCEPT ![s] = 0]
      /\ \/ got' = [got EXCEPT ![s] = Append(got[s], hand[s])] /\ broken' = broken
         \/ got' = got /\ broken' = broken \cup {s}
  BY Zenon DEF WriteOut, WriteFails, DrainWrite, Put, PutFails, pipeVars
<1>3. \A r \in Readers : reader'[r] \notin {"write", "drainwrite"} => hand'[r] = 0
  BY <1>1, <1>2, Zenon DEF WholeInv
<1>4. ASSUME NEW r \in Readers, Fits(r)'
      PROVE  Whole(r)'
  <2>1. Fits(r)
    BY <1>2, <1>4, ZenonT(40) DEF Fits, OnlyReader
  <2>2. Whole(r)
    BY <2>1 DEF WholeInv
  <2>3. CASE r # s
    <3>1. hand'[r] = hand[r] /\ got'[r] = got[r]
      BY <1>1, <1>2, <2>3, Zenon
    <3> QED
      BY <1>2, <2>2, <3>1, Zenon DEF Whole, Held
  <2>4. CASE r = s
    <3> DEFINE p == pipe[r]
               n == Len(got[r])
    <3>1. got[r] \in Seq(Chunks) /\ n \in Nat /\ Len(ch[p]) \in Nat
      BY <1>1, SMTT(60)
    <3>2. got'[r] = Append(got[r], hand[r])
      BY <1>1, <1>2, <1>4, <2>4, Zenon DEF Fits
    <3>3. hand'[r] = 0 /\ Held(r)' = 0 /\ Held(r) = 1 /\ hand[r] # 0
      BY <1>1, <1>2, <2>4 DEF Held
    <3>4. /\ wrote[p] = n + 1 + Len(ch[p])
          /\ \A i \in 1 .. n : got[r][i] = i
          /\ hand[r] = n + 1
          /\ \A j \in 1 .. Len(ch[p]) : ch[p][j] = n + 1 + j
      BY <2>2, <3>3, Zenon DEF Whole
    <3>5. Len(got'[r]) = n + 1
      BY <1>1, <2>4, <3>1, <3>2
    <3>6. ASSUME NEW i \in 1 .. Len(got'[r])
          PROVE  got'[r][i] = i
      <4>1. CASE i = n + 1
        BY <1>1, <2>4, <3>1, <3>2, <3>4, <4>1, SMTT(60)
      <4>2. CASE i # n + 1
        <5>1. i \in 1 .. n /\ got'[r][i] = got[r][i]
          BY <1>1, <2>4, <3>1, <3>2, <3>5, <4>2, SMTT(40)
        <5> QED
          BY <3>4, <5>1, ZenonT(40)
      <4> QED
        BY <4>1, <4>2, SMTT(40)
    <3> HIDE DEF n, p
    <3>7. n + 1 + 0 = n + 1 /\ \A j \in 1 .. Len(ch[p]) : ch[p][j] = n + 1 + 0 + j
      BY <3>1, <3>4
    <3>8. UNCHANGED <<wrote, ch, pipe>>
      BY <1>2
    <3> QED
      BY <3>3, <3>4, <3>5, <3>6, <3>7, <3>8, Zenon DEF Whole, p
  <2> QED
    BY <2>3, <2>4
<1> QED
  BY <1>3, <1>4, ZenonT(40) DEF WholeInv

\* Each step keeps WholeInv.
LEMMA NextWhole ==
  ASSUME StreamerType, WholeInv, [Next]_vars
  PROVE  WholeInv'
<1>1. TypeOK
  BY DEF StreamerType
<1>2. CASE \E p \in Pipes : Write(p)
  BY <1>1, <1>2, WholeWrite
<1>3. ASSUME UNCHANGED <<wrote, ch, pipe, hand, got, broken>>,
             \A r \in Readers :
               reader[r] \in {"write", "drainwrite"} <=> reader'[r] \in {"write", "drainwrite"}
      PROVE  WholeInv'
  <2>1. \A r \in Readers : Held(r)' = Held(r)
    BY <1>3, Zenon DEF Held
  <2>2. \A r \in Readers : Whole(r)' = Whole(r)
    BY <1>3, <2>1, ZenonT(40) DEF Whole
  <2>3. \A r \in Readers : Fits(r)' = Fits(r)
    BY <1>3, Zenon DEF Fits, OnlyReader
  <2> QED
    BY <1>3, <2>2, <2>3, Zenon DEF WholeInv
<1>4. CASE Stream \/ Stop \/ Delete \/ UNCHANGED vars
  BY <1>3, <1>4 DEF Stream, Stop, Delete, vars, pipeVars, readerVars
<1>5. ASSUME NEW r \in Readers, Load(r) \/ SeeDone(r) \/ DrainEnds(r)
      PROVE  WholeInv'
  <2>1. UNCHANGED <<wrote, ch, pipe, hand, got, broken>>
    BY <1>5, ZenonT(40) DEF Load, SeeDone, DrainEnds, pipeVars
  <2>2. \A s \in Readers :
          reader[s] \in {"write", "drainwrite"} <=> reader'[s] \in {"write", "drainwrite"}
    BY <1>1, <1>5, Zenon DEF Load, SeeDone, DrainEnds, At, TypeOK
  <2> QED
    BY <1>3, <2>1, <2>2, SMTT(40)
<1>6. ASSUME NEW r \in Readers, Receive(r) \/ DrainReceive(r)
      PROVE  WholeInv'
  BY <1>1, <1>6, WholeTake
<1>7. ASSUME NEW r \in Readers, WriteOut(r) \/ WriteFails(r) \/ DrainWrite(r)
      PROVE  WholeInv'
  BY <1>7, WholePut
<1> QED
  BY <1>2, <1>4, <1>5, <1>6, <1>7 DEF Next, ReaderStep

\* The channel of a reader that has ended holds only what came after Stop, so that
\* nothing is left when nothing came after it.
LEMMA WholeIsComplete ==
  ASSUME StreamerType, WholeInv, DrainedBeforeReturn
  PROVE  CompleteOutput
<1> SUFFICES ASSUME NEW r \in Readers, reader[r] = "returned", r \notin broken, OnlyReader(r),
                    wrote[pipe[r]] =< Capacity, wrote[pipe[r]] = last[pipe[r]]
             PROVE  got[r] = [i \in 1 .. last[pipe[r]] |-> i]
  BY SMTT(40) DEF CompleteOutput
<1> DEFINE p == pipe[r]
           n == Len(got[r])
<1>1. p \in Pipes /\ got[r] \in Seq(Chunks) /\ n \in Nat /\ Len(ch[p]) \in Nat
  BY SMTT(40) DEF StreamerType, TypeOK
<1>2. Held(r) = 0 /\ Whole(r)
  BY DEF WholeInv, Held, Fits
<1>3. /\ wrote[p] = n + 0 + Len(ch[p])
      /\ \A i \in 1 .. n : got[r][i] = i
      /\ \A j \in 1 .. Len(ch[p]) : ch[p][j] = n + 0 + j
  BY <1>2, Zenon DEF Whole
<1>4. Len(ch[p]) = 0
  <2>1. SUFFICES ASSUME Len(ch[p]) # 0
                 PROVE  FALSE
    BY SMTT(40)
  <2>2. 1 \in 1 .. Len(ch[p]) /\ Len(ch[p]) \in 1 .. Len(ch[p])
    BY <1>1, <2>1
  <2>3. ch[p][Len(ch[p])] > last[p]
    BY <2>2, Zenon DEF DrainedBeforeReturn
  <2>4. ch[p][Len(ch[p])] = wrote[p] /\ wrote[p] = last[p]
    BY <1>3, <2>2, Zenon
  <2>5. last[p] \in Int
    BY <1>1, SMTT(40) DEF StreamerType, TypeOK
  <2> QED
    BY <2>3, <2>4, <2>5
<1>5. last[p] = n
  BY <1>1, <1>3, <1>4
<1>6. got[r] = [i \in 1 .. n |-> got[r][i]]
  BY <1>1
<1> QED
  BY <1>3, <1>5, <1>6, Zenon

\* Nothing has been written, and nothing has been delivered.
LEMMA InitWhole ==
  ASSUME Init
  PROVE  WholeInv
<1>1. ASSUME NEW r \in Readers
      PROVE  hand[r] = 0 /\ Whole(r)
  <2>1. pipe[r] \in Pipes /\ Len(ch[pipe[r]]) = 0
    BY InitType DEF Init
  <2>2. Len(got[r]) = 0 /\ hand[r] = 0 /\ Held(r) = 0 /\ wrote[pipe[r]] = 0
    BY <2>1 DEF Init, Held
  <2> QED
    BY <2>1, <2>2 DEF Whole
<1> QED
  BY <1>1 DEF WholeInv

\* The whole output of a process that wrote no more than a channel holds and ended
\* before Stop reaches its client, however readers, writes and Stop interleave and
\* whatever the capacity (chanwriter.go:14-27, streamer.go:65-98).
THEOREM OutputIsComplete == Spec => []CompleteOutput
<1>1. Init => StreamerType /\ WholeInv
  BY InitType, InitWhole
<1>2. StreamerType /\ WholeInv /\ [Next]_vars => (StreamerType /\ WholeInv)'
  BY NextType, NextWhole
<1>3. StreamerType /\ WholeInv /\ DrainedBeforeReturn => CompleteOutput
  BY WholeIsComplete
<1> QED
  BY <1>1, <1>2, <1>3, StoppedStreamIsDrained, PTL DEF Spec
=============================================================================
