----------------------- MODULE ServerLifecycleProofs -----------------------
(***************************************************************************)
(* What Stop waits for, with any number of connections and callers of Stop *)
(* and with clients that reuse connections or not.                         *)
(***************************************************************************)
EXTENDS ServerLifecycle, FiniteSetTheorems, TLAPS

CountedConns == {c \in Conns : conn[c] \in Counted}

\* The types and the count are proved together: the counter stays a natural number
\* because it counts something.
CountInv == TypeOK /\ HandlingCounts

\* Moving a connection between two counted states, or between two others, changes
\* no count.
LEMMA CountSame ==
  ASSUME TypeOK, NEW c \in Conns, NEW x, To(c, x), conn[c] \in Counted <=> x \in Counted
  PROVE  CountedConns' = CountedConns
BY DEF TypeOK, To, CountedConns

\* StateNew: one connection more is counted.
LEMMA CountIn ==
  ASSUME TypeOK, NEW c \in Conns, NEW x, To(c, x), conn[c] \notin Counted, x \in Counted
  PROVE  Cardinality(CountedConns') = Cardinality(CountedConns) + 1
<1>1. CountedConns' = CountedConns \cup {c} /\ c \notin CountedConns
  BY DEF TypeOK, To, CountedConns
<1>2. IsFiniteSet(CountedConns)
  BY LifecycleAssumption, FS_Subset DEF CountedConns
<1> QED
  BY <1>1, <1>2, FS_AddElement, Zenon

\* StateHijacked and StateClosed: one connection less is counted.
LEMMA CountOut ==
  ASSUME TypeOK, NEW c \in Conns, NEW x, To(c, x), conn[c] \in Counted, x \notin Counted
  PROVE  /\ Cardinality(CountedConns') = Cardinality(CountedConns) - 1
         /\ Cardinality(CountedConns') \in Nat
<1>1. CountedConns' = CountedConns \ {c} /\ c \in CountedConns
  BY DEF TypeOK, To, CountedConns
<1>2. IsFiniteSet(CountedConns)
  BY LifecycleAssumption, FS_Subset DEF CountedConns
<1>3. IsFiniteSet(CountedConns')
  BY <1>1, <1>2, FS_RemoveElement
<1> QED
  BY <1>1, <1>2, <1>3, FS_RemoveElement, FS_CardinalityType

\* A wait group at zero means that no connection is counted.
LEMMA NoneCounted ==
  ASSUME CountInv, handling = 0
  PROVE  CountedConns = {}
<1>1. IsFiniteSet(CountedConns)
  BY LifecycleAssumption, FS_Subset DEF CountedConns
<1>2. Cardinality(CountedConns) = 0
  BY DEF CountInv, HandlingCounts, CountedConns
<1> QED
  BY <1>1, <1>2, FS_EmptySet

\* Nothing is counted before the first connection.
LEMMA InitCount == Init => CountInv
<1> SUFFICES ASSUME Init PROVE CountInv
    OBVIOUS
<1>1. TypeOK
  BY Zenon DEF Init, TypeOK
<1>2. CountedConns = {}
  BY DEF Init, CountedConns, Counted
<1> QED
  BY <1>1, <1>2, FS_EmptySet DEF Init, CountInv, HandlingCounts, CountedConns

\* Every callback of a connection counts it in or out as its state says.
LEMMA ConnCount ==
  ASSUME CountInv, NEW c \in Conns,
         Dial(c) \/ Accept(c) \/ StateActive(c) \/ DetachedReturns(c) \/ ReadFails(c)
           \/ ConnStep(c)
  PROVE  CountInv'
<1> USE DEF CountInv
<1> HIDE DEF TypeOK
<1>1. handling = Cardinality(CountedConns) /\ TypeOK
  BY DEF HandlingCounts, CountedConns
<1>2. SUFFICES TypeOK' /\ handling' = Cardinality(CountedConns')
  BY DEF HandlingCounts, CountedConns
<1>3. ASSUME StateNew(c) PROVE TypeOK' /\ handling' = Cardinality(CountedConns')
  <2>1. Cardinality(CountedConns') = Cardinality(CountedConns) + 1
    BY <1>1, <1>3, CountIn, SMTT(40) DEF StateNew, Counted
  <2> QED
    BY <1>1, <1>3, <2>1 DEF StateNew, TypeOK, To, stopVars
<1>4. ASSUME StateHijacked(c) \/ StateClosed(c)
      PROVE  TypeOK' /\ handling' = Cardinality(CountedConns')
  <2>1. /\ Cardinality(CountedConns') = Cardinality(CountedConns) - 1
        /\ Cardinality(CountedConns') \in Nat
    BY <1>1, <1>4, CountOut, Zenon DEF StateHijacked, StateClosed, Counted
  <2>2. handling' = handling - 1
    BY <1>4, SMTT(40) DEF StateHijacked, StateClosed
  <2> QED
    BY <1>1, <1>4, <2>1, <2>2, SMTT(40) DEF StateHijacked, StateClosed, TypeOK, To, serverVars, stopVars
<1>5. ASSUME Dial(c) \/ Refuse(c) \/ DetachedReturns(c) \/ Accept(c)
      PROVE  TypeOK' /\ handling' = Cardinality(CountedConns')
  <2>1. CountedConns' = CountedConns
    BY <1>1, <1>5, CountSame, ZenonT(40) DEF Dial, Refuse, DetachedReturns, Accept, Counted
  <2> QED
    BY <1>1, <1>5, <2>1, SMTT(40)
    DEF Dial, Refuse, DetachedReturns, Accept, TypeOK, To, serverVars, stopVars
<1>6. ASSUME StateActive(c) \/ ReadFails(c) \/ HeaderTimeout(c) \/ HandlerReturns(c)
      PROVE  TypeOK' /\ handling' = Cardinality(CountedConns')
  <2>1. CountedConns' = CountedConns
    BY <1>1, <1>6, CountSame, Zenon DEF StateActive, ReadFails, HeaderTimeout, HandlerReturns, Counted
  <2> QED
    BY <1>1, <1>6, <2>1, SMTT(40)
    DEF StateActive, ReadFails, HeaderTimeout, HandlerReturns, TypeOK, To, serverVars, stopVars
<1>7. ASSUME StateIdleStopping(c) \/ StateIdleDefault(c) \/ StateIdleAdd(c)
      PROVE  TypeOK' /\ handling' = Cardinality(CountedConns')
  <2>1. CountedConns' = CountedConns
    BY <1>1, <1>7, CountSame, Zenon DEF StateIdleStopping, StateIdleDefault, StateIdleAdd, Counted
  <2> QED
    BY <1>1, <1>7, <2>1
    DEF StateIdleStopping, StateIdleDefault, StateIdleAdd, TypeOK, To, serverVars, stopVars
<1> QED
  BY <1>3, <1>4, <1>5, <1>6, <1>7 DEF ConnStep

\* Neither Serve nor Stop touches the count.
LEMMA NextCount == CountInv /\ [Next]_vars => CountInv'
<1> SUFFICES ASSUME CountInv, [Next]_vars PROVE CountInv'
    OBVIOUS
<1> USE DEF CountInv
<1>1. ASSUME UNCHANGED <<conn, handling>>, TypeOK' PROVE CountInv'
  BY <1>1 DEF HandlingCounts
<1>2. ASSUME Listen \/ Serve \/ ServeReturns PROVE CountInv'
  BY <1>1, <1>2, Zenon DEF Listen, Serve, ServeReturns, TypeOK, connVars, stopVars
<1>3. ASSUME NEW s \in Stoppers, StopStep(s) PROVE CountInv'
  <2>1. ASSUME StopRefused(s) \/ CloseListener(s) \/ Wait(s) \/ StopBackend(s) PROVE CountInv'
    BY <1>1, <2>1, ZenonT(40)
    DEF StopRefused, CloseListener, Wait, StopBackend, StopAt, TypeOK, serverVars, connVars
  <2>2. ASSUME StopBegins(s) PROVE CountInv'
    BY <1>1, <2>2, Zenon DEF StopBegins, StopAt, Busy, TypeOK
  <2>3. ASSUME TakeIdle(s) PROVE CountInv'
    BY <1>1, <2>3 DEF TakeIdle, StopAt, TypeOK, serverVars
  <2>4. ASSUME NEW c \in Conns, CloseIdle(s, c) PROVE CountInv'
    BY <1>1, <2>4 DEF CloseIdle, TypeOK, serverVars
  <2> QED
    BY <1>3, <2>1, <2>2, <2>3, <2>4 DEF StopStep
<1>4. ASSUME UNCHANGED vars PROVE CountInv'
  BY <1>1, <1>4, Zenon DEF vars, serverVars, connVars, stopVars, TypeOK
<1> QED
  BY <1>2, <1>3, <1>4, ConnCount DEF Next
-----------------------------------------------------------------------------
\* Past Wait: the caller of Stop has seen the wait group at zero.
Drained == stopped \/ \E s \in Stoppers : stop[s] = "backend"

\* Serve is called once, so a server that has been stopped is not started again,
\* and only a call that began to stop it goes on.
StartInv ==
  /\ started => serving # "no" /\ ~stopping
  /\ stopping => serving # "no"
  /\ \A s \in Stoppers : stop[s] \in {"listener", "swap", "closing"} => stopping
  /\ Drained => stopping

\* A request that counts as early is in its handler, on an open connection that is
\* not among those Stop closes; before Stop begins, every request is on one.
EarlyInv ==
  /\ early \subseteq Busy
  /\ early \subseteq open
  /\ early \cap toClose = {}
  /\ Drained => early = {}
  /\ ~stopping => toClose = {} /\ Busy \subseteq open

LifecycleInv == CountInv /\ ConnsAtRest /\ StartInv /\ EarlyInv

\* The callbacks put a connection into s.conns when it is at rest and take it out
\* when it leaves rest.
LEMMA NextAtRest ==
  ASSUME TypeOK, ConnsAtRest, [Next]_vars
  PROVE  ConnsAtRest'
<1> USE DEF TypeOK, ConnsAtRest, To
<1>1. ASSUME UNCHANGED <<conn, conns>> PROVE ConnsAtRest'
  BY <1>1
<1>2. ASSUME Listen \/ Serve \/ ServeReturns PROVE ConnsAtRest'
  BY <1>1, <1>2, Zenon DEF Listen, Serve, ServeReturns, connVars
<1>3. ASSUME NEW s \in Stoppers, StopStep(s) PROVE ConnsAtRest'
  BY <1>1, <1>3, Zenon DEF StopStep, StopRefused, StopBegins, CloseListener, TakeIdle, CloseIdle,
                    Wait, StopBackend, connVars
<1>4. ASSUME NEW c \in Conns, Dial(c) \/ Accept(c) \/ StateActive(c) \/ DetachedReturns(c)
               \/ ReadFails(c)
      PROVE  ConnsAtRest'
  BY <1>4, SMTT(40) DEF Dial, Accept, StateActive, DetachedReturns, ReadFails
<1>5. ASSUME NEW c \in Conns, ConnStep(c) PROVE ConnsAtRest'
  BY <1>5 DEF ConnStep, Refuse, StateNew, StateHijacked, HandlerReturns, StateIdleStopping,
              StateIdleDefault, StateIdleAdd, HeaderTimeout, StateClosed
<1>6. ASSUME UNCHANGED vars PROVE ConnsAtRest'
  BY <1>1, <1>6 DEF vars, connVars
<1> QED
  BY <1>2, <1>3, <1>4, <1>5, <1>6, SMTT(40) DEF Next

\* The order of Serve and the steps of Stop.
LEMMA NextStart ==
  ASSUME TypeOK, StartInv, [Next]_vars
  PROVE  StartInv'
<1> USE DEF StartInv, Drained
<1>1. ASSUME UNCHANGED <<started, stopping, stopVars>>, serving # "no" => serving' # "no"
      PROVE  StartInv'
  BY <1>1 DEF stopVars
<1>2. ASSUME Listen \/ Serve \/ ServeReturns PROVE StartInv'
  BY <1>2 DEF Listen, Serve, ServeReturns, stopVars
<1>3. ASSUME NEW s \in Stoppers, StopStep(s) PROVE StartInv'
  <2>1. ASSUME StopRefused(s) \/ CloseListener(s) \/ TakeIdle(s) \/ Wait(s) \/ StopBackend(s)
        PROVE  StartInv'
    BY <2>1 DEF StopRefused, CloseListener, TakeIdle, Wait, StopBackend, StopAt, serverVars,
                TypeOK
  <2>2. ASSUME StopBegins(s) PROVE StartInv'
    BY <2>2, Zenon DEF StopBegins, StopAt, TypeOK
  <2>3. ASSUME NEW c \in Conns, CloseIdle(s, c) PROVE StartInv'
    BY <2>3, SMTT(40) DEF CloseIdle, serverVars
  <2> QED
    BY <1>3, <2>1, <2>2, <2>3, Zenon DEF StopStep
<1>4. ASSUME NEW c \in Conns, Dial(c) \/ Accept(c) \/ StateActive(c) \/ DetachedReturns(c)
               \/ ReadFails(c) \/ ConnStep(c)
      PROVE  StartInv'
  <2>1. UNCHANGED <<started, stopping, stopVars>>
    BY <1>4, Zenon DEF Dial, Accept, StateActive, DetachedReturns, ReadFails, ConnStep, Refuse,
                StateNew, StateHijacked, HandlerReturns, StateIdleStopping, StateIdleDefault,
                StateIdleAdd, HeaderTimeout, StateClosed, serverVars
  <2>2. serving # "no" => serving' # "no"
    BY <1>4, Zenon DEF Dial, Accept, StateActive, DetachedReturns, ReadFails, ConnStep, Refuse,
                StateNew, StateHijacked, HandlerReturns, StateIdleStopping, StateIdleDefault,
                StateIdleAdd, HeaderTimeout, StateClosed, serverVars
  <2> QED
    BY <1>1, <2>1, <2>2, SMTT(40)
<1>5. ASSUME UNCHANGED vars PROVE StartInv'
  BY <1>1, <1>5 DEF vars, serverVars
<1> QED
  BY <1>2, <1>3, <1>4, <1>5, Zenon DEF Next

\* Only Stop closes a connection that may be in a request, and only one that was at
\* rest when Stop took it; so a request in its handler since before Stop keeps its
\* connection, and Wait does not return before it.
LEMMA NextEarly ==
  ASSUME CountInv, ConnsAtRest, StartInv, EarlyInv, [Next]_vars
  PROVE  EarlyInv'
<1> USE DEF EarlyInv, Busy
<1>t. TypeOK
  BY DEF CountInv
<1>1. ASSUME UNCHANGED <<conn, open, early, toClose, stopped, stop, stopping>> PROVE EarlyInv'
  BY <1>1 DEF Drained
<1>2. ASSUME Listen \/ Serve \/ ServeReturns PROVE EarlyInv'
  BY <1>1, <1>2, Zenon DEF Listen, Serve, ServeReturns, connVars, stopVars
<1>3. ASSUME NEW s \in Stoppers, StopStep(s) PROVE EarlyInv'
  <2>1. ASSUME StopRefused(s) \/ CloseListener(s) PROVE EarlyInv'
    BY <1>t, <2>1 DEF StopRefused, CloseListener, StopAt, Drained, serverVars, connVars, TypeOK
  <2>2. ASSUME StopBegins(s) PROVE EarlyInv'
    <3>1. ~stopping /\ ~Drained
      BY <2>2 DEF StopBegins, StartInv
    <3>2. ~Drained'
      BY <1>t, <2>2, <3>1, Zenon DEF StopBegins, StopAt, Drained, TypeOK
    <3> QED
      BY <2>2, <3>1, <3>2, Zenon DEF StopBegins
  <2>3. ASSUME TakeIdle(s) PROVE EarlyInv'
    <3>1. early \cap conns = {}
      BY DEF ConnsAtRest
    <3>2. stopping /\ stopping' = stopping
      BY <2>3 DEF TakeIdle, StopAt, StartInv, serverVars
    <3>3. Drained' => Drained
      BY <1>t, <2>3, Zenon DEF TakeIdle, StopAt, Drained, TypeOK
    <3> QED
      BY <2>3, <3>1, <3>2, <3>3, SMTT(40) DEF TakeIdle
  <2>4. ASSUME NEW c \in Conns, CloseIdle(s, c) PROVE EarlyInv'
    <3>1. stopping /\ stopping' = stopping
      BY <2>4, Zenon DEF CloseIdle, StartInv, serverVars
    <3>2. Drained' <=> Drained
      BY <2>4 DEF CloseIdle, Drained
    <3> QED
      BY <2>4, <3>1, <3>2, Zenon DEF CloseIdle
  <2>5. ASSUME Wait(s) PROVE EarlyInv'
    <3>1. CountedConns = {}
      BY <2>5, NoneCounted DEF Wait
    <3>2. early = {}
      BY <3>1 DEF CountedConns, Counted
    <3> QED
      BY <2>5, <3>2 DEF Wait, StopAt, serverVars, connVars
  <2>6. ASSUME StopBackend(s) PROVE EarlyInv'
    <3>1. Drained
      BY <2>6 DEF StopBackend, StopAt, Drained
    <3> QED
      BY <2>6, <3>1 DEF StopBackend, serverVars, connVars
  <2> QED
    BY <1>3, <2>1, <2>2, <2>3, <2>4, <2>5, <2>6, Zenon DEF StopStep
<1>4. ASSUME NEW c \in Conns, Dial(c) \/ Accept(c) \/ StateActive(c) \/ DetachedReturns(c)
               \/ ReadFails(c) \/ ConnStep(c)
      PROVE  EarlyInv'
  <2>1. UNCHANGED <<stopping, stopVars>>
    BY <1>4, Zenon DEF Dial, Accept, StateActive, DetachedReturns, ReadFails, ConnStep, Refuse,
                StateNew, StateHijacked, HandlerReturns, StateIdleStopping, StateIdleDefault,
                StateIdleAdd, HeaderTimeout, StateClosed, serverVars
  <2>2. Drained' <=> Drained
    BY <2>1, SMTT(40) DEF Drained, stopVars
  <2>3. ASSUME StateActive(c) \/ StateHijacked(c) \/ HandlerReturns(c) PROVE EarlyInv'
    BY <1>t, <2>1, <2>2, <2>3, SMTT(40) DEF StateActive, StateHijacked, HandlerReturns, To, stopVars, TypeOK
  <2>4. ASSUME Dial(c) \/ Accept(c) \/ StateNew(c) \/ ReadFails(c) \/ HeaderTimeout(c)
                 \/ StateIdleDefault(c) \/ StateIdleAdd(c)
        PROVE  EarlyInv'
    BY <1>t, <2>1, <2>2, <2>4, SMTT(40) DEF Dial, Accept, StateNew, ReadFails, HeaderTimeout,
       StateIdleDefault, StateIdleAdd, To, stopVars, TypeOK
  <2>5. ASSUME Refuse(c) \/ DetachedReturns(c) \/ StateIdleStopping(c) \/ StateClosed(c)
        PROVE  EarlyInv'
    BY <1>t, <2>1, <2>2, <2>5, SMTT(40) DEF Refuse, DetachedReturns, StateIdleStopping, StateClosed, To,
       stopVars, TypeOK
  <2> QED
    BY <1>4, <2>3, <2>4, <2>5, Zenon DEF ConnStep
<1>5. ASSUME UNCHANGED vars PROVE EarlyInv'
  BY <1>1, <1>5, Zenon DEF vars, serverVars, connVars, stopVars
<1> QED
  BY <1>2, <1>3, <1>4, <1>5, Zenon DEF Next

\* The inductive invariant holds in every reachable state.
LEMMA LifecycleInvariant == Spec => []LifecycleInv
<1>1. Init => LifecycleInv
  BY InitCount DEF Init, LifecycleInv, ConnsAtRest, StartInv, EarlyInv, Drained, Busy
<1>2. LifecycleInv /\ [Next]_vars => LifecycleInv'
  BY NextCount, NextAtRest, NextStart, NextEarly, SMTT(40) DEF LifecycleInv, CountInv
<1> QED
  BY <1>1, <1>2, PTL DEF Spec

\* The state of the server's lifecycle keeps its type; in particular the wait group
\* never goes below zero.
THEOREM TypeCorrect == Spec => []TypeOK
<1>1. LifecycleInv => TypeOK
  BY DEF LifecycleInv, CountInv
<1> QED
  BY <1>1, LifecycleInvariant, PTL

\* The wait group counts every connection from StateNew to StateHijacked or
\* StateClosed exactly once.
THEOREM HandlingIsCount == Spec => []HandlingCounts
<1>1. LifecycleInv => HandlingCounts
  BY DEF LifecycleInv, CountInv
<1> QED
  BY <1>1, LifecycleInvariant, PTL

\* s.conns holds only connections that are at rest.
THEOREM OnlyIdleConns == Spec => []ConnsAtRest
<1>1. LifecycleInv => ConnsAtRest
  BY DEF LifecycleInv
<1> QED
  BY <1>1, LifecycleInvariant, PTL

\* A request in its handler when Stop begins keeps its connection until it is
\* answered, and Stop stops the backend only afterwards.
THEOREM StopWaitsForInFlight == Spec => []InFlightWaitedFor
<1>1. LifecycleInv => InFlightWaitedFor
  BY DEF LifecycleInv, EarlyInv, Drained, InFlightWaitedFor
<1> QED
  BY <1>1, LifecycleInvariant, PTL
=============================================================================
