-------------------------- MODULE ContainerProofs ---------------------------
(***************************************************************************)
(* Proofs about GardenServer that follow a container from its creation to  *)
(* its end: that it always has a bomb, that the bomb has the right         *)
(* countdown, and who may be using it.  They are about servers on which no *)
(* handle is used twice (MaxIncarnation = 1: the run handle_reuse shows    *)
(* why), for any handles, requests, reapers and crashes.                   *)
(***************************************************************************)
EXTENDS GardenServerProofs, FiniteSetTheorems

(***************************************************************************)
(* Every container is guarded.  Whoever is about to take the bomb out of   *)
(* the map does so for a container that is gone or is being destroyed, and *)
(* whoever is about to put one in does so for the container that exists.   *)
(***************************************************************************)

Ending == {"destroyed", "failed", "defuse"}

EndsWell(p) ==
  /\ pc[p] \in Ending => backend[hdl[p]] = 0
  /\ pc[p] = "cleanup" => backend[hdl[p]] = 0 \/ hdl[p] \in destroys
  /\ pc[p] = "strap" => backend[hdl[p]] \in {0, inc[p]}

SignalEndsWell ==
  /\ signal.act = "defuse" => backend[signal.h] = 0
  /\ signal.act = "cleanup" => backend[signal.h] = 0 \/ signal.h \in destroys
  /\ signal.act = "strap" => backend[signal.h] \in {0, signal.n}

GuardInv == (\A p \in Procs : EndsWell(p)) /\ SignalEndsWell /\ Guarded

\* No container comes into being under a handle that had one.
LEMMA BackendFades ==
  ASSUME MaxIncarnation = 1, TypeInv, [Next]_vars
  PROVE  \A h \in Handles : Made(h) => backend'[h] \in {0, backend[h]}
<1>0. made \in [Handles -> 0 .. 1] /\ backend \in [Handles -> 0 .. 1]
  BY DEF TypeInv, BackendInv
<1>1. ASSUME NEW p \in Procs, NEW g \in Graces, CreateContainer(p, g)
      PROVE  \A h \in Handles : Made(h) => backend'[h] \in {0, backend[h]}
  <2>1. made[hdl[p]] = 0 /\ hdl[p] \in Handles
    BY <1>0, <1>1, SMTT(40) DEF CreateContainer, TypeInv, ProcInv
  <2>2. \E n : backend' = [backend EXCEPT ![hdl[p]] = n]
    BY <1>1, Zenon DEF CreateContainer
  <2> QED
    BY <1>0, <2>1, <2>2, ZenonT(40) DEF Made
<1>2. ASSUME NEW p \in Procs, DestroyReturns(p)
      PROVE  \A h \in Handles : Made(h) => backend'[h] \in {0, backend[h]}
  BY <1>0, <1>2, ZenonT(40) DEF DestroyReturns
<1>3. \/ \E p \in Procs, g \in Graces : CreateContainer(p, g)
      \/ \E p \in Procs : DestroyReturns(p)
      \/ backend' = backend
  BY ZenonT(40) DEF Next, vars, backendVars, SetupStrap, Arrive, CallReturns, Step, Fire, BombermanStep,
         Crash, Decode, QueryBackend, CreateError, SendStrap, Answer, Lookup, LookupError,
         SendPause, SendUnpause, SetGraceTime, SendReset, AlreadyDestroying, Claim,
         DestroyError, Release, SendDefuse, SendCleanup
<1> QED
  BY <1>1, <1>2, <1>3, ZenonT(40)

\* A goroutine gives up a claim when the container is gone.
LEMMA ClaimsEndWell ==
  ASSUME NEW p \in Procs, EndsWell(p), Step(p)
  PROVE  \A h \in destroys : h \in destroys' \/ backend'[h] = 0
<1>1. ASSUME Release(p)
      PROVE  \A h \in destroys : h \in destroys' \/ backend'[h] = 0
  <2>1. backend[hdl[p]] = 0 /\ backend' = backend
    BY <1>1, Zenon DEF Release, EndsWell, Ending, backendVars
  <2> QED
    BY <1>1, <2>1 DEF Release
<1>2. Release(p) \/ destroys \subseteq destroys'
  BY Zenon DEF Step, Decode, QueryBackend, CreateContainer, CreateError, SendStrap, Answer, Lookup,
         LookupError, SendPause, SendUnpause, SetGraceTime, SendReset, AlreadyDestroying, Claim,
         DestroyReturns, DestroyError, SendDefuse, SendCleanup
<1> QED
  BY <1>1, <1>2

\* When only p moves, only p can come to an end that is not well.
LEMMA EndsCarry ==
  ASSUME TypeInv, MadeFirst, \A q \in Procs : EndsWell(q),
         \A h \in Handles : Made(h) => backend'[h] \in {0, backend[h]},
         \A h \in destroys : h \in destroys' \/ backend'[h] = 0,
         NEW p \in Procs, Moves(p), EndsWell(p)'
  PROVE  \A q \in Procs : EndsWell(q)'
<1> SUFFICES ASSUME NEW q \in Procs, q # p PROVE EndsWell(q)'
    OBVIOUS
<1>1. pc'[q] = pc[q] /\ hdl'[q] = hdl[q] /\ inc'[q] = inc[q] /\ EndsWell(q)
  BY DEF Moves
<1>2. CASE pc[q] \in Ending \cup {"cleanup", "strap"}
  <2>1. hdl[q] \in Handles /\ Made(hdl[q])
    BY <1>2, Zenon DEF TypeInv, ProcInv, MadeFirst, MadeProcs, Past, Blank, Ending
  <2>2. backend'[hdl[q]] \in {0, backend[hdl[q]]}
    BY <2>1
  <2> QED
    BY <1>1, <2>2, Zenon DEF EndsWell
<1>3. CASE pc[q] \notin Ending \cup {"cleanup", "strap"}
  BY <1>1, <1>3, Zenon DEF EndsWell
<1> QED
  BY <1>2, <1>3, ZenonT(40)

\* A signal that waits to be handled stays well.
LEMMA SignalCarry ==
  ASSUME TypeInv, MadeFirst, SignalEndsWell, signal' = signal,
         \A h \in Handles : Made(h) => backend'[h] \in {0, backend[h]},
         \A h \in destroys : h \in destroys' \/ backend'[h] = 0
  PROVE  SignalEndsWell'
<1>1. CASE signal = NoSignal
  BY <1>1 DEF SignalEndsWell, NoSignal
<1>2. CASE signal # NoSignal
  <2>1. signal.h \in Handles /\ Made(signal.h)
    BY <1>2, Zenon DEF TypeInv, SignalInv, BombermanTypeOK, Signals, MadeFirst, MadeBombs
  <2>2. backend'[signal.h] \in {0, backend[signal.h]}
    BY <2>1, SMTT(40)
  <2> QED
    BY <2>2, Zenon DEF SignalEndsWell
<1> QED
  BY <1>1, <1>2, ZenonT(40)

\* The steps of a goroutine leave every container guarded.
LEMMA StepGuard ==
  ASSUME MaxFailures = 0, TypeInv, MadeFirst, ReapersReap, GuardInv,
         \A h \in Handles : Made(h) => backend'[h] \in {0, backend[h]},
         \A h \in destroys : h \in destroys' \/ backend'[h] = 0,
         NEW p \in Procs, Step(p)
  PROVE  GuardInv'
<1> DEFINE Calm == Labels \ (Ending \cup {"cleanup", "strap"})
<1>0. /\ pc[p] \in Labels /\ op[p] \in DOMAIN Routes /\ hdl[p] \in Handles /\ ProcInv
      /\ backend \in [Handles -> 0 .. MaxIncarnation] /\ EndsWell(p) /\ SignalEndsWell
      /\ Guarded /\ pc \in [Procs -> Labels]
  BY Zenon DEF TypeInv, ProcInv, BackendInv, GuardInv
<1>a. ASSUME Moves(p), EndsWell(p)' PROVE \A q \in Procs : EndsWell(q)'
  BY <1>a, EndsCarry, Zenon DEF GuardInv
<1>b. ASSUME Return(p) PROVE Moves(p) /\ EndsWell(p)' /\ pc'[p] # "strap"
  BY <1>0, <1>b, ReturnMoves, ZenonT(40) DEF EndsWell, Ending
<1>c. ASSUME NEW l \in Calm, Goto(p, l) PROVE Moves(p) /\ EndsWell(p)' /\ pc'[p] # "strap"
  BY <1>0, <1>c, GotoMoves, Zenon DEF EndsWell, Ending
<1>d. ASSUME signal' = signal PROVE SignalEndsWell'
  BY <1>0, <1>d, SignalCarry, Zenon DEF GuardInv
<1>e. ASSUME Moves(p), pc[p] # "strap", backend' = backend, timeBombs' = timeBombs,
             toStrap' = toStrap, signal' = signal \/ signal = NoSignal
      PROVE  Guarded'
  <2> SUFFICES ASSUME NEW h \in Existing'
               PROVE  \/ timeBombs'[h] = backend'[h] \/ h \in toStrap'
                      \/ Sent("strap", h)' \/ h \in destroys'
                      \/ \E r \in Requests : pc'[r] = "strap" /\ hdl'[r] = h
      BY ZenonT(40) DEF Guarded
  <2>1. h \in Existing /\ backend'[h] # 0
    BY <1>e, ZenonT(40) DEF Existing
  <2>2. CASE h \in destroys
    BY <2>1, <2>2, ZenonT(40)
  <2>3. CASE Sent("strap", h)
    BY <1>e, <2>3, SMTT(40) DEF Sent, NoSignal
  <2>4. ASSUME NEW r \in Requests, pc[r] = "strap", hdl[r] = h
        PROVE  pc'[r] = "strap" /\ hdl'[r] = h
    BY <1>e, <2>4, Zenon DEF Moves, Procs
  <2> QED
    BY <1>0, <1>e, <2>1, <2>2, <2>3, <2>4, ZenonT(40) DEF Guarded
<1> USE DEF bombVars, backendVars, setupVars
<1> HIDE DEF Calm
<1>f. ASSUME NEW l \in Labels, l \notin Ending \cup {"cleanup", "strap"} PROVE l \in Calm
  BY <1>f, SMTT(40) DEF Calm
<1>1. CASE Decode(p)
  <2>1. Routes[op[p]].start \in Calm
    <3>1. Routes[op[p]].start \in {"query", "create", "claim", "lookup"}
      BY <1>0, RoutesShape, ZenonT(40)
    <3> QED
      BY <1>f, <3>1, ZenonT(40) DEF Labels, Ending
  <2>2. Moves(p) /\ EndsWell(p)'
    BY <1>1, <1>b, <1>c, <2>1, Zenon DEF Decode
  <2> QED
    BY <1>1, <1>a, <1>d, <1>e, <2>2, Zenon DEF Decode, GuardInv
<1>2. CASE QueryBackend(p) \/ CreateError(p) \/ LookupError(p) \/ Answer(p)
  <2>1. Moves(p) /\ EndsWell(p)'
    BY <1>2, <1>b, ZenonT(40) DEF QueryBackend, CreateError, LookupError, Answer
  <2> QED
    BY <1>2, <1>a, <1>d, <1>e, <2>1, ZenonT(40) DEF QueryBackend, CreateError, LookupError, Answer, GuardInv
<1>3. ASSUME NEW g \in Graces, CreateContainer(p, g) PROVE GuardInv'
  <2>1. p \in Requests
    BY <1>3, Zenon DEF CreateContainer, ReapersReap, Procs
  <2>2. PICK n : /\ backend' = [backend EXCEPT ![hdl[p]] = n]
                 /\ inc' = [inc EXCEPT ![p] = n]
    BY <1>3, Zenon DEF CreateContainer
  <2>3. /\ Moves(p) /\ pc'[p] = "strap" /\ hdl' = hdl /\ inc'[p] = n /\ backend'[hdl[p]] = n
    BY <1>0, <1>3, <2>2, ZenonT(40) DEF CreateContainer, Moves, ProcInv
  <2>4. EndsWell(p)'
    BY <2>3, Zenon DEF EndsWell, Ending
  <2>5. Guarded'
    <3> SUFFICES ASSUME NEW h \in Existing', h # hdl[p]
                 PROVE  \/ timeBombs'[h] = backend'[h] \/ h \in toStrap'
                        \/ Sent("strap", h)' \/ h \in destroys'
                        \/ \E r \in Requests : pc'[r] = "strap" /\ hdl'[r] = h
        BY <2>1, <2>3, Zenon DEF Guarded
    <3>1. backend'[h] = backend[h] /\ h \in Existing
      BY <1>0, <2>2, Zenon DEF Existing
    <3>2. \A r \in Requests : pc[r] = "strap" => pc'[r] = "strap" /\ hdl'[r] = hdl[r]
      BY <2>3, Zenon DEF Moves, Procs
    <3>3. UNCHANGED <<timeBombs, toStrap, signal, destroys>>
      BY <1>3, Zenon DEF CreateContainer
    <3> QED
      BY <1>0, <3>1, <3>2, <3>3, ZenonT(40) DEF Guarded, Sent
  <2> QED
    BY <1>3, <1>a, <1>d, <2>3, <2>4, <2>5, Zenon DEF CreateContainer, GuardInv
<1>4. CASE SendStrap(p)
  <2>0. p \in Requests
    BY <1>4 DEF SendStrap, ReapersReap, Procs
  <2>1. Moves(p) /\ EndsWell(p)' /\ pc'[p] # "strap" /\ hdl'[p] = hdl[p]
    <3>1. "answer" \in Calm
      BY <1>f, ZenonT(40) DEF Labels, Ending
    <3> QED
      BY <1>0, <1>4, <1>c, <3>1, GotoMoves, Zenon DEF SendStrap
  <2>2. /\ signal = NoSignal /\ signal'.act = "strap" /\ signal'.h = hdl[p]
        /\ signal'.n = inc[p] /\ timeBombs' = timeBombs
    BY <1>4, SendFacts, SMTT(40) DEF SendStrap
  <2>3. SignalEndsWell'
    BY <1>0, <1>4, <2>2, ZenonT(40) DEF SendStrap, SignalEndsWell, EndsWell
  <2>4. Guarded'
    <3> SUFFICES ASSUME NEW h \in Existing', h # hdl[p]
                 PROVE  \/ timeBombs'[h] = backend'[h] \/ h \in toStrap'
                        \/ Sent("strap", h)' \/ h \in destroys'
                        \/ \E r \in Requests : pc'[r] = "strap" /\ hdl'[r] = h
        BY <2>2, ZenonT(40) DEF Guarded, Sent
    <3>1. \A r \in Requests : pc[r] = "strap" /\ hdl[r] = h => pc'[r] = "strap" /\ hdl'[r] = h
      BY <2>1, ZenonT(40) DEF Moves, Procs
    <3>2. backend' = backend /\ toStrap' = toStrap /\ destroys' = destroys /\ h \in Existing
      BY <1>4, ZenonT(40) DEF SendStrap, Existing
    <3>3. ~Sent("strap", h)
      BY <2>2, SMTT(40) DEF Sent, NoSignal
    <3> QED
      BY <1>0, <2>2, <3>1, <3>2, <3>3, ZenonT(40) DEF Guarded
  <2> QED
    BY <1>a, <2>1, <2>3, <2>4, ZenonT(40) DEF GuardInv
<1>5. CASE SendPause(p) \/ SendUnpause(p) \/ SendReset(p) \/ SendDefuse(p) \/ SendCleanup(p)
  <2>1. Moves(p) /\ EndsWell(p)'
    <3>1. "call" \in Calm
      BY <1>f, ZenonT(40) DEF Labels, Ending
    <3> QED
      BY <1>5, <1>b, <1>c, <3>1, ZenonT(40) DEF SendPause, SendUnpause, SendReset, SendDefuse, SendCleanup
  <2>2. /\ signal = NoSignal /\ signal'.h = hdl[p] /\ timeBombs' = timeBombs
        /\ \/ signal'.act \in {"pause", "unpause", "reset"}
           \/ signal'.act = "defuse" /\ pc[p] = "defuse"
           \/ signal'.act = "cleanup" /\ pc[p] = "cleanup"
    BY <1>5, SendFacts, ZenonT(40) DEF SendPause, SendUnpause, SendReset, SendDefuse, SendCleanup
  <2>3. UNCHANGED <<backend, toStrap, destroys>> /\ pc[p] # "strap"
    BY <1>5, ZenonT(40) DEF SendPause, SendUnpause, SendReset, SendDefuse, SendCleanup
  <2>4. SignalEndsWell'
    BY <1>0, <2>2, <2>3, ZenonT(40) DEF SignalEndsWell, EndsWell, Ending
  <2>5. Guarded'
    BY <1>e, <2>1, <2>2, <2>3, ZenonT(40)
  <2> QED
    BY <1>a, <2>1, <2>4, <2>5, ZenonT(40) DEF GuardInv
<1>6. CASE Lookup(p)
  <2>1. Moves(p) /\ EndsWell(p)'
    <3>1. Routes[op[p]].found \in {"done", "pause", "setgrace"}
      BY <1>0, RoutesShape, Zenon
    <3>2. pc'[p] = Routes[op[p]].found /\ Moves(p)
      BY <1>0, <1>6, ZenonT(40) DEF Lookup, ProcInv, Moves
    <3> QED
      BY <3>1, <3>2, Zenon DEF EndsWell, Ending
  <2> QED
    BY <1>6, <1>a, <1>d, <1>e, <2>1, ZenonT(40) DEF Lookup, GuardInv
<1>7. ASSUME NEW g \in Graces, SetGraceTime(p, g) PROVE GuardInv'
  <2>1. Moves(p) /\ EndsWell(p)'
    <3>1. "reset" \in Calm
      BY <1>f, SMTT(40) DEF Labels, Ending
    <3> QED
      BY <1>7, <1>c, <3>1, ZenonT(40) DEF SetGraceTime
  <2> QED
    BY <1>7, <1>a, <1>d, <1>e, <2>1, Zenon DEF SetGraceTime, GuardInv
<1>8. CASE AlreadyDestroying(p)
  <2>1. Moves(p) /\ EndsWell(p)'
    <3>1. CASE Return(p)
      BY <1>b, <3>1, ZenonT(40)
    <3>2. CASE Goto(p, "cleanup")
      <4>1. Moves(p) /\ pc'[p] = "cleanup" /\ hdl'[p] = hdl[p]
        BY <1>0, <3>2, GotoMoves, ZenonT(40)
      <4> QED
        BY <1>8, <4>1, Zenon DEF AlreadyDestroying, EndsWell, Ending
    <3> QED
      BY <1>8, <3>1, <3>2, Zenon DEF AlreadyDestroying
  <2> QED
    BY <1>8, <1>a, <1>d, <1>e, <2>1, Zenon DEF AlreadyDestroying, GuardInv
<1>9. CASE Claim(p)
  <2>1. Moves(p) /\ EndsWell(p)'
    <3>1. "destroy" \in Calm
      BY <1>f, ZenonT(40) DEF Labels, Ending
    <3> QED
      BY <1>9, <1>c, <3>1, ZenonT(40) DEF Claim
  <2> QED
    BY <1>9, <1>a, <1>d, <1>e, <2>1, ZenonT(40) DEF Claim, GuardInv
<1>10. CASE DestroyReturns(p)
  <2>1. Moves(p) /\ EndsWell(p)'
    <3>1. Moves(p) /\ pc'[p] = "destroyed" /\ hdl'[p] = hdl[p]
      BY <1>0, <1>10, GotoMoves, ZenonT(40) DEF DestroyReturns
    <3>2. backend'[hdl[p]] = 0
      BY <1>0, <1>10, ZenonT(40) DEF DestroyReturns
    <3> QED
      BY <3>1, <3>2, ZenonT(40) DEF EndsWell, Ending
  <2>2. Guarded'
    <3> SUFFICES ASSUME NEW h \in Existing'
                 PROVE  \/ timeBombs'[h] = backend'[h] \/ h \in toStrap'
                        \/ Sent("strap", h)' \/ h \in destroys'
                        \/ \E r \in Requests : pc'[r] = "strap" /\ hdl'[r] = h
        BY Zenon DEF Guarded
    <3>1. backend'[h] = backend[h] /\ h \in Existing
      BY <1>0, <1>10, ZenonT(40) DEF DestroyReturns, Existing
    <3>2. \A r \in Requests : pc[r] = "strap" => pc'[r] = "strap" /\ hdl'[r] = hdl[r]
      BY <1>10, <2>1, ZenonT(40) DEF DestroyReturns, Moves, Procs
    <3>3. UNCHANGED <<timeBombs, toStrap, signal, destroys>>
      BY <1>10, Zenon DEF DestroyReturns
    <3> QED
      BY <1>0, <3>1, <3>2, <3>3, ZenonT(120) DEF Guarded, Sent
  <2> QED
    BY <1>10, <1>a, <1>d, <2>1, <2>2, ZenonT(40) DEF DestroyReturns, GuardInv
<1>11. CASE DestroyError(p)
  <2>1. Moves(p) /\ EndsWell(p)'
    <3>1. Moves(p) /\ pc'[p] = "failed" /\ hdl'[p] = hdl[p]
      BY <1>0, <1>11, GotoMoves, ZenonT(40) DEF DestroyError
    <3>2. failures \in 0 .. 0
      BY ZenonT(40) DEF TypeInv, BackendInv
    <3>3. backend'[hdl[p]] = 0
      BY <1>0, <1>11, <3>2, SMTT(40) DEF DestroyError
    <3> QED
      BY <3>1, <3>3, ZenonT(40) DEF EndsWell, Ending
  <2> QED
    BY <1>11, <1>a, <1>d, <1>e, <2>1, ZenonT(40) DEF DestroyError, GuardInv
<1>12. CASE Release(p)
  <2>1. backend[hdl[p]] = 0 /\ backend' = backend
    BY <1>0, <1>12, ZenonT(40) DEF Release, EndsWell, Ending
  <2>2. Moves(p) /\ EndsWell(p)'
    <3>1. CASE Return(p)
      BY <1>b, <3>1
    <3>2. ASSUME NEW l \in {"cleanup", "defuse"}, Goto(p, l) PROVE Moves(p) /\ EndsWell(p)'
      <4>1. Moves(p) /\ pc'[p] = l /\ hdl'[p] = hdl[p]
        BY <1>0, <3>2, GotoMoves, Zenon
      <4> QED
        BY <2>1, <4>1, Zenon DEF EndsWell, Ending
    <3> QED
      BY <1>12, <3>1, <3>2, ZenonT(40) DEF Release
  <2>3. Guarded'
    BY <1>12, <1>e, <2>1, <2>2, Zenon DEF Release
  <2> QED
    BY <1>12, <1>a, <1>d, <2>2, <2>3, ZenonT(40) DEF Release, GuardInv
<1> QED
  BY <1>1, <1>2, <1>3, <1>4, <1>5, <1>6, <1>7, <1>8, <1>9, <1>10, <1>11, <1>12, ZenonT(40) DEF Step

\* A server straps every container it finds before it serves.
LEMMA InitGuard == Init => ReapersReap /\ GuardInv
<1> SUFFICES ASSUME Init PROVE ReapersReap /\ GuardInv
    OBVIOUS
<1>1. ReapersReap /\ \A p \in Procs : EndsWell(p)
  BY Zenon DEF Init, ReapersReap, EndsWell, Ending, Procs
<1>2. SignalEndsWell
  BY Zenon DEF Init, BombermanNew, SignalEndsWell, NoSignal
<1>3. Guarded
  BY DEF Init, Guarded
<1> QED
  BY <1>1, <1>2, <1>3, ZenonT(40) DEF GuardInv

\* manageBombs takes no bomb from a container that still needs it.
LEMMA ManageGuard ==
  ASSUME TypeInv, GuardInv, BombermanStep
  PROVE  GuardInv'
<1>0. /\ timeBombs \in [Handles -> 0 .. MaxIncarnation] /\ signal.h \in Handles
      /\ SignalEndsWell /\ Guarded /\ ManageBombs
      /\ UNCHANGED <<backend, toStrap, destroys, pc, hdl, inc>>
  BY ManageFacts, Zenon DEF BombermanStep, backendVars, setupVars, procVars, TypeInv, SignalInv,
                     BombermanTypeOK, GuardInv
<1>1. \A p \in Procs : EndsWell(p)'
  BY <1>0, Zenon DEF GuardInv, EndsWell
<1>2. SignalEndsWell'
  <2>1. signal' = NoSignal \/ signal'.act = "arm"
    BY <1>0, ManageFacts, ZenonT(40) DEF Signals
  <2> QED
    BY <2>1 DEF SignalEndsWell, NoSignal
<1>3. Guarded'
  <2> SUFFICES ASSUME NEW h \in Existing
               PROVE  \/ timeBombs'[h] = backend[h] \/ h \in toStrap \/ h \in destroys
                      \/ \E r \in Requests : pc[r] = "strap" /\ hdl[r] = h
      BY <1>0, Zenon DEF Guarded, Existing
  <2>0. h \in Handles /\ backend[h] # 0
    BY DEF Existing
  <2>1. CASE signal.h # h
    <3>1. timeBombs'[h] = timeBombs[h] /\ ~Sent("strap", h)
      BY <1>0, <2>0, <2>1, ManageFacts, ZenonT(40) DEF Sent
    <3> QED
      BY <1>0, <3>1, Zenon DEF Guarded
  <2>2. CASE signal.h = h
    <3>1. CASE ManageStrap
      BY <1>0, <2>0, <2>2, <3>1, ZenonT(40) DEF ManageStrap, SignalEndsWell
    <3>2. CASE ManageDefuse
      BY <1>0, <2>0, <2>2, <3>2, ZenonT(40) DEF ManageDefuse, SignalEndsWell
    <3>3. CASE ManageCleanup
      BY <1>0, <2>0, <2>2, <3>3, ZenonT(40) DEF ManageCleanup, SignalEndsWell
    <3>4. CASE ManageArm \/ ManageReset \/ ManagePause \/ ManageUnpause
      <4>1. timeBombs' = timeBombs /\ ~Sent("strap", h)
        BY <3>4, Zenon DEF ManageArm, ManageReset, ManagePause, ManageUnpause, Sent
      <4> QED
        BY <1>0, <4>1, ZenonT(40) DEF Guarded
    <3> QED
      BY <1>0, <3>1, <3>2, <3>3, <3>4, ZenonT(40) DEF ManageBombs
  <2> QED
    BY <2>1, <2>2, SMTT(40)
<1> QED
  BY <1>1, <1>2, <1>3, ZenonT(40) DEF GuardInv

\* Each step keeps GuardInv: a bomb leaves the map only with its container.
LEMMA NextGuard ==
  ASSUME MaxIncarnation = 1, MaxFailures = 0, TypeInv, MadeFirst, ReapersReap, GuardInv,
         [Next]_vars
  PROVE  GuardInv'
<1>0. ProcInv /\ (\A p \in Procs : EndsWell(p)) /\ SignalEndsWell /\ Guarded
  BY DEF TypeInv, GuardInv
<1>a. ASSUME UNCHANGED <<backend, destroys, toStrap, timeBombs, signal>>,
             NEW p \in Procs, Moves(p), pc[p] # "strap",
             pc'[p] \notin Ending \cup {"cleanup", "strap"}
      PROVE  GuardInv'
  <2>1. \A q \in Procs : EndsWell(q)'
    <3> SUFFICES ASSUME NEW q \in Procs PROVE EndsWell(q)'
        OBVIOUS
    <3>1. CASE q = p
      BY <1>a, <3>1, Zenon DEF EndsWell
    <3>2. CASE q # p
      BY <1>0, <1>a, <3>2, Zenon DEF EndsWell, Moves
    <3> QED
      BY <3>1, <3>2, ZenonT(40)
  <2>2. SignalEndsWell'
    BY <1>0, <1>a, Zenon DEF SignalEndsWell
  <2>3. \A r \in Requests : pc[r] = "strap" => pc'[r] = "strap" /\ hdl'[r] = hdl[r]
    BY <1>a, Zenon DEF Moves, Procs
  <2>4. Guarded'
    BY <1>0, <1>a, <2>3, SMTT(40) DEF Guarded, Existing, Sent
  <2> QED
    BY <2>1, <2>2, <2>4, ZenonT(40) DEF GuardInv
<1> USE DEF bombVars, backendVars, setupVars, procVars
<1>1. ASSUME NEW h \in Handles, SetupStrap(h) PROVE GuardInv'
  <2>1. /\ signal = NoSignal /\ signal'.act = "strap" /\ signal'.h = h
        /\ signal'.n = backend[h] /\ timeBombs' = timeBombs
    BY <1>1, SendFacts, Zenon DEF SetupStrap
  <2>2. UNCHANGED <<backend, destroys, pc, hdl, inc>> /\ toStrap' = toStrap \ {h}
    BY <1>1 DEF SetupStrap
  <2>3. \A q \in Procs : EndsWell(q)'
    BY <1>0, <2>2, ZenonT(40) DEF EndsWell
  <2>4. SignalEndsWell'
    BY <2>1, <2>2, ZenonT(40) DEF SignalEndsWell
  <2>5. Guarded'
    BY <1>0, <2>1, <2>2, Zenon DEF Guarded, Existing, Sent, NoSignal
  <2> QED
    BY <2>3, <2>4, <2>5, ZenonT(40) DEF GuardInv
<1>2. ASSUME NEW r \in Requests, NEW o \in Ops, NEW h \in Handles, Arrive(r, o, h)
      PROVE  GuardInv'
  <2>1. r \in Procs /\ Routes[o].start \in {"query", "create", "claim", "lookup"}
    BY ServerAssumption, RoutesShape, ZenonT(40) DEF Procs
  <2>2. Moves(r) /\ pc'[r] \in {"decode", "query", "create", "claim", "lookup"}
    BY <1>0, <1>2, <2>1, ZenonT(40) DEF Arrive, ProcInv, Moves
  <2> QED
    BY <1>2, <1>a, <2>1, <2>2, ZenonT(40) DEF Arrive, Ending
<1>3. ASSUME NEW r \in Requests, CallReturns(r) PROVE GuardInv'
  <2>1. r \in Procs
    BY DEF Procs
  <2>2. Moves(r) /\ pc'[r] = "unpause"
    BY <1>0, <1>3, <2>1, GotoMoves, ZenonT(40) DEF CallReturns
  <2> QED
    BY <1>3, <1>a, <2>1, <2>2, ZenonT(40) DEF CallReturns, Ending
<1>4. ASSUME NEW p \in Procs, Step(p) PROVE GuardInv'
  <2>1. \A h \in destroys : h \in destroys' \/ backend'[h] = 0
    BY <1>0, <1>4, ClaimsEndWell, ZenonT(40)
  <2>2. \A h \in Handles : Made(h) => backend'[h] \in {0, backend[h]}
    BY BackendFades, SMTT(40)
  <2> QED
    BY <1>4, <2>1, <2>2, StepGuard, ZenonT(40)
<1>5. ASSUME NEW q \in Reapers, NEW h \in Handles, NEW n \in Incarnations, Fire(q, h, n)
      PROVE  GuardInv'
  <2>1. q \in Procs
    BY DEF Procs
  <2>2. Moves(q) /\ pc'[q] = "claim"
    BY <1>0, <1>5, <2>1, Zenon DEF Fire, ProcInv, Moves
  <2> QED
    BY <1>5, <1>a, <2>1, <2>2, ZenonT(40) DEF Fire, TimerFires, Ending
<1>6. CASE BombermanStep
  BY <1>6, ManageGuard, ZenonT(40)
<1>7. CASE Crash
  <2>1. \A p \in Procs : EndsWell(p)'
    BY <1>7 DEF Crash, EndsWell, Ending
  <2>2. SignalEndsWell'
    BY <1>7, Zenon DEF Crash, BombermanLost, SignalEndsWell, NoSignal
  <2>3. Guarded'
    BY <1>7, Zenon DEF Crash, Guarded, Existing
  <2> QED
    BY <2>1, <2>2, <2>3, ZenonT(40) DEF GuardInv
<1>8. CASE UNCHANGED vars
  <2>1. \A p \in Procs : EndsWell(p)'
    BY <1>0, <1>8, Zenon DEF vars, EndsWell
  <2> QED
    BY <1>0, <1>8, <2>1, Zenon DEF vars, GuardInv, SignalEndsWell, Guarded, Existing, Sent
<1> QED
  BY <1>1, <1>2, <1>3, <1>4, <1>5, <1>6, <1>7, <1>8, ZenonT(40) DEF Next

\* On a server whose backend destroys what it is asked to, every container has a
\* bomb, or is about to get one, or is being destroyed: not even a crash between
\* Create and Strap leaves one out of the reach of the reaper.
THEOREM EveryContainerGuarded ==
  ASSUME MaxIncarnation = 1, MaxFailures = 0
  PROVE  Spec => []Guarded
<1>1. Init => TypeInv /\ MadeFirst /\ ReapersReap /\ GuardInv
  BY InitType, InitMade, InitGuard, ZenonT(40)
<1>2. /\ TypeInv /\ MadeFirst /\ ReapersReap /\ GuardInv
      /\ [Next]_vars
      => (TypeInv /\ MadeFirst /\ ReapersReap /\ GuardInv)'
  BY NextType, NextMade, NextReap, NextGuard, ZenonT(40)
<1>3. GuardInv => Guarded
  BY DEF GuardInv
<1> QED
  BY <1>1, <1>2, <1>3, PTL DEF Spec
-----------------------------------------------------------------------------
(***************************************************************************)
(* The countdown of a bomb is the grace time of its container.  A handle   *)
(* has one container only, so a Reset that names it cannot be about        *)
(* another, and a bomb in the map is not that of a container to come.      *)
(***************************************************************************)

\* A handle that is not being reset stays right while its bomb, its grace time and
\* the goroutines that are about to reset it stay as they are.
LEMMA CountdownCarry ==
  ASSUME CountdownCurrent, bombs' = bombs, timeBombs' = timeBombs,
         signal' = signal \/ signal = NoSignal,
         \A h \in Handles :
           \/ timeBombs[h] = 0
           \/ Sent("reset", h)'
           \/ \E r \in Requests : pc'[r] = "reset" /\ hdl'[r] = h
           \/ /\ grace'[h] = grace[h]
              /\ ~ \E r \in Requests : pc[r] = "reset" /\ hdl[r] = h
  PROVE  CountdownCurrent'
<1> SUFFICES ASSUME NEW h \in Handles, timeBombs[h] # 0, ~Sent("reset", h)',
                    ~ \E r \in Requests : pc'[r] = "reset" /\ hdl'[r] = h
             PROVE  bombs'[h][timeBombs'[h]].countdown = grace'[h][timeBombs'[h]]
    BY Zenon DEF CountdownCurrent
<1>1. ~Sent("reset", h)
  BY DEF Sent, NoSignal
<1> QED
  BY <1>1, Zenon DEF CountdownCurrent

\* The steps of handlers and reapers keep the countdowns current.
LEMMA StepCountdown ==
  ASSUME MaxIncarnation = 1, TypeInv, MadeFirst, ReapersReap, CountdownCurrent,
         NEW p \in Procs, Step(p)
  PROVE  CountdownCurrent'
<1>0. /\ hdl[p] \in Handles /\ inc[p] \in 0 .. MaxIncarnation /\ ProcInv
      /\ grace \in [Handles -> [Incarnations -> Graces]]
      /\ made \in [Handles -> 0 .. 1]
  BY Zenon DEF TypeInv, ProcInv, SignalInv, BombermanTypeOK, BackendInv
<1>a. ASSUME Moves(p), pc[p] # "reset", UNCHANGED <<bombs, timeBombs, grace>>,
             signal' = signal \/ signal = NoSignal
      PROVE  CountdownCurrent'
  <2>1. \A r \in Requests : pc[r] = "reset" => pc'[r] = "reset" /\ hdl'[r] = hdl[r]
    BY <1>a, Zenon DEF Moves, Procs
  <2> QED
    BY <1>a, <2>1, CountdownCarry, Zenon
<1> USE DEF bombVars
<1>1. CASE Decode(p) \/ QueryBackend(p) \/ CreateError(p) \/ Answer(p) \/ LookupError(p)
  <2>1. Moves(p)
    BY <1>0, <1>1, GotoMoves, ReturnMoves, Zenon DEF Decode, QueryBackend, CreateError, Answer,
       LookupError
  <2> QED
    BY <1>1, <1>a, <2>1, Zenon DEF Decode, QueryBackend, CreateError, Answer, LookupError
<1>2. ASSUME NEW g \in Graces, CreateContainer(p, g) PROVE CountdownCurrent'
  <2>1. made[hdl[p]] = 0
    BY <1>0, <1>2 DEF CreateContainer
  <2>2. timeBombs[hdl[p]] = 0
    BY <1>0, <2>1, Zenon DEF MadeFirst, MadeBombs, Made
  <2>3. \A h \in Handles : h # hdl[p] => grace'[h] = grace[h]
    BY <1>0, <1>2, Zenon DEF CreateContainer
  <2>4. \A r \in Requests : pc[r] = "reset" => pc'[r] = "reset" /\ hdl'[r] = hdl[r]
    BY <1>0, <1>2, Zenon DEF CreateContainer, ProcInv, Procs
  <2> QED
    BY <1>2, <2>2, <2>3, <2>4, CountdownCarry, ZenonT(40) DEF CreateContainer
<1>3. CASE SendStrap(p) \/ SendPause(p) \/ SendUnpause(p) \/ SendDefuse(p) \/ SendCleanup(p)
  <2>1. Moves(p)
    BY <1>0, <1>3, GotoMoves, ReturnMoves, Zenon DEF SendStrap, SendPause, SendUnpause, SendDefuse,
       SendCleanup
  <2>2. signal = NoSignal /\ bombs' = bombs /\ timeBombs' = timeBombs
    BY <1>3, SendFacts, Zenon DEF SendStrap, SendPause, SendUnpause, SendDefuse, SendCleanup
  <2> QED
    BY <1>3, <1>a, <2>1, <2>2, Zenon DEF SendStrap, SendPause, SendUnpause, SendDefuse, SendCleanup
<1>4. CASE Lookup(p)
  <2>1. Moves(p)
    BY <1>0, <1>4, Zenon DEF Lookup, ProcInv, Moves
  <2> QED
    BY <1>4, <1>a, <2>1, Zenon DEF Lookup
<1>5. ASSUME NEW g \in Graces, SetGraceTime(p, g) PROVE CountdownCurrent'
  <2>1. p \in Requests
    BY <1>5, Zenon DEF SetGraceTime, ReapersReap, Procs
  <2>2. Moves(p) /\ pc'[p] = "reset" /\ hdl'[p] = hdl[p]
    BY <1>0, <1>5, GotoMoves, Zenon DEF SetGraceTime
  <2>3. \A h \in Handles : h # hdl[p] => grace'[h] = grace[h]
    BY <1>0, <1>5, Zenon DEF SetGraceTime
  <2>4. \A r \in Requests : pc[r] = "reset" => pc'[r] = "reset" /\ hdl'[r] = hdl[r]
    BY <2>2, <1>5, Zenon DEF SetGraceTime, Moves, Procs
  <2> QED
    BY <1>5, <2>1, <2>2, <2>3, <2>4, CountdownCarry, Zenon DEF SetGraceTime
<1>6. CASE SendReset(p)
  <2>1. Moves(p)
    BY <1>0, <1>6, ReturnMoves, ZenonT(40) DEF SendReset
  <2>2. /\ signal = NoSignal /\ bombs' = bombs /\ timeBombs' = timeBombs
        /\ signal'.act = "reset" /\ signal'.h = hdl[p]
    BY <1>6, SendFacts, ZenonT(40) DEF SendReset, Sent
  <2>3. \A h \in Handles : h = hdl[p] => Sent("reset", h)'
    BY <2>2, ZenonT(40) DEF Sent
  <2>4. \A r \in Requests : pc[r] = "reset" /\ hdl[r] # hdl[p] => pc'[r] = "reset" /\ hdl'[r] = hdl[r]
    BY <2>1 DEF Moves, Procs
  <2> QED
    BY <1>6, <2>2, <2>3, <2>4, CountdownCarry, ZenonT(40) DEF SendReset
<1>7. CASE AlreadyDestroying(p) \/ Claim(p) \/ DestroyReturns(p) \/ DestroyError(p) \/ Release(p)
  <2>1. Moves(p)
    BY <1>0, <1>7, GotoMoves, ReturnMoves, Zenon DEF AlreadyDestroying, Claim, DestroyReturns,
       DestroyError, Release
  <2> QED
    BY <1>7, <1>a, <2>1, Zenon DEF AlreadyDestroying, Claim, DestroyReturns, DestroyError, Release
<1> QED
  BY <1>1, <1>2, <1>3, <1>4, <1>5, <1>6, <1>7, Zenon DEF Step

\* manageBombs gives a bomb the grace time its container has at that moment.
LEMMA ManageCountdown ==
  ASSUME MaxIncarnation = 1, TypeInv, CountdownCurrent, BombermanStep
  PROVE  CountdownCurrent'
<1> DEFINE h == signal.h
           n == signal.n
           b == bombs[h][timeBombs[h]]
<1>0. /\ bombs \in [Handles -> [Incarnations -> Bomb]] /\ timeBombs \in [Handles -> 0 .. 1]
      /\ grace \in [Handles -> [Incarnations -> Graces]] /\ Incarnations = {1}
      /\ h \in Handles /\ n \in 0 .. 1 /\ ManageBombs /\ grace' = grace
      /\ UNCHANGED <<pc, hdl>> /\ BombermanTypeOK /\ Graces \subseteq Nat
  BY ManageFacts, ContainersAssumption, SMTT(40) DEF BombermanStep, procVars, TypeInv, SignalInv,
     BombermanTypeOK, Signals, Incarnations
<1>1. \A k \in Handles : k # h => bombs'[k] = bombs[k] /\ timeBombs'[k] = timeBombs[k]
  BY <1>0, ManageFacts, SMTT(40)
<1>2. timeBombs'[h] # 0 => \/ bombs'[h][timeBombs'[h]].countdown = grace[h][timeBombs'[h]]
                           \/ /\ timeBombs'[h] = timeBombs[h] /\ signal.act # "reset"
                              /\ bombs'[h][timeBombs[h]].countdown = b.countdown
  <2>0. timeBombs[h] # 0 => b \in Bomb /\ timeBombs[h] = 1
    BY <1>0, FoundBomb, Zenon
  <2> HIDE DEF h, n, b
  <2>1. CASE ManageStrap
    <3>1. n = 1 => grace[h][n] \in Nat
      BY <1>0, Zenon
    <3>2. n = 1 => NewBomb(grace[h][n]).countdown = grace[h][n]
      BY <3>1, NewFacts, Zenon
    <3>3. bombs' = [bombs EXCEPT ![h][n] = NewBomb(grace[h][n])] /\ timeBombs'[h] = n
      BY <1>0, <2>1, Zenon DEF ManageStrap, h, n
    <3>4. n = 1 => bombs'[h][n] = NewBomb(grace[h][n])
      BY <1>0, <3>3, SMTT(40)
    <3> QED
      BY <1>0, <3>2, <3>3, <3>4, SMTT(40)
  <2>2. CASE ManageArm
    <3>1. timeBombs' = timeBombs /\ signal.act = "arm"
      BY <2>2, Zenon DEF ManageArm
    <3>2. bombs' = bombs \/ bombs' = [bombs EXCEPT ![h][n] = StrapBomb(bombs[h][n])]
      BY <2>2, Zenon DEF ManageArm, h, n
    <3>3. timeBombs[h] # 0 => bombs'[h][1] = bombs[h][1] \/ bombs'[h][1] = StrapBomb(bombs[h][1])
      BY <1>0, <3>2, SMTT(40)
    <3>4. timeBombs[h] # 0 => bombs[h][1] = b /\ StrapBomb(b).countdown = b.countdown
      BY <2>0, AfterFuncFacts, Zenon DEF StrapBomb, b
    <3> QED
      BY <2>0, <3>1, <3>3, <3>4, Zenon
  <2>3. CASE ManageReset
    <3>1. n = 1 /\ timeBombs' = timeBombs
      BY <1>0, <2>3, Zenon DEF ManageReset, TypeInv, SignalInv, n
    <3>2. timeBombs[h] # 0 => bombs' = [bombs EXCEPT ![h][timeBombs[h]] = ResetBomb(b, grace[h][n])]
      BY <2>3, Zenon DEF ManageReset, Found, h, n, b
    <3>3. grace[h][n] \in Nat
      BY <1>0, <3>1, Zenon
    <3>4. timeBombs[h] # 0 => ResetBomb(b, grace[h][n]).countdown = grace[h][n]
      BY <2>0, <3>3, ResetFacts, Zenon
    <3>5. timeBombs[h] # 0 => bombs'[h][timeBombs[h]] = ResetBomb(b, grace[h][n])
      BY <1>0, <2>0, <3>2, SMTT(40)
    <3> QED
      BY <2>0, <3>1, <3>4, <3>5, Zenon
  <2>4. CASE ManagePause
    <3>1. timeBombs[h] # 0 => bombs' = [bombs EXCEPT ![h][timeBombs[h]] = PauseBomb(b)]
      BY <2>4, Zenon DEF ManagePause, Found, h, b
    <3>2. timeBombs[h] # 0 => bombs'[h][timeBombs[h]] = PauseBomb(b)
      BY <1>0, <2>0, <3>1
    <3> QED
      BY <2>0, <2>4, <3>2, PauseFacts, ZenonT(40) DEF ManagePause
  <2>5. CASE ManageUnpause
    <3>1. timeBombs[h] # 0 => bombs' = [bombs EXCEPT ![h][timeBombs[h]] = UnpauseBomb(b)]
      BY <2>5, Zenon DEF ManageUnpause, Found, h, b
    <3>2. timeBombs[h] # 0 => bombs'[h][timeBombs[h]] = UnpauseBomb(b)
      BY <1>0, <2>0, <3>1
    <3> QED
      BY <2>0, <2>5, <3>2, UnpauseFacts, ZenonT(40) DEF ManageUnpause
  <2>6. CASE ManageDefuse \/ ManageCleanup
    <3>1. timeBombs'[h] = 0
      BY <1>0, <2>6 DEF ManageDefuse, ManageCleanup, h
    <3> QED
      BY <3>1
  <2> QED
    BY <1>0, <2>1, <2>2, <2>3, <2>4, <2>5, <2>6, Zenon DEF ManageBombs
<1>3. ASSUME NEW k \in Handles, timeBombs'[k] # 0,
             ~ \E r \in Requests : pc[r] = "reset" /\ hdl[r] = k
      PROVE  bombs'[k][timeBombs'[k]].countdown = grace[k][timeBombs'[k]]
  <2>1. CASE k # h
    BY <1>1, <1>3, <2>1, Zenon DEF CountdownCurrent, Sent
  <2>2. CASE k = h
    BY <1>2, <1>3, <2>2, ZenonT(40) DEF CountdownCurrent, Sent
  <2> QED
    BY <2>1, <2>2, Zenon
<1> HIDE DEF h, n, b
<1> QED
  BY <1>0, <1>3, Zenon DEF CountdownCurrent

\* Each step does, those of the Bomberman and of the timers included.
LEMMA NextCountdown ==
  ASSUME MaxIncarnation = 1, TypeInv, MadeFirst, ReapersReap, CountdownCurrent, [Next]_vars
  PROVE  CountdownCurrent'
<1>0. ProcInv
  BY DEF TypeInv
<1>a. ASSUME UNCHANGED <<bombs, timeBombs, grace>>, signal' = signal \/ signal = NoSignal,
             \A r \in Requests : pc[r] = "reset" => pc'[r] = "reset" /\ hdl'[r] = hdl[r]
      PROVE  CountdownCurrent'
  BY <1>a, CountdownCarry, ZenonT(40)
<1> USE DEF bombVars, procVars
<1>1. ASSUME NEW h \in Handles, SetupStrap(h) PROVE CountdownCurrent'
  <2>1. signal = NoSignal /\ bombs' = bombs /\ timeBombs' = timeBombs
    BY <1>1, SendFacts, ZenonT(40) DEF SetupStrap
  <2> QED
    BY <1>1, <1>a, <2>1, ZenonT(40) DEF SetupStrap
<1>2. ASSUME NEW r \in Requests, NEW o \in Ops, NEW h \in Handles, Arrive(r, o, h)
      PROVE  CountdownCurrent'
  <2>1. \A q \in Requests : pc[q] = "reset" => pc'[q] = "reset" /\ hdl'[q] = hdl[q]
    BY <1>0, <1>2, ZenonT(40) DEF Arrive, ProcInv, Procs
  <2> QED
    BY <1>2, <1>a, <2>1, Zenon DEF Arrive
<1>3. ASSUME NEW r \in Requests, CallReturns(r) PROVE CountdownCurrent'
  <2>1. \A q \in Requests : pc[q] = "reset" => pc'[q] = "reset" /\ hdl'[q] = hdl[q]
    BY <1>0, <1>3, Zenon DEF CallReturns, Goto, ProcInv, Procs
  <2> QED
    BY <1>3, <1>a, <2>1, ZenonT(40) DEF CallReturns
<1>4. ASSUME NEW p \in Procs, Step(p) PROVE CountdownCurrent'
  BY <1>4, StepCountdown, ZenonT(40)
<1>5. ASSUME NEW q \in Reapers, NEW h \in Handles, NEW n \in Incarnations, Fire(q, h, n)
      PROVE  CountdownCurrent'
  <2>1. \A r \in Requests : pc[r] = "reset" => pc'[r] = "reset" /\ hdl'[r] = hdl[r]
    BY <1>0, <1>5, ServerAssumption, Zenon DEF Fire, ProcInv, Procs
  <2>2. /\ bombs \in [Handles -> [Incarnations -> Bomb]] /\ BombermanTypeOK
        /\ bombs' = [bombs EXCEPT ![h][n] = FireTimer(bombs[h][n])]
        /\ timeBombs' = timeBombs /\ signal' = signal /\ grace' = grace
    BY <1>5, Zenon DEF Fire, TimerFires, TypeInv, SignalInv, BombermanTypeOK
  <2>3. \A k \in Handles : \A m \in Incarnations : bombs'[k][m].countdown = bombs[k][m].countdown
    BY <2>2 DEF FireTimer, Bomb
  <2>4. \A k \in Handles : timeBombs[k] # 0 => timeBombs[k] \in Incarnations
    BY <2>2, FoundBomb, Zenon
  <2>5. ASSUME NEW k \in Handles, timeBombs[k] # 0, ~Sent("reset", k),
               ~ \E r \in Requests : pc'[r] = "reset" /\ hdl'[r] = k
        PROVE  bombs'[k][timeBombs[k]].countdown = grace[k][timeBombs[k]]
    <3>1. bombs[k][timeBombs[k]].countdown = grace[k][timeBombs[k]]
      BY <2>1, <2>5, ZenonT(40) DEF CountdownCurrent
    <3> QED
      BY <2>3, <2>4, <2>5, <3>1, Zenon
  <2>6. \A k \in Handles : Sent("reset", k)' = Sent("reset", k)
    BY <2>2 DEF Sent
  <2> QED
    BY <2>2, <2>5, <2>6, ZenonT(40) DEF CountdownCurrent
<1>6. CASE BombermanStep
  BY <1>6, ManageCountdown
<1>7. CASE Crash
  BY <1>7, ZenonT(40) DEF Crash, BombermanLost, CountdownCurrent
<1>8. CASE UNCHANGED vars
  BY <1>8, <1>a, ZenonT(40) DEF vars
<1> QED
  BY <1>1, <1>2, <1>3, <1>4, <1>5, <1>6, <1>7, <1>8, ZenonT(40) DEF Next

\* A bomb counts down its container's current grace time once every SetGraceTime
\* has been followed by its Reset: the value manageBombs read is never stale.
THEOREM CountdownNeverStale ==
  ASSUME MaxIncarnation = 1
  PROVE  Spec => []CountdownCurrent
<1>1. Init => TypeInv /\ MadeFirst /\ ReapersReap /\ CountdownCurrent
  <2>1. Init => CountdownCurrent
    BY DEF Init, BombermanNew, CountdownCurrent
  <2> QED
    BY <2>1, InitType, InitMade, InitGuard, ZenonT(40)
<1>2. /\ TypeInv /\ MadeFirst /\ ReapersReap /\ CountdownCurrent
      /\ [Next]_vars
      => (TypeInv /\ MadeFirst /\ ReapersReap /\ CountdownCurrent)'
  BY NextType, NextMade, NextReap, NextCountdown, ZenonT(40)
<1> QED
  BY <1>1, <1>2, PTL DEF Spec
-----------------------------------------------------------------------------
(***************************************************************************)
(* Who uses a container, and when.  Where clients do not list the          *)
(* containers, they learn a handle from the answer to its Create, which    *)
(* comes after the strap was taken: nobody holds a container whose bomb is *)
(* yet to be made.                                                         *)
(***************************************************************************)

Uses(r) ==
  \/ pc[r] \in {"lookup", "pause", "call", "unpause", "setgrace", "reset"}
  \/ pc[r] = "decode" /\ Routes[op[r]].start = "lookup"

NoLists == \A r \in Requests : op[r] # "List"

KnownUsed == \A r \in Requests : Uses(r) => hdl[r] \in known

NewUnknown == \A r \in Requests : pc[r] = "strap" => hdl[r] \notin known

OneCreator ==
  \A r, s \in Requests :
    pc[r] = "strap" /\ pc[s] \in {"strap", "answer"} /\ hdl[r] = hdl[s] => r = s

SetupFirst == toStrap # {} => \A r \in Requests : pc[r] \in {"idle", "done"}

\* Nobody holds the container whose bomb is being strapped.
StrapUnheld ==
  signal.act \in {"strap", "arm"} =>
    \A r \in Requests : hdl[r] = signal.h => pc[r] \notin {"call", "unpause"}

HoldersHold ==
  \A r \in Requests : pc[r] \in {"pause", "call", "unpause"} => inc[r] \in Incarnations

UseInv ==
  NoLists /\ KnownUsed /\ NewUnknown /\ OneCreator /\ SetupFirst /\ StrapUnheld /\ HoldersHold

\* A step that neither creates, nor holds, nor lets go of a container.
Minor(p) ==
  /\ known' = known
  /\ pc[p] \notin {"strap", "answer", "call", "unpause"}
  /\ pc'[p] \notin {"decode", "strap", "answer", "pause", "call", "unpause", "setgrace"}
  /\ pc'[p] = "lookup" => Uses(p) /\ hdl'[p] = hdl[p]
  /\ pc'[p] = "reset" => Uses(p) /\ hdl'[p] = hdl[p]
  /\ \/ signal' = signal
     \/ signal = NoSignal /\ signal'.act \in {"reset", "defuse", "cleanup"}
  /\ UNCHANGED <<bombs, timeBombs>>

\* What a step of a goroutine is to the users of the containers.
StepKind(p) ==
  /\ Moves(p) /\ pc[p] \notin {"idle", "done", "call"} /\ toStrap' = toStrap
  /\ op'[p] \in {op[p], "Ping"}
  /\ \/ \E g \in Graces : CreateContainer(p, g)
     \/ SendStrap(p)
     \/ Answer(p)
     \/ Lookup(p)
     \/ SendPause(p)
     \/ SendUnpause(p)
     \/ Minor(p)

\* Each step of a goroutine is of one of these kinds.
LEMMA StepKinds ==
  ASSUME TypeInv, ReapersReap, NoLists, NEW p \in Procs, Step(p)
  PROVE  StepKind(p)
<1>0. /\ pc[p] \in Labels /\ op[p] \in DOMAIN Routes /\ ProcInv
      /\ Routes[op[p]].start \in {"query", "create", "claim", "lookup"}
  BY RoutesShape, Zenon DEF TypeInv, ProcInv
<1>a. ASSUME Return(p) PROVE Moves(p) /\ pc'[p] \in {"idle", "done"} /\ op'[p] = "Ping"
  BY <1>0, <1>a, ReturnMoves, ZenonT(40)
<1>b. ASSUME NEW l, Goto(p, l)
      PROVE  Moves(p) /\ pc'[p] = l /\ hdl'[p] = hdl[p] /\ op'[p] = op[p]
  BY <1>0, <1>b, GotoMoves, ZenonT(40)
<1> USE DEF bombVars, backendVars, setupVars
<1>1. CASE Decode(p)
  <2>1. Moves(p) /\ op'[p] \in {op[p], "Ping"} /\ toStrap' = toStrap /\ pc[p] = "decode"
    BY <1>1, <1>a, <1>b, Zenon DEF Decode
  <2>2. Minor(p)
    BY <1>0, <1>1, <1>a, <1>b, Zenon DEF Decode, Minor, Uses
  <2> QED
    BY <2>1, <2>2, Zenon DEF StepKind
<1>2. CASE QueryBackend(p)
  <2>1. p \in Requests
    BY <1>2, ZenonT(40) DEF QueryBackend, ReapersReap, Procs
  <2>2. known' = known
    BY <1>2, <2>1, ZenonT(40) DEF QueryBackend, NoLists
  <2>3. Minor(p)
    BY <1>2, <1>a, <2>2, Zenon DEF QueryBackend, Minor
  <2> QED
    BY <1>2, <1>a, <2>3, ZenonT(40) DEF QueryBackend, StepKind
<1>3. ASSUME NEW g \in Graces, CreateContainer(p, g)
      PROVE  StepKind(p)
  <2>1. Moves(p) /\ pc[p] = "create" /\ toStrap' = toStrap /\ op' = op
    BY <1>0, <1>3, Zenon DEF CreateContainer, ProcInv, Moves
  <2> QED
    BY <1>3, <2>1, Zenon DEF StepKind
<1>4. CASE CreateError(p) \/ LookupError(p)
  <2>1. Minor(p)
    BY <1>4, <1>a, Zenon DEF CreateError, LookupError, Minor
  <2> QED
    BY <1>4, <1>a, <2>1, ZenonT(40) DEF CreateError, LookupError, StepKind
<1>5. CASE SendStrap(p) \/ SendPause(p)
  BY <1>5, <1>b, Zenon DEF SendStrap, SendPause, StepKind
<1>6. CASE Answer(p) \/ SendUnpause(p)
  BY <1>6, <1>a, Zenon DEF Answer, SendUnpause, StepKind
<1>7. CASE Lookup(p)
  BY <1>0, <1>7, Zenon DEF Lookup, ProcInv, Moves, StepKind
<1>8. ASSUME NEW g \in Graces, SetGraceTime(p, g)
      PROVE  StepKind(p)
  <2>1. Moves(p) /\ pc[p] = "setgrace" /\ toStrap' = toStrap /\ op'[p] = op[p] /\ Minor(p)
    BY <1>8, <1>b, SMTT(40) DEF SetGraceTime, Minor, Uses
  <2> QED
    BY <2>1, ZenonT(40) DEF StepKind
<1>9. CASE SendReset(p) \/ SendDefuse(p) \/ SendCleanup(p)
  <2>1. /\ signal = NoSignal /\ signal'.act \in {"reset", "defuse", "cleanup"}
        /\ bombs' = bombs /\ timeBombs' = timeBombs
    BY <1>9, SendFacts, Zenon DEF SendReset, SendDefuse, SendCleanup
  <2>2. Minor(p)
    BY <1>9, <1>a, <2>1, ZenonT(40) DEF SendReset, SendDefuse, SendCleanup, Minor
  <2> QED
    BY <1>9, <1>a, <2>2, ZenonT(40) DEF SendReset, SendDefuse, SendCleanup, StepKind
<1>10. CASE AlreadyDestroying(p)
  <2>1. Minor(p) /\ Moves(p) /\ op'[p] \in {op[p], "Ping"}
    BY <1>10, <1>a, <1>b, SMTT(40) DEF AlreadyDestroying, Minor
  <2> QED
    BY <1>10, <2>1, ZenonT(40) DEF AlreadyDestroying, StepKind
<1>11. CASE Claim(p) \/ DestroyReturns(p) \/ DestroyError(p)
  <2>1. Minor(p)
    BY <1>11, <1>b, SMTT(40) DEF Claim, DestroyReturns, DestroyError, Minor
  <2> QED
    BY <1>11, <1>b, <2>1, ZenonT(40) DEF Claim, DestroyReturns, DestroyError, StepKind
<1>12. CASE Release(p)
  <2>1. Minor(p) /\ Moves(p) /\ op'[p] \in {op[p], "Ping"}
    BY <1>12, <1>a, <1>b, SMTT(40) DEF Release, Minor
  <2> QED
    BY <1>12, <2>1, ZenonT(40) DEF Release, StepKind
<1> QED
  BY <1>1, <1>2, <1>3, <1>4, <1>5, <1>6, <1>7, <1>8, <1>9, <1>10, <1>11, <1>12,
     ZenonT(40) DEF Step

\* The steps of a goroutine keep UseInv.
LEMMA StepUse ==
  ASSUME MaxIncarnation = 1, TypeInv, MadeFirst, ReapersReap, UseInv, NEW p \in Procs, Step(p)
  PROVE  UseInv'
<1>0. /\ hdl[p] \in Handles /\ op[p] \in DOMAIN Routes /\ ProcInv
      /\ made \in [Handles -> 0 .. 1] /\ backend \in [Handles -> 0 .. 1] /\ Incarnations = {1}
      /\ Routes[op[p]].found \in {"done", "pause", "setgrace"}
  BY RoutesShape DEF TypeInv, ProcInv, BackendInv, Incarnations
<1>1. /\ Moves(p) /\ pc[p] \notin {"idle", "done", "call"} /\ toStrap' = toStrap
      /\ op'[p] \in {op[p], "Ping"}
  BY StepKinds, Zenon DEF UseInv, StepKind
<1>2. /\ NoLists /\ KnownUsed /\ NewUnknown /\ OneCreator /\ SetupFirst /\ StrapUnheld
      /\ HoldersHold
  BY DEF UseInv
<1>3. NoLists'
  BY <1>1, <1>2, Zenon DEF NoLists, Moves, Procs
<1>4. SetupFirst'
  BY <1>1, <1>2, Zenon DEF SetupFirst, Moves, Procs
<1>a. ASSUME known \subseteq known', p \in Requests /\ Uses(p)' => Uses(p) /\ hdl'[p] = hdl[p]
      PROVE  KnownUsed'
  <2> SUFFICES ASSUME NEW r \in Requests, Uses(r)' PROVE hdl'[r] \in known'
      BY DEF KnownUsed
  <2>1. Uses(r) /\ hdl'[r] = hdl[r]
    <3>1. CASE r = p
      BY <1>a, <3>1, SMTT(40)
    <3>2. CASE r # p
      BY <1>1, <3>2, Zenon DEF Uses, Moves, Procs
    <3> QED
      BY <3>1, <3>2, ZenonT(40)
  <2> QED
    BY <1>2, <1>a, <2>1, ZenonT(40) DEF KnownUsed
<1>b. ASSUME known' = known, pc'[p] # "strap" PROVE NewUnknown'
  BY <1>1, <1>2, <1>b, ZenonT(40) DEF NewUnknown, Moves, Procs
<1>c. ASSUME pc'[p] \notin {"strap", "answer"} PROVE OneCreator'
  BY <1>1, <1>2, <1>c, SMTT(40) DEF OneCreator, Moves, Procs
<1>d. ASSUME pc'[p] \notin {"call", "unpause"},
             signal' = signal \/ signal'.act \notin {"strap", "arm"}
      PROVE  StrapUnheld'
  BY <1>1, <1>2, <1>d, Zenon DEF StrapUnheld, Moves, Procs
<1>e. ASSUME pc'[p] \notin {"pause", "call", "unpause"} PROVE HoldersHold'
  BY <1>1, <1>2, <1>e, ZenonT(40) DEF HoldersHold, Moves, Procs
<1> USE DEF bombVars, backendVars, setupVars
<1>5. ASSUME NEW g \in Graces, CreateContainer(p, g) PROVE UseInv'
  <2>1. /\ pc'[p] = "strap" /\ hdl' = hdl /\ known' = known /\ signal' = signal
        /\ made[hdl[p]] = 0
    BY <1>0, <1>5, SMTT(40) DEF CreateContainer, ProcInv
  <2>2. hdl[p] \notin known /\ \A r \in Requests : pc[r] \in {"strap", "answer"} => hdl[r] # hdl[p]
    BY <2>1, ZenonT(40) DEF MadeFirst, MadeContainers, MadeProcs, Made, Past, Blank, Procs
  <2>3. KnownUsed'
    BY <1>a, <2>1, ZenonT(40) DEF Uses
  <2>4. NewUnknown'
    BY <1>1, <1>2, <2>1, <2>2, ZenonT(40) DEF NewUnknown, Moves, Procs
  <2>5. OneCreator'
    BY <1>1, <1>2, <2>1, <2>2, SMTT(40) DEF OneCreator, Moves, Procs
  <2>6. StrapUnheld' /\ HoldersHold'
    BY <1>d, <1>e, <2>1, ZenonT(40)
  <2> QED
    BY <1>3, <1>4, <2>3, <2>4, <2>5, <2>6, ZenonT(40) DEF UseInv
<1>6. CASE SendStrap(p)
  <2>1. pc'[p] = "answer" /\ hdl'[p] = hdl[p] /\ known' = known /\ pc[p] = "strap" /\ p \in Requests
    BY <1>0, <1>6, GotoMoves, ZenonT(40) DEF SendStrap, ReapersReap, Procs
  <2>2. signal'.act = "strap" /\ signal'.h = hdl[p]
    BY <1>6, SendFacts, ZenonT(40) DEF SendStrap
  <2>3. KnownUsed'
    BY <1>a, <2>1, ZenonT(40) DEF Uses
  <2>4. NewUnknown' /\ HoldersHold'
    BY <1>b, <1>e, <2>1, ZenonT(40)
  <2>5. OneCreator'
    BY <1>1, <1>2, <2>1, SMTT(40) DEF OneCreator, Moves, Procs
  <2>6. StrapUnheld'
    <3>1. \A r \in Requests : pc[r] \in {"call", "unpause"} => hdl[r] # hdl[p]
      BY <1>2, <2>1, ZenonT(40) DEF KnownUsed, NewUnknown, Uses
    <3> QED
      BY <1>1, <2>1, <2>2, <3>1, Zenon DEF StrapUnheld, Moves, Procs
  <2> QED
    BY <1>3, <1>4, <2>3, <2>4, <2>5, <2>6, ZenonT(40) DEF UseInv
<1>7. CASE Answer(p)
  <2>1. /\ pc'[p] \in {"idle", "done"} /\ known' = known \cup {hdl[p]} /\ signal' = signal
        /\ pc[p] = "answer" /\ p \in Requests
    BY <1>0, <1>7, ReturnMoves, ZenonT(40) DEF Answer, ReapersReap, Procs
  <2>2. KnownUsed'
    BY <1>a, <2>1, Zenon DEF Uses
  <2>3. NewUnknown'
    <3>1. \A r \in Requests : pc[r] = "strap" => hdl[r] # hdl[p]
      BY <1>2, <2>1, ZenonT(40) DEF OneCreator
    <3> QED
      BY <1>1, <1>2, <2>1, <3>1, ZenonT(40) DEF NewUnknown, Moves, Procs
  <2>4. OneCreator' /\ StrapUnheld' /\ HoldersHold'
    BY <1>c, <1>d, <1>e, <2>1, ZenonT(40)
  <2> QED
    BY <1>3, <1>4, <2>2, <2>3, <2>4, ZenonT(40) DEF UseInv
<1>8. CASE Lookup(p)
  <2>1. /\ pc'[p] \in {"done", "pause", "setgrace"} /\ hdl' = hdl /\ known' = known
        /\ signal' = signal /\ pc[p] = "lookup" /\ inc'[p] = 1
    BY <1>0, <1>8, SMTT(40) DEF Lookup, ProcInv
  <2>2. KnownUsed'
    BY <1>a, <2>1, ZenonT(40) DEF Uses
  <2>3. NewUnknown' /\ OneCreator' /\ StrapUnheld'
    BY <1>b, <1>c, <1>d, <2>1, ZenonT(40)
  <2>4. HoldersHold'
    BY <1>0, <1>1, <1>2, <2>1, Zenon DEF HoldersHold, Moves, Procs
  <2> QED
    BY <1>3, <1>4, <2>2, <2>3, <2>4, ZenonT(40) DEF UseInv
<1>9. CASE SendPause(p)
  <2>1. /\ pc'[p] = "call" /\ hdl'[p] = hdl[p] /\ inc'[p] = inc[p] /\ known' = known
        /\ pc[p] = "pause" /\ signal'.act = "pause"
    BY <1>0, <1>9, GotoMoves, SendFacts, ZenonT(40) DEF SendPause
  <2>2. KnownUsed'
    BY <1>a, <2>1, ZenonT(40) DEF Uses
  <2>3. NewUnknown' /\ OneCreator'
    BY <1>b, <1>c, <2>1, ZenonT(40)
  <2>4. StrapUnheld'
    BY <2>1 DEF StrapUnheld
  <2>5. HoldersHold'
    BY <1>1, <1>2, <2>1, ZenonT(40) DEF HoldersHold, Moves, Procs
  <2> QED
    BY <1>3, <1>4, <2>2, <2>3, <2>4, <2>5, ZenonT(40) DEF UseInv
<1>10. CASE SendUnpause(p)
  <2>1. pc'[p] \in {"idle", "done"} /\ known' = known /\ signal'.act = "unpause"
    BY <1>0, <1>10, ReturnMoves, SendFacts, ZenonT(40) DEF SendUnpause
  <2>2. KnownUsed'
    BY <1>a, <2>1, ZenonT(40) DEF Uses
  <2>3. NewUnknown' /\ OneCreator' /\ StrapUnheld' /\ HoldersHold'
    BY <1>b, <1>c, <1>d, <1>e, <2>1, ZenonT(40)
  <2> QED
    BY <1>3, <1>4, <2>2, <2>3, ZenonT(40) DEF UseInv
<1>11. CASE Minor(p)
  <2>1. KnownUsed'
    BY <1>11, <1>a, ZenonT(40) DEF Minor, Uses
  <2>2. NewUnknown' /\ OneCreator' /\ StrapUnheld' /\ HoldersHold'
    BY <1>11, <1>b, <1>c, <1>d, <1>e, ZenonT(40) DEF Minor
  <2> QED
    BY <1>3, <1>4, <2>1, <2>2 DEF UseInv
<1> QED
  BY <1>2, <1>5, <1>6, <1>7, <1>8, <1>9, <1>10, <1>11, StepKinds, ZenonT(40) DEF StepKind

\* Each step keeps UseInv.
LEMMA NextUse ==
  ASSUME MaxIncarnation = 1, "List" \notin Ops, TypeInv, MadeFirst, ReapersReap, UseInv,
         [Next]_vars
  PROVE  UseInv'
<1>0. /\ NoLists /\ KnownUsed /\ NewUnknown /\ OneCreator /\ SetupFirst /\ StrapUnheld
      /\ HoldersHold /\ ProcInv /\ Requests \cap Reapers = {}
  BY ServerAssumption DEF UseInv, TypeInv
<1>a. ASSUME \A r \in Requests : /\ pc'[r] = pc[r] /\ hdl'[r] = hdl[r] /\ op'[r] = op[r]
                                 /\ pc[r] \in {"pause", "call", "unpause"} => inc'[r] = inc[r],
             known' = known, toStrap' \subseteq toStrap, StrapUnheld'
      PROVE  UseInv'
  <2>1. NoLists' /\ NewUnknown' /\ OneCreator' /\ SetupFirst' /\ HoldersHold'
    BY <1>0, <1>a, SMTT(40) DEF NoLists, NewUnknown, OneCreator, SetupFirst, HoldersHold
  <2>2. KnownUsed'
    BY <1>0, <1>a, Zenon DEF KnownUsed, Uses
  <2> QED
    BY <1>a, <2>1, <2>2, ZenonT(40) DEF UseInv
<1> USE DEF bombVars, backendVars, setupVars, procVars
<1>1. ASSUME NEW h \in Handles, SetupStrap(h) PROVE UseInv'
  <2>1. StrapUnheld'
    BY <1>0, <1>1, ZenonT(40) DEF SetupStrap, SetupFirst, StrapUnheld
  <2> QED
    BY <1>1, <1>a, <2>1, Zenon DEF SetupStrap
<1>2. ASSUME NEW r \in Requests, NEW o \in Ops, NEW h \in Handles, Arrive(r, o, h)
      PROVE  UseInv'
  <2>1. /\ r \in Procs /\ o # "List"
        /\ Routes[o].start \in {"query", "create", "claim", "lookup"}
    BY ServerAssumption, RoutesShape, ZenonT(40) DEF Procs
  <2>2. /\ Moves(r) /\ pc'[r] = (IF Routes[o].decodes THEN "decode" ELSE Routes[o].start)
        /\ op'[r] = o /\ hdl'[r] = h /\ UNCHANGED <<known, toStrap, signal>> /\ toStrap = {}
    BY <1>0, <1>2, <2>1, Zenon DEF Arrive, ProcInv, Moves
  <2>3. pc'[r] \in {"decode", "query", "create", "claim", "lookup"}
    BY <2>1, <2>2, ZenonT(40)
  <2>4. Uses(r)' => h \in known
    <3>1. Uses(r)' => Routes[o].start = "lookup"
      BY <2>1, <2>2, Zenon DEF Uses
    <3> QED
      BY <1>2, <3>1, ZenonT(40) DEF Arrive
  <2>5. KnownUsed'
    BY <1>0, <2>2, <2>4, ZenonT(40) DEF KnownUsed, Uses, Moves, Procs
  <2>6. \A q \in Requests \ {r} : pc'[q] = pc[q] /\ hdl'[q] = hdl[q] /\ op'[q] = op[q] /\ inc'[q] = inc[q]
    BY <2>2, Zenon DEF Moves, Procs
  <2>7. NoLists' /\ NewUnknown' /\ HoldersHold'
    BY <1>0, <2>1, <2>2, <2>3, <2>6, ZenonT(40) DEF NoLists, NewUnknown, HoldersHold
  <2>8. OneCreator'
    BY <1>0, <2>1, <2>2, <2>3, <2>6, ZenonT(40) DEF OneCreator
  <2>9. SetupFirst' /\ StrapUnheld'
    BY <1>0, <2>1, <2>2, <2>3, <2>6, ZenonT(40) DEF SetupFirst, StrapUnheld
  <2> QED
    BY <2>5, <2>7, <2>8, <2>9, ZenonT(40) DEF UseInv
<1>3. ASSUME NEW r \in Requests, CallReturns(r) PROVE UseInv'
  <2>1. r \in Procs
    BY DEF Procs
  <2>2. /\ Moves(r) /\ pc'[r] = "unpause" /\ op'[r] = op[r] /\ hdl'[r] = hdl[r]
        /\ inc'[r] = inc[r] /\ pc[r] = "call"
        /\ UNCHANGED <<known, toStrap, signal>>
    BY <1>0, <1>3, <2>1, GotoMoves, ZenonT(40) DEF CallReturns
  <2>3. KnownUsed'
    BY <1>0, <2>2, Zenon DEF KnownUsed, Uses, Moves, Procs
  <2>4. \A q \in Requests \ {r} : pc'[q] = pc[q] /\ hdl'[q] = hdl[q] /\ op'[q] = op[q] /\ inc'[q] = inc[q]
    BY <2>2, Zenon DEF Moves, Procs
  <2>5. NoLists' /\ NewUnknown' /\ HoldersHold'
    BY <1>0, <2>1, <2>2, <2>4, ZenonT(40) DEF NoLists, NewUnknown, HoldersHold
  <2>6. OneCreator'
    BY <1>0, <2>1, <2>2, <2>4, ZenonT(40) DEF OneCreator
  <2>7. SetupFirst' /\ StrapUnheld'
    BY <1>0, <2>1, <2>2, <2>4, ZenonT(40) DEF SetupFirst, StrapUnheld
  <2> QED
    BY <2>3, <2>5, <2>6, <2>7, ZenonT(40) DEF UseInv
<1>4. ASSUME NEW p \in Procs, Step(p) PROVE UseInv'
  BY <1>4, StepUse, ZenonT(40)
<1>5. ASSUME NEW q \in Reapers, NEW h \in Handles, NEW n \in Incarnations, Fire(q, h, n)
      PROVE  UseInv'
  <2>1. \A r \in Requests : pc'[r] = pc[r] /\ hdl'[r] = hdl[r] /\ op'[r] = op[r] /\ inc'[r] = inc[r]
    BY <1>0, <1>5, ZenonT(40) DEF Fire, ProcInv, Procs
  <2>2. StrapUnheld'
    BY <1>0, <1>5, <2>1, ZenonT(40) DEF Fire, TimerFires, StrapUnheld
  <2> QED
    BY <1>5, <1>a, <2>1, <2>2, Zenon DEF Fire
<1>6. CASE BombermanStep
  <2>1. /\ signal' = NoSignal \/ (signal.act = "strap" /\ signal'.h = signal.h)
        /\ UNCHANGED <<pc, hdl>>
    BY <1>6, ManageFacts, ZenonT(40) DEF BombermanStep, Signals
  <2>2. StrapUnheld'
    BY <1>0, <2>1, SMTT(40) DEF StrapUnheld, NoSignal
  <2> QED
    BY <1>6, <1>a, <2>2, ZenonT(40) DEF BombermanStep
<1>7. CASE Crash
  <2>1. \A r \in Requests : pc'[r] \in {"idle", "done"} /\ op'[r] = "Ping"
    BY <1>7, ZenonT(40) DEF Crash, Procs
  <2> QED
    BY <2>1, ZenonT(40) DEF UseInv, NoLists, KnownUsed, NewUnknown, OneCreator, SetupFirst, StrapUnheld,
                HoldersHold, Uses
<1>8. CASE UNCHANGED vars
  BY <1>0, <1>8, <1>a, ZenonT(40) DEF vars, StrapUnheld
<1> QED
  BY <1>1, <1>2, <1>3, <1>4, <1>5, <1>6, <1>7, <1>8, ZenonT(40) DEF Next
-----------------------------------------------------------------------------
(***************************************************************************)
(* Who is using it.  The bomb counts its users and is still while it has   *)
(* any, when the clients do not list the containers.                       *)
(***************************************************************************)
\* A finite set that gains or loses an element gains or loses one.
LEMMA OneMore ==
  ASSUME NEW S, NEW T, NEW x, IsFiniteSet(S), x \notin S, T = S \cup {x}
  PROVE  Cardinality(T) = Cardinality(S) + 1
BY FS_AddElement, Zenon

\* A set with one element less has one less.
LEMMA OneLess ==
  ASSUME NEW S, NEW T, NEW x, IsFiniteSet(S), x \in S, T = S \ {x}
  PROVE  Cardinality(T) = Cardinality(S) - 1
BY FS_RemoveElement, ZenonT(40)

\* A bomb that somebody holds has no timer.
HeldIsStill ==
  \A h \in Handles :
    timeBombs[h] # 0 /\ bombs[h][timeBombs[h]].pauses # 0 => bombs[h][timeBombs[h]].timer = "nil"

\* There are finitely many holders of a container.
LEMMA HoldersFinite ==
  ASSUME IsFiniteSet(Requests), NEW h, NEW n
  PROVE  IsFiniteSet(Holders(h, n)) /\ Cardinality(Holders(h, n)) \in Nat
<1>1. Holders(h, n) \subseteq Requests
  BY ZenonT(40) DEF Holders
<1> QED
  BY <1>1, FS_Subset, FS_CardinalityType, ZenonT(40)

\* A step that leaves the bombs, their holders and the signals to them alone.
LEMMA BalanceCarry ==
  ASSUME PausesBalanced, HeldIsStill, bombs' = bombs, timeBombs' = timeBombs,
         \A h, n : Holders(h, n)' = Holders(h, n),
         \/ signal' = signal
         \/ signal = NoSignal /\ signal'.act \notin {"pause", "unpause"}
  PROVE  PausesBalanced' /\ HeldIsStill'
<1>1. \A h : Sent("pause", h)' = Sent("pause", h) /\ Sent("unpause", h)' = Sent("unpause", h)
  BY DEF Sent, NoSignal
<1>2. PausesBalanced'
  BY <1>1, Zenon DEF PausesBalanced
<1>3. HeldIsStill'
  BY Zenon DEF HeldIsStill
<1> QED
  BY <1>2, <1>3, ZenonT(40)

\* A goroutine counts itself in and out.
LEMMA StepBalance ==
  ASSUME MaxIncarnation = 1, IsFiniteSet(Requests), TypeInv, ReapersReap, UseInv,
         PausesBalanced, HeldIsStill, NEW p \in Procs, Step(p)
  PROVE  PausesBalanced' /\ HeldIsStill'
<1>0. /\ hdl[p] \in Handles /\ ProcInv /\ timeBombs \in [Handles -> 0 .. 1]
      /\ bombs \in [Handles -> [Incarnations -> Bomb]] /\ Incarnations = {1}
  BY DEF TypeInv, ProcInv, SignalInv, BombermanTypeOK, Incarnations
<1>1. Moves(p)
  BY StepKinds, Zenon DEF UseInv, StepKind
<1>2. ASSUME NEW h, NEW n
      PROVE  \A r \in Requests : r # p => (r \in Holders(h, n)' <=> r \in Holders(h, n))
  BY <1>1, Zenon DEF Holders, Moves, Procs
<1>a. ASSUME pc[p] \notin {"call", "unpause"}, pc'[p] \notin {"call", "unpause"},
             bombs' = bombs, timeBombs' = timeBombs,
             signal' = signal \/ (signal = NoSignal /\ signal'.act \notin {"pause", "unpause"})
      PROVE  PausesBalanced' /\ HeldIsStill'
  <2>1. \A h, n : Holders(h, n)' = Holders(h, n)
    <3> SUFFICES ASSUME NEW h, NEW n PROVE Holders(h, n)' = Holders(h, n)
        OBVIOUS
    <3>1. p \notin Holders(h, n) /\ p \notin Holders(h, n)'
      BY <1>a, ZenonT(40) DEF Holders
    <3>2. Holders(h, n) \subseteq Requests /\ Holders(h, n)' \subseteq Requests
      BY SMTT(40) DEF Holders
    <3> QED
      BY <1>2, <3>1, <3>2, SMTT(40)
  <2> QED
    BY <1>a, <2>1, BalanceCarry, ZenonT(40)
<1> USE DEF bombVars
<1>3. ASSUME NEW g \in Graces, CreateContainer(p, g) PROVE PausesBalanced' /\ HeldIsStill'
  <2>1. pc'[p] = "strap"
    BY <1>0, <1>3, ZenonT(40) DEF CreateContainer, ProcInv
  <2> QED
    BY <1>3, <1>a, <2>1, ZenonT(40) DEF CreateContainer
<1>4. CASE SendStrap(p)
  <2>1. pc'[p] = "answer" /\ signal = NoSignal /\ signal'.act = "strap"
        /\ bombs' = bombs /\ timeBombs' = timeBombs
    BY <1>0, <1>4, GotoMoves, SendFacts, ZenonT(40) DEF SendStrap
  <2> QED
    BY <1>4, <1>a, <2>1, ZenonT(40) DEF SendStrap
<1>5. CASE Answer(p)
  <2>1. pc'[p] \in {"idle", "done"}
    BY <1>0, <1>5, ReturnMoves, ZenonT(40) DEF Answer
  <2> QED
    BY <1>5, <1>a, <2>1, Zenon DEF Answer
<1>6. CASE Lookup(p)
  <2>1. pc'[p] \in {"done", "pause", "setgrace"}
    BY <1>0, <1>6, RoutesShape, ZenonT(40) DEF Lookup, ProcInv
  <2> QED
    BY <1>6, <1>a, <2>1, ZenonT(40) DEF Lookup
<1>7. CASE Minor(p)
  BY <1>7, <1>a, ZenonT(40) DEF Minor
<1>8. CASE SendPause(p) \/ SendUnpause(p)
  <2> DEFINE h == hdl[p]
             H == Holders(h, 1)
  <2>1. p \in Requests /\ inc[p] = 1
    BY <1>0, <1>8, ZenonT(40) DEF SendPause, SendUnpause, ReapersReap, Procs, UseInv, HoldersHold
  <2>2. signal = NoSignal /\ bombs' = bombs /\ timeBombs' = timeBombs /\ signal'.h = h
    BY <1>8, SendFacts, ZenonT(40) DEF SendPause, SendUnpause
  <2>3. ~Sent("pause", h) /\ ~Sent("unpause", h)
    BY <2>2, ZenonT(40) DEF Sent, NoSignal
  <2>4. HeldIsStill'
    BY <2>2, ZenonT(40) DEF HeldIsStill
  <2>5. ASSUME NEW k \in Handles, k # h
        PROVE  /\ Holders(k, 1)' = Holders(k, 1)
               /\ Sent("pause", k)' = Sent("pause", k) /\ Sent("unpause", k)' = Sent("unpause", k)
    <3>1. p \notin Holders(k, 1) /\ p \notin Holders(k, 1)'
      <4>1. pc'[p] \in {"call", "unpause"} => hdl'[p] = h
        BY <1>0, <1>8, GotoMoves, ReturnMoves, ZenonT(40) DEF SendPause, SendUnpause
      <4> QED
        BY <2>5, <4>1, ZenonT(40) DEF Holders
    <3>2. Holders(k, 1) \subseteq Requests /\ Holders(k, 1)' \subseteq Requests
      BY ZenonT(40) DEF Holders
    <3> QED
      BY <1>2, <2>2, <2>5, <3>1, <3>2, SMTT(40) DEF Sent, NoSignal
  <2>6. timeBombs[h] # 0 => /\ timeBombs[h] = 1 /\ bombs[h][1].pauses = Cardinality(H)
    <3>1. Cardinality(H) \in Nat
      BY HoldersFinite, ZenonT(40)
    <3> QED
      BY <1>0, <2>3, <3>1, SMTT(40) DEF PausesBalanced
  <2>7. H \subseteq Requests /\ Holders(h, 1)' \subseteq Requests
    BY DEF Holders
  <2>8. timeBombs[h] # 0 =>
          bombs[h][1].pauses = Cardinality({r \in Requests : /\ pc'[r] \in {"call", "unpause"}
                                                             /\ hdl'[r] = h /\ inc'[r] = 1})
                               - (IF signal'.act = "pause" THEN 1 ELSE 0)
                               + (IF signal'.act = "unpause" THEN 1 ELSE 0)
    <3> DEFINE G == {r \in Requests : pc'[r] \in {"call", "unpause"} /\ hdl'[r] = h /\ inc'[r] = 1}
    <3>0. \A r \in Requests : r # p => (r \in G <=> r \in H)
      BY <1>1, ZenonT(40) DEF Holders, Moves, Procs
    <3>1. IsFiniteSet(H) /\ Cardinality(H) \in Nat
      BY HoldersFinite, ZenonT(40)
    <3>2. CASE SendPause(p)
      <4>1. pc'[p] = "call" /\ hdl'[p] = h /\ inc'[p] = 1 /\ pc[p] = "pause" /\ signal'.act = "pause"
        BY <1>0, <2>1, <3>2, GotoMoves, SendFacts, ZenonT(40) DEF SendPause
      <4>2. p \in G /\ p \notin H
        BY <2>1, <4>1, ZenonT(40) DEF Holders
      <4>3. G = H \cup {p}
        BY <2>7, <3>0, <4>2, Zenon
      <4>4. Cardinality(G) = Cardinality(H) + 1
        BY <3>1, <4>2, <4>3, OneMore, ZenonT(40)
      <4> HIDE DEF G, H
      <4> QED
        BY <2>6, <3>1, <4>1, <4>4, SMTT(120) DEF G
    <3>3. CASE SendUnpause(p)
      <4>1. pc'[p] \in {"idle", "done"} /\ pc[p] = "unpause" /\ signal'.act = "unpause"
        BY <1>0, <3>3, ReturnMoves, SendFacts, ZenonT(40) DEF SendUnpause
      <4>2. p \notin G /\ p \in H
        BY <2>1, <4>1, ZenonT(40) DEF Holders
      <4>3. G = H \ {p}
        BY <2>7, <3>0, <4>2, Zenon
      <4>4. Cardinality(G) = Cardinality(H) - 1
        BY <3>1, <4>2, <4>3, OneLess, Zenon
      <4> HIDE DEF G, H
      <4> QED
        BY <2>6, <3>1, <4>1, <4>4, SMTT(120) DEF G
    <3> QED
      BY <1>8, <3>2, <3>3, ZenonT(40)
  <2>9. PausesBalanced'
    <3> SUFFICES ASSUME NEW k \in Handles, timeBombs[k] # 0
                 PROVE  bombs[k][1].pauses = Cardinality(Holders(k, 1)')
                          - (IF Sent("pause", k)' THEN 1 ELSE 0)
                          + (IF Sent("unpause", k)' THEN 1 ELSE 0)
        BY <1>0, <2>2, SMTT(120) DEF PausesBalanced
    <3>1. CASE k = h
      BY <2>2, <2>8, <3>1, ZenonT(40) DEF Holders, Sent
    <3>2. CASE k # h
      <4>1. timeBombs[k] = 1
        BY <1>0, SMTT(40)
      <4> QED
        BY <2>5, <3>2, <4>1, ZenonT(40) DEF PausesBalanced
    <3> QED
      BY <3>1, <3>2, ZenonT(40)
  <2> QED
    BY <2>4, <2>9, ZenonT(40)
<1> QED
  BY <1>3, <1>4, <1>5, <1>6, <1>7, <1>8, StepKinds, ZenonT(40) DEF UseInv, StepKind

\* manageBombs counts what it is told and starts no timer on a bomb that is held.
LEMMA ManageBalance ==
  ASSUME MaxIncarnation = 1, IsFiniteSet(Requests), TypeInv, UseInv, PausesBalanced, HeldIsStill,
         BombermanStep
  PROVE  PausesBalanced' /\ HeldIsStill'
<1> DEFINE h == signal.h
           n == signal.n
           b == bombs[h][1]
           c == Cardinality(Holders(h, 1))
           d == bombs'[h][1]
<1>0. /\ bombs \in [Handles -> [Incarnations -> Bomb]] /\ timeBombs \in [Handles -> 0 .. 1]
      /\ grace \in [Handles -> [Incarnations -> Graces]] /\ Incarnations = {1}
      /\ h \in Handles /\ n \in 0 .. 1 /\ ManageBombs /\ Graces \subseteq Nat
      /\ UNCHANGED <<pc, hdl, inc>>
      /\ signal' = NoSignal \/ signal'.act = "arm"
      /\ \A k \in Handles : k # h => bombs'[k] = bombs[k] /\ timeBombs'[k] = timeBombs[k]
  BY ManageFacts, ContainersAssumption, SMTT(40) DEF BombermanStep, procVars, TypeInv, SignalInv,
     BombermanTypeOK, Signals, Incarnations
<1>1. \A k : ~Sent("pause", k)' /\ ~Sent("unpause", k)'
  BY <1>0, SMTT(40) DEF Sent, NoSignal
<1>2. b \in Bomb /\ c \in Nat
  BY <1>0, HoldersFinite, SMTT(40)
<1>3. timeBombs[h] # 0 =>
        /\ b.pauses = c - (IF signal.act = "pause" THEN 1 ELSE 0)
                        + (IF signal.act = "unpause" THEN 1 ELSE 0)
        /\ b.pauses # 0 => b.timer = "nil"
  BY <1>0 DEF PausesBalanced, HeldIsStill, Sent
<1>4. signal.act \in {"strap", "arm"} => c = 0
  <2>1. signal.act \in {"strap", "arm"} => Holders(h, 1) = {}
    BY DEF UseInv, StrapUnheld, Holders
  <2> QED
    BY <2>1, FS_EmptySet, ZenonT(40)
<1>5. timeBombs'[h] # 0 => d.pauses = c /\ (d.pauses # 0 => d.timer = "nil")
  <2> HIDE DEF h, n, b, c, d
  <2>1. CASE ManageStrap
    <3>1. n = 1 => grace[h][n] \in Nat
      BY <1>0, Zenon
    <3>2. n = 1 => NewBomb(grace[h][n]).pauses = 0 /\ NewBomb(grace[h][n]).timer = "nil"
      BY <3>1, NewFacts, Zenon
    <3>3. /\ bombs' = [bombs EXCEPT ![h][n] = NewBomb(grace[h][n])] /\ timeBombs'[h] = n
          /\ signal.act = "strap"
      BY <1>0, <2>1, ZenonT(40) DEF ManageStrap, h, n
    <3>4. n = 1 => d = NewBomb(grace[h][n])
      BY <1>0, <3>3, ZenonT(40) DEF d
    <3> QED
      BY <1>0, <1>4, <3>2, <3>3, <3>4, SMTT(40)
  <2>2. CASE ManageArm
    <3>1. timeBombs' = timeBombs /\ signal.act = "arm"
      BY <2>2, Zenon DEF ManageArm
    <3>2. bombs' = bombs \/ bombs' = [bombs EXCEPT ![h][n] = StrapBomb(bombs[h][n])]
      BY <2>2, Zenon DEF ManageArm, h, n
    <3>3. d = b \/ d = StrapBomb(b)
      BY <1>0, <3>2, SMTT(40) DEF d, b
    <3>4. StrapBomb(b).pauses = b.pauses
      BY <1>2, AfterFuncFacts, ZenonT(40) DEF StrapBomb
    <3>5. timeBombs[h] # 0 => b.pauses = 0
      BY <1>3, <1>4, <3>1, SMTT(40)
    <3> QED
      BY <1>4, <3>1, <3>3, <3>4, <3>5, ZenonT(40)
  <2>3. CASE ManageReset
    <3>1. n = 1 /\ timeBombs' = timeBombs /\ signal.act = "reset"
      BY <1>0, <2>3, Zenon DEF ManageReset, TypeInv, SignalInv, n
    <3>2. timeBombs[h] # 0 => bombs' = [bombs EXCEPT ![h][timeBombs[h]] = ResetBomb(@, grace[h][n])]
      BY <2>3, Zenon DEF ManageReset, Found, h, n
    <3>3. grace[h][n] \in Nat
      BY <1>0, <3>1, ZenonT(40), ZenonT(40)
    <3>4. timeBombs[h] # 0 => d = ResetBomb(b, grace[h][n])
      BY <1>0, <3>2 DEF d, b
    <3>5. b.pauses = c => ResetBomb(b, grace[h][n]).pauses = c
      BY <1>2, <3>3, ResetFacts, Zenon
    <3>6. b.pauses # 0 /\ b.timer = "nil" => ResetBomb(b, grace[h][n]).timer = "nil"
      BY <1>2, <3>3, ResetFacts, Zenon
    <3>7. timeBombs[h] # 0 => b.pauses = c /\ (b.pauses # 0 => b.timer = "nil")
      BY <1>2, <1>3, <3>1, SMTT(40)
    <3> QED
      BY <3>1, <3>4, <3>5, <3>6, <3>7, Zenon
  <2>4. CASE ManagePause
    <3>1. timeBombs' = timeBombs /\ signal.act = "pause"
      BY <2>4 DEF ManagePause
    <3>2. timeBombs[h] # 0 => bombs' = [bombs EXCEPT ![h][timeBombs[h]] = PauseBomb(@)]
      BY <2>4, Zenon DEF ManagePause, Found, h
    <3>3. timeBombs[h] # 0 => d = PauseBomb(b)
      BY <1>0, <3>2, SMTT(40) DEF d, b
    <3>4. PauseBomb(b).pauses = b.pauses + 1 /\ PauseBomb(b).timer = "nil"
      BY <1>2, PauseFacts, ZenonT(40)
    <3>5. timeBombs[h] # 0 => b.pauses + 1 = c
      BY <1>2, <1>3, <3>1, SMTT(40)
    <3> QED
      BY <3>1, <3>3, <3>4, <3>5, ZenonT(40)
  <2>5. CASE ManageUnpause
    <3>1. timeBombs' = timeBombs /\ signal.act = "unpause"
      BY <2>5 DEF ManageUnpause
    <3>2. timeBombs[h] # 0 => bombs' = [bombs EXCEPT ![h][timeBombs[h]] = UnpauseBomb(@)]
      BY <2>5, Zenon DEF ManageUnpause, Found, h
    <3>3. timeBombs[h] # 0 => d = UnpauseBomb(b)
      BY <1>0, <3>2 DEF d, b
    <3>4. timeBombs[h] # 0 => b.pauses = c + 1
      BY <1>2, <1>3, <3>1, SMTT(40)
    <3>5. timeBombs[h] # 0 => b.pauses # 0 /\ b.timer = "nil"
      BY <1>2, <1>3, <3>4, SMTT(40)
    <3>6. timeBombs[h] # 0 => UnpauseBomb(b).pauses = c
      BY <1>2, <3>4, UnpauseFacts, SMTT(40)
    <3>7. timeBombs[h] # 0 /\ c # 0 => UnpauseBomb(b).timer = b.timer
      <4>1. timeBombs[h] # 0 /\ c # 0 => b.pauses # 1
        BY <1>2, <3>4, SMTT(40)
      <4> QED
        BY <1>2, <4>1, UnpauseFacts, Zenon
    <3> QED
      BY <3>1, <3>3, <3>5, <3>6, <3>7, ZenonT(40)
  <2>6. CASE ManageDefuse \/ ManageCleanup
    <3>1. timeBombs'[h] = 0
      BY <1>0, <2>6, Zenon DEF ManageDefuse, ManageCleanup, h
    <3> QED
      BY <3>1
  <2> QED
    BY <1>0, <2>1, <2>2, <2>3, <2>4, <2>5, <2>6, ZenonT(40) DEF ManageBombs
<1>6. ASSUME NEW k \in Handles, timeBombs'[k] # 0
      PROVE  /\ timeBombs'[k] = 1
             /\ bombs'[k][1].pauses = Cardinality(Holders(k, 1))
             /\ bombs'[k][1].pauses # 0 => bombs'[k][1].timer = "nil"
  <2>1. CASE k = h
    <3>1. timeBombs'[h] \in 0 .. 1
      BY <1>0, ManageType, ZenonT(40) DEF TypeInv, SignalInv, BombermanTypeOK
    <3> QED
      BY <1>5, <1>6, <2>1, <3>1, SMTT(40)
  <2>2. CASE k # h
    <3>1. timeBombs[k] = 1 /\ bombs'[k] = bombs[k] /\ timeBombs'[k] = 1
      BY <1>0, <1>6, <2>2, SMTT(40)
    <3>2. ~Sent("pause", k) /\ ~Sent("unpause", k)
      BY <2>2, SMTT(40) DEF Sent
    <3>3. Cardinality(Holders(k, 1)) \in Nat
      BY HoldersFinite, SMTT(40)
    <3> QED
      BY <3>1, <3>2, <3>3, SMTT(40) DEF PausesBalanced, HeldIsStill
  <2> QED
    BY <2>1, <2>2, ZenonT(40)
<1> HIDE DEF h, n, b, c, d
<1>7. HeldIsStill'
  BY <1>6, Zenon DEF HeldIsStill
<1>8. PausesBalanced'
  <2> SUFFICES ASSUME NEW k \in Handles, timeBombs'[k] # 0
               PROVE  bombs'[k][timeBombs'[k]].pauses
                        = Cardinality(Holders(k, timeBombs[k])')
                          - (IF Sent("pause", k)' THEN 1 ELSE 0)
                          + (IF Sent("unpause", k)' THEN 1 ELSE 0)
      BY Zenon DEF PausesBalanced
  <2>1. Holders(k, timeBombs[k])' = Holders(k, 1)
    BY <1>0, <1>6, Zenon DEF Holders
  <2>2. Cardinality(Holders(k, 1)) \in Nat
    BY HoldersFinite
  <2>3. bombs'[k][timeBombs'[k]].pauses = Cardinality(Holders(k, 1))
    BY <1>6, Zenon
  <2> QED
    BY <1>1, <2>1, <2>2, <2>3, SMTT(40)
<1> QED
  BY <1>7, <1>8, ZenonT(40)

\* At first nobody uses anything.
LEMMA InitUse == Init => UseInv /\ PausesBalanced /\ HeldIsStill
<1> SUFFICES ASSUME Init PROVE UseInv /\ PausesBalanced /\ HeldIsStill
    OBVIOUS
<1>1. \A r \in Requests : pc[r] = "idle" /\ op[r] = "Ping"
  BY Zenon DEF Init, Procs
<1>2. signal = NoSignal /\ \A h \in Handles : timeBombs[h] = 0
  BY Zenon DEF Init, BombermanNew
<1>3. UseInv
  BY <1>1, <1>2, Zenon DEF UseInv, NoLists, KnownUsed, NewUnknown, OneCreator, SetupFirst, StrapUnheld,
                    HoldersHold, Uses, NoSignal
<1> QED
  BY <1>2, <1>3, Zenon DEF PausesBalanced, HeldIsStill

\* Each step keeps the pauses equal to the holders, and bombs that are held still.
LEMMA NextBalance ==
  ASSUME MaxIncarnation = 1, IsFiniteSet(Requests), TypeInv, ReapersReap, UseInv,
         PausesBalanced, HeldIsStill, [Next]_vars
  PROVE  PausesBalanced' /\ HeldIsStill'
<1>0. ProcInv /\ Requests \cap Reapers = {}
  BY ServerAssumption DEF TypeInv
<1> USE DEF bombVars, procVars
<1>1. ASSUME NEW h \in Handles, SetupStrap(h) PROVE PausesBalanced' /\ HeldIsStill'
  <2>1. signal = NoSignal /\ signal'.act = "strap" /\ bombs' = bombs /\ timeBombs' = timeBombs
    BY <1>1, SendFacts, Zenon DEF SetupStrap
  <2>2. \A k, n : Holders(k, n)' = Holders(k, n)
    BY <1>1 DEF SetupStrap, Holders
  <2> QED
    BY <2>1, <2>2, BalanceCarry, ZenonT(40)
<1>2. ASSUME NEW r \in Requests, NEW o \in Ops, NEW h \in Handles, Arrive(r, o, h)
      PROVE  PausesBalanced' /\ HeldIsStill'
  <2>1. Routes[o].start \in {"query", "create", "claim", "lookup"} /\ r \in Procs
    BY ServerAssumption, RoutesShape DEF Procs
  <2>2. /\ pc'[r] \notin {"call", "unpause"} /\ pc[r] = "idle"
        /\ \A q \in Requests \ {r} : pc'[q] = pc[q] /\ hdl'[q] = hdl[q] /\ inc'[q] = inc[q]
    BY <1>0, <1>2, <2>1, Zenon DEF Arrive, ProcInv, Procs
  <2>3. \A k, n : Holders(k, n)' = Holders(k, n)
    BY <2>2, Zenon DEF Holders
  <2> QED
    BY <1>2, <2>3, BalanceCarry, Zenon DEF Arrive
<1>3. ASSUME NEW r \in Requests, CallReturns(r) PROVE PausesBalanced' /\ HeldIsStill'
  <2>1. /\ pc'[r] = "unpause" /\ pc[r] = "call" /\ hdl' = hdl /\ inc' = inc
        /\ \A q \in Requests \ {r} : pc'[q] = pc[q]
    BY <1>0, <1>3, Zenon DEF CallReturns, Goto, ProcInv, Procs
  <2>2. \A k, n : Holders(k, n)' = Holders(k, n)
    BY <2>1 DEF Holders
  <2> QED
    BY <1>3, <2>2, BalanceCarry, SMTT(40) DEF CallReturns
<1>4. ASSUME NEW p \in Procs, Step(p) PROVE PausesBalanced' /\ HeldIsStill'
  BY <1>4, StepBalance
<1>5. ASSUME NEW q \in Reapers, NEW h \in Handles, NEW n \in Incarnations, Fire(q, h, n)
      PROVE  PausesBalanced' /\ HeldIsStill'
  <2>1. \A r \in Requests : pc'[r] = pc[r] /\ hdl'[r] = hdl[r] /\ inc'[r] = inc[r]
    BY <1>0, <1>5, Zenon DEF Fire, ProcInv, Procs
  <2>2. \A k, m : Holders(k, m)' = Holders(k, m)
    BY <2>1 DEF Holders
  <2>3. /\ bombs \in [Handles -> [Incarnations -> Bomb]] /\ BombermanTypeOK
        /\ bombs' = [bombs EXCEPT ![h][n] = FireTimer(bombs[h][n])]
        /\ timeBombs' = timeBombs /\ signal' = signal /\ bombs[h][n].timer = "live"
    BY <1>5, Zenon DEF Fire, TimerFires, TypeInv, SignalInv, BombermanTypeOK
  <2>4. ASSUME NEW k \in Handles, timeBombs[k] # 0
        PROVE  LET b == bombs[k][timeBombs[k]]
                   d == bombs'[k][timeBombs[k]]
               IN  d.pauses = b.pauses /\ (b.timer = "nil" => d.timer = "nil")
    <3>1. timeBombs[k] \in Incarnations
      BY <2>3, <2>4, FoundBomb, Zenon
    <3>2. CASE k = h /\ timeBombs[k] = n
      BY <2>3, <3>1, <3>2, SMTT(40) DEF FireTimer, Bomb
    <3>3. CASE ~(k = h /\ timeBombs[k] = n)
      BY <2>3, <3>1, <3>3, Zenon
    <3> QED
      BY <3>2, <3>3, Zenon
  <2>5. PausesBalanced'
    BY <2>2, <2>3, <2>4, Zenon DEF PausesBalanced, Sent
  <2>6. HeldIsStill'
    BY <2>3, <2>4, Zenon DEF HeldIsStill
  <2> QED
    BY <2>5, <2>6
<1>6. CASE BombermanStep
  BY <1>6, ManageBalance
<1>7. CASE Crash
  BY <1>7, Zenon DEF Crash, BombermanLost, PausesBalanced, HeldIsStill
<1>8. CASE UNCHANGED vars
  <2>1. \A k, n : Holders(k, n)' = Holders(k, n)
    BY <1>8, Zenon DEF vars, Holders
  <2> QED
    BY <1>8, <2>1, BalanceCarry, Zenon DEF vars
<1> QED
  BY <1>1, <1>2, <1>3, <1>4, <1>5, <1>6, <1>7, <1>8, ZenonT(40) DEF Next

\* Where clients do not list, the bomb counts exactly the requests that hold the
\* container: no error path, no interleaving and no crash leaves a Pause without
\* its Unpause or the reverse.
THEOREM EveryPauseCounted ==
  ASSUME MaxIncarnation = 1, "List" \notin Ops, IsFiniteSet(Requests)
  PROVE  Spec => []PausesBalanced
<1> DEFINE Inv == TypeInv /\ MadeFirst /\ ReapersReap /\ UseInv /\ PausesBalanced /\ HeldIsStill
<1>1. Init => Inv
  BY InitType, InitMade, InitGuard, InitUse, ZenonT(40)
<1>2. Inv /\ [Next]_vars => Inv'
  BY NextType, NextMade, NextReap, NextUse, NextBalance, Zenon
<1>3. Inv => PausesBalanced
  OBVIOUS
<1> QED
  BY <1>1, <1>2, <1>3, PTL DEF Spec

\* There, too, no timer runs on a container that a request is using: whoever holds
\* a guarded container is counted by its bomb, and a bomb that counts anybody is
\* still.
THEOREM UsersStopTheClock ==
  ASSUME MaxIncarnation = 1, MaxFailures = 0, "List" \notin Ops, IsFiniteSet(Requests)
  PROVE  Spec => []InUseNotTicking
<1> DEFINE Inv == /\ TypeInv /\ MadeFirst /\ ReapersReap /\ GuardInv /\ UseInv
                  /\ PausesBalanced /\ HeldIsStill
<1>1. Init => Inv
  BY InitType, InitMade, InitGuard, InitUse, ZenonT(40)
<1>2. Inv /\ [Next]_vars => Inv'
  BY NextType, NextMade, NextReap, NextGuard, NextUse, NextBalance, ZenonT(40)
<1>3. Inv => InUseNotTicking
  <2> SUFFICES ASSUME Inv, NEW r \in Requests, pc[r] = "call", backend[hdl[r]] = inc[r],
                      hdl[r] \notin destroys, ~Sent("pause", hdl[r])
               PROVE  bombs[hdl[r]][inc[r]].timer # "live"
      BY Zenon DEF InUseNotTicking
  <2> DEFINE h == hdl[r]
             H == Holders(h, 1)
  <2>1. inc[r] = 1 /\ h \in Handles /\ backend[h] = 1
    BY DEF UseInv, HoldersHold, Incarnations, TypeInv, ProcInv, Procs
  <2>2. toStrap = {} /\ ~Sent("strap", h)
    BY Zenon DEF UseInv, SetupFirst, StrapUnheld, Sent
  <2>3. ~ \E s \in Requests : pc[s] = "strap" /\ hdl[s] = h
    BY Zenon DEF UseInv, KnownUsed, NewUnknown, Uses
  <2>4. timeBombs[h] = 1
    BY <2>1, <2>2, <2>3, SMTT(40) DEF GuardInv, Guarded, Existing
  <2>5. IsFiniteSet(H) /\ Cardinality(H) \in Nat /\ H # {}
    <3>1. r \in H
      BY <2>1, Zenon DEF Holders
    <3> QED
      BY <3>1, HoldersFinite, Zenon
  <2>6. Cardinality(H) # 0
    BY <2>5, FS_EmptySet, ZenonT(40)
  <2>7. bombs[h][1].pauses = Cardinality(H) + (IF Sent("unpause", h) THEN 1 ELSE 0)
    BY <2>1, <2>4, <2>5, SMTT(40) DEF PausesBalanced
  <2> HIDE DEF H, h
  <2>8. bombs[h][1].pauses # 0
    BY <2>5, <2>6, <2>7
  <2> USE DEF h
  <2> QED
    BY <2>1, <2>4, <2>8 DEF HeldIsStill
<1> QED
  BY <1>1, <1>2, <1>3, PTL DEF Spec
=============================================================================
