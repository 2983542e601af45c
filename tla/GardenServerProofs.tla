------------------------- MODULE GardenServerProofs -------------------------
(***************************************************************************)
(* Proofs about GardenServer for every set of handles, requests and        *)
(* reapers, any number of incarnations, failures and crashes: what every   *)
(* method of a TimeBomb does to its fields, that destroys makes            *)
(* backend.Destroy exclusive, type correctness, and the facts that the     *)
(* proofs about containers start from.                                     *)
(***************************************************************************)
EXTENDS GardenServer, TLAPS

\* timebomb.New gives a bomb that is not ticking (timebomb.go:18-25).
LEMMA NewFacts ==
  ASSUME NEW c \in Nat
  PROVE  /\ NewBomb(c) \in Bomb
         /\ NewBomb(c).timer = "nil"
         /\ NewBomb(c).countdown = c
         /\ NewBomb(c).pauses = 0
         /\ NewBomb(c).defused = FALSE
         /\ NewBomb(c).loose = 0
BY DEF NewBomb, Bomb

\* time.AfterFunc: the bomb ticks for its full countdown; a live timer that was
\* referred to before becomes loose.
LEMMA AfterFuncFacts ==
  ASSUME NEW b \in Bomb
  PROVE  /\ AfterFunc(b) \in Bomb
         /\ AfterFunc(b).timer = "live"
         /\ AfterFunc(b).left = b.countdown
         /\ AfterFunc(b).countdown = b.countdown
         /\ AfterFunc(b).pauses = b.pauses
         /\ AfterFunc(b).defused = b.defused
         /\ b.timer # "live" => AfterFunc(b).loose = b.loose
<1>1. Unreferenced(b) \in Nat /\ (b.timer # "live" => Unreferenced(b) = b.loose)
  BY DEF Unreferenced, Bomb
<1> QED
  BY <1>1, ZenonT(40) DEF AfterFunc, Bomb

\* Timer.Stop on b.timer: the bomb is not ticking, nothing else changes.
LEMMA StopTimerFacts ==
  ASSUME NEW b \in Bomb
  PROVE  /\ StopTimer(b) \in Bomb
         /\ StopTimer(b).timer # "live"
         /\ StopTimer(b).timer = "nil" <=> b.timer = "nil"
         /\ StopTimer(b).countdown = b.countdown
         /\ StopTimer(b).pauses = b.pauses
         /\ StopTimer(b).defused = b.defused
         /\ StopTimer(b).loose = b.loose
BY ZenonT(40) DEF StopTimer, Bomb

\* Dropping a reference to a timer that is not live leaves no loose timer.
LEMMA ClearTimerFacts ==
  ASSUME NEW b \in Bomb, b.timer # "live"
  PROVE  /\ ClearTimer(b) \in Bomb
         /\ ClearTimer(b).timer = "nil"
         /\ ClearTimer(b).countdown = b.countdown
         /\ ClearTimer(b).pauses = b.pauses
         /\ ClearTimer(b).defused = b.defused
         /\ ClearTimer(b).loose = b.loose
<1>1. Unreferenced(b) = b.loose
  BY DEF Unreferenced
<1> QED
  BY <1>1, ZenonT(40) DEF ClearTimer, Bomb

\* Pause counts one more holder and leaves no timer (timebomb.go:33-47).
LEMMA PauseFacts ==
  ASSUME NEW b \in Bomb
  PROVE  /\ PauseBomb(b) \in Bomb
         /\ PauseBomb(b).timer = "nil"
         /\ PauseBomb(b).pauses = b.pauses + 1
         /\ PauseBomb(b).countdown = b.countdown
         /\ PauseBomb(b).defused = b.defused
         /\ PauseBomb(b).loose = b.loose
<1> DEFINE c == ClearTimer(StopTimer(b))
<1>1. /\ c \in Bomb
      /\ c.timer = "nil"
      /\ c.countdown = b.countdown
      /\ c.pauses = b.pauses
      /\ c.defused = b.defused
      /\ c.loose = b.loose
  BY StopTimerFacts, ClearTimerFacts
<1> HIDE DEF c
<1>2. PauseBomb(b) = [c EXCEPT !.pauses = @ + 1]
  BY DEF PauseBomb, c
<1> QED
  BY <1>1, <1>2 DEF Bomb

\* Defuse marks the bomb and leaves no timer (timebomb.go:49-63).
LEMMA DefuseFacts ==
  ASSUME NEW b \in Bomb
  PROVE  /\ DefuseBomb(b) \in Bomb
         /\ DefuseBomb(b).timer = "nil"
         /\ DefuseBomb(b).pauses = b.pauses
         /\ DefuseBomb(b).countdown = b.countdown
         /\ DefuseBomb(b).defused = TRUE
         /\ DefuseBomb(b).loose = b.loose
<1> DEFINE c == ClearTimer(StopTimer(b))
<1>1. /\ c \in Bomb
      /\ c.timer = "nil"
      /\ c.countdown = b.countdown
      /\ c.pauses = b.pauses
      /\ c.defused = b.defused
      /\ c.loose = b.loose
  BY StopTimerFacts, ClearTimerFacts
<1> HIDE DEF c
<1>2. DefuseBomb(b) = [c EXCEPT !.defused = TRUE]
  BY DEF DefuseBomb, c
<1> QED
  BY <1>1, <1>2, ZenonT(40) DEF Bomb

\* Unpause counts one holder less and starts a timer exactly when that was the
\* last one, the bomb is not defused and the countdown is not zero
\* (timebomb.go:65-74).
LEMMA UnpauseFacts ==
  ASSUME NEW b \in Bomb
  PROVE  /\ UnpauseBomb(b) \in Bomb
         /\ UnpauseBomb(b).pauses = b.pauses - 1
         /\ UnpauseBomb(b).countdown = b.countdown
         /\ UnpauseBomb(b).defused = b.defused
         /\ b.timer # "live" => UnpauseBomb(b).loose = b.loose
         /\ IF ~b.defused /\ b.pauses = 1 /\ b.countdown # 0
            THEN /\ UnpauseBomb(b).timer = "live"
                 /\ UnpauseBomb(b).left = b.countdown
            ELSE /\ UnpauseBomb(b).timer = b.timer
                 /\ UnpauseBomb(b).left = b.left
                 /\ UnpauseBomb(b).loose = b.loose
<1> DEFINE u == [b EXCEPT !.pauses = @ - 1]
<1>1. /\ u \in Bomb
      /\ u.pauses = b.pauses - 1
      /\ u.timer = b.timer
      /\ u.left = b.left
      /\ u.countdown = b.countdown
      /\ u.defused = b.defused
      /\ u.loose = b.loose
  BY DEF Bomb
<1>2. (b.pauses - 1 = 0) <=> (b.pauses = 1)
  BY DEF Bomb
<1>3. UnpauseBomb(b) = IF ~u.defused /\ u.pauses = 0 /\ u.countdown # 0
                       THEN AfterFunc(u) ELSE u
  BY DEF UnpauseBomb
<1> HIDE DEF u
<1> QED
  BY <1>1, <1>2, <1>3, AfterFuncFacts

\* Reset sets the countdown and restarts the timer of a bomb that had one or that
\* nobody holds (timebomb.go:76-89).
LEMMA ResetFacts ==
  ASSUME NEW b \in Bomb, NEW n \in Nat
  PROVE  /\ ResetBomb(b, n) \in Bomb
         /\ ResetBomb(b, n).pauses = b.pauses
         /\ ResetBomb(b, n).countdown = n
         /\ ResetBomb(b, n).defused = b.defused
         /\ ResetBomb(b, n).loose = b.loose
         /\ b.timer # "nil" \/ b.pauses = 0
              => ResetBomb(b, n).timer = "live" /\ ResetBomb(b, n).left = n
         /\ b.timer = "nil" /\ b.pauses # 0 => ResetBomb(b, n).timer = "nil"
<1> DEFINE d == [b EXCEPT !.countdown = n]
           r == StopTimer(d)
<1>1. /\ d \in Bomb
      /\ d.pauses = b.pauses
      /\ d.timer = b.timer
      /\ d.countdown = n
      /\ d.defused = b.defused
      /\ d.loose = b.loose
  BY DEF Bomb
<1> HIDE DEF d
<1>2. /\ r \in Bomb
      /\ r.timer # "live"
      /\ r.timer = "nil" <=> b.timer = "nil"
      /\ r.pauses = b.pauses
      /\ r.countdown = n
      /\ r.defused = b.defused
      /\ r.loose = b.loose
  BY <1>1, StopTimerFacts
<1>3. ResetBomb(b, n) = IF r.timer # "nil" \/ r.pauses = 0 THEN AfterFunc(r) ELSE r
  BY SMTT(40) DEF ResetBomb, d
<1> HIDE DEF r
<1> QED
  BY <1>2, <1>3, AfterFuncFacts
-----------------------------------------------------------------------------
\* Every registered handler starts and goes on with a step the model knows.
LEMMA RoutesShape ==
  ASSUME NEW o \in DOMAIN Routes
  PROVE  /\ Routes[o].start \in {"query", "create", "claim", "lookup"}
         /\ Routes[o].found \in {"done", "pause", "setgrace"}
BY SMTT(40) DEF Routes, Handler, Query, Bracketed, handlePing, handleCapacity, handleList,
       handleBulkInfo, handleBulkMetrics, handleCreate, handleDestroy,
       handleSetGraceTime, handleStop, handleStreamIn, handleStreamOut,
       handleCurrentBandwidthLimits, handleCurrentMemoryLimits,
       handleCurrentDiskLimits, handleCurrentCPULimits, handleNetIn, handleNetOut,
       handleBulkNetOut, handleMetrics, handleProperties, handleProperty,
       handleSetProperty, handleRemoveProperty, handleInfo, handleRun, handleAttach

\* The idle values of a goroutine have the types of op, hdl and inc.
LEMMA IdleValues == NoHandle \in Handles /\ "Ping" \in DOMAIN Routes
<1>1. NoHandle \in Handles
  BY ServerAssumption DEF NoHandle
<1>2. "Ping" \in DOMAIN Routes
  BY Zenon DEF Routes
<1> QED
  BY <1>1, <1>2
-----------------------------------------------------------------------------
(***************************************************************************)
(* At most one goroutine destroys a handle.  DestroyExclusive speaks of    *)
(* the call of backend.Destroy alone; to be inductive the exclusion has to *)
(* reach from the claim to the release, and destroys has to be exactly the *)
(* set of the handles claimed.                                             *)
(***************************************************************************)

ProcsTypeOK ==
  /\ pc \in [Procs -> Labels]
  /\ op \in [Procs -> DOMAIN Routes]
  /\ hdl \in [Procs -> Handles]
  /\ destroys \subseteq Handles

ClaimExclusive ==
  \A p, q \in Procs : Destroying(p) /\ Destroying(q) /\ hdl[p] = hdl[q] => p = q

ClaimInv == ProcsTypeOK /\ DestroysAreInFlight /\ ClaimExclusive

\* A step of one goroutine that is not destroying anything before or after.
Bystander(p) ==
  /\ ~Destroying(p)
  /\ \E l \in Labels \ {"destroy", "destroyed", "failed"} : pc' = [pc EXCEPT ![p] = l]
  /\ op' = op \/ \E o \in DOMAIN Routes : op' = [op EXCEPT ![p] = o]
  /\ hdl' = hdl \/ \E h \in Handles : hdl' = [hdl EXCEPT ![p] = h]
  /\ destroys' = destroys

\* Such a step disturbs nobody's claim.
LEMMA BystanderClaim ==
  ASSUME ClaimInv, NEW p \in Procs, Bystander(p)
  PROVE  ClaimInv'
<1> PICK l \in Labels \ {"destroy", "destroyed", "failed"} : pc' = [pc EXCEPT ![p] = l]
    BY Zenon DEF Bystander
<1>1. ProcsTypeOK'
  BY DEF Bystander, ClaimInv, ProcsTypeOK
<1>2. \A q \in Procs : q # p => pc'[q] = pc[q] /\ hdl'[q] = hdl[q]
  BY DEF Bystander, ClaimInv, ProcsTypeOK
<1>3. ~Destroying(p) /\ ~Destroying(p)'
  BY DEF Bystander, Destroying, ClaimInv, ProcsTypeOK
<1>4. \A q \in Procs : Destroying(q)' <=> Destroying(q)
  BY <1>2, <1>3 DEF Destroying
<1>5. \A q \in Procs : Destroying(q) => hdl'[q] = hdl[q]
  BY <1>2, <1>3
<1>6. DestroysAreInFlight'
  BY <1>4, <1>5 DEF DestroysAreInFlight, ClaimInv, Bystander
<1>7. ClaimExclusive'
  BY <1>4, <1>5 DEF ClaimExclusive, ClaimInv
<1> QED
  BY <1>1, <1>6, <1>7 DEF ClaimInv

\* Going on to a step outside the claim is such a step.
LEMMA GotoBystander ==
  ASSUME NEW p \in Procs, ~Destroying(p), destroys' = destroys,
         NEW l \in Labels \ {"destroy", "destroyed", "failed"}, Goto(p, l)
  PROVE  Bystander(p)
BY Zenon DEF Bystander, Goto

\* So is the end of a goroutine that has no claim.
LEMMA ReturnBystander ==
  ASSUME NEW p \in Procs, ~Destroying(p), destroys' = destroys, Return(p)
  PROVE  Bystander(p)
<1>1. (IF p \in Requests THEN "done" ELSE "idle") \in Labels \ {"destroy", "destroyed", "failed"}
  BY DEF Labels
<1> QED
  BY <1>1, IdleValues, Zenon DEF Bystander, Return

\* No goroutine holds a claim when the server starts.
LEMMA InitClaim == Init => ClaimInv
<1> SUFFICES ASSUME Init PROVE ClaimInv
    OBVIOUS
<1>1. ProcsTypeOK
  BY IdleValues DEF Init, ProcsTypeOK, Labels
<1>2. destroys = {} /\ \A p \in Procs : ~Destroying(p)
  BY DEF Init, Destroying
<1> QED
  BY <1>1, <1>2 DEF ClaimInv, DestroysAreInFlight, ClaimExclusive

\* The three steps that do touch a claim: a goroutine takes it when nobody has it,
\* keeps it while Destroy returns, and gives it up.
LEMMA ClaimStep ==
  ASSUME ClaimInv, NEW p \in Procs,
         Claim(p) \/ DestroyReturns(p) \/ DestroyError(p) \/ Release(p)
  PROVE  ClaimInv'
<1>0. /\ pc \in [Procs -> Labels] /\ hdl \in [Procs -> Handles]
      /\ hdl[p] \in Handles /\ destroys \subseteq Handles
  BY DEF ClaimInv, ProcsTypeOK
<1>1. CASE Claim(p)
  <2>1. /\ pc' = [pc EXCEPT ![p] = "destroy"] /\ hdl' = hdl /\ op' = op
        /\ destroys' = destroys \cup {hdl[p]} /\ hdl[p] \notin destroys
    BY <1>1 DEF Claim, Goto
  <2>2. ProcsTypeOK'
    BY <1>0, <2>1 DEF ClaimInv, ProcsTypeOK, Labels
  <2>3. \A q \in Procs : Destroying(q)' <=> Destroying(q) \/ q = p
    BY <1>0, <2>1 DEF Destroying
  <2>4. \A q \in Procs : Destroying(q) => hdl[q] \in destroys
    BY DEF ClaimInv, DestroysAreInFlight
  <2>5. ClaimExclusive'
    BY <2>1, <2>3, <2>4, Zenon DEF ClaimInv, ClaimExclusive
  <2>6. DestroysAreInFlight'
    BY <2>1, <2>3 DEF ClaimInv, DestroysAreInFlight
  <2> QED
    BY <2>2, <2>5, <2>6 DEF ClaimInv
<1>2. CASE DestroyReturns(p) \/ DestroyError(p)
  <2>1. /\ pc[p] = "destroy" /\ hdl' = hdl /\ op' = op /\ destroys' = destroys
        /\ \E l \in {"destroyed", "failed"} : pc' = [pc EXCEPT ![p] = l]
    BY <1>2, Zenon DEF DestroyReturns, DestroyError, Goto
  <2>2. ProcsTypeOK'
    BY <1>0, <2>1 DEF ClaimInv, ProcsTypeOK, Labels
  <2>3. \A q \in Procs : Destroying(q)' <=> Destroying(q)
    BY <1>0, <2>1 DEF Destroying
  <2> QED
    BY <2>1, <2>2, <2>3 DEF ClaimInv, ClaimExclusive, DestroysAreInFlight
<1>3. CASE Release(p)
  <2>1. /\ Destroying(p)
        /\ destroys' = destroys \ {hdl[p]}
        /\ \E l \in {"cleanup", "defuse", "done", "idle"} : pc' = [pc EXCEPT ![p] = l]
    BY <1>3, Zenon DEF Release, Goto, Return, Destroying
  <2>2. /\ hdl' = hdl \/ \E h \in Handles : hdl' = [hdl EXCEPT ![p] = h]
        /\ op' = op \/ \E o \in DOMAIN Routes : op' = [op EXCEPT ![p] = o]
    BY <1>3, IdleValues, Zenon DEF Release, Goto, Return
  <2>3. ProcsTypeOK'
    BY <1>0, <2>1, <2>2 DEF ClaimInv, ProcsTypeOK, Labels
  <2>4. \A q \in Procs : Destroying(q)' <=> Destroying(q) /\ q # p
    BY <1>0, <2>1 DEF Destroying
  <2>5. \A q \in Procs : q # p => hdl'[q] = hdl[q]
    BY <1>0, <2>2, SMTT(40)
  <2>6. ClaimExclusive'
    BY <2>4, <2>5 DEF ClaimInv, ClaimExclusive
  <2>7. DestroysAreInFlight'
    BY <2>1, <2>4, <2>5, Zenon DEF ClaimInv, ClaimExclusive, DestroysAreInFlight
  <2> QED
    BY <2>3, <2>6, <2>7 DEF ClaimInv
<1> QED
  BY <1>1, <1>2, <1>3

\* Every other step of a goroutine leaves all claims alone.
LEMMA StepClaim ==
  ASSUME ClaimInv, NEW p \in Procs, Step(p)
  PROVE  ClaimInv'
<1>0. pc[p] \in Labels /\ op[p] \in DOMAIN Routes
  BY DEF ClaimInv, ProcsTypeOK
<1> USE GotoBystander, ReturnBystander, BystanderClaim DEF Destroying
<1>1. CASE Decode(p)
  <2>1. Routes[op[p]].start \in Labels \ {"destroy", "destroyed", "failed"}
    BY <1>0, RoutesShape, Zenon DEF Labels
  <2> QED
    BY <1>1, <2>1, Zenon DEF Decode
<1>2. CASE QueryBackend(p) \/ CreateError(p) \/ Answer(p) \/ LookupError(p)
  BY <1>2, Zenon DEF QueryBackend, CreateError, Answer, LookupError
<1>3. ASSUME NEW g \in Graces, CreateContainer(p, g) PROVE ClaimInv'
  <2>1. Bystander(p)
    BY <1>3, Zenon DEF CreateContainer, Bystander, Labels
  <2> QED
    BY <2>1
<1>4. CASE SendStrap(p) \/ SendPause(p)
  <2>1. "answer" \in Labels \ {"destroy", "destroyed", "failed"}
        /\ "call" \in Labels \ {"destroy", "destroyed", "failed"}
    BY DEF Labels
  <2> QED
    BY <1>4, <2>1, Zenon DEF SendStrap, SendPause
<1>5. CASE Lookup(p)
  <2>1. Routes[op[p]].found \in Labels \ {"destroy", "destroyed", "failed"}
    BY <1>0, RoutesShape, Zenon DEF Labels
  <2>2. Bystander(p)
    BY <1>5, <2>1, Zenon DEF Lookup, Bystander
  <2> QED
    BY <2>2
<1>6. CASE SendUnpause(p) \/ SendReset(p) \/ SendDefuse(p) \/ SendCleanup(p)
  BY <1>6, Zenon DEF SendUnpause, SendReset, SendDefuse, SendCleanup
<1>7. ASSUME NEW g \in Graces, SetGraceTime(p, g) PROVE ClaimInv'
  <2>1. "reset" \in Labels \ {"destroy", "destroyed", "failed"}
    BY SMTT(40) DEF Labels
  <2> QED
    BY <1>7, <2>1, Zenon DEF SetGraceTime
<1>8. CASE AlreadyDestroying(p)
  <2>1. "cleanup" \in Labels \ {"destroy", "destroyed", "failed"}
    BY DEF Labels
  <2> QED
    BY <1>8, <2>1 DEF AlreadyDestroying
<1>9. CASE Claim(p) \/ DestroyReturns(p) \/ DestroyError(p) \/ Release(p)
  BY <1>9, ClaimStep
<1> QED
  BY <1>1, <1>2, <1>3, <1>4, <1>5, <1>6, <1>7, <1>8, <1>9, Zenon DEF Step

\* Every step of the server, a crash included, keeps the claims exclusive.
LEMMA NextClaim == ClaimInv /\ [Next]_vars => ClaimInv'
<1> SUFFICES ASSUME ClaimInv, [Next]_vars PROVE ClaimInv'
    OBVIOUS
<1> DEFINE Unclaimed == UNCHANGED <<pc, op, hdl, destroys>>
<1>0. ASSUME Unclaimed PROVE ClaimInv'
  BY <1>0 DEF ClaimInv, ProcsTypeOK, DestroysAreInFlight, ClaimExclusive, Destroying
<1>1. ASSUME NEW h \in Handles, SetupStrap(h) PROVE ClaimInv'
  BY <1>0, <1>1 DEF SetupStrap, procVars
<1>2. ASSUME NEW r \in Requests, NEW o \in Ops, NEW h \in Handles, Arrive(r, o, h)
      PROVE  ClaimInv'
  <2>1. o \in DOMAIN Routes /\ r \in Procs
    BY ServerAssumption DEF Procs
  <2>2. (IF Routes[o].decodes THEN "decode" ELSE Routes[o].start)
          \in Labels \ {"destroy", "destroyed", "failed"}
    BY <2>1, RoutesShape DEF Labels
  <2>3. Bystander(r)
    BY <1>2, <2>1, <2>2, Zenon DEF Arrive, Bystander, Destroying
  <2> QED
    BY <2>1, <2>3, BystanderClaim
<1>3. ASSUME NEW r \in Requests, CallReturns(r) PROVE ClaimInv'
  <2>1. r \in Procs /\ "unpause" \in Labels \ {"destroy", "destroyed", "failed"}
    BY DEF Procs, Labels
  <2> QED
    BY <1>3, <2>1, GotoBystander, BystanderClaim DEF CallReturns, Destroying
<1>4. ASSUME NEW p \in Procs, Step(p) PROVE ClaimInv'
  BY <1>4, StepClaim
<1>5. ASSUME NEW q \in Reapers, NEW h \in Handles, NEW n \in Incarnations, Fire(q, h, n)
      PROVE  ClaimInv'
  <2>1. q \in Procs
    BY DEF Procs
  <2>2. Bystander(q)
    BY <1>5, Zenon DEF Fire, Bystander, Destroying, Labels
  <2> QED
    BY <2>1, <2>2, BystanderClaim
<1>6. CASE BombermanStep
  BY <1>0, <1>6, ZenonT(40) DEF BombermanStep, procVars
<1>7. CASE Crash
  <2>1. ProcsTypeOK'
    BY <1>7, IdleValues DEF Crash, ProcsTypeOK, Labels
  <2>2. destroys' = {} /\ \A p \in Procs : ~Destroying(p)'
    BY <1>7 DEF Crash, Destroying
  <2> QED
    BY <2>1, <2>2 DEF ClaimInv, DestroysAreInFlight, ClaimExclusive
<1>8. CASE UNCHANGED vars
  BY <1>0, <1>8 DEF vars, procVars
<1> QED
  BY <1>1, <1>2, <1>3, <1>4, <1>5, <1>6, <1>7, <1>8, SMTT(40) DEF Next

\* The claims are exclusive in every reachable state.
LEMMA ClaimInvariant == Spec => []ClaimInv
BY InitClaim, NextClaim, PTL DEF Spec

\* Two goroutines, be they requests or reapers, are never in backend.Destroy for
\* the same handle.
THEOREM OneDestroyPerHandle == Spec => []DestroyExclusive
<1>1. ClaimInv => DestroyExclusive
  BY DEF ClaimInv, ClaimExclusive, DestroyExclusive, Destroying
<1> QED
  BY <1>1, ClaimInvariant, PTL

\* A handle is among the destroys exactly while a goroutine is destroying it.
THEOREM DestroysMatchGoroutines == Spec => []DestroysAreInFlight
<1>1. ClaimInv => DestroysAreInFlight
  BY SMTT(40) DEF ClaimInv
<1> QED
  BY <1>1, ClaimInvariant, PTL
-----------------------------------------------------------------------------
(***************************************************************************)
(* Type correctness.  A Reset signal names the container it was sent for,  *)
(* and the request that sends it has looked that container up.             *)
(***************************************************************************)

SignalInv ==
  /\ BombermanTypeOK
  /\ signal.act = "reset" => signal.n \in Incarnations

BackendInv ==
  /\ backend \in [Handles -> 0 .. MaxIncarnation]
  /\ made \in [Handles -> 0 .. MaxIncarnation]
  /\ known \subseteq Handles
  /\ destroys \subseteq Handles
  /\ toStrap \subseteq Handles
  /\ failures \in 0 .. MaxFailures
  /\ crashes \in 0 .. MaxCrashes

ProcInv ==
  /\ pc \in [Procs -> Labels]
  /\ op \in [Procs -> DOMAIN Routes]
  /\ hdl \in [Procs -> Handles]
  /\ inc \in [Procs -> 0 .. MaxIncarnation]
  /\ \A p \in Procs : pc[p] \in {"setgrace", "reset"} => inc[p] \in Incarnations

TypeInv == SignalInv /\ BackendInv /\ ProcInv

\* A send puts a well-formed signal in front of manageBombs.
LEMMA SendType ==
  ASSUME BombermanTypeOK, grace' = grace,
         NEW a \in {"strap", "defuse", "reset", "pause", "unpause", "cleanup"},
         NEW h \in Handles, NEW n \in 0 .. MaxIncarnation, Send(a, h, n)
  PROVE  BombermanTypeOK' /\ signal'.act = a /\ signal'.n = n
BY DEF BombermanTypeOK, Send, Signals

\* Replacing the bomb of one container keeps the bombs well-typed.
LEMMA PutBomb ==
  ASSUME BombermanTypeOK, NEW h \in Handles, NEW n \in Incarnations, NEW b \in Bomb
  PROVE  [bombs EXCEPT ![h][n] = b] \in [Handles -> [Incarnations -> Bomb]]
BY DEF BombermanTypeOK

\* The bomb that the map has under a handle is a bomb.
LEMMA FoundBomb ==
  ASSUME BombermanTypeOK, NEW h \in Handles, timeBombs[h] # 0
  PROVE  timeBombs[h] \in Incarnations /\ bombs[h][timeBombs[h]] \in Bomb
<1>1. timeBombs[h] \in Incarnations
  BY ContainersAssumption DEF BombermanTypeOK, Incarnations
<1> QED
  BY <1>1 DEF BombermanTypeOK

\* Every case of manageBombs keeps the Bomberman well-typed.
LEMMA ManageType ==
  ASSUME BombermanTypeOK, signal.act = "reset" => signal.n \in Incarnations, ManageBombs
  PROVE  BombermanTypeOK' /\ signal'.act # "reset"
<1> DEFINE h == signal.h
           n == signal.n
           Put(b) == [bombs EXCEPT ![h][timeBombs[h]] = b]
<1>0. signal # NoSignal
  BY DEF ManageBombs, ManageStrap, ManageArm, ManageDefuse, ManageReset, ManagePause,
         ManageUnpause, ManageCleanup, NoSignal
<1>1. signal \in Signals /\ h \in Handles /\ n \in 0 .. MaxIncarnation
  BY <1>0 DEF BombermanTypeOK, Signals
<1>2. NoSignal.act = "none" /\ NoSignal \in Signals \cup {NoSignal}
  BY DEF NoSignal
<1>3. \A m \in Incarnations : grace[h][m] \in Nat /\ bombs[h][m] \in Bomb
  BY <1>1, ContainersAssumption, Zenon DEF BombermanTypeOK
<1>4. \A b \in Bomb : timeBombs[h] # 0 => Put(b) \in [Handles -> [Incarnations -> Bomb]]
  BY <1>1, FoundBomb, PutBomb, Zenon
<1>5. bombs \in [Handles -> [Incarnations -> Bomb]] /\ timeBombs \in [Handles -> 0 .. MaxIncarnation]
  BY DEF BombermanTypeOK
<1>a. CASE ManageStrap
  <2>1. signal' \in Signals /\ signal'.act = "arm"
    BY <1>1, <1>a, Zenon DEF ManageStrap, Signals
  <2>2. timeBombs' \in [Handles -> 0 .. MaxIncarnation]
    BY <1>1, <1>5, <1>a, Zenon DEF ManageStrap
  <2>3. bombs' \in [Handles -> [Incarnations -> Bomb]]
    <3>1. CASE n \in Incarnations
      BY <1>1, <1>3, <1>a, <3>1, NewFacts, PutBomb, Zenon DEF ManageStrap
    <3>2. CASE n \notin Incarnations
      <4>1. bombs' = bombs
        BY <1>1, <1>5, <1>a, <3>2 DEF ManageStrap
      <4> QED
        BY <1>5, <4>1
    <3> QED
      BY <3>1, <3>2
  <2> QED
    BY <1>a, <2>1, <2>2, <2>3, Zenon DEF ManageStrap, BombermanTypeOK
<1>b. CASE ManageArm
  <2>1. CASE n \in Incarnations
    <3>1. StrapBomb(bombs[h][n]) \in Bomb
      BY <1>3, <2>1, AfterFuncFacts, Zenon DEF StrapBomb
    <3>2. bombs' \in [Handles -> [Incarnations -> Bomb]]
      BY <1>1, <1>5, <1>b, <2>1, <3>1, PutBomb, Zenon DEF ManageArm
    <3> QED
      BY <1>2, <1>b, <3>2, Zenon DEF ManageArm, Handled, BombermanTypeOK
  <2>2. CASE n \notin Incarnations
    <3>1. bombs' = bombs
      BY <1>1, <1>5, <1>b, <2>2 DEF ManageArm
    <3> QED
      BY <1>2, <1>5, <1>b, <3>1, Zenon DEF ManageArm, Handled, BombermanTypeOK
  <2> QED
    BY <2>1, <2>2
<1>c. CASE ManageDefuse
  <2>1. bombs' \in [Handles -> [Incarnations -> Bomb]]
    BY <1>1, <1>4, <1>5, <1>c, FoundBomb, DefuseFacts, Zenon DEF ManageDefuse, Found
  <2>2. timeBombs' \in [Handles -> 0 .. MaxIncarnation]
    BY <1>1, <1>5, <1>c, ContainersAssumption DEF ManageDefuse
  <2> QED
    BY <1>2, <1>c, <2>1, <2>2, Zenon DEF ManageDefuse, Handled, BombermanTypeOK
<1>d. CASE ManageReset
  <2>0. grace[h][n] \in Nat
    BY <1>3, <1>d, Zenon DEF ManageReset
  <2>1. bombs' \in [Handles -> [Incarnations -> Bomb]]
    BY <1>1, <1>4, <1>5, <1>d, <2>0, FoundBomb, ResetFacts, Zenon DEF ManageReset, Found
  <2> QED
    BY <1>2, <1>d, <2>1, Zenon DEF ManageReset, Handled, BombermanTypeOK
<1>e. CASE ManagePause
  <2>1. bombs' \in [Handles -> [Incarnations -> Bomb]]
    BY <1>1, <1>4, <1>5, <1>e, FoundBomb, PauseFacts, Zenon DEF ManagePause, Found
  <2> QED
    BY <1>2, <1>e, <2>1, Zenon DEF ManagePause, Handled, BombermanTypeOK
<1>f. CASE ManageUnpause
  <2>1. bombs' \in [Handles -> [Incarnations -> Bomb]]
    BY <1>1, <1>4, <1>5, <1>f, FoundBomb, UnpauseFacts, Zenon DEF ManageUnpause, Found
  <2> QED
    BY <1>2, <1>f, <2>1, Zenon DEF ManageUnpause, Handled, BombermanTypeOK
<1>g. CASE ManageCleanup
  <2>1. timeBombs' \in [Handles -> 0 .. MaxIncarnation]
    BY <1>1, <1>5, <1>g, ContainersAssumption, SMTT(40) DEF ManageCleanup
  <2> QED
    BY <1>2, <1>g, <2>1, Zenon DEF ManageCleanup, Handled, BombermanTypeOK
<1> QED
  BY <1>a, <1>b, <1>c, <1>d, <1>e, <1>f, <1>g, ZenonT(40) DEF ManageBombs

\* A goroutine that goes on keeps its fields; one that sets or resets a grace time
\* must have looked a container up.
LEMMA GotoProc ==
  ASSUME ProcInv, NEW p \in Procs, NEW l \in Labels, Goto(p, l),
         l \in {"setgrace", "reset"} => inc[p] \in Incarnations
  PROVE  ProcInv'
BY DEF ProcInv, Goto

\* A goroutine that ends goes back to the idle values.
LEMMA ReturnProc ==
  ASSUME ProcInv, NEW p \in Procs, Return(p)
  PROVE  ProcInv'
<1>1. (IF p \in Requests THEN "done" ELSE "idle") \in Labels \ {"setgrace", "reset"}
  BY DEF Labels
<1>2. 0 \in 0 .. MaxIncarnation
  BY ContainersAssumption
<1> QED
  BY <1>1, <1>2, IdleValues, Zenon DEF ProcInv, Return

\* The server starts well-typed, whatever containers the backend holds.
LEMMA InitType == Init => TypeInv
<1> SUFFICES ASSUME Init PROVE TypeInv
    OBVIOUS
<1>1. SignalInv
  <2>1. NewBomb(0) \in Bomb
    BY NewFacts, Zenon
  <2>2. 0 \in 0 .. MaxIncarnation /\ NoSignal.act = "none"
    BY ContainersAssumption, SMTT(40) DEF NoSignal
  <2> QED
    BY <2>1, <2>2, Zenon DEF Init, BombermanNew, SignalInv, BombermanTypeOK
<1>2. BackendInv
  <2>1. {0, 1} \subseteq 0 .. MaxIncarnation
    BY ContainersAssumption
  <2>2. backend \in [Handles -> 0 .. MaxIncarnation]
    BY <2>1 DEF Init
  <2> QED
    BY <2>2, ServerAssumption DEF Init, BackendInv, Existing
<1>3. ProcInv
  <2>1. 0 \in 0 .. MaxIncarnation
    BY ContainersAssumption
  <2> QED
    BY <2>1, IdleValues DEF Init, ProcInv, Labels
<1> QED
  BY <1>1, <1>2, <1>3 DEF TypeInv

\* The steps of a goroutine keep the types.
LEMMA StepType ==
  ASSUME TypeInv, NEW p \in Procs, Step(p)
  PROVE  TypeInv'
<1>0. /\ pc[p] \in Labels /\ op[p] \in DOMAIN Routes /\ hdl[p] \in Handles
      /\ inc[p] \in 0 .. MaxIncarnation
      /\ pc[p] \in {"setgrace", "reset"} => inc[p] \in Incarnations
      /\ 0 \in 0 .. MaxIncarnation
  BY ContainersAssumption DEF TypeInv, ProcInv
<1> USE DEF TypeInv
<1> DEFINE QuietBomberman == UNCHANGED <<grace, bombs, timeBombs, signal>>
           QuietBackend == UNCHANGED <<backend, made, known, failures, destroys, toStrap, crashes>>
<1>x. ASSUME QuietBomberman PROVE SignalInv'
  BY <1>x DEF SignalInv, BombermanTypeOK
<1>y. ASSUME QuietBackend PROVE BackendInv'
  BY <1>y DEF BackendInv
<1> USE DEF bombVars, backendVars, setupVars
<1>1. CASE Decode(p)
  <2>1. Routes[op[p]].start \in Labels \ {"setgrace", "reset"}
    BY <1>0, RoutesShape, Zenon DEF Labels
  <2>2. ProcInv'
    BY <1>1, <2>1, GotoProc, ReturnProc, Zenon DEF Decode
  <2> QED
    BY <1>1, <1>x, <1>y, <2>2, Zenon DEF Decode
<1>2. CASE CreateError(p) \/ LookupError(p)
  <2>1. ProcInv'
    BY <1>2, ReturnProc, Zenon DEF CreateError, LookupError
  <2> QED
    BY <1>2, <1>x, <1>y, <2>1, Zenon DEF CreateError, LookupError
<1>3. CASE QueryBackend(p) \/ Answer(p)
  <2>1. ProcInv'
    BY <1>3, ReturnProc, Zenon DEF QueryBackend, Answer
  <2>2. BackendInv'
    BY <1>0, <1>3, Zenon DEF QueryBackend, Answer, BackendInv, Existing
  <2> QED
    BY <1>3, <1>x, <2>1, <2>2, Zenon DEF QueryBackend, Answer
<1>4. ASSUME NEW g \in Graces, CreateContainer(p, g) PROVE TypeInv'
  <2> DEFINE n == made[hdl[p]] + 1
             d == IF g = 0 THEN DefaultGrace ELSE g
  <2>1. n \in Incarnations /\ n \in 0 .. MaxIncarnation /\ d \in Graces
    BY <1>0, <1>4, ContainersAssumption, ServerAssumption
       DEF CreateContainer, BackendInv, Incarnations
  <2>2. BackendInv'
    BY <1>0, <1>4, <2>1, Zenon DEF CreateContainer, BackendInv
  <2>3. ProcInv'
    BY <1>0, <1>4, <2>1, Zenon DEF CreateContainer, ProcInv, Labels
  <2>4. grace' = [grace EXCEPT ![hdl[p]][n] = d] /\ UNCHANGED <<bombs, timeBombs, signal>>
    BY <1>4, Zenon DEF CreateContainer
  <2> HIDE DEF n, d
  <2>5. grace' \in [Handles -> [Incarnations -> Graces]]
    BY <1>0, <2>1, <2>4, Zenon DEF SignalInv, BombermanTypeOK
  <2>6. SignalInv'
    BY <2>4, <2>5, Zenon DEF SignalInv, BombermanTypeOK
  <2> QED
    BY <2>2, <2>3, <2>6, ZenonT(40)
<1>5. CASE SendStrap(p) \/ SendPause(p)
  <2>1. SignalInv'
    BY <1>0, <1>5, SendType, Zenon DEF SendStrap, SendPause, SignalInv
  <2>2. ProcInv'
    BY <1>5, GotoProc, Zenon DEF SendStrap, SendPause, Labels
  <2> QED
    BY <1>5, <1>y, <2>1, <2>2, Zenon DEF SendStrap, SendPause
<1>6. CASE SendUnpause(p) \/ SendReset(p) \/ SendDefuse(p) \/ SendCleanup(p)
  <2>1. SignalInv'
    BY <1>0, <1>6, SendType, Zenon DEF SendUnpause, SendReset, SendDefuse, SendCleanup, SignalInv
  <2>2. ProcInv'
    BY <1>6, ReturnProc, Zenon DEF SendUnpause, SendReset, SendDefuse, SendCleanup
  <2> QED
    BY <1>6, <1>y, <2>1, <2>2, Zenon DEF SendUnpause, SendReset, SendDefuse, SendCleanup
<1>7. CASE Lookup(p)
  <2>1. Routes[op[p]].found \in Labels
    BY <1>0, RoutesShape, ZenonT(40) DEF Labels
  <2>2. backend[hdl[p]] \in Incarnations /\ backend[hdl[p]] \in 0 .. MaxIncarnation
    BY <1>0, <1>7, ContainersAssumption DEF Lookup, BackendInv, Incarnations
  <2>3. ProcInv'
    BY <1>0, <1>7, <2>1, <2>2, Zenon DEF Lookup, ProcInv
  <2> QED
    BY <1>7, <1>x, <1>y, <2>3, Zenon DEF Lookup
<1>8. ASSUME NEW g \in Graces, SetGraceTime(p, g) PROVE TypeInv'
  <2>1. ProcInv'
    BY <1>0, <1>8, GotoProc, Zenon DEF SetGraceTime, Labels
  <2>2. /\ grace' = grace \/ grace' = [grace EXCEPT ![hdl[p]][inc[p]] = g]
        /\ UNCHANGED <<bombs, timeBombs, signal>>
    BY <1>8, Zenon DEF SetGraceTime
  <2>3. grace \in [Handles -> [Incarnations -> Graces]]
    BY SMTT(40) DEF SignalInv, BombermanTypeOK
  <2>4. grace' \in [Handles -> [Incarnations -> Graces]]
    BY <1>0, <2>2, <2>3, SMTT(60)
  <2>5. SignalInv'
    BY <2>2, <2>4, Zenon DEF SignalInv, BombermanTypeOK
  <2> QED
    BY <1>8, <1>y, <2>1, <2>5, Zenon DEF SetGraceTime
<1>9. CASE AlreadyDestroying(p)
  <2>1. ProcInv'
    BY <1>9, GotoProc, ReturnProc, Zenon DEF AlreadyDestroying, Labels
  <2> QED
    BY <1>9, <1>x, <1>y, <2>1, Zenon DEF AlreadyDestroying
<1>10. CASE Claim(p) \/ DestroyReturns(p) \/ DestroyError(p)
  <2>1. ProcInv'
    BY <1>10, GotoProc, ZenonT(40) DEF Claim, DestroyReturns, DestroyError, Labels
  <2>2. BackendInv'
    BY <1>0, <1>10, ServerAssumption, SMTT(120) DEF Claim, DestroyReturns, DestroyError, BackendInv
  <2> QED
    BY <1>10, <1>x, <2>1, <2>2, Zenon DEF Claim, DestroyReturns, DestroyError
<1>11. CASE Release(p)
  <2>1. ProcInv'
    BY <1>11, GotoProc, ReturnProc, Zenon DEF Release, Labels
  <2>2. BackendInv'
    BY <1>11, Zenon DEF Release, BackendInv
  <2> QED
    BY <1>11, <1>x, <2>1, <2>2, ZenonT(40) DEF Release
<1> QED
  BY <1>1, <1>2, <1>3, <1>4, <1>5, <1>6, <1>7, <1>8, <1>9, <1>10, <1>11, ZenonT(40) DEF Step

\* Every step of the server, a crash included, keeps the types.
LEMMA NextType == TypeInv /\ [Next]_vars => TypeInv'
<1> SUFFICES ASSUME TypeInv, [Next]_vars PROVE TypeInv'
    OBVIOUS
<1> USE DEF TypeInv
<1> DEFINE QuietBomberman == UNCHANGED <<grace, bombs, timeBombs, signal>>
           QuietBackend == UNCHANGED <<backend, made, known, failures, destroys, toStrap, crashes>>
           QuietProcs == UNCHANGED <<pc, op, hdl, inc>>
<1>x. ASSUME QuietBomberman PROVE SignalInv'
  BY <1>x, SMTT(40) DEF SignalInv, BombermanTypeOK
<1>y. ASSUME QuietBackend PROVE BackendInv'
  BY <1>y, SMTT(40) DEF BackendInv
<1>z. ASSUME QuietProcs PROVE ProcInv'
  BY <1>z, SMTT(40) DEF ProcInv
<1> USE DEF bombVars, backendVars, setupVars, procVars
<1>1. ASSUME NEW h \in Handles, SetupStrap(h) PROVE TypeInv'
  <2>1. backend[h] \in 0 .. MaxIncarnation
    BY DEF BackendInv
  <2>2. SignalInv'
    BY <1>1, <2>1, SendType, Zenon DEF SetupStrap, SignalInv
  <2>3. BackendInv'
    BY <1>1 DEF SetupStrap, BackendInv
  <2> QED
    BY <1>1, <1>z, <2>2, <2>3, SMTT(40) DEF SetupStrap
<1>2. ASSUME NEW r \in Requests, NEW o \in Ops, NEW h \in Handles, Arrive(r, o, h)
      PROVE  TypeInv'
  <2>1. o \in DOMAIN Routes /\ r \in Procs
    BY ServerAssumption, ZenonT(40) DEF Procs
  <2>2. (IF Routes[o].decodes THEN "decode" ELSE Routes[o].start)
          \in Labels \ {"setgrace", "reset"}
    BY <2>1, RoutesShape DEF Labels
  <2>3. ProcInv'
    BY <1>2, <2>1, <2>2, Zenon DEF Arrive, ProcInv
  <2> QED
    BY <1>2, <1>x, <1>y, <2>3, Zenon DEF Arrive
<1>3. ASSUME NEW r \in Requests, CallReturns(r) PROVE TypeInv'
  <2>1. r \in Procs /\ "unpause" \in Labels \ {"setgrace", "reset"}
    BY ZenonT(40) DEF Procs, Labels
  <2>2. ProcInv'
    BY <1>3, <2>1, GotoProc, SMTT(40) DEF CallReturns
  <2> QED
    BY <1>3, <1>x, <1>y, <2>2, ZenonT(40) DEF CallReturns
<1>4. ASSUME NEW p \in Procs, Step(p) PROVE TypeInv'
  BY <1>4, StepType, ZenonT(40)
<1>5. ASSUME NEW q \in Reapers, NEW h \in Handles, NEW n \in Incarnations, Fire(q, h, n)
      PROVE  TypeInv'
  <2>1. q \in Procs /\ n \in 0 .. MaxIncarnation
    BY ContainersAssumption DEF Procs, Incarnations
  <2>2. ProcInv'
    BY <1>5, <2>1, Zenon DEF Fire, ProcInv, Labels
  <2>3. bombs[h][n] \in Bomb
    BY DEF SignalInv, BombermanTypeOK
  <2>4. FireTimer(bombs[h][n]) \in Bomb
    BY <2>3, Zenon DEF FireTimer, Bomb
  <2>5. bombs' \in [Handles -> [Incarnations -> Bomb]]
    BY <1>5, <2>4, PutBomb, Zenon DEF Fire, TimerFires, SignalInv
  <2>6. SignalInv'
    BY <1>5, <2>5, Zenon DEF Fire, TimerFires, SignalInv, BombermanTypeOK
  <2> QED
    BY <1>5, <1>y, <2>2, <2>6, SMTT(40) DEF Fire
<1>6. CASE BombermanStep
  <2>1. SignalInv'
    BY <1>6, ManageType DEF BombermanStep, SignalInv
  <2> QED
    BY <1>6, <1>y, <1>z, <2>1, SMTT(40) DEF BombermanStep
<1>7. CASE Crash
  <2>0. NewBomb(0) \in Bomb
    BY NewFacts, Zenon
  <2>1. 0 \in 0 .. MaxIncarnation /\ NoSignal.act = "none"
    BY ContainersAssumption DEF NoSignal
  <2>2. ProcInv'
    BY <1>7, <2>1, IdleValues, Zenon DEF Crash, ProcInv, Labels
  <2>3. SignalInv'
    BY <1>7, <2>0, <2>1, ZenonT(40) DEF Crash, BombermanLost, SignalInv, BombermanTypeOK
  <2>4. BackendInv'
    BY <1>7, ServerAssumption DEF Crash, BackendInv, Existing
  <2> QED
    BY <2>2, <2>3, <2>4
<1>8. CASE UNCHANGED vars
  BY <1>x, <1>y, <1>z, <1>8, Zenon DEF vars
<1> QED
  BY <1>1, <1>2, <1>3, <1>4, <1>5, <1>6, <1>7, <1>8, ZenonT(40) DEF Next

\* The state of the server keeps its type: every signal names a container or "none"
\* where it may, and every goroutine is at a step that exists.
THEOREM TypeCorrect == Spec => []TypeOK
<1>1. Spec => []TypeInv
  BY InitType, NextType, PTL DEF Spec
<1>2. TypeInv => TypeOK
  BY SMTT(40) DEF TypeInv, SignalInv, BackendInv, ProcInv, TypeOK
<1> QED
  BY <1>1, <1>2, PTL
-----------------------------------------------------------------------------
(***************************************************************************)
(* Whatever refers to a handle does so after a container was made under    *)
(* it, and a reaper does nothing but reap.                                 *)
(***************************************************************************)

Made(h) == made[h] # 0

\* Labels at which the handle of a goroutine need not be that of a container.
Blank == {"idle", "done", "query", "create"}

Past(p) ==
  IF pc[p] = "decode" THEN Routes[op[p]].start \notin Blank ELSE pc[p] \notin Blank

\* Whatever refers to a handle does so after a container was made under it.
MadeContainers ==
  /\ \A h \in Handles : backend[h] # 0 => Made(h)
  /\ \A h \in known : Made(h)
  /\ \A h \in toStrap : Made(h)

MadeBombs ==
  /\ \A h \in Handles : timeBombs[h] # 0 => Made(h)
  /\ \A h \in Handles : \A n \in Incarnations : bombs[h][n].timer = "live" => Made(h)
  /\ signal # NoSignal => Made(signal.h)

MadeProcs == \A p \in Procs : Past(p) => Made(hdl[p])

MadeFirst == MadeContainers /\ MadeBombs /\ MadeProcs

\* Only goroutine p moves.
Moves(p) ==
  \A q \in Procs \ {p} :
    pc'[q] = pc[q] /\ hdl'[q] = hdl[q] /\ op'[q] = op[q] /\ inc'[q] = inc[q]

\* A goroutine that goes on keeps its fields.
LEMMA GotoMoves ==
  ASSUME ProcInv, NEW p \in Procs, NEW l, Goto(p, l)
  PROVE  Moves(p) /\ pc'[p] = l /\ hdl'[p] = hdl[p] /\ op'[p] = op[p] /\ inc'[p] = inc[p]
BY DEF ProcInv, Goto, Moves

\* A goroutine that ends loses them.
LEMMA ReturnMoves ==
  ASSUME ProcInv, NEW p \in Procs, Return(p)
  PROVE  Moves(p) /\ pc'[p] \in {"idle", "done"} /\ op'[p] = "Ping"
BY DEF ProcInv, Return, Moves

\* A container that was made was made for good.
LEMMA MadeStays ==
  ASSUME TypeInv, [Next]_vars
  PROVE  \A h \in Handles : Made(h) => Made(h)'
<1>1. ASSUME NEW p \in Procs, NEW g \in Graces, CreateContainer(p, g)
      PROVE  \A h \in Handles : Made(h) => Made(h)'
  <2>1. made \in [Handles -> 0 .. MaxIncarnation] /\ hdl[p] \in Handles
    BY DEF TypeInv, BackendInv, ProcInv
  <2>2. made' = [made EXCEPT ![hdl[p]] = made[hdl[p]] + 1]
    BY <1>1, Zenon DEF CreateContainer
  <2>3. made[hdl[p]] + 1 # 0
    BY <2>1
  <2> QED
    BY <2>1, <2>2, <2>3, SMTT(40) DEF Made
<1>2. ASSUME made' = made PROVE \A h \in Handles : Made(h) => Made(h)'
  BY <1>2 DEF Made
<1>3. (\E p \in Procs, g \in Graces : CreateContainer(p, g)) \/ made' = made
  BY ZenonT(40) DEF Next, vars, backendVars, SetupStrap, Arrive, CallReturns, Step, Fire, BombermanStep,
         Crash, Decode, QueryBackend, CreateError, SendStrap, Answer, Lookup, LookupError,
         SendPause, SendUnpause, SetGraceTime, SendReset, AlreadyDestroying, Claim,
         DestroyReturns, DestroyError, Release, SendDefuse, SendCleanup
<1> QED
  BY <1>1, <1>2, <1>3, SMTT(40)

\* What a send does to the signal.
LEMMA SendFacts ==
  ASSUME TypeInv, NEW a, NEW h, NEW n, Send(a, h, n)
  PROVE  /\ signal = NoSignal /\ signal' # NoSignal
         /\ signal'.act = a /\ signal'.h = h /\ signal'.n = n
         /\ bombs' = bombs /\ timeBombs' = timeBombs
<1>1. [act |-> a, h |-> h, n |-> n] # NoSignal
  <2>1. DOMAIN [act |-> a, h |-> h, n |-> n] = {"act", "h", "n"} /\ DOMAIN NoSignal = {"act"}
    BY DEF NoSignal
  <2> QED
    BY <2>1
<1> QED
  BY <1>1 DEF Send

\* manageBombs touches the handle of its signal and no other, starts no timer where
\* the handle has no bomb and makes none but for a strap.
LEMMA ManageFacts ==
  ASSUME TypeInv, ManageBombs
  PROVE  /\ signal \in Signals /\ signal.h \in Handles /\ grace' = grace
         /\ signal' = NoSignal \/ (signal.act = "strap" /\ signal' = [signal EXCEPT !.act = "arm"])
         /\ \A h \in Handles : h # signal.h => bombs'[h] = bombs[h] /\ timeBombs'[h] = timeBombs[h]
<1>0. signal # NoSignal
  BY SMTT(40) DEF ManageBombs, ManageStrap, ManageArm, ManageDefuse, ManageReset, ManagePause,
         ManageUnpause, ManageCleanup, NoSignal
<1>1. signal \in Signals /\ signal.h \in Handles
  BY <1>0, SMTT(40) DEF TypeInv, SignalInv, BombermanTypeOK, Signals
<1>2. bombs \in [Handles -> [Incarnations -> Bomb]] /\ timeBombs \in [Handles -> 0 .. MaxIncarnation]
  BY DEF TypeInv, SignalInv, BombermanTypeOK
<1>3. \A h \in Handles : h # signal.h => bombs'[h] = bombs[h] /\ timeBombs'[h] = timeBombs[h]
  <2>1. CASE ManageStrap
    BY <1>1, <1>2, <2>1, Zenon DEF ManageStrap
  <2>2. CASE ManageArm
    BY <1>1, <1>2, <2>2, Zenon DEF ManageArm
  <2>3. CASE ManageDefuse
    BY <1>1, <1>2, <2>3, Zenon DEF ManageDefuse, Found
  <2>4. CASE ManageReset
    BY <1>1, <1>2, <2>4, Zenon DEF ManageReset, Found
  <2>5. CASE ManagePause
    BY <1>1, <1>2, <2>5, Zenon DEF ManagePause, Found
  <2>6. CASE ManageUnpause
    BY <1>1, <1>2, <2>6, Zenon DEF ManageUnpause, Found
  <2>7. CASE ManageCleanup
    BY <1>1, <1>2, <2>7 DEF ManageCleanup
  <2> QED
    BY <2>1, <2>2, <2>3, <2>4, <2>5, <2>6, <2>7, Zenon DEF ManageBombs
<1>4. /\ grace' = grace
      /\ signal' = NoSignal \/ (signal.act = "strap" /\ signal' = [signal EXCEPT !.act = "arm"])
  BY Zenon DEF ManageBombs, ManageStrap, ManageArm, ManageDefuse, ManageReset, ManagePause,
         ManageUnpause, ManageCleanup, Handled
<1> QED
  BY <1>1, <1>3, <1>4, ZenonT(40)

\* When only p moves, it is only p whose handle has to be looked at.
LEMMA ProcsCarry ==
  ASSUME TypeInv, MadeProcs, \A h \in Handles : Made(h) => Made(h)',
         NEW p \in Procs, Moves(p), Past(p)' => Made(hdl[p])'
  PROVE  MadeProcs'
<1> SUFFICES ASSUME NEW q \in Procs, Past(q)' PROVE Made(hdl[q])'
    BY DEF MadeProcs
<1>1. CASE q = p
  BY <1>1
<1>2. CASE q # p
  <2>1. pc'[q] = pc[q] /\ hdl'[q] = hdl[q] /\ op'[q] = op[q]
    BY <1>2, ZenonT(40) DEF Moves
  <2>2. Past(q) /\ hdl[q] \in Handles
    BY <2>1, Zenon DEF Past, TypeInv, ProcInv
  <2> QED
    BY <2>1, <2>2, ZenonT(40) DEF MadeProcs, Made
<1> QED
  BY <1>1, <1>2, ZenonT(40)

\* The steps of a goroutine.
LEMMA StepMade ==
  ASSUME TypeInv, TypeInv', MadeFirst, \A h \in Handles : Made(h) => Made(h)',
         NEW p \in Procs, Step(p)
  PROVE  MadeFirst'
<1>0. /\ pc[p] \in Labels /\ op[p] \in DOMAIN Routes /\ hdl[p] \in Handles /\ ProcInv
      /\ known \subseteq Handles /\ toStrap \subseteq Handles
      /\ backend \in [Handles -> 0 .. MaxIncarnation]
  BY Zenon DEF TypeInv, ProcInv, BackendInv
<1>a. ASSUME backend' = backend, known' = known, toStrap' = toStrap PROVE MadeContainers'
  BY <1>0, <1>a, Zenon DEF MadeFirst, MadeContainers
<1>b. ASSUME bombs' = bombs, timeBombs' = timeBombs,
             signal' = signal \/ (signal'.h = hdl[p] /\ Past(p))
      PROVE  MadeBombs'
  <2>1. signal' # NoSignal => Made(signal.h)'
    <3>1. signal # NoSignal => signal.h \in Handles
      BY Zenon DEF TypeInv, SignalInv, BombermanTypeOK, Signals
    <3>2. CASE signal' = signal
      BY <1>0, <3>1, <3>2, Zenon DEF MadeFirst, MadeBombs, Made
    <3>3. CASE signal'.h = hdl[p] /\ Past(p)
      BY <1>0, <3>3, Zenon DEF MadeFirst, MadeProcs, Made
    <3> QED
      BY <1>b, <3>2, <3>3, ZenonT(40)
  <2>2. /\ \A h \in Handles : timeBombs'[h] # 0 => Made(h)'
        /\ \A h \in Handles : \A n \in Incarnations : bombs'[h][n].timer = "live" => Made(h)'
    BY <1>b, Zenon DEF MadeFirst, MadeBombs
  <2> QED
    BY <2>1, <2>2, ZenonT(40) DEF MadeBombs
<1>c. ASSUME Return(p) PROVE MadeProcs'
  <2>1. Moves(p) /\ ~Past(p)'
    BY <1>0, <1>c, ReturnMoves, ZenonT(40) DEF Past, Blank
  <2> QED
    BY <2>1, ProcsCarry DEF MadeFirst
<1>d. ASSUME Past(p), NEW l, Goto(p, l) PROVE MadeProcs'
  <2>1. Moves(p) /\ hdl'[p] = hdl[p] /\ Made(hdl[p])
    BY <1>0, <1>d, GotoMoves, Zenon DEF MadeFirst, MadeProcs
  <2>2. Made(hdl[p])'
    BY <1>0, <2>1, ZenonT(40) DEF Made
  <2> QED
    BY <2>1, <2>2, ProcsCarry, ZenonT(40) DEF MadeFirst
<1>e. pc[p] \notin Blank \cup {"decode"} => Past(p)
  BY ZenonT(40) DEF Past
<1> USE DEF bombVars, backendVars, setupVars, Blank
<1>1. CASE Decode(p)
  <2>1. MadeProcs'
    <3>1. CASE Return(p)
      BY <1>c, <3>1, SMTT(40)
    <3>2. CASE Goto(p, Routes[op[p]].start)
      <4>1. Moves(p) /\ hdl'[p] = hdl[p] /\ pc'[p] = Routes[op[p]].start
        BY <1>0, <3>2, GotoMoves, Zenon
      <4>2. Past(p)' => Past(p)
        BY <1>0, <1>1, <4>1, RoutesShape, ZenonT(40) DEF Decode, Past
      <4>3. Past(p) => Made(hdl[p])
        BY DEF MadeFirst, MadeProcs
      <4>4. Past(p)' => Made(hdl[p])'
        BY <1>0, <4>1, <4>2, <4>3, Zenon DEF Made
      <4> QED
        BY <4>1, <4>4, ProcsCarry, Zenon DEF MadeFirst
    <3> QED
      BY <1>1, <3>1, <3>2, ZenonT(40) DEF Decode
  <2> QED
    BY <1>1, <1>a, <1>b, <2>1, Zenon DEF Decode, MadeFirst
<1>2. CASE QueryBackend(p)
  <2>1. MadeContainers'
    BY <1>0, <1>2, Zenon DEF QueryBackend, MadeFirst, MadeContainers, Existing
  <2> QED
    BY <1>2, <1>b, <1>c, <2>1, Zenon DEF QueryBackend, MadeFirst
<1>3. ASSUME NEW g \in Graces, CreateContainer(p, g) PROVE MadeFirst'
  <2>1. Made(hdl[p])' /\ hdl' = hdl
    <3>1. made \in [Handles -> 0 .. MaxIncarnation]
      BY DEF TypeInv, BackendInv
    <3>2. made' = [made EXCEPT ![hdl[p]] = made[hdl[p]] + 1] /\ hdl' = hdl
      BY <1>3, ZenonT(40) DEF CreateContainer
    <3>3. made'[hdl[p]] # 0
      BY <1>0, <3>1, <3>2, SMTT(40)
    <3> QED
      BY <3>2, <3>3, ZenonT(40) DEF Made
  <2>2. MadeContainers'
    BY <1>0, <1>3, <2>1, Zenon DEF CreateContainer, MadeFirst, MadeContainers
  <2>3. Moves(p)
    BY <1>0, <1>3, ZenonT(40) DEF CreateContainer, ProcInv, Moves
  <2>4. MadeProcs'
    BY <2>1, <2>3, ProcsCarry DEF MadeFirst
  <2> QED
    BY <1>3, <1>b, <2>2, <2>4, ZenonT(40) DEF CreateContainer, MadeFirst
<1>4. CASE CreateError(p) \/ LookupError(p)
  BY <1>4, <1>a, <1>b, <1>c, Zenon DEF CreateError, LookupError, MadeFirst
<1>5. CASE SendStrap(p) \/ SendPause(p)
  <2>1. Past(p)
    BY <1>5, <1>e, Zenon DEF SendStrap, SendPause
  <2>2. signal'.h = hdl[p] /\ bombs' = bombs /\ timeBombs' = timeBombs
    BY <1>5, SendFacts, Zenon DEF SendStrap, SendPause
  <2> QED
    BY <1>5, <1>a, <1>b, <1>d, <2>1, <2>2, Zenon DEF SendStrap, SendPause, MadeFirst
<1>6. CASE SendUnpause(p) \/ SendReset(p) \/ SendDefuse(p) \/ SendCleanup(p)
  <2>1. Past(p)
    BY <1>6, <1>e, Zenon DEF SendUnpause, SendReset, SendDefuse, SendCleanup
  <2>2. signal'.h = hdl[p] /\ bombs' = bombs /\ timeBombs' = timeBombs
    BY <1>6, SendFacts, ZenonT(40) DEF SendUnpause, SendReset, SendDefuse, SendCleanup
  <2> QED
    BY <1>6, <1>a, <1>b, <1>c, <2>1, <2>2, Zenon
       DEF SendUnpause, SendReset, SendDefuse, SendCleanup, MadeFirst
<1>7. CASE Answer(p)
  <2>1. Made(hdl[p])
    BY <1>7, <1>e, ZenonT(40) DEF Answer, MadeFirst, MadeProcs
  <2>2. MadeContainers'
    BY <1>0, <1>7, <2>1, Zenon DEF Answer, MadeFirst, MadeContainers
  <2> QED
    BY <1>7, <1>b, <1>c, <2>2, SMTT(40) DEF Answer, MadeFirst
<1>8. CASE Lookup(p)
  <2>1. Moves(p) /\ hdl' = hdl /\ Made(hdl[p])
    BY <1>0, <1>8, <1>e, ZenonT(40) DEF Lookup, ProcInv, Moves, MadeFirst, MadeProcs
  <2>2. MadeProcs'
    <3>1. Made(hdl[p])'
      BY <1>0, <2>1 DEF Made
    <3> QED
      BY <2>1, <3>1, ProcsCarry, ZenonT(40) DEF MadeFirst
  <2> QED
    BY <1>8, <1>a, <1>b, <2>2, Zenon DEF Lookup, MadeFirst
<1>9. ASSUME NEW g \in Graces, SetGraceTime(p, g) PROVE MadeFirst'
  BY <1>9, <1>a, <1>b, <1>d, <1>e, Zenon DEF SetGraceTime, MadeFirst
<1>10. CASE AlreadyDestroying(p)
  BY <1>10, <1>a, <1>b, <1>c, <1>d, <1>e, Zenon DEF AlreadyDestroying, MadeFirst
<1>11. CASE Claim(p) \/ DestroyError(p)
  BY <1>11, <1>a, <1>b, <1>d, <1>e, Zenon DEF Claim, DestroyError, MadeFirst
<1>12. CASE DestroyReturns(p)
  <2>1. MadeContainers'
    BY <1>0, <1>12, Zenon DEF DestroyReturns, MadeFirst, MadeContainers
  <2> QED
    BY <1>12, <1>b, <1>d, <1>e, <2>1, Zenon DEF DestroyReturns, MadeFirst
<1>13. CASE Release(p)
  BY <1>13, <1>a, <1>b, <1>c, <1>d, <1>e, ZenonT(40) DEF Release, MadeFirst
<1> QED
  BY <1>1, <1>2, <1>3, <1>4, <1>5, <1>6, <1>7, <1>8, <1>9, <1>10, <1>11, <1>12, <1>13, Zenon DEF Step

\* A server finds made whatever its backend holds.
LEMMA InitMade == Init => MadeFirst
<1> SUFFICES ASSUME Init PROVE MadeFirst
    OBVIOUS
<1>1. MadeContainers
  BY DEF Init, MadeContainers, Made, Existing
<1>2. MadeBombs
  <2>1. NewBomb(0).timer = "nil"
    BY NewFacts, ZenonT(40)
  <2> QED
    BY <2>1, Zenon DEF Init, BombermanNew, MadeBombs
<1>3. MadeProcs
  BY SMTT(40) DEF Init, MadeProcs, Past, Blank
<1> QED
  BY <1>1, <1>2, <1>3 DEF MadeFirst

\* Every step of the server refers to made containers only.
LEMMA NextMade ==
  ASSUME TypeInv, TypeInv', MadeFirst, [Next]_vars
  PROVE  MadeFirst'
<1>0. /\ \A h \in Handles : Made(h) => Made(h)'
      /\ known \subseteq Handles /\ toStrap \subseteq Handles /\ ProcInv
      /\ signal # NoSignal => signal.h \in Handles
  BY MadeStays, Zenon DEF TypeInv, BackendInv, SignalInv, BombermanTypeOK, Signals
<1>a. ASSUME backend' = backend, known' = known, toStrap' \subseteq toStrap PROVE MadeContainers'
  BY <1>0, <1>a DEF MadeFirst, MadeContainers
<1>b. ASSUME bombs' = bombs, timeBombs' = timeBombs, signal' = signal PROVE MadeBombs'
  BY <1>0, <1>b, Zenon DEF MadeFirst, MadeBombs, Made
<1>c. ASSUME pc' = pc, hdl' = hdl, op' = op PROVE MadeProcs'
  <2>1. \A p \in Procs : Past(p)' <=> Past(p)
    BY <1>c DEF Past
  <2>2. \A p \in Procs : hdl[p] \in Handles
    BY DEF TypeInv, ProcInv
  <2> QED
    BY <1>0, <1>c, <2>1, <2>2, ZenonT(40) DEF MadeFirst, MadeProcs, Made
<1> USE DEF bombVars, backendVars, setupVars, procVars
<1>1. ASSUME NEW h \in Handles, SetupStrap(h) PROVE MadeFirst'
  <2>1. signal'.h = h /\ bombs' = bombs /\ timeBombs' = timeBombs
    BY <1>1, SendFacts, Zenon DEF SetupStrap
  <2>2. Made(h)'
    BY <1>0, <1>1, Zenon DEF SetupStrap, MadeFirst, MadeContainers
  <2>3. MadeBombs'
    BY <1>0, <2>1, <2>2, Zenon DEF MadeFirst, MadeBombs, Made
  <2> QED
    BY <1>1, <1>a, <1>c, <2>3 DEF SetupStrap, MadeFirst
<1>2. ASSUME NEW r \in Requests, NEW o \in Ops, NEW h \in Handles, Arrive(r, o, h)
      PROVE  MadeFirst'
  <2>1. o \in DOMAIN Routes /\ r \in Procs
    BY ServerAssumption DEF Procs
  <2>2. /\ Moves(r) /\ hdl'[r] = h /\ op'[r] = o
        /\ pc'[r] = IF Routes[o].decodes THEN "decode" ELSE Routes[o].start
    BY <1>0, <1>2, <2>1, Zenon DEF Arrive, ProcInv, Moves
  <2>3. Routes[o].start \notin Blank => Made(h)'
    <3>1. Routes[o].start \notin Blank => h \in known
      BY <1>2, Zenon DEF Arrive, Blank
    <3> QED
      BY <1>0, <3>1 DEF MadeFirst, MadeContainers
  <2>4. Past(r)' => Made(hdl[r])'
    BY <2>1, <2>2, <2>3, RoutesShape, Zenon DEF Past, Made, Blank
  <2>5. MadeProcs'
    BY <1>0, <2>1, <2>2, <2>4, ProcsCarry, Zenon DEF MadeFirst
  <2> QED
    BY <1>2, <1>a, <1>b, <2>5, Zenon DEF Arrive, MadeFirst
<1>3. ASSUME NEW r \in Requests, CallReturns(r) PROVE MadeFirst'
  <2>1. r \in Procs
    BY DEF Procs
  <2>2. Moves(r) /\ hdl'[r] = hdl[r] /\ hdl[r] \in Handles
    BY <1>0, <1>3, <2>1, GotoMoves, Zenon DEF CallReturns, ProcInv
  <2>3. Made(hdl[r])
    BY <1>3, <2>1, Zenon DEF CallReturns, MadeFirst, MadeProcs, Past, Blank
  <2>4. MadeProcs'
    <3>1. Made(hdl[r])'
      BY <1>0, <2>2, <2>3 DEF Made
    <3> QED
      BY <1>0, <2>1, <2>2, <3>1, ProcsCarry, ZenonT(40) DEF MadeFirst
  <2> QED
    BY <1>3, <1>a, <1>b, <2>4 DEF CallReturns, MadeFirst
<1>4. ASSUME NEW p \in Procs, Step(p) PROVE MadeFirst'
  BY <1>0, <1>4, StepMade, ZenonT(40)
<1>5. ASSUME NEW q \in Reapers, NEW h \in Handles, NEW n \in Incarnations, Fire(q, h, n)
      PROVE  MadeFirst'
  <2>1. q \in Procs
    BY DEF Procs
  <2>2. Made(h)'
    BY <1>0, <1>5, Zenon DEF Fire, TimerFires, MadeFirst, MadeBombs
  <2>3. Moves(q) /\ hdl'[q] = h
    BY <1>0, <1>5, <2>1, ZenonT(40) DEF Fire, ProcInv, Moves
  <2>4. MadeProcs'
    <3>1. Made(hdl[q])'
      BY <2>2, <2>3 DEF Made
    <3> QED
      BY <1>0, <2>1, <2>3, <3>1, ProcsCarry, ZenonT(40) DEF MadeFirst
  <2>5. MadeBombs'
    <3>1. /\ bombs \in [Handles -> [Incarnations -> Bomb]]
          /\ bombs' = [bombs EXCEPT ![h][n] = FireTimer(bombs[h][n])]
          /\ timeBombs' = timeBombs /\ signal' = signal
      BY <1>5, Zenon DEF Fire, TimerFires, TypeInv, SignalInv, BombermanTypeOK
    <3>2. \A k \in Handles : \A m \in Incarnations :
            bombs'[k][m] = bombs[k][m] \/ k = h
      BY <3>1, SMTT(40)
    <3> QED
      BY <1>0, <2>2, <3>1, <3>2, Zenon DEF MadeFirst, MadeBombs, Made
  <2> QED
    BY <1>5, <1>a, <2>4, <2>5, SMTT(40) DEF Fire, MadeFirst
<1>6. CASE BombermanStep
  <2>1. ManageBombs /\ signal # NoSignal
    BY <1>6, ManageFacts, SMTT(40) DEF BombermanStep, NoSignal, Signals
  <2>2. Made(signal.h)
    BY <2>1 DEF MadeFirst, MadeBombs
  <2>3. made' = made
    BY <1>6 DEF BombermanStep
  <2>4. signal' # NoSignal => signal'.h = signal.h
    BY <2>1, ManageFacts DEF Signals
  <2>5. /\ \A h \in Handles : timeBombs'[h] # 0 => made[h] # 0
        /\ \A h \in Handles : \A n \in Incarnations : bombs'[h][n].timer = "live" => made[h] # 0
    BY <2>1, <2>2, ManageFacts, ZenonT(40) DEF MadeFirst, MadeBombs, Made
  <2>6. MadeBombs'
    BY <2>2, <2>3, <2>4, <2>5 DEF MadeBombs, Made
  <2> QED
    BY <1>6, <1>a, <1>c, <2>6 DEF BombermanStep, MadeFirst
<1>7. CASE Crash
  <2>1. MadeProcs'
    BY <1>7 DEF Crash, MadeProcs, Past, Blank
  <2>2. MadeBombs'
    <3>1. NewBomb(0).timer = "nil"
      BY NewFacts, Zenon
    <3> QED
      BY <1>7, <3>1, Zenon DEF Crash, BombermanLost, MadeBombs
  <2>3. MadeContainers'
    BY <1>7, Zenon DEF Crash, MadeFirst, MadeContainers, Existing, Made
  <2> QED
    BY <2>1, <2>2, <2>3 DEF MadeFirst
<1>8. CASE UNCHANGED vars
  BY <1>8, <1>a, <1>b, <1>c, ZenonT(40) DEF vars, MadeFirst
<1> QED
  BY <1>1, <1>2, <1>3, <1>4, <1>5, <1>6, <1>7, <1>8 DEF Next

\* A reaper does nothing but reap.
ReapersReap ==
  \A q \in Reapers : pc[q] \in {"idle", "claim", "destroy", "destroyed", "failed", "cleanup"}

\* No step gives a reaper anything else to do.
LEMMA NextReap ==
  ASSUME TypeInv, ReapersReap, [Next]_vars
  PROVE  ReapersReap'
<1> SUFFICES ASSUME NEW q \in Reapers
             PROVE  pc'[q] \in {"idle", "claim", "destroy", "destroyed", "failed", "cleanup"}
    BY DEF ReapersReap
<1>0. /\ pc[q] \in {"idle", "claim", "destroy", "destroyed", "failed", "cleanup"}
      /\ q \in Procs /\ q \notin Requests /\ ProcInv
  BY ServerAssumption, SMTT(40) DEF ReapersReap, Procs, TypeInv
<1>1. ASSUME NEW p \in Procs, Moves(p), p # q PROVE pc'[q] = pc[q]
  BY <1>0, <1>1 DEF Moves
<1>2. ASSUME NEW p \in Procs, Step(p), p # q PROVE pc'[q] = pc[q]
  <2>1. pc \in [Procs -> Labels]
    BY DEF TypeInv, ProcInv
  <2>2. \E l : pc' = [pc EXCEPT ![p] = l]
    BY <1>2, Zenon DEF Step, Decode, QueryBackend, CreateContainer, CreateError, SendStrap, Answer,
       Lookup, LookupError, SendPause, SendUnpause, SetGraceTime, SendReset, AlreadyDestroying,
       Claim, DestroyReturns, DestroyError, Release, SendDefuse, SendCleanup, Goto, Return
  <2> QED
    BY <1>0, <1>2, <2>1, <2>2
<1>3. ASSUME Step(q)
      PROVE  pc'[q] \in {"idle", "claim", "destroy", "destroyed", "failed", "cleanup"}
  <2>1. AlreadyDestroying(q) \/ Claim(q) \/ DestroyReturns(q) \/ DestroyError(q)
          \/ Release(q) \/ SendCleanup(q)
    BY <1>0, <1>3, Zenon DEF Step, Decode, QueryBackend, CreateContainer, CreateError, SendStrap,
       Answer, Lookup, LookupError, SendPause, SendUnpause, SetGraceTime, SendReset, SendDefuse
  <2>2. pc \in [Procs -> Labels]
    BY DEF TypeInv, ProcInv
  <2> QED
    BY <1>0, <2>1, <2>2, Zenon DEF AlreadyDestroying, Claim, DestroyReturns, DestroyError, Release,
       SendCleanup, Goto, Return
<1>4. ASSUME NEW r \in Requests, NEW l, pc' = [pc EXCEPT ![r] = l] PROVE pc'[q] = pc[q]
  BY <1>0, <1>4, Zenon DEF TypeInv, ProcInv
<1>5. ASSUME NEW x \in Reapers, pc' = [pc EXCEPT ![x] = "claim"]
      PROVE  pc'[q] \in {pc[q], "claim"}
  BY <1>0, <1>5, ZenonT(40) DEF TypeInv, ProcInv
<1>6. ASSUME Crash PROVE pc'[q] = "idle"
  BY <1>0, <1>6 DEF Crash
<1>7. \/ \E p \in Procs : Step(p)
      \/ \E r \in Requests : \E l : pc' = [pc EXCEPT ![r] = l]
      \/ \E x \in Reapers : pc' = [pc EXCEPT ![x] = "claim"]
      \/ Crash
      \/ pc' = pc
  BY Zenon DEF Next, vars, procVars, SetupStrap, Arrive, CallReturns, Fire, BombermanStep, Goto
<1> QED
  BY <1>0, <1>2, <1>3, <1>4, <1>5, <1>6, <1>7, ZenonT(40)
=============================================================================
