---------------------------- MODULE GardenServer ----------------------------
(***************************************************************************)
(* The container side of the server: the request handlers of               *)
(* server/request_handling.go, the reaper and the set-up of                *)
(* server/server.go, the Bomberman they signal, and the backend they call. *)
(*                                                                         *)
(* Every request runs in a goroutine of its own and is one of Requests;    *)
(* every timer that fires runs reapContainer in a goroutine of its own,    *)
(* one of Reapers.  A crash ends all of them; the containers survive it,   *)
(* and the next server straps bombs to them before it serves.              *)
(***************************************************************************)
EXTENDS Bomberman, Handlers, FiniteSets

CONSTANTS Requests,       \* requests, each of which arrives at most once
          Reapers,        \* bound: reaper goroutines at one time
          Ops,            \* the routes that clients use
          DefaultGrace,   \* the server's containerGraceTime
          MaxFailures,    \* bound: failures of backend.Destroy on a container
          MaxCrashes      \* bound: crashes of the server

ASSUME ServerAssumption ==
  /\ Handles # {}
  /\ Requests \cap Reapers = {}
  /\ Ops \subseteq DOMAIN Routes
  /\ DefaultGrace \in Graces
  /\ MaxFailures \in Nat
  /\ MaxCrashes \in Nat

VARIABLES backend,    \* the backend's containers: the incarnation that exists
          made,       \* incarnations created so far
          known,      \* handles that a response has given to a client
          destroys,   \* the handles being destroyed (destroys, destroysL)
          toStrap,    \* containers that SetupBomberman has yet to strap
          pc,         \* where every goroutine is
          op,         \* the route of a request
          hdl,        \* the handle a goroutine works on
          inc,        \* the container it works on
          failures,
          crashes

backendVars == <<backend, made, known, failures>>
procVars == <<pc, op, hdl, inc>>
setupVars == <<toStrap, crashes>>
vars == <<grace, bombVars, backendVars, destroys, procVars, setupVars>>

Procs == Requests \cup Reapers

Labels ==
  {"idle", "decode", "query", "create", "strap", "answer", "lookup", "pause", "call",
   "unpause", "setgrace", "reset", "claim", "destroy", "destroyed", "failed", "defuse",
   "cleanup", "done"}

TypeOK ==
  /\ BombermanTypeOK
  /\ backend \in [Handles -> 0 .. MaxIncarnation]
  /\ made \in [Handles -> 0 .. MaxIncarnation]
  /\ known \subseteq Handles
  /\ destroys \subseteq Handles
  /\ toStrap \subseteq Handles
  /\ pc \in [Procs -> Labels]
  /\ op \in [Procs -> DOMAIN Routes]
  /\ hdl \in [Procs -> Handles]
  /\ inc \in [Procs -> 0 .. MaxIncarnation]
  /\ failures \in 0 .. MaxFailures
  /\ crashes \in 0 .. MaxCrashes

\* The values op, hdl and inc have while they mean nothing.
NoHandle == CHOOSE h \in Handles : TRUE

Existing == {h \in Handles : backend[h] # 0}

\* A server starts on a backend that may hold containers already.
Init ==
  /\ backend \in [Handles -> {0, 1}]
  /\ made = backend
  /\ known = Existing
  /\ grace \in [Handles -> [Incarnations -> Graces]]
  /\ \A h \in Handles : \A n \in Incarnations : n # backend[h] => grace[h][n] = DefaultGrace
  /\ BombermanNew
  /\ destroys = {}
  /\ toStrap = Existing
  /\ pc = [p \in Procs |-> "idle"]
  /\ op = [p \in Procs |-> "Ping"]
  /\ hdl = [p \in Procs |-> NoHandle]
  /\ inc = [p \in Procs |-> 0]
  /\ failures = 0
  /\ crashes = 0

Goto(p, label) ==
  /\ pc' = [pc EXCEPT ![p] = label]
  /\ UNCHANGED <<op, hdl, inc>>

\* The goroutine ends.
Return(p) ==
  /\ pc' = [pc EXCEPT ![p] = IF p \in Requests THEN "done" ELSE "idle"]
  /\ op' = [op EXCEPT ![p] = "Ping"]
  /\ hdl' = [hdl EXCEPT ![p] = NoHandle]
  /\ inc' = [inc EXCEPT ![p] = 0]
-----------------------------------------------------------------------------
\* SetupBomberman straps the existing containers one by one; nothing is served
\* before it is through.
SetupStrap(h) ==
  /\ h \in toStrap
  /\ Send("strap", h, backend[h])
  /\ toStrap' = toStrap \ {h}
  /\ UNCHANGED <<grace, backendVars, destroys, procVars, crashes>>

\* The new process straps no bomb to the containers it finds.
Crash_NoSetup ==
  /\ crashes < MaxCrashes
  /\ crashes' = crashes + 1
  /\ BombermanLost
  /\ destroys' = {}
  /\ toStrap' = {}
  /\ pc' = [p \in Procs |-> IF p \in Requests /\ pc[p] # "idle" THEN "done" ELSE "idle"]
  /\ op' = [p \in Procs |-> "Ping"]
  /\ hdl' = [p \in Procs |-> NoHandle]
  /\ inc' = [p \in Procs |-> 0]
  /\ UNCHANGED <<grace, backendVars>>

\* The server's process dies and a new one lists the backend's containers.
Crash ==
  /\ crashes < MaxCrashes
  /\ crashes' = crashes + 1
  /\ BombermanLost
  /\ destroys' = {}
  /\ toStrap' = Existing
  /\ pc' = [p \in Procs |-> IF p \in Requests /\ pc[p] # "idle" THEN "done" ELSE "idle"]
  /\ op' = [p \in Procs |-> "Ping"]
  /\ hdl' = [p \in Procs |-> NoHandle]
  /\ inc' = [p \in Procs |-> 0]
  /\ UNCHANGED <<grace, backendVars>>

\* A client creates under any handle but refers only to handles it was given.
Arrive(r, o, h) ==
  /\ toStrap = {}
  /\ pc[r] = "idle"
  /\ CASE Routes[o].start = "query"  -> h = NoHandle
       [] Routes[o].start = "create" -> TRUE
       [] OTHER                      -> h \in known
  /\ pc' = [pc EXCEPT ![r] = IF Routes[o].decodes THEN "decode" ELSE Routes[o].start]
  /\ op' = [op EXCEPT ![r] = o]
  /\ hdl' = [hdl EXCEPT ![r] = h]
  /\ UNCHANGED <<inc, grace, bombVars, backendVars, destroys, setupVars>>

\* readRequest: a body that does not parse is answered with an error.
Decode(r) ==
  /\ pc[r] = "decode"
  /\ \/ Goto(r, Routes[op[r]].start)
     \/ Return(r)
  /\ UNCHANGED <<grace, bombVars, backendVars, destroys, setupVars>>

\* Ping, Capacity, BulkInfo and BulkMetrics change nothing; List tells the client
\* the handles the backend has, strapped or not, that its filter lets through, or
\* none when the backend returns an error.
QueryBackend(r) ==
  /\ pc[r] = "query"
  /\ Return(r)
  /\ \E listed \in SUBSET (IF op[r] = "List" THEN Existing ELSE {}) :
       known' = known \cup listed
  /\ UNCHANGED <<grace, bombVars, backend, made, failures, destroys, setupVars>>

\* Adds the server's grace time to the client's.
CreateContainer_Adds(r, g) ==
  /\ pc[r] = "create"
  /\ backend[hdl[r]] = 0
  /\ made[hdl[r]] < MaxIncarnation
  /\ LET n == made[hdl[r]] + 1 IN
       /\ backend' = [backend EXCEPT ![hdl[r]] = n]
       /\ made' = [made EXCEPT ![hdl[r]] = n]
       /\ grace' = [grace EXCEPT ![hdl[r]][n] = g + DefaultGrace]
       /\ inc' = [inc EXCEPT ![r] = n]
  /\ pc' = [pc EXCEPT ![r] = "strap"]
  /\ UNCHANGED <<op, hdl, bombVars, known, failures, destroys, setupVars>>

\* backend.Create with the server's grace time where the client gives none.
CreateContainer(r, g) ==
  /\ pc[r] = "create"
  /\ backend[hdl[r]] = 0
  /\ made[hdl[r]] < MaxIncarnation
  /\ LET n == made[hdl[r]] + 1 IN
       /\ backend' = [backend EXCEPT ![hdl[r]] = n]
       /\ made' = [made EXCEPT ![hdl[r]] = n]
       /\ grace' = [grace EXCEPT ![hdl[r]][n] = IF g = 0 THEN DefaultGrace ELSE g]
       /\ inc' = [inc EXCEPT ![r] = n]
  /\ pc' = [pc EXCEPT ![r] = "strap"]
  /\ UNCHANGED <<op, hdl, bombVars, known, failures, destroys, setupVars>>

\* The handle is taken, or resources are lacking.
CreateError(r) ==
  /\ pc[r] = "create"
  /\ Return(r)
  /\ UNCHANGED <<grace, bombVars, backendVars, destroys, setupVars>>

SendStrap(r) ==
  /\ pc[r] = "strap"
  /\ Send("strap", hdl[r], inc[r])
  /\ Goto(r, "answer")
  /\ UNCHANGED <<grace, backendVars, destroys, setupVars>>

Answer(r) ==
  /\ pc[r] = "answer"
  /\ Return(r)
  /\ known' = known \cup {hdl[r]}
  /\ UNCHANGED <<grace, bombVars, backend, made, failures, destroys, setupVars>>
-----------------------------------------------------------------------------
Lookup(r) ==
  /\ pc[r] = "lookup"
  /\ backend[hdl[r]] # 0
  /\ pc' = [pc EXCEPT ![r] = Routes[op[r]].found]
  /\ inc' = [inc EXCEPT ![r] = backend[hdl[r]]]
  /\ UNCHANGED <<op, hdl, grace, bombVars, backendVars, destroys, setupVars>>

\* There is no such container, or the backend cannot tell.
LookupError(r) ==
  /\ pc[r] = "lookup"
  /\ Return(r)
  /\ UNCHANGED <<grace, bombVars, backendVars, destroys, setupVars>>

SendPause(r) ==
  /\ pc[r] = "pause"
  /\ Send("pause", hdl[r], 0)
  /\ Goto(r, "call")
  /\ UNCHANGED <<grace, backendVars, destroys, setupVars>>

\* The early return of an error path that forgets the deferred Unpause.
CallReturns_NoDefer(r) ==
  /\ pc[r] = "call"
  /\ Return(r)
  /\ UNCHANGED <<grace, bombVars, backendVars, destroys, setupVars>>

\* The call on the container returns, with or without an error, and is answered.
CallReturns(r) ==
  /\ pc[r] = "call"
  /\ Goto(r, "unpause")
  /\ UNCHANGED <<grace, bombVars, backendVars, destroys, setupVars>>

SendUnpause(r) ==
  /\ pc[r] = "unpause"
  /\ Send("unpause", hdl[r], 0)
  /\ Return(r)
  /\ UNCHANGED <<grace, backendVars, destroys, setupVars>>

\* An error of SetGraceTime is logged only; Reset follows all the same.
SetGraceTime(r, g) ==
  /\ pc[r] = "setgrace"
  /\ Goto(r, "reset")
  /\ \/ grace' = [grace EXCEPT ![hdl[r]][inc[r]] = g]
     \/ UNCHANGED grace
  /\ UNCHANGED <<bombVars, backendVars, destroys, setupVars>>

SendReset(r) ==
  /\ pc[r] = "reset"
  /\ Send("reset", hdl[r], inc[r])
  /\ Return(r)
  /\ UNCHANGED <<grace, backendVars, destroys, setupVars>>
-----------------------------------------------------------------------------
\* A timer fires and its goroutine starts with reapContainer.
Fire(q, h, n) ==
  /\ pc[q] = "idle"
  /\ TimerFires(h, n)
  /\ pc' = [pc EXCEPT ![q] = "claim"]
  /\ hdl' = [hdl EXCEPT ![q] = h]
  /\ inc' = [inc EXCEPT ![q] = n]
  /\ UNCHANGED <<op, backendVars, destroys, setupVars>>

\* Whoever finds the handle among the destroys leaves the container to the other:
\* a request answers ErrConcurrentDestroy, a reaper goes on to the cleanup.
AlreadyDestroying(p) ==
  /\ pc[p] = "claim"
  /\ hdl[p] \in destroys
  /\ IF p \in Requests THEN Return(p) ELSE Goto(p, "cleanup")
  /\ UNCHANGED <<grace, bombVars, backendVars, destroys, setupVars>>

\* Does not look whether somebody is destroying the container already.
Claim_Unchecked(p) ==
  /\ pc[p] = "claim"
  /\ destroys' = destroys \cup {hdl[p]}
  /\ Goto(p, "destroy")
  /\ UNCHANGED <<grace, bombVars, backendVars, setupVars>>

Claim(p) ==
  /\ pc[p] = "claim"
  /\ hdl[p] \notin destroys
  /\ destroys' = destroys \cup {hdl[p]}
  /\ Goto(p, "destroy")
  /\ UNCHANGED <<grace, bombVars, backendVars, setupVars>>

DestroyReturns(p) ==
  /\ pc[p] = "destroy"
  /\ backend[hdl[p]] # 0
  /\ backend' = [backend EXCEPT ![hdl[p]] = 0]
  /\ Goto(p, "destroyed")
  /\ UNCHANGED <<grace, bombVars, made, known, failures, destroys, setupVars>>

\* There is no such container, or destroying it fails.
DestroyError(p) ==
  /\ pc[p] = "destroy"
  /\ backend[hdl[p]] # 0 => failures < MaxFailures
  /\ failures' = IF backend[hdl[p]] = 0 THEN failures ELSE failures + 1
  /\ Goto(p, "failed")
  /\ UNCHANGED <<grace, bombVars, backend, made, known, destroys, setupVars>>

\* Keeps the claim when Destroy returns an error.
Release_OnSuccess(p) ==
  /\ pc[p] \in {"destroyed", "failed"}
  /\ destroys' = IF pc[p] = "destroyed" THEN destroys \ {hdl[p]} ELSE destroys
  /\ IF p \in Reapers THEN Goto(p, "cleanup")
     ELSE IF pc[p] = "destroyed" THEN Goto(p, "defuse") ELSE Return(p)
  /\ UNCHANGED <<grace, bombVars, backendVars, setupVars>>

\* A reaper cleans up whatever Destroy returned; a request defuses the bomb only
\* of a container it has destroyed.
Release(p) ==
  /\ pc[p] \in {"destroyed", "failed"}
  /\ destroys' = destroys \ {hdl[p]}
  /\ IF p \in Reapers THEN Goto(p, "cleanup")
     ELSE IF pc[p] = "destroyed" THEN Goto(p, "defuse") ELSE Return(p)
  /\ UNCHANGED <<grace, bombVars, backendVars, setupVars>>

\* Leaves the bomb of the destroyed container in the map.
SendDefuse_Forgotten(r) ==
  /\ pc[r] = "defuse"
  /\ Return(r)
  /\ UNCHANGED <<grace, bombVars, backendVars, destroys, setupVars>>

SendDefuse(r) ==
  /\ pc[r] = "defuse"
  /\ Send("defuse", hdl[r], 0)
  /\ Return(r)
  /\ UNCHANGED <<grace, backendVars, destroys, setupVars>>

SendCleanup(q) ==
  /\ pc[q] = "cleanup"
  /\ Send("cleanup", hdl[q], 0)
  /\ Return(q)
  /\ UNCHANGED <<grace, backendVars, destroys, setupVars>>
-----------------------------------------------------------------------------
BombermanStep ==
  /\ ManageBombs
  /\ UNCHANGED <<backendVars, destroys, procVars, setupVars>>

\* The steps of a goroutine that it takes without waiting for a client or for a
\* call on the container that may take any time.
Step(p) ==
  \/ Decode(p)
  \/ QueryBackend(p)
  \/ \E g \in Graces : CreateContainer(p, g)
  \/ CreateError(p)
  \/ SendStrap(p)
  \/ Answer(p)
  \/ Lookup(p)
  \/ LookupError(p)
  \/ SendPause(p)
  \/ SendUnpause(p)
  \/ \E g \in Graces : SetGraceTime(p, g)
  \/ SendReset(p)
  \/ AlreadyDestroying(p)
  \/ Claim(p)
  \/ DestroyReturns(p)
  \/ DestroyError(p)
  \/ Release(p)
  \/ SendDefuse(p)
  \/ SendCleanup(p)

Next ==
  \/ \E h \in Handles : SetupStrap(h)
  \/ \E r \in Requests, o \in Ops, h \in Handles : Arrive(r, o, h)
  \/ \E r \in Requests : CallReturns(r)
  \/ \E p \in Procs : Step(p)
  \/ \E q \in Reapers, h \in Handles, n \in Incarnations : Fire(q, h, n)
  \/ BombermanStep
  \/ Crash

\* The Go scheduler runs every goroutine that can run and every timer that is due;
\* a channel serves the goroutines that wait to send on it in order.  Clients need
\* not send anything, a container call need not return, nothing has to crash.
Spec ==
  /\ Init
  /\ [][Next]_vars
  /\ \A h \in Handles : WF_vars(SetupStrap(h))
  /\ \A p \in Procs : WF_vars(Step(p))
  /\ \A h \in Handles : \A n \in Incarnations :
       WF_vars(\E q \in Reapers : Fire(q, h, n))
  /\ WF_vars(BombermanStep)
-----------------------------------------------------------------------------
\* "only destroys once": however API requests and reapers interleave, two of them
\* are never in backend.Destroy for the same handle (server.go:312-333,
\* request_handling.go:135-157).
DestroyExclusive ==
  \A p, q \in Procs :
    pc[p] = "destroy" /\ pc[q] = "destroy" /\ hdl[p] = hdl[q] => p = q

Destroying(p) == pc[p] \in {"destroy", "destroyed", "failed"}

\* A handle is among the destroys exactly while one goroutine destroys it, so a
\* destroy that failed "tries to destroy again" and none is refused for good.
DestroysAreInFlight ==
  /\ \A h \in destroys : \E p \in Procs : Destroying(p) /\ hdl[p] = h
  /\ \A p \in Procs : Destroying(p) => hdl[p] \in destroys

Sent(act, h) == signal.act = act /\ signal.h = h

Holders(h, n) ==
  {r \in Requests : pc[r] \in {"call", "unpause"} /\ hdl[r] = h /\ inc[r] = n}

\* The bomb counts exactly the requests that hold the container: no error path, no
\* interleaving and no crash leaves it a Pause without its Unpause or the reverse.
PausesBalanced ==
  \A h \in Handles :
    LET n == timeBombs[h] IN
      n # 0 => bombs[h][n].pauses
                 = Cardinality(Holders(h, n))
                   - (IF Sent("pause", h) THEN 1 ELSE 0)
                   + (IF Sent("unpause", h) THEN 1 ELSE 0)

\* The doc of ContainerSpec.GraceTime: the grace time runs while the container is
\* "unreferenced by any client connection".  No timer runs on a container that a
\* request is using, unless the container is being destroyed anyway.
InUseNotTicking ==
  \A r \in Requests :
    /\ pc[r] = "call"
    /\ backend[hdl[r]] = inc[r]
    /\ hdl[r] \notin destroys
    /\ ~Sent("pause", hdl[r])
    => bombs[hdl[r]][inc[r]].timer # "live"

\* Every container has a bomb, or is about to get one, or is being destroyed: none
\* is left out of the reach of the reaper, not even by a crash between Create and
\* Strap.
Guarded ==
  \A h \in Existing :
    \/ timeBombs[h] = backend[h]
    \/ h \in toStrap
    \/ Sent("strap", h)
    \/ h \in destroys
    \/ \E r \in Requests : pc[r] = "strap" /\ hdl[r] = h

\* A bomb counts down the container's current grace time once every SetGraceTime
\* has been followed by its Reset: the value manageBombs read is never stale.
CountdownCurrent ==
  \A h \in Handles :
    LET n == timeBombs[h] IN
      \/ n = 0
      \/ Sent("reset", h)
      \/ \E r \in Requests : pc[r] = "reset" /\ hdl[r] = h
      \/ bombs[h][n].countdown = grace[h][n]

\* The reaper destroys the container whose grace time has run out and no other.
ReapsOwnContainer ==
  [][\A q \in Reapers : pc[q] = "destroy" /\ pc'[q] = "destroyed"
                          => backend[hdl[q]] = inc[q]]_vars

InUse(h) == \E r \in Requests : pc[r] = "call" /\ hdl[r] = h

\* "After this time, the container will automatically be destroyed": a container
\* with a grace time is destroyed, or is used again, or loses its grace time.
EventuallyReaped ==
  \A h \in Handles : \A n \in Incarnations :
    (backend[h] = n /\ grace[h][n] # 0) ~> (backend[h] # n \/ grace[h][n] = 0 \/ InUse(h))

\* The bomb of a container that is gone leaves the map: a long-lived server does
\* not collect bombs.
BombsCollected ==
  \A h \in Handles : \A n \in Incarnations :
    (backend[h] # n /\ timeBombs[h] = n) ~> (timeBombs[h] # n)

\* No goroutine waits for ever on the channels of the Bomberman or for the destroys:
\* every request gets to its container call or its end, every reaper to its end.
NobodyBlocked ==
  \A p \in Procs :
    (pc[p] \notin {"idle", "call", "done"}) ~> (pc[p] \in {"idle", "call", "done"})
=============================================================================
