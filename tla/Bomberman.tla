----------------------------- MODULE Bomberman -----------------------------
(***************************************************************************)
(* server/bomberman/bomberman.go: the goroutine manageBombs owns a map from *)
(* handles to time bombs and takes one signal at a time from unbuffered    *)
(* channels.  A sender goes on as soon as its signal is taken, before it   *)
(* has been handled, so the two are separate steps here.                   *)
(*                                                                         *)
(* The n-th container created under handle h is <<h, n>>; n = 0 stands for *)
(* "none".  Durations are abstract: a live timer may fire at any moment    *)
(* (TimeBomb has the clock).                                               *)
(***************************************************************************)
EXTENDS TimeBombOps

CONSTANTS Handles,        \* container handles
          MaxIncarnation, \* bound: containers created under one handle
          Graces          \* grace times; 0 means "never destroy"

ASSUME ContainersAssumption ==
  /\ MaxIncarnation \in Nat \ {0}
  /\ Graces \subseteq Nat

Incarnations == 1 .. MaxIncarnation

VARIABLES grace,      \* the backend's grace time of every container
          bombs,      \* the TimeBomb made for every container
          timeBombs,  \* the map of manageBombs: whose bomb is under a handle
          signal      \* the signal manageBombs is handling

bombVars == <<bombs, timeBombs, signal>>

NoSignal == [act |-> "none"]

Signals ==
  [act : {"strap", "arm", "defuse", "reset", "pause", "unpause", "cleanup"},
   h : Handles, n : 0 .. MaxIncarnation]

BombermanTypeOK ==
  /\ grace \in [Handles -> [Incarnations -> Graces]]
  /\ bombs \in [Handles -> [Incarnations -> Bomb]]
  /\ timeBombs \in [Handles -> 0 .. MaxIncarnation]
  /\ signal \in Signals \cup {NoSignal}

\* New: an empty map and nothing received; no bomb exists yet.
BombermanNew ==
  /\ bombs = [h \in Handles |-> [n \in Incarnations |-> NewBomb(0)]]
  /\ timeBombs = [h \in Handles |-> 0]
  /\ signal = NoSignal

\* The Go process is gone, and with it every bomb and every timer.
BombermanLost ==
  /\ bombs' = [h \in Handles |-> [n \in Incarnations |-> NewBomb(0)]]
  /\ timeBombs' = [h \in Handles |-> 0]
  /\ signal' = NoSignal
-----------------------------------------------------------------------------
\* A send on one of the channels: manageBombs must be back in its select.
Send(act, h, n) ==
  /\ signal = NoSignal
  /\ signal' = [act |-> act, h |-> h, n |-> n]
  /\ UNCHANGED <<bombs, timeBombs>>

\* bomb, found := timeBombs[h]; if found, apply the method M to it
Found(h, M(_)) ==
  IF timeBombs[h] = 0 THEN bombs ELSE [bombs EXCEPT ![h][timeBombs[h]] = M(@)]

Handled ==
  /\ signal' = NoSignal
  /\ UNCHANGED grace

\* The bomb takes its countdown from one read of the container's grace time ...
ManageStrap ==
  /\ signal.act = "strap"
  /\ bombs' = [bombs EXCEPT ![signal.h][signal.n] = NewBomb(grace[signal.h][signal.n])]
  /\ timeBombs' = [timeBombs EXCEPT ![signal.h] = signal.n]
  /\ signal' = [signal EXCEPT !.act = "arm"]
  /\ UNCHANGED grace

\* ... and is strapped depending on a second one.
ManageArm ==
  /\ signal.act = "arm"
  /\ bombs' = IF grace[signal.h][signal.n] # 0
              THEN [bombs EXCEPT ![signal.h][signal.n] = StrapBomb(@)]
              ELSE bombs
  /\ UNCHANGED timeBombs
  /\ Handled

ManageDefuse ==
  /\ signal.act = "defuse"
  /\ bombs' = Found(signal.h, DefuseBomb)
  /\ timeBombs' = [timeBombs EXCEPT ![signal.h] = 0]
  /\ Handled

\* Forgets to pass the new grace time on.
ManageReset_Ignored ==
  /\ signal.act = "reset"
  /\ UNCHANGED <<bombs, timeBombs>>
  /\ Handled

ManageReset ==
  /\ signal.act = "reset"
  /\ bombs' = Found(signal.h, LAMBDA b : ResetBomb(b, grace[signal.h][signal.n]))
  /\ UNCHANGED timeBombs
  /\ Handled

\* Does not come back when the handle has no bomb.
ManagePause_Stuck ==
  /\ signal.act = "pause"
  /\ timeBombs[signal.h] # 0
  /\ bombs' = Found(signal.h, PauseBomb)
  /\ UNCHANGED timeBombs
  /\ Handled

ManagePause ==
  /\ signal.act = "pause"
  /\ bombs' = Found(signal.h, PauseBomb)
  /\ UNCHANGED timeBombs
  /\ Handled

ManageUnpause ==
  /\ signal.act = "unpause"
  /\ bombs' = Found(signal.h, UnpauseBomb)
  /\ UNCHANGED timeBombs
  /\ Handled

ManageCleanup ==
  /\ signal.act = "cleanup"
  /\ timeBombs' = [timeBombs EXCEPT ![signal.h] = 0]
  /\ UNCHANGED bombs
  /\ Handled

ManageBombs ==
  \/ ManageStrap
  \/ ManageArm
  \/ ManageDefuse
  \/ ManageReset
  \/ ManagePause
  \/ ManageUnpause
  \/ ManageCleanup

\* The Go runtime starts the goroutine of the bomb's timer.
TimerFires(h, n) ==
  /\ bombs[h][n].timer = "live"
  /\ bombs' = [bombs EXCEPT ![h][n] = FireTimer(@)]
  /\ UNCHANGED <<grace, timeBombs, signal>>
=============================================================================
