------------------------------ MODULE TimeBomb ------------------------------
(***************************************************************************)
(* One TimeBomb and its clock.  The callers are those of manageBombs in    *)
(* server/bomberman/bomberman.go: it creates the bomb and straps it when   *)
(* the countdown is not zero, passes on Pause, Unpause and Reset calls in  *)
(* any order, even an Unpause whose Pause it never saw, and forgets a bomb *)
(* it has defused.                                                         *)
(***************************************************************************)
EXTENDS TimeBombOps

CONSTANTS Countdowns,  \* grace times a container may have; 0 means "never"
          MaxQuiet,    \* bound: ticks the clock counts since the last call
          MaxOps       \* bound: calls made on the bomb

ASSUME CountdownsAssumption == Countdowns \subseteq Nat

ASSUME BoundsAssumption ==
  /\ MaxQuiet \in Nat /\ MaxOps \in Nat
  /\ \A c \in Countdowns : c =< MaxQuiet

VARIABLES bomb,   \* the TimeBomb
          quiet,  \* ticks since the last call on it
          lost,   \* an Unpause has come without its Pause
          fired,  \* detonations started since the last call
          ops     \* calls made so far

vars == <<bomb, quiet, lost, fired, ops>>

TypeOK ==
  /\ bomb \in Bomb
  /\ quiet \in Nat
  /\ lost \in BOOLEAN
  /\ fired \in Nat
  /\ ops \in Nat

Init ==
  /\ \E c \in Countdowns : bomb = IF c = 0 THEN NewBomb(c) ELSE StrapBomb(NewBomb(c))
  /\ quiet = 0
  /\ lost = FALSE
  /\ fired = 0
  /\ ops = 0
-----------------------------------------------------------------------------
Call(b) ==
  /\ ops < MaxOps
  /\ bomb' = b
  /\ quiet' = 0
  /\ fired' = 0
  /\ ops' = ops + 1

Pause == Call(PauseBomb(bomb)) /\ UNCHANGED lost

Unpause == Call(UnpauseBomb(bomb)) /\ lost' = (lost \/ bomb.pauses =< 0)

\* A defused bomb is out of the Bomberman's map, where Reset looks for it.
Reset(c) == ~bomb.defused /\ Call(ResetBomb(bomb, c)) /\ UNCHANGED lost

Defuse == ~bomb.defused /\ Call(DefuseBomb(bomb)) /\ UNCHANGED lost

\* Time passes; a timer that has run out may still wait for its goroutine.
Tick ==
  /\ quiet < MaxQuiet
  /\ quiet' = quiet + 1
  /\ bomb' = [bomb EXCEPT !.left = IF @ > 0 THEN @ - 1 ELSE 0]
  /\ UNCHANGED <<lost, fired, ops>>

\* There is no case for a loose timer: NoLooseTimer shows there are none.
Fire ==
  /\ bomb.timer = "live" /\ bomb.left = 0
  /\ bomb' = FireTimer(bomb)
  /\ fired' = fired + 1
  /\ UNCHANGED <<quiet, lost, ops>>

Next ==
  \/ Pause
  \/ Unpause
  \/ \E c \in Countdowns : Reset(c)
  \/ Defuse
  \/ Tick
  \/ Fire

\* Time does not stop and the runtime runs the goroutine of a timer that is
\* due; nobody is obliged to call the bomb.
Spec == Init /\ [][Next]_vars /\ WF_vars(Tick) /\ WF_vars(Fire)
-----------------------------------------------------------------------------
\* Every timer that has yet to fire is the one b.timer refers to.  Pause, Defuse
\* and Reset stop b.timer only (timebomb.go:46, 62, 83), so a timer that Unpause
\* or Reset left behind would destroy the container whatever happened later.
NoLooseTimer == bomb.loose = 0

\* A bomb that some request has paused, or that was defused, is not ticking,
\* whatever sequence of calls brought it there (timebomb.go:71, 86).
PausedOrDefusedIsStill == bomb.pauses > 0 \/ bomb.defused => bomb.timer # "live"

Waiting ==
  /\ ~lost
  /\ ~bomb.defused
  /\ bomb.pauses = 0
  /\ bomb.countdown # 0

\* A bomb nobody holds and nobody has defused is ticking or has detonated since the
\* last call: no order of Pause, Unpause and Reset leaves the container without a
\* timer, and a Reset of a bomb that has gone off starts a new one (timebomb.go:86).
\* Every Unpause must have had its Pause; Waiting leaves out the bombs that saw one
\* without it.
WaitingIsTicking == Waiting => bomb.timer = "live" \/ (bomb.timer = "spent" /\ fired > 0)

\* "destroys the container after it has been idle for the grace time": when a
\* detonation starts, the current countdown has passed since the last call, so a
\* timer of an older countdown or of before the last use never goes off.  A bomb
\* that saw an Unpause without its Pause is excepted: its count of holders is wrong.
QuietBeforeDetonation ==
  [][fired' > fired /\ ~lost => quiet >= bomb.countdown]_vars

\* A bomb that a call leaves waiting detonates after that call, unless another one
\* comes first: after a first detonation as before it.
WaitingDetonates == \A n \in 0 .. MaxOps : (Waiting /\ ops = n) ~> (fired > 0 \/ ops > n)

\* The inductive strengthening of the safety properties: a held or defused bomb
\* has dropped its timer altogether, only a lost Pause makes the count negative,
\* and the clock and a live timer have run for the same time.
IInv ==
  /\ TypeOK
  /\ NoLooseTimer
  /\ bomb.pauses > 0 \/ bomb.defused => bomb.timer = "nil"
  /\ ~lost => bomb.pauses >= 0
  /\ WaitingIsTicking
  /\ ~lost /\ bomb.timer = "live" => quiet + bomb.left >= bomb.countdown

\* What the tests of the bomberman and the time bomb say of a countdown of zero:
\* the bomb never detonates, so it must not be ticking.
ZeroNeverTicks == bomb.countdown = 0 => bomb.timer # "live"
=============================================================================
