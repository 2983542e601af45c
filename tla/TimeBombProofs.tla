--------------------------- MODULE TimeBombProofs ---------------------------
(***************************************************************************)
(* Proofs of the safety properties of TimeBomb, for every set of countdowns *)
(* and every bound.                                                        *)
(***************************************************************************)
EXTENDS TimeBomb, TLAPS

\* A fresh bomb, strapped exactly when its countdown is not zero, satisfies IInv.
LEMMA InitIInv == Init => IInv
<1> SUFFICES ASSUME Init PROVE IInv
    OBVIOUS
<1>1. PICK c \in Countdowns : bomb = IF c = 0 THEN NewBomb(c) ELSE StrapBomb(NewBomb(c))
  BY DEF Init
<1>2. c \in Nat
  BY CountdownsAssumption
<1> DEFINE n == NewBomb(c)
<1>3. /\ n \in Bomb /\ n.timer = "nil" /\ n.countdown = c /\ n.pauses = 0
      /\ n.defused = FALSE /\ n.loose = 0
  BY <1>2 DEF NewBomb, Bomb
<1>4. bomb = IF c = 0 THEN n ELSE AfterFunc(n)
  BY <1>1 DEF StrapBomb
<1> HIDE DEF n
<1>5. /\ bomb \in Bomb /\ bomb.countdown = c /\ bomb.pauses = 0
      /\ bomb.defused = FALSE /\ bomb.loose = 0
      /\ IF c = 0 THEN bomb.timer = "nil" ELSE bomb.timer = "live" /\ bomb.left = c
  BY <1>2, <1>3, <1>4, ZenonT(40) DEF AfterFunc, Unreferenced, Bomb
<1>6. TypeOK
  BY <1>5, Zenon DEF Init, TypeOK
<1>7. WaitingIsTicking
  BY <1>5 DEF WaitingIsTicking, Waiting
<1>8. bomb.timer = "live" => quiet + bomb.left >= bomb.countdown
  BY <1>2, <1>5 DEF Init
<1> QED
  BY <1>5, <1>6, <1>7, <1>8 DEF IInv, NoLooseTimer

\* Every call on the bomb, every tick and every firing preserves IInv.
LEMMA NextIInv == IInv /\ [Next]_vars => IInv'
<1> SUFFICES ASSUME IInv, [Next]_vars PROVE IInv'
    OBVIOUS
<1>0. bomb \in Bomb /\ bomb.countdown \in Nat /\ bomb.pauses \in Int /\ bomb.left \in Nat
  BY DEF IInv, TypeOK, Bomb
<1> USE DEF IInv, TypeOK, NoLooseTimer, WaitingIsTicking, Waiting
<1>1. CASE Pause
  <2>0. /\ StopTimer(bomb) \in Bomb /\ StopTimer(bomb).timer # "live"
        /\ StopTimer(bomb).pauses = bomb.pauses /\ StopTimer(bomb).defused = bomb.defused
        /\ StopTimer(bomb).loose = bomb.loose
    BY <1>0, ZenonT(40) DEF StopTimer, Bomb
  <2>1. /\ bomb' \in Bomb
        /\ bomb'.timer = "nil"
        /\ bomb'.pauses = bomb.pauses + 1
        /\ bomb'.defused = bomb.defused
        /\ bomb'.loose = bomb.loose
    <3> DEFINE s == StopTimer(bomb)
               c == ClearTimer(s)
    <3>1. Unreferenced(s) = s.loose
      BY <2>0 DEF Unreferenced
    <3> HIDE DEF s
    <3>2. /\ c \in Bomb /\ c.timer = "nil" /\ c.pauses = s.pauses /\ c.defused = s.defused
          /\ c.loose = s.loose
      BY <2>0, <3>1, ZenonT(40) DEF ClearTimer, Bomb, s
    <3>3. bomb' = [c EXCEPT !.pauses = @ + 1]
      BY <1>1 DEF Pause, Call, PauseBomb, s
    <3> HIDE DEF c
    <3> QED
      BY <2>0, <3>2, <3>3 DEF Bomb, s
  <2> QED
    BY <1>0, <1>1, <2>1 DEF Pause, Call
<1>2. CASE Unpause
  <2>0. bomb' = UnpauseBomb(bomb)
    BY <1>2 DEF Unpause, Call
  <2>1. /\ bomb' \in Bomb
        /\ bomb'.pauses = bomb.pauses - 1
        /\ bomb'.countdown = bomb.countdown
        /\ bomb'.defused = bomb.defused
    <3> DEFINE u == [bomb EXCEPT !.pauses = @ - 1]
    <3>1. /\ u \in Bomb /\ u.pauses = bomb.pauses - 1 /\ u.countdown = bomb.countdown
          /\ u.defused = bomb.defused
      BY <1>0 DEF Bomb
    <3>2. bomb' = u \/ bomb' = AfterFunc(u)
      BY <2>0 DEF UnpauseBomb
    <3> HIDE DEF u
    <3>3. Unreferenced(u) \in Nat
      BY <3>1 DEF Unreferenced, Bomb
    <3> QED
      BY <3>1, <3>2, <3>3, ZenonT(40) DEF AfterFunc, Bomb
  <2>2. IF ~bomb.defused /\ bomb.pauses = 1 /\ bomb.countdown # 0
        THEN bomb'.timer = "live" /\ bomb'.left = bomb.countdown
        ELSE bomb'.timer = bomb.timer /\ bomb'.left = bomb.left
    BY <1>0, <2>0 DEF UnpauseBomb, AfterFunc, Unreferenced, Bomb
  <2>3. bomb'.loose = bomb.loose
    BY <1>0, <2>0 DEF UnpauseBomb, AfterFunc, Unreferenced, Bomb
  <2>4. quiet' = 0 /\ fired' = 0 /\ ops' = ops + 1 /\ lost' \in BOOLEAN
    BY <1>2 DEF Unpause, Call
  <2>a. ~lost' => ~lost /\ ~(bomb.pauses =< 0)
    BY <1>2, Zenon DEF Unpause
  <2>5. ~lost' => ~lost /\ bomb.pauses > 0
    BY <1>0, <2>a
  <2>6. TypeOK'
    BY <2>1, <2>4
  <2>7. bomb'.pauses > 0 \/ bomb'.defused => bomb'.timer = "nil"
    BY <1>0, <2>1, <2>2
  <2>8. WaitingIsTicking'
    BY <1>0, <2>1, <2>2, <2>5
  <2>9. ~lost' /\ bomb'.timer = "live" => quiet' + bomb'.left >= bomb'.countdown
    BY <1>0, <2>1, <2>2, <2>4, <2>5
  <2> QED
    BY <1>0, <2>1, <2>3, <2>5, <2>6, <2>7, <2>8, <2>9
<1>3. ASSUME NEW c \in Countdowns, Reset(c) PROVE IInv'
  <2>0. c \in Nat
    BY CountdownsAssumption
  <2>a. bomb' = ResetBomb(bomb, c)
    BY <1>3 DEF Reset, Call
  <2>1. /\ bomb' \in Bomb
        /\ bomb'.pauses = bomb.pauses
        /\ bomb'.countdown = c
        /\ bomb'.defused = bomb.defused
        /\ bomb'.loose = bomb.loose
    BY <1>0, <2>0, <2>a, ZenonT(40) DEF ResetBomb, StopTimer, AfterFunc, Unreferenced, Bomb
  <2>2. /\ bomb.timer # "nil" \/ bomb.pauses = 0 => bomb'.timer = "live" /\ bomb'.left = c
        /\ bomb.timer = "nil" /\ bomb.pauses # 0 => bomb'.timer = "nil"
    BY <1>0, <2>0, <2>a DEF ResetBomb, StopTimer, AfterFunc, Unreferenced, Bomb
  <2>3. quiet' = 0 /\ fired' = 0 /\ ops' = ops + 1 /\ lost' = lost /\ ~bomb.defused
    BY <1>3, Zenon DEF Reset, Call
  <2>4. WaitingIsTicking'
    BY <2>1, <2>2
  <2>5. bomb'.timer = "live" => quiet' + bomb'.left >= bomb'.countdown
    BY <2>0, <2>1, <2>2, <2>3
  <2>6. bomb'.pauses > 0 \/ bomb'.defused => bomb'.timer = "nil"
    BY <1>0, <2>1, <2>2, <2>3
  <2> QED
    BY <1>0, <2>1, <2>3, <2>4, <2>5, <2>6
<1>4. CASE Defuse
  <2>1. /\ bomb' \in Bomb
        /\ bomb'.timer = "nil"
        /\ bomb'.pauses = bomb.pauses
        /\ bomb'.defused = TRUE
        /\ bomb'.loose = bomb.loose
    BY <1>0, <1>4, ZenonT(40) DEF Defuse, Call, DefuseBomb, ClearTimer, StopTimer, Unreferenced, Bomb
  <2> QED
    BY <1>0, <1>4, <2>1 DEF Defuse, Call
<1>5. CASE Tick
  <2>1. /\ bomb' \in Bomb
        /\ bomb'.left = IF bomb.left > 0 THEN bomb.left - 1 ELSE 0
        /\ bomb'.timer = bomb.timer
        /\ bomb'.pauses = bomb.pauses
        /\ bomb'.countdown = bomb.countdown
        /\ bomb'.defused = bomb.defused
        /\ bomb'.loose = bomb.loose
    BY <1>0, <1>5 DEF Tick, Bomb
  <2> QED
    BY <1>0, <1>5, <2>1 DEF Tick
<1>6. CASE Fire
  <2>1. /\ bomb' \in Bomb
        /\ bomb'.timer = "spent"
        /\ bomb'.pauses = bomb.pauses
        /\ bomb'.countdown = bomb.countdown
        /\ bomb'.defused = bomb.defused
        /\ bomb'.loose = bomb.loose
    BY <1>0, <1>6, Zenon DEF Fire, FireTimer, Bomb
  <2>2. bomb.timer = "live" /\ fired' = fired + 1 /\ UNCHANGED <<quiet, lost, ops>>
    BY <1>6 DEF Fire
  <2> QED
    BY <1>0, <2>1, <2>2
<1>7. CASE UNCHANGED vars
  BY <1>7 DEF vars
<1> QED
  BY <1>1, <1>2, <1>3, <1>4, <1>5, <1>6, <1>7, Zenon DEF Next

\* IInv holds in every reachable state of a bomb.
LEMMA Inductive == Spec => []IInv
BY InitIInv, NextIInv, PTL DEF Spec

\* The state of a bomb keeps its type, with any number of calls in any order.
THEOREM TypeCorrect == Spec => []TypeOK
<1>1. IInv => TypeOK
  BY DEF IInv
<1> QED
  BY <1>1, Inductive, PTL

\* No sequence of Pause, Unpause, Reset and Defuse calls leaves behind a timer that
\* the bomb no longer refers to and so can never stop.
THEOREM NoTimerIsLoose == Spec => []NoLooseTimer
<1>1. IInv => NoLooseTimer
  BY DEF IInv
<1> QED
  BY <1>1, Inductive, PTL

\* A bomb that is held by a request or defused is never ticking.
THEOREM HeldBombIsStill == Spec => []PausedOrDefusedIsStill
<1>1. IInv => PausedOrDefusedIsStill
  BY DEF IInv, PausedOrDefusedIsStill
<1> QED
  BY <1>1, Inductive, PTL

\* As long as every Unpause follows its Pause, a bomb nobody holds is ticking or has
\* gone off since the last call on it.
THEOREM WaitingBombTicks == Spec => []WaitingIsTicking
<1>1. IInv => WaitingIsTicking
  BY DEF IInv
<1> QED
  BY <1>1, Inductive, PTL

\* As long as every Unpause follows its Pause, a detonation starts only when the
\* current countdown has passed since the last call on the bomb.
THEOREM DetonatesWhenQuiet == Spec => QuietBeforeDetonation
<1>1. IInv /\ [Next]_vars => [fired' > fired /\ ~lost => quiet >= bomb.countdown]_vars
  <2> SUFFICES ASSUME IInv, Next, fired' > fired, ~lost
               PROVE  quiet >= bomb.countdown
    BY DEF vars
  <2>1. fired \in Nat /\ quiet \in Nat /\ bomb.countdown \in Nat
    BY DEF IInv, TypeOK, Bomb
  <2>2. ~(fired' = fired) /\ ~(fired' = 0)
    BY <2>1
  <2>3. Fire
    BY <2>2 DEF Next, Pause, Unpause, Reset, Defuse, Tick, Call
  <2> QED
    BY <2>1, <2>3 DEF Fire, IInv
<1> QED
  BY <1>1, Inductive, PTL DEF Spec, QuietBeforeDetonation
=============================================================================
