---------------------------- MODULE TimeBombOps ----------------------------
(***************************************************************************)
(* The methods of server/timebomb/timebomb.go as operators on the value of *)
(* a TimeBomb.  Every method holds the bomb's lock from its first to its   *)
(* last line, so each one is a single change of that value.                *)
(*                                                                         *)
(* A bomb owns Go timers (time.AfterFunc).  Only the one b.timer refers to *)
(* can still be stopped, so a bomb's timers are described by               *)
(*   timer  "nil"   b.timer is nil,                                        *)
(*          "live"  b.timer refers to a timer that has yet to fire,        *)
(*          "spent" b.timer refers to one that has fired or been stopped;  *)
(*   left   the time the live timer still has to run;                      *)
(*   loose  the number of timers that have yet to fire and that b.timer    *)
(*          no longer refers to: nothing can stop those.                   *)
(***************************************************************************)
EXTENDS Integers

Bomb == [countdown : Nat, pauses : Int, defused : BOOLEAN,
         timer : {"nil", "live", "spent"}, left : Nat, loose : Nat]

\* What assigning b.timer does to the timer it referred to.
Unreferenced(b) == IF b.timer = "live" THEN b.loose + 1 ELSE b.loose

\* b.timer = time.AfterFunc(b.countdown, b.detonate)
AfterFunc(b) == [b EXCEPT !.timer = "live", !.left = b.countdown, !.loose = Unreferenced(b)]

\* b.timer.Stop(): a timer that has fired already is past stopping.
StopTimer(b) == IF b.timer = "live" THEN [b EXCEPT !.timer = "spent", !.left = 0] ELSE b

\* b.timer = nil
ClearTimer(b) == [b EXCEPT !.timer = "nil", !.left = 0, !.loose = Unreferenced(b)]

\* The Go runtime starts the goroutine of the timer.
FireTimer(b) == [b EXCEPT !.timer = "spent", !.left = 0]
-----------------------------------------------------------------------------
NewBomb(countdown) ==
  [countdown |-> countdown, pauses |-> 0, defused |-> FALSE,
   timer |-> "nil", left |-> 0, loose |-> 0]

StrapBomb(b) == AfterFunc(b)

\* Forgets to stop the timer it drops.
PauseBomb_NoStop(b) == [ClearTimer(b) EXCEPT !.pauses = @ + 1]

PauseBomb(b) == [ClearTimer(StopTimer(b)) EXCEPT !.pauses = @ + 1]

DefuseBomb(b) == [ClearTimer(StopTimer(b)) EXCEPT !.defused = TRUE]

\* Does not wait for the last holder.
UnpauseBomb_AnyCount(b) ==
  LET u == [b EXCEPT !.pauses = @ - 1]
  IN  IF ~u.defused /\ u.countdown # 0 THEN AfterFunc(u) ELSE u

\* Forgets to count the holder out.
UnpauseBomb_NoDecrement(b) ==
  IF ~b.defused /\ b.pauses = 0 /\ b.countdown # 0 THEN AfterFunc(b) ELSE b

UnpauseBomb(b) ==
  LET u == [b EXCEPT !.pauses = @ - 1]
  IN  IF ~u.defused /\ u.pauses = 0 /\ u.countdown # 0 THEN AfterFunc(u) ELSE u

\* Leaves a running timer with its old countdown.
ResetBomb_KeepsRunning(b, countdown) ==
  LET r == [b EXCEPT !.countdown = countdown]
  IN  IF r.timer = "nil" /\ r.pauses = 0 THEN AfterFunc(r) ELSE r

\* Restarts a timer and never starts one.
ResetBomb_OnlyTicking(b, countdown) ==
  LET r == StopTimer([b EXCEPT !.countdown = countdown])
  IN  IF r.timer # "nil" THEN AfterFunc(r) ELSE r

\* Takes a timer that has gone off for one that is not needed any more.
ResetBomb_NotSpent(b, countdown) ==
  LET r == StopTimer([b EXCEPT !.countdown = countdown])
  IN  IF b.timer = "live" \/ (b.timer = "nil" /\ r.pauses = 0) THEN AfterFunc(r) ELSE r

\* Takes the new countdown for a change of the old one.
ResetBomb_Difference(b, countdown) ==
  LET r == StopTimer([b EXCEPT !.countdown = countdown - @])
  IN  IF r.timer # "nil" \/ r.pauses = 0 THEN AfterFunc(r) ELSE r

ResetBomb(b, countdown) ==
  LET r == StopTimer([b EXCEPT !.countdown = countdown])
  IN  IF r.timer # "nil" \/ r.pauses = 0 THEN AfterFunc(r) ELSE r
=============================================================================
