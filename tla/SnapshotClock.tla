--------------------------- MODULE SnapshotClock ----------------------------
(***************************************************************************)
(* How a snapshot carries an expiry across a restart.  In memory it is a   *)
(* point of the steady clock, which starts anew with the machine; in the   *)
(* file it is a wall-clock time in milliseconds.  Each conversion reads    *)
(* both clocks, one after the other.                                       *)
(*                                                                         *)
(* All times are in nanoseconds of one ideal clock.  The steady clock shows*)
(* them less the time it started; the wall clock counts microseconds and is*)
(* not set back or forward in between.                                     *)
(***************************************************************************)
EXTENDS Integers

Micro == 1000
Milli == 1000000

steady(t, started) == t - started
wall(t) == t \div Micro

\* duration_cast drops the fraction, whatever the sign.
Cast(d, unit) == IF d >= 0 THEN d \div unit ELSE -((-d) \div unit)

\* Milliseconds for a steady-clock expiry: the steady clock is read at t1, the wall
\* clock at t2.
toWallClockMillis(expiry, started, t1, t2) ==
    Cast(wall(t2) + Cast(expiry - steady(t1, started), Micro), Micro)

\* And back: the wall clock is read at t3, the steady clock at t4.
Remaining(millis, t3) == millis * Micro - wall(t3)
Lapsed(millis, t3) == Remaining(millis, t3) <= 0
fromWallClockMillis(millis, started, t3, t4) ==
    steady(t4, started) + Remaining(millis, t3) * Micro
=============================================================================
