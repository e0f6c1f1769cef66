------------------------------- MODULE Timer --------------------------------
(***************************************************************************)
(* Utils/Timer: the periodic timers of the flight loop, on the 32-bit      *)
(* clock of micros().  A timer either is checked against the clock or      *)
(* follows the iterations of another timer; both counters wrap.            *)
(***************************************************************************)
EXTENDS Naturals, FiniteSetsExt

CONSTANTS
  ClockWrap,        \* 2^32: where micros() returns to 0
  IterationWrap     \* 2^32: where Timer::iteration returns to 0

ASSUME WrapAssumption == ClockWrap \in Nat \ {0} /\ IterationWrap \in Nat \ {0}

Clock == 0..(ClockWrap - 1)
Iteration == 0..(IterationWrap - 1)

(* Timer::update: when the timer falls due again, and its count. *)
NextAt(now, interval) == (now + interval) % ClockWrap
Iterated(n) == (n + 1) % IterationWrap

(* Mutant: a timer is due only past its time. *)
Due_Strict(next, interval, now) == interval # 0 /\ now > next

(* Timer::check: a plain comparison of two clock readings. *)
Due(next, interval, now) == interval # 0 /\ now >= next

(* Timer::syncTo: one slot of every denom iterations of the other timer,    *)
(* the last slot when there are not so many.                                *)
InSlot(iteration, denom, slot) ==
  iteration % denom = IF slot > denom - 1 THEN denom - 1 ELSE slot

(* Utils::alignToClock: the clock over the least divisor that brings it     *)
(* down to the limit.                                                       *)
AlignToClock(clock, limit) ==
  clock \div Min({d \in 1..clock : clock \div d <= limit})

(* Model::begin: how many gyro cycles one run of a synchronised part takes. *)
CyclesPerRun(gyroRate, limit) == gyroRate \div AlignToClock(gyroRate, limit)

=============================================================================
