-------------------------- MODULE Scheduler_proofs --------------------------
(***************************************************************************)
(* Two timers, for every rate and interval and every width of the clock.   *)
(* On one core, the actuator's: the invariant says what actuatorTimer.next *)
(* stands for, which is the time the timer last fired plus its interval as *)
(* long as neither the clock nor the sum in it has wrapped.  On two cores, *)
(* the mixer's: its invariant says the same of _loop_next, the time of the *)
(* last mixer run plus half a loop.                                        *)
(***************************************************************************)
EXTENDS SchedulerSingle, SchedulerMulti, TLAPS

(***************************************************************************)
(* One core.                                                               *)
(***************************************************************************)
NextMeaning ==
  sinceActuator <= now /\ now - sinceActuator + ActuatorInterval < ClockWrap =>
    actuatorNext = now - sinceActuator + ActuatorInterval

ActuatorInv ==
  /\ now \in Clock /\ actuatorNext \in Clock /\ sinceActuator \in 0..ClockWrap
  /\ NextMeaning

(* A reading of the clock is its argument until the clock wraps. *)
LEMMA ClockReading ==
  ASSUME NEW w \in Nat \ {0}, NEW x \in Nat
  PROVE  /\ x % w \in 0..(w - 1)
         /\ x < w => x % w = x
  BY Z3

(* Past the wrap it is the argument less the width of the clock. *)
LEMMA WrappedReading ==
  ASSUME NEW w \in Nat \ {0}, NEW x \in Nat, x >= w, x < 2 * w
  PROVE  x % w = x - w
  BY Z3

(* What a gap does to a reading of the clock. *)
LEMMA GapReading ==
  ASSUME NEW t \in Clock, NEW gap \in Gaps
  PROVE  /\ (t + gap) % ClockWrap \in Clock /\ gap \in 1..(ClockWrap - 1)
         /\ t + gap < ClockWrap => (t + gap) % ClockWrap = t + gap
         /\ t + gap >= ClockWrap => (t + gap) % ClockWrap < gap
<1>1. gap \in 1..(ClockWrap - 1) /\ t + gap \in Nat /\ t + gap < 2 * ClockWrap
  BY GapsAssumption, WrapAssumption DEF Clock
<1>2. /\ (t + gap) % ClockWrap \in Clock
      /\ t + gap < ClockWrap => (t + gap) % ClockWrap = t + gap
  BY <1>1, WrapAssumption, ClockReading DEF Clock
<1>3. ASSUME t + gap >= ClockWrap
      PROVE  (t + gap) % ClockWrap = (t + gap) - ClockWrap
  <2>1. ClockWrap \in Nat \ {0}
    BY WrapAssumption
  <2> QED
    BY <1>1, <1>3, <2>1, WrappedReading, Zenon
<1> QED
  BY <1>1, <1>2, <1>3, WrapAssumption DEF Clock

(* What a gap does to the clock. *)
LEMMA ElapseReading ==
  ASSUME now \in Clock, NEW gap \in Gaps, Elapse(gap)
  PROVE  /\ now' \in Clock /\ gap \in 1..(ClockWrap - 1)
         /\ now + gap < ClockWrap => now' = now + gap
         /\ now + gap >= ClockWrap => now' < gap
  BY GapReading DEF Elapse

(* What a firing at t makes of the due time. *)
LEMMA DueReading ==
  ASSUME NEW t \in Clock
  PROVE  /\ NextAt(t, ActuatorInterval) \in Clock
         /\ t + ActuatorInterval < ClockWrap =>
              NextAt(t, ActuatorInterval) = t + ActuatorInterval
<1>1. t + ActuatorInterval \in Nat
  BY WrapAssumption, RateAssumption DEF Clock
<1> QED
  BY <1>1, WrapAssumption, ClockReading DEF NextAt, Clock

(* The actuator is among the parts a loop runs when its timer is due, and    *)
(* only then.                                                                 *)
LEMMA ActuatorRunsWhenDue ==
  ASSUME NEW gap, LoopCycle(gap)
  PROVE  "actuator" \in ran' <=> Due(actuatorNext, ActuatorInterval, now')
  BY DEF LoopCycle, LoopHandlers, SensorUpdateDelayed

(* ActuatorInv holds at the start: the timer has not fired. *)
LEMMA ActuatorInit == Init => ActuatorInv
  BY WrapAssumption DEF Init, ActuatorInv, NextMeaning, Clock

(* A step in which the timer does not fire keeps ActuatorInv. *)
LEMMA AgeingKeeps ==
  ASSUME ActuatorInv, NEW gap \in Gaps, Elapse(gap),
         sinceActuator' = Aged(gap), actuatorNext' = actuatorNext
  PROVE  ActuatorInv'
<1>1. /\ now' \in Clock /\ gap \in 1..(ClockWrap - 1)
      /\ now + gap < ClockWrap => now' = now + gap
      /\ now + gap >= ClockWrap => now' < gap
  BY ElapseReading DEF ActuatorInv
<1>2. sinceActuator' \in 0..ClockWrap /\ sinceActuator' >= gap
  BY <1>1, WrapAssumption DEF Aged, ActuatorInv
<1>3. CASE now + gap >= ClockWrap
  BY <1>1, <1>2, <1>3, WrapAssumption DEF ActuatorInv, NextMeaning, Clock
<1>4. CASE now + gap < ClockWrap
  BY <1>1, <1>2, <1>4, WrapAssumption, RateAssumption
  DEF ActuatorInv, NextMeaning, Clock, Aged
<1> QED
  BY <1>1, <1>3, <1>4, WrapAssumption DEF ActuatorInv, Clock

(* A step in which it fires restores it. *)
LEMMA FiringKeeps ==
  ASSUME ActuatorInv, NEW gap \in Gaps, Elapse(gap),
         sinceActuator' = 0, actuatorNext' = NextAt(now', ActuatorInterval)
  PROVE  ActuatorInv'
<1>1. now' \in Clock
  BY ElapseReading DEF ActuatorInv
<1>3. /\ actuatorNext' \in Clock
      /\ now' + ActuatorInterval < ClockWrap => actuatorNext' = now' + ActuatorInterval
  BY <1>1, DueReading
<1> QED
  BY <1>1, <1>3, WrapAssumption DEF ActuatorInv, NextMeaning, Clock

(* ActuatorInv is kept by every step. *)
LEMMA ActuatorStep == ActuatorInv /\ [Next]_vars => ActuatorInv'
<1> SUFFICES ASSUME ActuatorInv, [Next]_vars PROVE ActuatorInv'
  OBVIOUS
<1>1. ASSUME NEW gap \in Gaps, Poll(gap) PROVE ActuatorInv'
  BY <1>1, AgeingKeeps DEF Poll
<1>2. ASSUME NEW gap \in Gaps, Cycle(gap) PROVE ActuatorInv'
  <2>1. Elapse(gap)
    BY <1>2 DEF Cycle
  <2>2. CASE SensorCycle(gap)
    BY <2>1, <2>2, AgeingKeeps DEF SensorCycle
  <2>3. CASE LoopCycle(gap) /\ "actuator" \in ran'
    BY <2>1, <2>3, FiringKeeps DEF LoopCycle
  <2>4. CASE LoopCycle(gap) /\ "actuator" \notin ran'
    BY <2>1, <2>4, AgeingKeeps DEF LoopCycle
  <2> QED
    BY <1>2, <2>2, <2>3, <2>4 DEF Cycle
<1>3. CASE UNCHANGED vars
  BY <1>3 DEF vars, ActuatorInv, NextMeaning
<1> QED
  BY <1>1, <1>2, <1>3 DEF Next, Update

(* actuatorTimer.next stands for the end of the interval after the last      *)
(* firing, away from the wrap of the clock.                                   *)
THEOREM ActuatorNextHolds == Spec => []ActuatorInv
  BY ActuatorInit, ActuatorStep, PTL DEF Spec

(* Away from the wrap of the clock, Espfc::update runs the actuator in the   *)
(* first loop a full interval after its last run, and never before.          *)
THEOREM ActuatorKeepsTime == Spec => ActuatorOnTime
<1>1. ASSUME ActuatorInv, [Next]_vars, NEW gap \in Gaps,
             Elapse(gap), ClockCalm(gap), Looped'
      PROVE  "actuator" \in ran' <=> sinceActuator + gap >= ActuatorInterval
  <2>1. gap \in 1..(ClockWrap - 1) /\ now' = now + gap
    BY <1>1, ElapseReading DEF ClockCalm, ActuatorInv
  <2>2. actuatorNext = now - sinceActuator + ActuatorInterval
    BY <1>1, <2>1, RateAssumption DEF ClockCalm, ActuatorInv, NextMeaning, Clock
  <2>3. now' # now
    BY <1>1, <2>1 DEF ActuatorInv, Clock
  <2>4. PICK g \in Gaps : Poll(g) \/ Cycle(g)
    BY <1>1, <2>3 DEF Next, Update, vars
  <2>5. LoopCycle(g)
    BY <1>1, <2>4 DEF Poll, Cycle, SensorCycle, SensorUpdateDelayed, Looped
  <2>6. "actuator" \in ran' <=> now' >= actuatorNext
    BY <2>5, ActuatorRunsWhenDue, RateAssumption DEF Due
  <2> QED
    BY <1>1, <2>1, <2>2, <2>6, RateAssumption DEF ActuatorInv, Clock
<1>2. ActuatorInv /\ [Next]_vars =>
        [\A gap \in Gaps :
           Elapse(gap) /\ ClockCalm(gap) /\ Looped' =>
             ("actuator" \in ran' <=> sinceActuator + gap >= ActuatorInterval)]_vars
  BY <1>1
<1> QED
  BY <1>2, ActuatorNextHolds, PTL DEF Spec, ActuatorOnTime

-----------------------------------------------------------------------------
(***************************************************************************)
(* Two cores.                                                              *)
(***************************************************************************)
LoopNextMeaning == MixerClockCalm => loopNext = now - sinceMixer + HalfLoop

SpacingInv ==
  /\ now \in Clock /\ loopNext \in Clock /\ sinceMixer \in 0..ClockWrap
  /\ LoopNextMeaning

(* More than half of n, in whole ticks. *)
LEMMA Halving ==
  ASSUME NEW n \in Nat, NEW s \in Nat
  PROVE  /\ n \div 2 \in Nat
         /\ 2 * s > n <=> s > n \div 2
  BY Z3

(* Half a loop is a number of ticks. *)
LEMMA HalfLoopIsNat == HalfLoop \in Nat /\ GyroInterval * LoopSync \in Nat
<1>1. GyroInterval * LoopSync \in Nat
  BY RateAssumption
<1> QED
  BY <1>1, Halving DEF HalfLoop

(* SpacingInv holds at the start: the mixer has not run. *)
LEMMA SpacingInit == MultiInit => SpacingInv
  BY WrapAssumption, HalfLoopIsNat
  DEF MultiInit, SpacingInv, LoopNextMeaning, MixerClockCalm, Clock

(* SpacingInv is kept by every step. *)
LEMMA SpacingStep == SpacingInv /\ [MultiNext]_multiVars => SpacingInv'
<1> SUFFICES ASSUME SpacingInv, [MultiNext]_multiVars PROVE SpacingInv'
  OBVIOUS
<1> USE HalfLoopIsNat, WrapAssumption
<1>1. CASE Tick
  <2>1. /\ now' = (now + 1) % ClockWrap
        /\ sinceMixer' = IF sinceMixer < ClockWrap THEN sinceMixer + 1 ELSE ClockWrap
        /\ loopNext' = loopNext
    BY <1>1 DEF Tick
  <2>2. CASE now + 1 < ClockWrap
    <3>0. now + 1 \in Nat
      BY DEF SpacingInv, Clock
    <3>1. now' = now + 1
      BY <2>1, <2>2, <3>0, ClockReading
    <3> QED
      BY <2>1, <2>2, <3>1 DEF SpacingInv, LoopNextMeaning, MixerClockCalm, Clock
  <2>3. CASE ~(now + 1 < ClockWrap)
    <3>1. now + 1 = ClockWrap
      BY <2>3 DEF SpacingInv, Clock
    <3>2. now' = 0
      BY <2>1, <3>1, Z3 DEF SpacingInv, Clock
    <3>3. sinceMixer' \in 1..ClockWrap
      BY <2>1 DEF SpacingInv
    <3> QED
      BY <2>1, <3>2, <3>3 DEF SpacingInv, LoopNextMeaning, MixerClockCalm, Clock
  <2> QED
    BY <2>2, <2>3
<1>2. CASE GyroTask
  BY <1>2 DEF GyroTask, clockVars, pidVars, SpacingInv, LoopNextMeaning, MixerClockCalm
<1>3. CASE Receive
  BY <1>3 DEF Receive, clockVars, SpacingInv, LoopNextMeaning, MixerClockCalm
<1>4. CASE Serve
  <2>1. now' = now
    BY <1>4 DEF Serve, clockVars
  <2>2. CASE ControlAndMix
    <3>1. sinceMixer' = 0 /\ loopNext' = (now + HalfLoop) % ClockWrap
      BY <2>2 DEF ControlAndMix, NextAt
    <3>0. now + HalfLoop \in Nat
      BY DEF SpacingInv, Clock
    <3>2. loopNext' \in Clock /\ (now + HalfLoop < ClockWrap => loopNext' = now + HalfLoop)
      BY <3>0, <3>1, ClockReading DEF Clock
    <3> QED
      BY <2>1, <3>1, <3>2 DEF SpacingInv, LoopNextMeaning, MixerClockCalm, Clock
  <2>3. CASE ControlOnly \/ Fuse \/ Ignore
    BY <2>1, <2>3 DEF ControlOnly, Fuse, Ignore, SpacingInv, LoopNextMeaning, MixerClockCalm
  <2> QED
    BY <1>4, <2>2, <2>3 DEF Serve
<1>5. CASE UNCHANGED multiVars
  BY <1>5 DEF multiVars, clockVars, pidVars, SpacingInv, LoopNextMeaning, MixerClockCalm
<1> QED
  BY <1>1, <1>2, <1>3, <1>4, <1>5 DEF MultiNext

(* _loop_next stands for the end of the half loop after the last mixer run,  *)
(* away from the wrap of the clock.                                           *)
THEOREM SpacingHolds == MultiSpec => []SpacingInv
  BY SpacingInit, SpacingStep, PTL DEF MultiSpec

(* Away from the wrap of the clock, Espfc::updateOther skips the mixer       *)
(* exactly when no more than half a loop has passed since its last run.      *)
THEOREM MixerKeepsSpacing == MultiSpec => MixerSpaced
<1>1. ASSUME SpacingInv, Serve, pid = "GYRO_READ", MixerClockCalm
      PROVE  "mixer" \in ran' <=> 2 * sinceMixer > GyroInterval * LoopSync
  <2>1. loopNext < now <=> sinceMixer > HalfLoop
    BY <1>1, HalfLoopIsNat DEF SpacingInv, LoopNextMeaning, Clock
  <2>2. 2 * sinceMixer > GyroInterval * LoopSync <=> sinceMixer > HalfLoop
    BY <1>1, HalfLoopIsNat, Halving DEF SpacingInv, HalfLoop
  <2>3. "mixer" \in ran' <=> loopNext < now
    BY <1>1 DEF Serve, ControlOnly, ControlAndMix, Fuse, Ignore, MixerEarly
  <2> QED
    BY <2>1, <2>2, <2>3
<1>2. SpacingInv /\ [MultiNext]_multiVars =>
        [Serve /\ pid = "GYRO_READ" /\ MixerClockCalm =>
           ("mixer" \in ran' <=> 2 * sinceMixer > GyroInterval * LoopSync)]_multiVars
  BY <1>1
<1> QED
  BY <1>2, SpacingHolds, PTL DEF MultiSpec, MixerSpaced

=============================================================================
