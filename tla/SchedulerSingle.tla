-------------------------- MODULE SchedulerSingle ---------------------------
(***************************************************************************)
(* Espfc::update on the targets with one core: loop() polls the gyro       *)
(* timer, and everything else runs inside the call that finds it due.  One *)
(* action is one call; the clock moves between calls, by as much as the    *)
(* previous call took.                                                     *)
(***************************************************************************)
EXTENDS GyroCycle

CONSTANTS
  MixerSync,          \* loops per mixer run
  Gaps                \* ticks from one call to the next

ASSUME MixerAssumption == MixerSync \in Nat \ {0}
ASSUME GapsAssumption == Gaps \subseteq 1..(ClockWrap - 1)

VARIABLES
  gyroNext,        \* gyro.timer: when it is due
  loopIteration,   \* loopTimer.iteration
  fusionUpdate,    \* SensorManager::_fusionUpdate
  sinceActuator    \* history: ticks since actuatorTimer fired, to ClockWrap

vars == <<now, gyroNext, gyroIteration, loopIteration, actuatorNext,
          fusionUpdate, ran, sinceActuator>>

(* Statics are zero, so every timer is due at its first check. *)
Init ==
  /\ now = 0
  /\ gyroNext = 0 /\ actuatorNext = 0
  /\ gyroIteration = 0 /\ loopIteration = 0
  /\ fusionUpdate = FALSE
  /\ ran = {}
  /\ sinceActuator = ClockWrap

-----------------------------------------------------------------------------
(* Mutant: the input is served inside the mixer's slot. *)
LoopHandlers_Nested ==
  {"controller"}
  \cup (IF InSlot(loopIteration', MixerSync, 0)
          THEN {"mixer"} \cup (IF InSlot(gyroIteration', InputDenom, 1)
                                 THEN {"input"} ELSE {})
          ELSE {})
  \cup (IF Due(actuatorNext, ActuatorInterval, now') THEN {"actuator"} ELSE {})

(* What a loop runs: the mixer in its slot of the loops, the input in its   *)
(* slot of the gyro cycles, the actuator when its own timer is due.         *)
LoopHandlers ==
  {"controller"}
  \cup (IF InSlot(loopIteration', MixerSync, 0) THEN {"mixer"} ELSE {})
  \cup (IF InSlot(gyroIteration', InputDenom, 1) THEN {"input"} ELSE {})
  \cup (IF Due(actuatorNext, ActuatorInterval, now') THEN {"actuator"} ELSE {})

(* SensorManager::updateDelayed: a sample is filtered one cycle later. *)
SensorUpdateDelayed ==
  (IF InSlot(gyroIteration', AccelDenom, 0) THEN {"accel"} ELSE {})
  \cup (IF fusionUpdate THEN {"fusion"} ELSE {})

(* The clock moves on by the time since the last call. *)
Elapse(gap) == now' = (now + gap) % ClockWrap

Aged(gap) ==
  IF sinceActuator + gap < ClockWrap THEN sinceActuator + gap ELSE ClockWrap

(* A call before the gyro timer is due returns at once. *)
Poll(gap) ==
  /\ Elapse(gap)
  /\ ~Due(gyroNext, GyroInterval, now')
  /\ ran' = {}
  /\ sinceActuator' = Aged(gap)
  /\ UNCHANGED <<gyroNext, gyroIteration, loopIteration, actuatorNext,
                 fusionUpdate>>

(* A gyro cycle in the loop's slot. *)
LoopCycle(gap) ==
  /\ InSlot(gyroIteration', LoopSync, 0)
  /\ loopIteration' = Iterated(loopIteration)
  /\ ran' = {"gyro"} \cup LoopHandlers \cup SensorUpdateDelayed
  /\ IF "actuator" \in ran'
       THEN /\ actuatorNext' = NextAt(now', ActuatorInterval)
            /\ sinceActuator' = 0
       ELSE /\ UNCHANGED actuatorNext
            /\ sinceActuator' = Aged(gap)

(* A gyro cycle outside it reads the sensors only. *)
SensorCycle(gap) ==
  /\ ~InSlot(gyroIteration', LoopSync, 0)
  /\ ran' = {"gyro"} \cup SensorUpdateDelayed
  /\ sinceActuator' = Aged(gap)
  /\ UNCHANGED <<loopIteration, actuatorNext>>

(* The gyro timer is due: read the gyro, loop or not, then the slow sensors. *)
Cycle(gap) ==
  /\ Elapse(gap)
  /\ Due(gyroNext, GyroInterval, now')
  /\ gyroNext' = NextAt(now', GyroInterval)
  /\ gyroIteration' = Iterated(gyroIteration)
  /\ LoopCycle(gap) \/ SensorCycle(gap)
  /\ fusionUpdate' = ("accel" \in ran')

(* Espfc::update, called from loop(). *)
Update(gap) == Poll(gap) \/ Cycle(gap)

Next == \E gap \in Gaps : Update(gap)

Spec == Init /\ [][Next]_vars

(* loop() is called again and again. *)
FairSpec == Spec /\ WF_vars(Next)

-----------------------------------------------------------------------------
(* The variables stay within their types. *)
TypeOK ==
  /\ {now, gyroNext, actuatorNext} \subseteq Clock
  /\ {gyroIteration, loopIteration} \subseteq Iteration
  /\ fusionUpdate \in BOOLEAN
  /\ ran \subseteq Handler
  /\ sinceActuator \in 0..ClockWrap

(* The call that ends in this state ran a loop. *)
Looped == "controller" \in ran

(* As long as gyro cycles come, the receiver and the failsafe are served:   *)
(* the input's slot is met again and again (Espfc::update).                  *)
InputServed == []<>(ran # {}) => []<>("input" \in ran)

(* An accelerometer sample is filtered in the cycle after its own, before    *)
(* the next sample is read, so no cycle bears both loads.                    *)
FusionWaitsACycle ==
  [][/\ "accel" \in ran' => "fusion" \notin ran' /\ ~fusionUpdate
     /\ ran' # {} /\ fusionUpdate => "fusion" \in ran']_vars

(* The clock has not wrapped since actuatorTimer fired, and it will be due   *)
(* before the wrap.                                                          *)
ClockCalm(gap) ==
  LET age == sinceActuator + gap IN
  now + gap < ClockWrap /\ age <= now + gap
  /\ now + gap - age + ActuatorInterval < ClockWrap

(* Away from the wrap of the clock, the actuator (failsafe disarm, modes)    *)
(* runs in the first loop a full interval after its last run, and never      *)
(* before.                                                                   *)
ActuatorOnTime ==
  [][\A gap \in Gaps :
       Elapse(gap) /\ ClockCalm(gap) /\ Looped' =>
         ("actuator" \in ran' <=> sinceActuator + gap >= ActuatorInterval)]_vars

(* What the timer test asserts: a check an interval or more after the last   *)
(* firing fires (test_timer_check).                                          *)
ActuatorFires ==
  [][\A gap \in Gaps :
       Elapse(gap) /\ Looped' /\ sinceActuator + gap >= ActuatorInterval =>
         "actuator" \in ran']_vars

=============================================================================
