----------------------------- MODULE GyroCycle ------------------------------
(***************************************************************************)
(* What the schedulers of one and of two cores share: the clock, the gyro  *)
(* cycles they count in and the timer of the actuator.                     *)
(***************************************************************************)
EXTENDS Timer

CONSTANTS
  GyroRate,           \* samples per second
  GyroInterval,       \* of the gyro's timer, in ticks of the modelled clock
  ActuatorInterval,   \* of actuatorTimer, in the same ticks
  LoopSync            \* gyro cycles per loop

ASSUME RateAssumption ==
  /\ GyroRate \in Nat \ {0}
  /\ GyroInterval \in Nat \ {0} /\ ActuatorInterval \in Nat \ {0}
  /\ LoopSync \in Nat \ {0}

InputDenom == CyclesPerRun(GyroRate, 1000)
AccelDenom == CyclesPerRun(GyroRate, 500)

Handler == {"gyro", "controller", "mixer", "input", "actuator", "accel", "fusion"}

VARIABLES
  now,             \* micros()
  gyroIteration,   \* gyro.timer.iteration, modulo IterationWrap
  actuatorNext,    \* actuatorTimer: when it is due
  ran              \* the parts the last step ran

=============================================================================
