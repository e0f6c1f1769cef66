---------------------------- MODULE FlightState ----------------------------
(***************************************************************************)
(* The part of Model.h and ModelState.h that the receiver side (Input) and *)
(* the mode side (Actuator) share: flight modes, arming-disable flags, the *)
(* failsafe phase and the channel values, with the Model operations that   *)
(* change them.                                                            *)
(*                                                                         *)
(* Bit masks are sets of names.  A channel value is one of the positions   *)
(* the code tells apart; a microsecond clock is counted in tenths of a     *)
(* second, the unit TENTH_TO_US of Input.h, and wraps like micros().       *)
(***************************************************************************)
EXTENDS Integers, FiniteSets

CONSTANTS
  Aux,             \* auxiliary channels in use
  Conditions,      \* config.conditions: records [id, ch, range]
  FailsafeValue,   \* config.input.channel[c]: Hold, or the value substituted
  Hold,            \* FAILSAFE_MODE_HOLD
  FailsafeDelay,   \* config.failsafe.delay, in tenths of a second
  ClockWrap,       \* tenths of a second until micros() wraps
  GarbageFrames,   \* frames processInputs ignores after boot (5)
  RescueFrames,    \* frames after which rescue-config is given up (100)
  RescueEnabled,   \* config.rescueConfigDelay > 0
  Faults           \* which of FaultKind this craft can meet

Mode == {"ARMED", "AIRMODE", "ANGLE", "ALTHOLD", "BUZZER", "FAILSAFE",
         "BLACKBOX", "BLACKBOX_ERASE", "POSHOLD"}

Flag == {"NO_GYRO", "FAILSAFE", "RX_FAILSAFE", "BOXFAILSAFE", "THROTTLE", "ANGLE",
         "CALIBRATING", "CLI", "MSP", "GPS", "REBOOT_REQUIRED", "MOTOR_PROTOCOL",
         "ARM_SWITCH"}

(***************************************************************************)
(* What other components report to the actuator.  The first five are       *)
(* reasons not to arm, the NO_xxx ones withhold a sensor from a mode.      *)
(***************************************************************************)
ArmingFault == {"NO_GYRO", "CALIBRATING", "MOTOR_PROTOCOL", "ANGLE", "GPS"}
FaultKind == ArmingFault \cup {"NO_ACCEL", "NO_BARO", "NO_FIX"}

Phase == {"IDLE", "RX_LOSS_DETECTED", "LANDED"}
DisarmReason == {"ARMING_DISABLED", "FAILSAFE", "SWITCH", "SYSTEM"}
RescueMode == {"PENDING", "ACTIVE", "DISABLED"}

(***************************************************************************)
(* Positions of a channel.  Thrust: 0 is below minCheck, 1 up to 1400 us,  *)
(* 2 above.  Auxiliary: the three positions of a switch, 1 being the 1500  *)
(* us of PWM_RANGE_MID.  Invalid is outside minRc..maxRc.                  *)
(***************************************************************************)
Position == 0..2
Invalid == 3
Thrust == "THRUST"
Channel == {Thrust} \cup Aux
PwmCenter(c) == IF c = Thrust THEN 0 ELSE 1

ASSUME AuxAssumption == Thrust \notin Aux /\ Hold \notin Position
ASSUME ConditionsAssumption ==
  Conditions \subseteq [id : Mode, ch : Aux, range : SUBSET Position]
ASSUME FailsafeValueAssumption == FailsafeValue \in [Channel -> Position \cup {Hold}]
ASSUME DelayAssumption == FailsafeDelay \in Nat
ASSUME FramesAssumption == GarbageFrames \in Nat /\ RescueFrames \in Nat
ASSUME FaultsAssumption == RescueEnabled \in BOOLEAN /\ Faults \subseteq FaultKind

(* std::clamp(config.failsafe.delay, 2, 200): the stage 2 timeout. *)
StageTwoDelay == IF FailsafeDelay < 2 THEN 2
                 ELSE IF FailsafeDelay > 200 THEN 200 ELSE FailsafeDelay

(* micros() counts to 2^32 us = 42949 tenths, far beyond 200. *)
ASSUME WrapAssumption == ClockWrap \in Nat /\ ClockWrap > StageTwoDelay + 1

VARIABLES
  radio,           \* the transmitter: "unheard" since boot, "on", or "off" for good
  age,             \* micros() - input.frameTime, in tenths, modulo ClockWrap
  inputDue,        \* input.timer has fired since the last Input::update
  actuatorDue,     \* actuatorTimer has fired since the last Actuator::update
  rescueDue,       \* the rescue-config delay, when there is one, is over
  frameCount,      \* state.input.frameCount
  buffer,          \* state.input.buffer
  smoothed,        \* the output of the thrust filter, state.input.filter
  us,              \* state.input.us
  rxLoss,          \* state.input.rxLoss
  rxFailSafe,      \* state.input.rxFailSafe
  phase,           \* state.failsafe.phase
  fault,           \* what the sensors, calibration and configuration report now
  flags,           \* state.mode.armingDisabledFlags
  mask,            \* state.mode.mask
  maskPrev,        \* state.mode.maskPrev
  maskSwitch,      \* state.mode.maskSwitch
  disarmReason,    \* state.mode.disarmReason
  airmodeAllowed,  \* state.mode.airmodeAllowed
  rescue           \* state.mode.rescueConfigMode

clockVars == <<radio, age, inputDue, actuatorDue, rescueDue>>
channelVars == <<frameCount, buffer, smoothed, us>>
linkVars == <<rxLoss, rxFailSafe, phase>>
modeVars == <<mask, maskPrev, disarmReason>>
actuatorVars == <<flags, maskSwitch, airmodeAllowed, rescue>>

IsModeActive(m) == m \in mask
IsSwitchActive(m) == m \in maskSwitch
IsThrottleLow == us[Thrust] = 0

(* Model::disarm: the EVENT_DISARM it sends is ignored by its receiver. *)
Disarm(reason) ==
  /\ disarmReason' = reason
  /\ maskPrev' = maskPrev \cup (mask \cap {"ARMED", "AIRMODE"})
  /\ mask' = mask \ {"ARMED", "AIRMODE"}

(* Model::clearMode as PosHold calls it. *)
ClearMode(m) ==
  /\ maskPrev' = maskPrev \cup (mask \cap {m})
  /\ mask' = mask \ {m}
  /\ UNCHANGED disarmReason

(* Model::setArmingDisabled on a set of flags. *)
SetArmingDisabled(set, f, value) == IF value THEN set \cup {f} ELSE set \ {f}

=============================================================================
