------------------------------ MODULE Actuator ------------------------------
(***************************************************************************)
(* Control/Actuator.cpp: one call of Actuator::update, run by the gyro     *)
(* task at 50 Hz.  It recomputes why arming is refused, which modes the    *)
(* switches ask for and which of them are granted.                         *)
(* The scaler, the LED, the beeper and the GPS home position, which this   *)
(* update also refreshes, feed nothing back into modes or arming.          *)
(***************************************************************************)
EXTENDS FlightState

(***************************************************************************)
(* updateArmingDisabled: the flags it owns, with the condition of each.    *)
(***************************************************************************)
(* Mutant: a receiver that loses frames is not yet a reason. *)
Monitored_NoRxLoss ==
  [NO_GYRO |-> "NO_GYRO" \in fault,
   FAILSAFE |-> phase # "IDLE",
   RX_FAILSAFE |-> rxFailSafe,
   THROTTLE |-> ~IsThrottleLow,
   CALIBRATING |-> "CALIBRATING" \in fault,
   MOTOR_PROTOCOL |-> "MOTOR_PROTOCOL" \in fault,
   REBOOT_REQUIRED |-> rescue = "ACTIVE",
   ANGLE |-> "ANGLE" \in fault,
   GPS |-> "GPS" \in fault]

Monitored ==
  [NO_GYRO |-> "NO_GYRO" \in fault,
   FAILSAFE |-> phase # "IDLE",
   RX_FAILSAFE |-> rxLoss \/ rxFailSafe,
   THROTTLE |-> ~IsThrottleLow,
   CALIBRATING |-> "CALIBRATING" \in fault,
   MOTOR_PROTOCOL |-> "MOTOR_PROTOCOL" \in fault,
   REBOOT_REQUIRED |-> rescue = "ACTIVE",
   ANGLE |-> "ANGLE" \in fault,
   GPS |-> "GPS" \in fault]

UpdateArmingDisabled ==
  (flags \ DOMAIN Monitored) \cup {f \in DOMAIN Monitored : Monitored[f]}

(* updateModeMask: the modes whose condition its channel satisfies. *)
RequestedModes == {c.id : c \in {d \in Conditions : us[d.ch] \in d.range}}

(***************************************************************************)
(* The two flags that follow the switches.  ARM_SWITCH depends on the      *)
(* other flags and on itself: once raised it stays until the arm switch is *)
(* seen off.                                                               *)
(***************************************************************************)
(* Mutant: the flag does not hold itself. *)
ArmSwitchFlag_Forgets(set) ==
  SetArmingDisabled(set, "ARM_SWITCH",
                    set \ {"ARM_SWITCH"} # {} /\ "ARMED" \in RequestedModes)

ArmSwitchFlag(set) ==
  SetArmingDisabled(set, "ARM_SWITCH", set # {} /\ "ARMED" \in RequestedModes)

UpdatedFlags ==
  ArmSwitchFlag(SetArmingDisabled(UpdateArmingDisabled, "BOXFAILSAFE",
                                  "FAILSAFE" \in RequestedModes))

CanActivateMode(m) ==
  CASE m = "ARMED" -> UpdatedFlags = {} /\ IsThrottleLow
    [] m = "AIRMODE" -> airmodeAllowed
    [] m = "ANGLE" -> "NO_ACCEL" \notin fault
    [] m = "ALTHOLD" -> "NO_BARO" \notin fault
    [] m = "POSHOLD" -> "NO_FIX" \notin fault
    [] OTHER -> TRUE

(* Mutant: a mode whose switch was on needs no permission. *)
GrantedModes_BySwitch ==
  {m \in RequestedModes \cup (IF phase # "IDLE" THEN {"FAILSAFE"} ELSE {}) :
     m \in maskSwitch \/ CanActivateMode(m)}

(* A mode already active needs no permission, and a loss shows as a mode. *)
GrantedModes ==
  {m \in RequestedModes \cup (IF phase # "IDLE" THEN {"FAILSAFE"} ELSE {}) :
     m \in mask \/ CanActivateMode(m)}

UpdateModeMask ==
  /\ flags' = UpdatedFlags
  /\ maskSwitch' = RequestedModes
  /\ maskPrev' = mask
  /\ mask' = GrantedModes

(* hasChanged(MODE_ARMED), as seen after updateModes. *)
ArmedChanged == ("ARMED" \in mask') # ("ARMED" \in maskPrev')

(* Mutant: every disarm the actuator sees keeps the reason it finds. *)
UpdateArmed_Keeps ==
  disarmReason' = IF ArmedChanged /\ "ARMED" \in mask' THEN "SYSTEM" ELSE disarmReason

UpdateArmed ==
  disarmReason' =
    IF ~ArmedChanged THEN disarmReason
    ELSE IF "ARMED" \in mask' THEN "SYSTEM"
    ELSE IF disarmReason = "SYSTEM" THEN "SWITCH" ELSE disarmReason

(* Mutant: a disarm does not withdraw the permission. *)
UpdateAirMode_Sticky ==
  airmodeAllowed' = (airmodeAllowed \/ ("ARMED" \in mask' /\ us[Thrust] = 2))

UpdateAirMode ==
  airmodeAllowed' = ("ARMED" \in mask' /\ (airmodeAllowed \/ us[Thrust] = 2))

(* Mutant: the frame limit is given up one frame early. *)
UpdateRescueConfig_AtLimit ==
  LET afterArmed == IF ArmedChanged /\ "ARMED" \in mask' THEN "DISABLED" ELSE rescue
  IN  rescue' =
        IF afterArmed # "PENDING" THEN afterArmed
        ELSE IF phase # "IDLE" /\ rescueDue THEN "ACTIVE"
        ELSE IF frameCount >= RescueFrames THEN "DISABLED" ELSE "PENDING"

(***************************************************************************)
(* updateRescueConfig, after updateArmed has disabled it on arming.        *)
(***************************************************************************)
UpdateRescueConfig ==
  LET afterArmed == IF ArmedChanged /\ "ARMED" \in mask' THEN "DISABLED" ELSE rescue
  IN  rescue' =
        IF afterArmed # "PENDING" THEN afterArmed
        ELSE IF phase # "IDLE" /\ rescueDue THEN "ACTIVE"
        ELSE IF frameCount > RescueFrames THEN "DISABLED" ELSE "PENDING"

ActuatorUpdate ==
  /\ actuatorDue' = FALSE
  /\ UpdateModeMask
  /\ UpdateArmed
  /\ UpdateAirMode
  /\ UpdateRescueConfig
  /\ UNCHANGED <<radio, age, inputDue, rescueDue, fault, channelVars, linkVars>>

=============================================================================
