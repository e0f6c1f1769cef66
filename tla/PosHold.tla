------------------------------ MODULE PosHold -------------------------------
(***************************************************************************)
(* Control/PosHold and the angle control of Control/Controller, run by the *)
(* PID task, against what the gyro task does at the same time: the mode    *)
(* mask (Actuator::updateModeMask), the failsafe (Input::failsafe) and the *)
(* GPS messages (Sensor/GpsSensor).                                        *)
(*                                                                         *)
(* On one core each task runs to the end of its update; on two cores their *)
(* steps interleave, and every change of the mode mask is a load followed  *)
(* by a store.                                                             *)
(***************************************************************************)
EXTENDS Naturals

CONSTANTS
  Cores,       \* numbers of cores of the targets
  Positions,   \* sets of modes whose switches may be on together
  Samples      \* bound: time stamps of GPS messages before they repeat

ASSUME CoresAssumption == Cores \subseteq {1, 2}
ASSUME SamplesAssumption == Samples \in Nat \ {0, 1}

Mode == {"ARMED", "ANGLE", "POSHOLD"}
ASSUME PositionsAssumption == Positions \subseteq SUBSET Mode
Phase == {"IDLE", "RX_LOSS_DETECTED", "LANDED"}

VARIABLES
  cores,        \* of this target
  mask,         \* state.mode.mask
  switch,       \* state.mode.maskSwitch
  armBlocked,   \* ARMING_DISABLED_ARM_SWITCH
  phase,        \* state.failsafe.phase
  link,         \* what Input::failsafe finds: "good", "silent" or "failed"
  storing,      \* the gyro task has still to store newMask
  newMask,
  healthy,      \* fix, satellites, accuracy and age satisfy isGpsHealthy
  lastMsgTs,    \* state.gps.lastMsgTs, 0 before the first message
  active, overrideActive, fallbackAngle, lastGpsTs,     \* PosHold's members
  at,           \* where the PID task is in Controller::update
  late,         \* a message came after isGpsHealthy read the clock
  loaded,       \* what clearMode loaded, less its bit; a local, like newMask,
                \* late and angleLaw, empty once it is used
  angleLaw,     \* outerLoop took the branch of the angle controllers
  law,          \* what the last outerLoop steered by: "rate", "angle" or "hold"
  current,      \* history: setpoint.angle was written since PosHold::reset
  levelDue,     \* history: it held, and the switch has stayed on since
  dropped       \* history: failsafe stage 2, and no good link since

modeVars == <<mask, switch, armBlocked, storing, newMask>>
linkVars == <<phase, link, dropped>>
gpsVars == <<healthy, lastMsgTs>>
holdVars == <<active, overrideActive, fallbackAngle, lastGpsTs, current>>
lawVars == <<angleLaw, law>>
pidVars == <<at, loaded, holdVars, lawVars>>
taskVars == <<modeVars, linkVars, gpsVars, pidVars, late, levelDue>>
vars == <<cores, taskVars>>

Init ==
  /\ cores \in Cores
  /\ mask = {} /\ switch = {} /\ armBlocked = FALSE
  /\ phase = "IDLE" /\ link = "good" /\ dropped = FALSE
  /\ storing = FALSE /\ newMask = {}
  /\ healthy = FALSE /\ lastMsgTs = 0
  /\ active = FALSE /\ overrideActive = FALSE /\ fallbackAngle = FALSE
  /\ lastGpsTs = 0 /\ current = FALSE
  /\ at = "idle" /\ late = FALSE /\ loaded = {}
  /\ angleLaw = FALSE /\ law = "rate" /\ levelDue = FALSE

(* On one core a task starts only when the other is between two updates. *)
GyroTask == ~storing /\ (cores = 2 \/ at = "idle")
PidTask == cores = 2 \/ ~storing

-----------------------------------------------------------------------------
(***************************************************************************)
(* The gyro task.                                                          *)
(***************************************************************************)

(* ARMING_DISABLED_FAILSAFE, set afresh by every updateModeMask. *)
ArmingFailsafe == phase # "IDLE"

(* canActivateMode, for a stick that is low or not. *)
CanActivateMode(m, blocked, throttleLow) ==
  \/ m = "ARMED" /\ ~ArmingFailsafe /\ ~blocked /\ throttleLow
  \/ m = "ANGLE"
  \/ m = "POSHOLD" /\ healthy

(* Mutant: a mode is granted only when its switch moves. *)
Granted_OnEdge(sw, blocked, throttleLow) ==
  {m \in sw : m \in mask \/ (m \notin switch /\ CanActivateMode(m, blocked, throttleLow))}

(* The modes of the switches that are on already or may be activated. *)
Granted(sw, blocked, throttleLow) ==
  {m \in sw : m \in mask \/ CanActivateMode(m, blocked, throttleLow)}

(* Actuator::updateModeMask, up to the call of updateModes. *)
UpdateModeMask ==
  /\ GyroTask
  /\ \E throttleLow \in BOOLEAN :
       /\ switch' \in Positions
       /\ armBlocked' = ((ArmingFailsafe \/ armBlocked) /\ "ARMED" \in switch')
       /\ newMask' = Granted(switch', armBlocked', throttleLow)
  /\ storing' = TRUE
  /\ levelDue' = (levelDue /\ "POSHOLD" \in switch')
  /\ UNCHANGED <<mask, linkVars, gpsVars, pidVars, late>>

(* The store of Model::updateModes, or that of clearMode in disarm. *)
StoreMask ==
  /\ storing
  /\ mask' = newMask
  /\ storing' = FALSE /\ newMask' = {}
  /\ UNCHANGED <<switch, armBlocked, linkVars, gpsVars, pidVars, late, levelDue>>

(* The receiver's link changes. *)
LinkChange ==
  /\ GyroTask
  /\ link' \in {"good", "silent", "failed"} \ {link}
  /\ UNCHANGED <<modeVars, phase, dropped, gpsVars, pidVars, late, levelDue>>

(* failsafeIdle, and failsafeStage1 for a short silence. *)
LinkIdle ==
  /\ GyroTask /\ link = "good"
  /\ phase' = "IDLE" /\ dropped' = FALSE
  /\ UNCHANGED <<modeVars, link, gpsVars, pidVars, late, levelDue>>

FailsafeStage1 ==
  /\ GyroTask /\ link = "silent"
  /\ phase' = "RX_LOSS_DETECTED"
  /\ UNCHANGED <<modeVars, link, dropped, gpsVars, pidVars, late, levelDue>>

(* Mutant: a craft that was dropped once is not disarmed again. *)
FailsafeStage2_Once ==
  /\ GyroTask /\ link = "failed"
  /\ dropped' = TRUE
  /\ IF "ARMED" \in mask /\ ~dropped
       THEN /\ phase' = "LANDED"
            /\ newMask' = mask \ {"ARMED"} /\ storing' = TRUE
       ELSE /\ phase' = "RX_LOSS_DETECTED"
            /\ UNCHANGED <<newMask, storing>>
  /\ UNCHANGED <<mask, switch, armBlocked, link, gpsVars, pidVars, late, levelDue>>

(* failsafeStage2: an armed craft is disarmed; the mask is loaded here. *)
FailsafeStage2 ==
  /\ GyroTask /\ link = "failed"
  /\ dropped' = TRUE
  /\ IF "ARMED" \in mask
       THEN /\ phase' = "LANDED"
            /\ newMask' = mask \ {"ARMED"} /\ storing' = TRUE
       ELSE /\ phase' = "RX_LOSS_DETECTED"
            /\ UNCHANGED <<newMask, storing>>
  /\ UNCHANGED <<mask, switch, armBlocked, link, gpsVars, pidVars, late, levelDue>>

(* Input::update, for a link in each state. *)
InputUpdate == LinkIdle \/ FailsafeStage1 \/ FailsafeStage2

(* A navigation message with a new time stamp, good enough or not. *)
GpsMessage ==
  /\ GyroTask
  /\ lastMsgTs' = (lastMsgTs % Samples) + 1
  /\ healthy' \in BOOLEAN
  /\ late' = (late \/ at = "test")
  /\ UNCHANGED <<modeVars, linkVars, pidVars, levelDue>>

(* The last message grows older than the timeout. *)
GpsTimeout ==
  /\ cores = 2 \/ (at = "idle" /\ ~storing)
  /\ healthy /\ healthy' = FALSE
  /\ UNCHANGED <<modeVars, linkVars, lastMsgTs, pidVars, late, levelDue>>

-----------------------------------------------------------------------------
(***************************************************************************)
(* The PID task: PosHold::update, then Controller::outerLoop.              *)
(***************************************************************************)

(* Mutant: the time stamp of the last used message outlives the hold. *)
Reset_KeepsStamp ==
  /\ active' = FALSE /\ overrideActive' = FALSE
  /\ current' = FALSE
  /\ UNCHANGED lastGpsTs

(* PosHold::reset *)
Reset ==
  /\ active' = FALSE /\ overrideActive' = FALSE
  /\ lastGpsTs' = 0
  /\ current' = FALSE

(* Mutant: the fallback ends as soon as the mode is off. *)
Inactive_EndsFallback ==
  /\ at = "idle" /\ PidTask /\ "POSHOLD" \notin mask
  /\ fallbackAngle' = FALSE
  /\ Reset
  /\ at' = "outer"
  /\ UNCHANGED <<modeVars, linkVars, gpsVars, loaded, late, lawVars, levelDue>>

(* PosHold::update with the mode off: the fallback lasts while the switch   *)
(* is on.                                                                   *)
Inactive ==
  /\ at = "idle" /\ PidTask /\ "POSHOLD" \notin mask
  /\ fallbackAngle' = (fallbackAngle /\ "POSHOLD" \in switch)
  /\ Reset
  /\ at' = "outer"
  /\ UNCHANGED <<modeVars, linkVars, gpsVars, loaded, late, lawVars, levelDue>>

(* With the mode on, isGpsHealthy reads the clock ... *)
ReadClock ==
  /\ at = "idle" /\ PidTask /\ "POSHOLD" \in mask
  /\ late' = FALSE
  /\ at' = "test"
  /\ UNCHANGED <<modeVars, linkVars, gpsVars, loaded, holdVars, lawVars, levelDue>>

(* ... and subtracts the last message's time from it: a message that came   *)
(* in between is newer than the clock, and the difference wraps.  Which of  *)
(* the two is read first is the compiler's choice.  clearMode loads.        *)
Bail ==
  /\ at = "test" /\ PidTask
  /\ ~healthy \/ late
  /\ loaded' = mask \ {"POSHOLD"}
  /\ at' = "clear" /\ late' = FALSE
  /\ UNCHANGED <<modeVars, linkVars, gpsVars, holdVars, lawVars, levelDue>>

(* clearMode stores, and control falls back to the sticks' angle. *)
BailStore ==
  /\ at = "clear" /\ PidTask
  /\ mask' = loaded /\ loaded' = {}
  /\ fallbackAngle' = TRUE
  /\ Reset
  /\ at' = "outer"
  /\ UNCHANGED <<switch, armBlocked, storing, newMask, linkVars, gpsVars,
                 late, lawVars, levelDue>>

(* The first update of a hold captures the point and ends the fallback. *)
Engage ==
  /\ active' = TRUE
  /\ fallbackAngle' = (fallbackAngle /\ active)

(* Sticks beyond the deadband: the angles are the sticks'. *)
Manual ==
  /\ overrideActive' = TRUE
  /\ current' = TRUE
  /\ UNCHANGED lastGpsTs

(* Sticks centred: a message not yet used, or the first after an override,  *)
(* gives new angles (updateGpsSample, updateHoldAngles).                    *)
Automatic ==
  /\ overrideActive' = FALSE
  /\ IF lastMsgTs # lastGpsTs \/ overrideActive
       THEN lastGpsTs' = lastMsgTs /\ current' = TRUE
       ELSE UNCHANGED <<lastGpsTs, current>>

Hold ==
  /\ at = "test" /\ PidTask
  /\ healthy
  /\ Engage
  /\ Manual \/ Automatic
  /\ at' = "outer" /\ late' = FALSE
  /\ UNCHANGED <<modeVars, linkVars, gpsVars, loaded, lawVars, levelDue>>

(* Controller::outerLoop: angle control, or the rates of the sticks. *)
OuterLoop ==
  /\ at = "outer" /\ PidTask
  /\ angleLaw' = (mask \cap {"ANGLE", "POSHOLD"} # {} \/ fallbackAngle)
  /\ at' = "axes"
  /\ UNCHANGED <<modeVars, linkVars, gpsVars, loaded, holdVars, late, law, levelDue>>

(* Its loop over roll and pitch tests the mode again to choose the angle. *)
OuterLoopAxes ==
  /\ at = "axes" /\ PidTask
  /\ law' = CASE ~angleLaw -> "rate"
              [] angleLaw /\ "POSHOLD" \in mask -> "hold"
              [] OTHER -> "angle"
  /\ levelDue' = (levelDue \/ (law' = "hold" /\ "POSHOLD" \in switch))
  /\ at' = "idle" /\ angleLaw' = FALSE
  /\ UNCHANGED <<modeVars, linkVars, gpsVars, loaded, holdVars, late>>

ControllerUpdate ==
  Inactive \/ ReadClock \/ Bail \/ BailStore \/ Hold \/ OuterLoop \/ OuterLoopAxes

GyroUpdate ==
  UpdateModeMask \/ StoreMask \/ LinkChange \/ InputUpdate \/ GpsMessage \/ GpsTimeout

Next == (GyroUpdate \/ ControllerUpdate) /\ UNCHANGED cores

Spec == Init /\ [][Next]_vars

(* The scheduler serves the actuator, the input and the controller again    *)
(* and again.  On one core each waits for the other's update to end.        *)
FairSpec ==
  /\ Spec
  /\ SF_taskVars(UpdateModeMask) /\ WF_taskVars(StoreMask) /\ SF_taskVars(InputUpdate)
  /\ SF_taskVars(ControllerUpdate)

-----------------------------------------------------------------------------
(* The variables stay within their types, and a GPS found healthy has sent a *)
(* message.                                                                  *)
TypeOK ==
  /\ cores \in Cores
  /\ {mask, switch, newMask, loaded} \subseteq SUBSET Mode
  /\ {armBlocked, storing, healthy, active, overrideActive, fallbackAngle,
      late, angleLaw, current, levelDue, dropped} \subseteq BOOLEAN
  /\ phase \in Phase /\ link \in {"good", "silent", "failed"}
  /\ lastMsgTs \in 0..Samples /\ lastGpsTs \in 0..Samples
  /\ at \in {"idle", "test", "clear", "outer", "axes"}
  /\ law \in {"rate", "angle", "hold"}
  /\ healthy => lastMsgTs # 0

(* The comment in Controller::update: a hold steers by angles written since  *)
(* it was engaged, never by those of an earlier flight.  Two cores break it: *)
(* the mode may be granted between PosHold::update and outerLoop.            *)
HoldIsCurrent == cores = 1 /\ at = "idle" /\ law = "hold" => current

(* A craft that held its position keeps level, whatever happens to the GPS,  *)
(* as long as its switch is on: it never drops into rate control.            *)
StaysLevel == levelDue => law # "rate"

(* Failsafe stage 2 is a drop: from the disarm until a good link the craft   *)
(* stays disarmed (Input::failsafeStage2, Actuator::updateModeMask).         *)
StaysDropped == dropped /\ ~storing => "ARMED" \notin mask

(* Whatever the PID task stores, a dropped craft is disarmed in the end, as  *)
(* long as the link stays failed.                                            *)
DropDisarms ==
  (dropped /\ link = "failed") ~> ("ARMED" \notin mask \/ link # "failed")

(* A hold that bailed comes back by itself: with the switch on and the GPS   *)
(* healthy the craft goes on to hold.  On two cores every update may find a  *)
(* message newer than its clock and bail again.                              *)
HoldResumes == cores = 1 /\ <>[](healthy /\ "POSHOLD" \in switch) => []<>(law = "hold")

(* What README says of position hold: without a healthy fix the switch gives *)
(* Angle mode.                                                               *)
EngagedIsLevel ==
  [][OuterLoopAxes /\ "POSHOLD" \in switch => law' # "rate"]_vars

=============================================================================
