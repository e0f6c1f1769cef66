---------------------------- MODULE FlightModes ----------------------------
(***************************************************************************)
(* The flight-mode core of the firmware: the receiver side (Input) and the *)
(* mode side (Actuator) share the model state and are called in turn by    *)
(* the gyro task, Input at about 1 kHz and Actuator at 50 Hz, together     *)
(* with the configurator link (MSP, CLI) and, for position hold, the PID   *)
(* loop.  Each call is one action; the calls interleave with the receiver, *)
(* the sensors and the clock in every order the two timers allow.          *)
(***************************************************************************)
EXTENDS Input, Actuator

CONSTANTS
  Frames,          \* channel contents the receiver may deliver
  RadioDies,       \* whether the transmitter may go off for good
  Configurator     \* what a configurator may send

ASSUME FramesContent == Frames \subseteq [Channel -> Position \cup {Invalid}]
ASSUME RadioAssumption == RadioDies \in BOOLEAN
ASSUME ConfiguratorAssumption == Configurator \subseteq {"MSP", "CLI"}

(* A craft boots calibrating its gyro; one without a gyro never arms. *)
ASSUME BootAssumption == "CALIBRATING" \in Faults

vars == <<clockVars, channelVars, linkVars, fault, actuatorVars, modeVars>>

(***************************************************************************)
(* Input::begin and Actuator::begin.  frameTime is still zero, so the age  *)
(* of the link is whatever boot took; the gyro is being calibrated.        *)
(***************************************************************************)
InitialChannels == [c \in Channel |-> PwmCenter(c)]

Init ==
  /\ radio \in {"unheard", "on"}
  /\ age \in 0..(ClockWrap - 1)
  /\ inputDue = TRUE /\ actuatorDue = TRUE
  /\ rescueDue = FALSE
  /\ frameCount = 0
  /\ buffer = InitialChannels /\ us = InitialChannels
  /\ smoothed = PwmCenter(Thrust)
  /\ rxLoss = FALSE /\ rxFailSafe = FALSE /\ phase = "IDLE"
  /\ fault = Faults
  /\ flags = {} /\ mask = {} /\ maskPrev = {} /\ maskSwitch = {}
  /\ disarmReason = "ARMING_DISABLED"
  /\ airmodeAllowed = FALSE
  /\ rescue = "PENDING"

(***************************************************************************)
(* A tenth of a second passes.  Both timers fire many times in it, so both *)
(* updates have run since the last one.                                    *)
(***************************************************************************)
Tick ==
  /\ ~inputDue /\ ~actuatorDue
  /\ age' = (age + 1) % ClockWrap
  /\ inputDue' = TRUE /\ actuatorDue' = TRUE
  /\ rescueDue' \in {rescueDue, RescueEnabled}
  /\ UNCHANGED <<radio, channelVars, linkVars, fault, actuatorVars, modeVars>>

(* The pilot switches the transmitter on, or it dies for good. *)
Radio ==
  /\ \/ radio = "unheard" /\ radio' = "on"
     \/ RadioDies /\ radio = "on" /\ radio' = "off"
  /\ UNCHANGED <<age, inputDue, actuatorDue, rescueDue, channelVars, linkVars,
                 fault, actuatorVars, modeVars>>

(***************************************************************************)
(* A sensor, a calibration or a GPS fix comes or goes.  MSP and CLI start  *)
(* a calibration only while disarmed, and it outlasts many actuator        *)
(* updates: two seconds of samples for the gyro.                           *)
(***************************************************************************)
FaultChange ==
  /\ \E f \in Faults :
       \/ /\ f \in fault
          /\ f = "CALIBRATING" => "CALIBRATING" \in flags
          /\ fault' = fault \ {f}
       \/ /\ f \notin fault
          /\ f = "CALIBRATING" => ~IsModeActive("ARMED")
          /\ fault' = fault \cup {f}
  /\ UNCHANGED <<clockVars, channelVars, linkVars, actuatorVars, modeVars>>

(* MSP_SET_ARMING_DISABLED: it disarms whatever value it carries. *)
MspSetArmingDisabled ==
  /\ "MSP" \in Configurator
  /\ \E cmd \in BOOLEAN : flags' = SetArmingDisabled(flags, "MSP", cmd)
  /\ IF IsModeActive("ARMED") THEN Disarm("ARMING_DISABLED") ELSE UNCHANGED modeVars
  /\ UNCHANGED <<clockVars, channelVars, linkVars, fault, maskSwitch,
                 airmodeAllowed, rescue>>

(* The CLI handshake: arming is refused until the next boot. *)
EnterCli ==
  /\ "CLI" \in Configurator
  /\ flags' = SetArmingDisabled(flags, "CLI", TRUE)
  /\ UNCHANGED <<clockVars, channelVars, linkVars, fault, maskSwitch,
                 airmodeAllowed, rescue, modeVars>>

(* PosHold::update gives the mode up when the GPS is no longer healthy. *)
PosHoldBail ==
  /\ IsModeActive("POSHOLD") /\ "NO_FIX" \in fault
  /\ ClearMode("POSHOLD")
  /\ UNCHANGED <<clockVars, channelVars, linkVars, fault, actuatorVars>>

(* What the driver holds: an idle one nothing new, and readInputs skips it. *)
FramesWith(status) == IF status = "IDLE" THEN {buffer} ELSE Frames

InputStep ==
  \E status \in ReceiverStatus : \E frame \in FramesWith(status) : InputUpdate(status, frame)

Next ==
  \/ InputStep
  \/ ActuatorUpdate
  \/ Tick
  \/ Radio
  \/ FaultChange
  \/ MspSetArmingDisabled
  \/ EnterCli
  \/ PosHoldBail

Spec == Init /\ [][Next]_vars

(***************************************************************************)
(* The gyro task calls both updates for ever, and time passes.             *)
(***************************************************************************)
Fairness == WF_vars(InputStep) /\ WF_vars(ActuatorUpdate) /\ WF_vars(Tick)

FairSpec == Spec /\ Fairness

-----------------------------------------------------------------------------
(***************************************************************************)
(* Types, by the groups in which the variables change.                     *)
(***************************************************************************)
ClockTypes ==
  /\ radio \in {"unheard", "on", "off"}
  /\ age \in 0..(ClockWrap - 1)
  /\ inputDue \in BOOLEAN /\ actuatorDue \in BOOLEAN /\ rescueDue \in BOOLEAN

ChannelTypes ==
  /\ frameCount \in 0..FrameCap
  /\ buffer \in [Channel -> Position] /\ us \in [Channel -> Position]
  /\ smoothed \in Position

LinkTypes == rxLoss \in BOOLEAN /\ rxFailSafe \in BOOLEAN /\ phase \in Phase

ModeTypes ==
  /\ mask \subseteq Mode /\ maskPrev \subseteq Mode
  /\ disarmReason \in DisarmReason

ActuatorTypes ==
  /\ flags \subseteq Flag /\ maskSwitch \subseteq Mode
  /\ airmodeAllowed \in BOOLEAN
  /\ rescue \in RescueMode

TypeOK ==
  /\ ClockTypes /\ ChannelTypes /\ LinkTypes /\ ModeTypes /\ ActuatorTypes
  /\ fault \subseteq Faults

(***************************************************************************)
(* Stage 2 holds: from the call of Input::update that declares failsafe    *)
(* until a frame of a working link, no actuator update arms the craft,     *)
(* whatever the switches, the recovery frames and the other flags do.      *)
(***************************************************************************)
FailsafeMeansDisarmed == rxFailSafe => ~IsModeActive("ARMED")

(***************************************************************************)
(* A silent link disarms in time: once the last frame is older than the    *)
(* stage 2 timeout and Input::update has run, the craft is disarmed, and   *)
(* the actuator, running 20 times slower, does not undo it.                *)
(***************************************************************************)
LossDetected == age >= 2 /\ ~inputDue => phase # "IDLE"
LossDisarms == age > StageTwoDelay /\ ~inputDue => ~IsModeActive("ARMED")

(* Both ways to lose the link, the reported and the silent one, disarm.    *)
FailedLinkDisarms == FailsafeMeansDisarmed /\ LossDisarms

(***************************************************************************)
(* A craft that has flown (thrust seen above 1400 us while armed) already  *)
(* carries ARM_SWITCH: with RearmNeedsSwitchOff, no disarm in flight is    *)
(* undone before the pilot moves the arm switch, even if link, throttle    *)
(* and sensors are all in order again at the next actuator update.         *)
(***************************************************************************)
FlownIsLatched == airmodeAllowed => "ARM_SWITCH" \in flags

(* The latch holds while the arm switch stays on, through changes of every  *)
(* other flag, by the actuator, MSP or CLI.                                *)
RearmNeedsSwitchOff ==
  [][("ARM_SWITCH" \in flags /\ "ARMED" \in maskSwitch' /\ ~IsModeActive("ARMED"))
       => ("ARMED" \notin mask' /\ "ARM_SWITCH" \in flags')]_vars

(***************************************************************************)
(* Switches that read as on at boot do not arm: at power-up every channel  *)
(* stands at its centre, which the default range of the arm switch covers. *)
(* No craft whose switches hold their value in failsafe is armed before    *)
(* the receiver's frames are taken into account.  It rests on the boot     *)
(* calibration, which latches ARM_SWITCH before the link can be good.      *)
(***************************************************************************)
NoArmBeforeFrames ==
  (frameCount < GarbageFrames /\ \A c \in Aux : FailsafeValue[c] = Hold)
    => ~IsModeActive("ARMED")

(***************************************************************************)
(* While armed the recorded reason is SYSTEM, so that the reason of the    *)
(* next disarm (the blackbox logs it) is never the reason of an older one, *)
(* whoever disarms: the switch, failsafe or MSP.                           *)
(***************************************************************************)
ReasonIsFresh == IsModeActive("ARMED") => disarmReason = "SYSTEM"

(***************************************************************************)
(* A disarm records who did it: failsafe when the link is down or the      *)
(* failsafe switch is on, MSP when neither input nor actuator ran, the     *)
(* switch when its channel left the range.                                 *)
(***************************************************************************)
DisarmReasonTruthful ==
  [][(IsModeActive("ARMED") /\ "ARMED" \notin mask') =>
       disarmReason' = IF rxFailSafe' THEN "FAILSAFE"
                       ELSE IF "ARMED" \in maskSwitch' THEN "ARMING_DISABLED"
                       ELSE "SWITCH"]_vars

(***************************************************************************)
(* Arming happens only when, at that very update, the link is good, the    *)
(* stick is down, nothing the craft monitors is at fault, no configurator  *)
(* forbids it and neither failsafe nor the rescue access point is active.  *)
(***************************************************************************)
ArmsOnlyWhenSafe ==
  [][(~IsModeActive("ARMED") /\ "ARMED" \in mask') =>
       /\ phase = "IDLE" /\ ~rxLoss /\ ~rxFailSafe
       /\ IsThrottleLow
       /\ fault \cap ArmingFault = {}
       /\ {"MSP", "CLI"} \cap flags = {}
       /\ "FAILSAFE" \notin maskSwitch'
       /\ rescue # "ACTIVE"]_vars

(***************************************************************************)
(* The rescue access point and flight exclude each other for the rest of   *)
(* the power cycle: once ACTIVE it stays so, and no step arms the craft.   *)
(* Arming would give the access point up (updateArmed), so the flag it     *)
(* raises, REBOOT_REQUIRED, has to come first.                             *)
(***************************************************************************)
RescueIsFinal ==
  [][rescue = "ACTIVE" => rescue' = "ACTIVE" /\ "ARMED" \notin mask']_vars

(***************************************************************************)
(* A craft that hears nothing until the rescue delay is over opens its     *)
(* rescue access point, and the silence alone never closes it.             *)
(***************************************************************************)
RescueOpens == <>[](rescueDue /\ frameCount = 0 => rescue = "ACTIVE")

(***************************************************************************)
(* When the transmitter dies the craft is eventually disarmed for good,    *)
(* although the age of the link wraps again and again: whether the         *)
(* receiver falls silent, flags failsafe or sends lost frames for a while, *)
(* in any mixture.  A receiver that goes on with lost frames for ever      *)
(* keeps the link young (Input.cpp:116-120, 298).                          *)
(***************************************************************************)
(* Input::update has just taken a frame that was flagged as lost. *)
TookLostFrame == ~inputDue /\ age = 0 /\ rxLoss /\ ~rxFailSafe

DeadLinkDisarms ==
  \/ <>[](radio = "off" => ~IsModeActive("ARMED"))
  \/ []<>(radio = "off" /\ TookLostFrame)

(***************************************************************************)
(* The core keeps the pilot's contract: link verdicts are the failsafe     *)
(* phase and the receiver flags, the latch is ARM_SWITCH.                  *)
(***************************************************************************)
LinkVerdict == IF rxFailSafe THEN "failed"
               ELSE IF phase = "IDLE" /\ ~rxLoss THEN "good" ELSE "lost"

Contract == INSTANCE ArmingContract WITH
  armed <- IsModeActive("ARMED"),
  link <- LinkVerdict,
  switch <- IsSwitchActive("ARMED"),
  latched <- "ARM_SWITCH" \in flags

KeepsContract == Contract!ContractSpec

-----------------------------------------------------------------------------
(***************************************************************************)
(* The inductive invariant: the safety properties above, with the two      *)
(* facts they lean on: an armed craft has its arm switch on and has given  *)
(* up the rescue access point.                                             *)
(***************************************************************************)
ArmedIsSwitched == IsModeActive("ARMED") => IsSwitchActive("ARMED")
ArmedGaveUpRescue == IsModeActive("ARMED") => rescue = "DISABLED"

SafetyInvariant ==
  /\ TypeOK
  /\ FailsafeMeansDisarmed
  /\ LossDetected /\ LossDisarms
  /\ FlownIsLatched
  /\ ReasonIsFresh
  /\ ArmedIsSwitched
  /\ ArmedGaveUpRescue

-----------------------------------------------------------------------------
(***************************************************************************)
(* Not so: that any dead link disarms.  A receiver that flags its frames   *)
(* as lost and never declares failsafe reaches neither stage: each frame   *)
(* restarts the age, and only a silent link grows old.                     *)
(***************************************************************************)
AnyDeadLinkDisarms == <>[](radio = "off" => ~IsModeActive("ARMED"))

(***************************************************************************)
(* What comments and documents say and the code does otherwise.            *)
(***************************************************************************)

(* Input.cpp:218: "stage 1 timeout (100ms)". *)
StageOneAfterTenth == age >= 1 /\ ~inputDue => phase # "IDLE"

(* docs/setup.md:109: air mode "activates, when throttle achive about 40%    *)
(* remains active until disarmed".                                         *)
AirModeNeedsThrottle ==
  IsModeActive("ARMED") /\ IsModeActive("AIRMODE") => airmodeAllowed

(* docs/wireless.md:14: the access point starts "if board will not detect   *)
(* receiver signal for at least 30 seconds (stay in failsafe mode since     *)
(* boot)".                                                                 *)
FailsafeSinceBootOpens ==
  (radio = "unheard" /\ rescueDue) ~> (radio # "unheard" \/ rescue = "ACTIVE")

=============================================================================
