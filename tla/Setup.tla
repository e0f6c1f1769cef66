------------------------------- MODULE Setup -------------------------------
(***************************************************************************)
(* The configuration of the craft, its copy in the EEPROM, what begin()    *)
(* derives from it, and the calibration of gyro, accelerometer and         *)
(* magnetometer, whose results live apart from the configuration and are   *)
(* copied into it by save() and out of it by load().                       *)
(*                                                                         *)
(* A field stands for its kind: those sanitize() changes are kept, those   *)
(* it leaves alone are not.  A bias is known by how it came about.         *)
(***************************************************************************)
EXTENDS Integers, FiniteSets

CONSTANTS
  GyroRates,   \* rates sanitize() may find for the gyro
  SpiGyro,     \* is the gyro on an SPI bus?
  Protocols,   \* protocols the user may choose
  Syncs,       \* values the user may give loopSync
  PwmRates,    \* values for output.rate
  Throttles,   \* values for output.maxThrottle
  Samples,     \* samples a calibration takes
  Commands,    \* bound: commands of the user
  Restarts     \* bound: restarts

(* alignToClock divides a driver's clock of at most 8000 Hz; the user's    *)
(* values are signed, and a throttle ends where the configurator's does.   *)
ASSUME SetupAssumption ==
  /\ GyroRates \subseteq 1..8000
  /\ Syncs \subseteq Int /\ PwmRates \subseteq Int /\ Throttles \subseteq 1000..2000
  /\ Samples \in Nat /\ Commands \in Nat /\ Restarts \in Nat

VARIABLES
  config,      \* Model::config
  stored,      \* the EEPROM, or Blank
  result,      \* _storageResult
  inForce,     \* what the last begin() derived
  bias,        \* state.gyro.bias, state.accel.bias, mag.calibrationOffset
  cal,         \* the three calibrationState
  samples,     \* samples each of them still wants
  armed,
  gyroRate,    \* state.gyro.rate
  present,     \* state.accel.present, state.mag.present
  commands, restarts,   \* how many are left
  disturbed    \* history: the accelerometer's bias was replaced during its
               \* calibration, or an unfinished one was loaded

vars == <<config, stored, result, inForce, bias, cal, samples, armed, gyroRate,
          present, commands, restarts, disturbed>>

storage == <<stored, result>>
calibration == <<bias, cal, samples>>
craft == <<armed, gyroRate, present, restarts>>

Blank == [blank |-> TRUE]
Sensors == {"gyro", "accel", "mag"}
NoBias == [s \in Sensors |-> "none"]
Unfinished == {"raw", "shifted"}

Defaults ==
  [sync |-> 8, protocol |-> "DISABLED", async |-> FALSE, rate |-> 480,
   throttle |-> 2000, accel |-> TRUE, mag |-> FALSE, bias |-> NoBias]
(* What a user may have saved before. *)
Earlier == [Defaults EXCEPT !.sync = 1, !.protocol = "PWM", !.mag = TRUE]

AtLeast(low, n) == IF n < low THEN low ELSE n
Within(low, high, n) == IF n > high THEN high ELSE AtLeast(low, n)

-----------------------------------------------------------------------------
(* sanitize *)
TopRate(protocol) ==
  CASE protocol = "PWM" -> 480 [] protocol = "ONESHOT125" -> 2000
    [] protocol = "BRUSHED" -> 8000 [] OTHER -> 2000

Async(c) == c.protocol = "BRUSHED" \/ (c.async /\ c.protocol # "DSHOT300")

LoopSync(c, r) == AtLeast(1, IF ~SpiGyro /\ r = "BAD" THEN 1 ELSE c.sync)

(* Mutant: the division is not rounded up. *)
SlowerThan_Truncated(sync, limit) ==
  IF gyroRate \div sync > limit
  THEN AtLeast(sync, gyroRate \div limit) ELSE sync

(* The slowest pulse decides how many gyro samples a loop takes. *)
SlowerThan(sync, limit) ==
  IF gyroRate \div sync > limit
  THEN AtLeast(sync, (gyroRate + limit - 1) \div limit) ELSE sync

Sanitize(c, r) ==
  LET first == LoopSync(c, r)
      sync == CASE Async(c) -> first
                [] c.protocol = "PWM" -> SlowerThan(first, 500)
                [] c.protocol = "ONESHOT125" -> SlowerThan(first, 2000)
                [] OTHER -> first
      cut == ~Async(c) /\ c.protocol = "PWM" /\ gyroRate \div first > 500
               /\ gyroRate \div sync > 480 /\ c.throttle > 1940
  IN [c EXCEPT !.sync = sync, !.async = Async(c),
               !.rate = IF Async(c) THEN Within(50, TopRate(c.protocol), @) ELSE @,
               !.throttle = IF cut THEN 1940 ELSE @]

(* begin(), with what the timers and the drivers use from then on. *)
Begin(c, r) ==
  LET clean == Sanitize(c, r)
  IN /\ config' = clean
     /\ inForce' = [clean |-> clean, loopRate |-> gyroRate \div clean.sync]

-----------------------------------------------------------------------------
(* Sensors are looked for at boot, and only those that are wanted. *)
Detected(c) == [accel |-> c.accel, mag |-> c.mag]
AccelActive == present.accel /\ config.accel
MagActive == present.mag /\ config.mag
CalibrationActive == \E s \in Sensors : cal[s] # "IDLE"

(* preSave and Storage::save; the commit may fail. *)
Saved(c) == [c EXCEPT !.bias = bias]

Save ==
  /\ config' = Saved(config)
  /\ \/ stored' = Saved(config) /\ result' = "OK"
     \/ UNCHANGED stored /\ result' = "FAILED"

UserCommand == commands > 0 /\ commands' = commands - 1

(* MSP_EEPROM_WRITE, CLI save *)
EepromWrite ==
  /\ UserCommand /\ Save
  /\ UNCHANGED <<inForce, disturbed, calibration, craft>>

(* The setters, as fields that may change. *)
WithAdvanced(c, s, a, p, r) ==
  [c EXCEPT !.sync = s, !.async = a, !.protocol = p, !.rate = r]
WithSensors(c, a, b) == [c EXCEPT !.accel = a, !.mag = b]

Advanced(c) ==
  {WithAdvanced(c, s, a, p, r) :
     s \in Syncs, a \in BOOLEAN, p \in Protocols, r \in PwmRates}
Motor(c) == {[c EXCEPT !.throttle = t] : t \in Throttles}
SensorsUsed(c) == {WithSensors(c, a, b) : a, b \in BOOLEAN}

(* MSP_SET_ADVANCED_CONFIG, MSP_SET_MOTOR_CONFIG, MSP_SET_SENSOR_CONFIG *)
MspSet ==
  /\ UserCommand
  /\ \E c \in Advanced(config) \union Motor(config) \union SensorsUsed(config) :
       Begin(c, result)
  /\ UNCHANGED <<disturbed, storage, calibration, craft>>

(* CLI set: nothing is derived until the next reload or restart. *)
CliSet ==
  /\ UserCommand
  /\ config' \in {[config EXCEPT !.sync = s] : s \in Syncs}
       \union {[config EXCEPT !.protocol = p] : p \in Protocols}
       \union Motor(config) \union SensorsUsed(config)
  /\ UNCHANGED <<inForce, disturbed, storage, calibration, craft>>

(* CLI cal reset_accel, reset_gyro, reset_mag *)
ResetBias(s) ==
  /\ UserCommand
  /\ bias' = [bias EXCEPT ![s] = "none"]
  /\ disturbed' = (disturbed \/ (s = "accel" /\ cal[s] \notin {"IDLE", "START"}))
  /\ UNCHANGED <<config, inForce, cal, samples, storage, craft>>

(* Storage::load and postLoad *)
Loaded == IF stored = Blank THEN config ELSE stored

(* CLI load: the calibration loaded replaces the one in the making. *)
CliLoad ==
  /\ UserCommand
  /\ config' = Loaded /\ bias' = Loaded.bias
  /\ result' = IF stored = Blank THEN "BAD" ELSE "OK"
  /\ disturbed' = (disturbed \/ Loaded.bias.accel \in Unfinished
                     \/ cal.accel \notin {"IDLE", "START"})
  /\ UNCHANGED <<stored, inForce, cal, samples, craft>>

(* CLI defaults: the calibration stays. *)
CliDefaults ==
  /\ UserCommand
  /\ Begin(Defaults, result)
  /\ UNCHANGED <<disturbed, storage, calibration, craft>>

(* MSP_RESET_CONF *)
ResetConf ==
  /\ UserCommand /\ ~armed
  /\ LET clean == Saved(Sanitize(Defaults, result))
     IN /\ config' = clean
        /\ inForce' = [clean |-> Sanitize(Defaults, result),
                       loopRate |-> gyroRate \div clean.sync]
        /\ \/ stored' = clean /\ result' = "OK"
           \/ UNCHANGED stored /\ result' = "FAILED"
  /\ UNCHANGED <<disturbed, calibration, craft>>

-----------------------------------------------------------------------------
(* Mutant: the guard against a calibration in flight is missing. *)
CalibrateGyro_Always ==
  /\ UserCommand
  /\ cal' = [cal EXCEPT !.gyro = "START",
                        !.accel = IF AccelActive THEN "START" ELSE @]
  /\ UNCHANGED <<config, inForce, bias, samples, disturbed, storage, craft>>

(* MSP_ACC_CALIBRATION, CLI cal gyro *)
CalibrateGyro ==
  /\ UserCommand /\ ~armed
  /\ cal' = [cal EXCEPT !.gyro = "START",
                        !.accel = IF AccelActive THEN "START" ELSE @]
  /\ UNCHANGED <<config, inForce, bias, samples, disturbed, storage, craft>>

(* MSP_MAG_CALIBRATION, CLI cal mag: also when no magnetometer is used. *)
CalibrateMag ==
  /\ UserCommand /\ ~armed
  /\ cal' = [cal EXCEPT !.mag = "START"]
  /\ UNCHANGED <<config, inForce, bias, samples, disturbed, storage, craft>>

(* Mutant: as for the gyro, the end of a calibration saves nothing. *)
FinishCalibration_Silent == UNCHANGED <<config, storage>>

(* finishCalibration: whoever finishes saves, with all biases as they are. *)
FinishCalibration ==
  IF "SAVE" \in {cal.accel, cal.mag} THEN Save
  ELSE UNCHANGED <<config, storage>>

(* Mutant: a finished calibration is not put to rest. *)
NextState_NoRest(state, left) ==
  CASE state = "START" -> "UPDATE"
    [] state = "UPDATE" -> IF left <= 0 THEN "APPLY" ELSE "UPDATE"
    [] OTHER -> "SAVE"

(* The states the three calibrations have in common. *)
NextState(state, left) ==
  CASE state = "START" -> "UPDATE"
    [] state = "UPDATE" -> IF left <= 0 THEN "APPLY" ELSE "UPDATE"
    [] state = "APPLY" -> "SAVE"
    [] OTHER -> "IDLE"

Advance(s, counted) ==
  LET left == CASE cal[s] = "START" -> Samples
                [] cal[s] = "UPDATE" /\ counted -> samples[s] - 1
                [] OTHER -> samples[s]
  IN /\ samples' = [samples EXCEPT ![s] = left]
     /\ cal' = [cal EXCEPT ![s] = NextState(@, left)]

Becomes(s, quality) == bias' = [bias EXCEPT ![s] = quality]

Finishes(s) ==
  IF cal[s] = "SAVE" THEN FinishCalibration ELSE UNCHANGED <<config, storage>>

SensorFrame == UNCHANGED <<inForce, commands, craft>>

(* GyroSensor::calibrate counts the samples of a craft that is still. *)
GyroUpdate(still) ==
  /\ Advance("gyro", still) /\ Finishes("gyro")
  /\ Becomes("gyro", IF cal.gyro = "UPDATE" /\ still THEN "new" ELSE bias.gyro)
  /\ UNCHANGED disturbed /\ SensorFrame

(* AccelSensor::calibrate: gravity is in the bias until APPLY. *)
AccelUpdate ==
  /\ AccelActive /\ cal.accel # "IDLE"
  /\ Advance("accel", TRUE) /\ Finishes("accel")
  /\ Becomes("accel", CASE cal.accel = "START" -> "raw"
                        [] cal.accel = "APPLY" ->
                             IF bias.accel = "raw" THEN "new" ELSE "shifted"
                        [] OTHER -> bias.accel)
  /\ disturbed' = (disturbed /\ cal.accel # "START")
  /\ SensorFrame

(* MagSensor::calibrate: incomplete data leave the offsets as they were. *)
MagUpdate ==
  /\ MagActive /\ cal.mag # "IDLE"
  /\ Advance("mag", TRUE) /\ Finishes("mag")
  /\ \E complete \in BOOLEAN :
       Becomes("mag", IF cal.mag = "APPLY" /\ complete THEN "new" ELSE bias.mag)
  /\ UNCHANGED disturbed /\ SensorFrame

-----------------------------------------------------------------------------
(* Actuator::update: the calibration flag is computed before the modes. *)
ArmOrDisarm ==
  /\ armed' = ~armed
  /\ armed \/ ~CalibrationActive
  /\ UNCHANGED <<config, inForce, gyroRate, present, commands, restarts, disturbed,
                 storage, calibration>>

AtBoot == [gyro |-> "START", accel |-> "IDLE", mag |-> "IDLE"]

(* Power off and on at any moment but that of a commit. *)
Restart ==
  /\ restarts > 0 /\ restarts' = restarts - 1
  /\ LET c == IF stored = Blank THEN Defaults ELSE stored
         r == IF stored = Blank THEN "BAD" ELSE "OK"
     IN /\ Begin(c, r)
        /\ result' = r
        /\ bias' = c.bias /\ present' = Detected(c)
        /\ disturbed' = (c.bias.accel \in Unfinished)
  /\ cal' = AtBoot /\ samples' = [s \in Sensors |-> 0]
  /\ armed' = FALSE
  /\ UNCHANGED <<stored, gyroRate, commands>>

Init ==
  /\ gyroRate \in GyroRates
  /\ stored \in {Blank, Earlier}
  /\ result = IF stored = Blank THEN "BAD" ELSE "OK"
  /\ config = Sanitize(IF stored = Blank THEN Defaults ELSE stored, result)
  /\ inForce = [clean |-> config, loopRate |-> gyroRate \div config.sync]
  /\ present = Detected(config)
  /\ bias = NoBias /\ cal = AtBoot /\ samples = [s \in Sensors |-> 0]
  /\ armed = FALSE /\ disturbed = FALSE
  /\ commands = Commands /\ restarts = Restarts

Next ==
  \/ EepromWrite \/ MspSet \/ CliSet \/ CliLoad \/ CliDefaults \/ ResetConf
  \/ CalibrateGyro \/ CalibrateMag \/ ArmOrDisarm \/ Restart
  \/ \E s \in Sensors : ResetBias(s)
  \/ \E still \in BOOLEAN : GyroUpdate(still)
  \/ AccelUpdate \/ MagUpdate

Spec == Init /\ [][Next]_vars
(* The sensors are read at their rates; a craft being calibrated is at     *)
(* rest again and again.                                                   *)
FairSpec ==
  Spec /\ WF_vars(GyroUpdate(TRUE)) /\ WF_vars(AccelUpdate) /\ WF_vars(MagUpdate)

-----------------------------------------------------------------------------
(* No calibration runs in flight: it would move the attitude under a       *)
(* craft in the air and, at its end, stop it to write the EEPROM.          *)
NoCalibrationInFlight == armed => ~CalibrationActive

(* With the accelerometer at rest the EEPROM holds no bias that still has  *)
(* gravity in it, whoever saved during the calibration: its own end saves  *)
(* again.  Left out are biases replaced by hand in between, a restart that   *)
(* loads an unfinished one, and a commit that fails.                       *)
StoredBiasIsFinished ==
  /\ cal.accel = "IDLE"
  /\ stored # Blank /\ stored.bias.accel \in Unfinished
  => disturbed \/ result = "FAILED"

(* With the sensors it is for, a calibration ends, and the craft can be    *)
(* armed again.                                                            *)
CalibrationEnds ==
  /\ [](cal.accel # "IDLE" => AccelActive)
  /\ [](cal.mag # "IDLE" => MagActive)
  => <>[](~CalibrationActive)

(* What begin() leaves in force can be sent: a pulse ends before the next  *)
(* one is due, whatever was set before, by whom and in which order.        *)
PulsesFit ==
  LET c == inForce.clean
      rate == IF c.async THEN c.rate ELSE inForce.loopRate
  IN /\ c.protocol = "PWM" => rate * c.throttle <= 1000000
     /\ c.protocol = "ONESHOT125" => rate * (c.throttle \div 8) <= 1000000
=============================================================================
