---------------------------- MODULE MspSettings ----------------------------
(***************************************************************************)
(* The pages of settings a configurator reads and writes over MSP          *)
(* (Connect/MspProcessor.cpp) and the types of the settings behind them    *)
(* (ModelConfig.h).  A page is read by one command and written by another, *)
(* each a list of values in bytes that the code spells out on its own.  A  *)
(* configurator changes one setting at a time and writes the whole page    *)
(* back, and an older one knows only the first parts of it.                *)
(*                                                                         *)
(* A setting is a name and an index.  What is measured rather than set is  *)
(* a constant here.                                                        *)
(***************************************************************************)
EXTENDS Integers, Sequences, SequencesExt, FiniteSetsExt

CONSTANTS
  Pages,        \* the pages that are looked at
  Conditions,   \* ACTUATOR_CONDITIONS
  Channels,     \* INPUT_CHANNELS
  Outputs,      \* OUTPUT_CHANNELS
  PidItems,     \* PID_ITEM_COUNT
  GyroRate,     \* of the gyro's samples, in Hz
  Ports,        \* identifiers of the serial ports that the board has
  SoftSerial    \* the first identifier of a port made by software

VARIABLES
  phase,      \* of the page: "closed", "open", "read", "sent", "written"
  page,       \* the page, and the entry of a page of many
  settings,   \* the settings of the page
  before,     \* what they were when the page was opened
  meant,      \* what the configurator means them to be
  known,      \* parts of the page the configurator knows of; 0: a damaged write
  wire,       \* bytes on the way
  accepted    \* the answer to the write is no error

vars == <<phase, page, settings, before, meant, known, wire, accepted>>

-----------------------------------------------------------------------------
(* Bytes.  A signed number is sent as its two's complement.                *)

Bytes(v, w) == [k \in 1..w |-> (v \div 256 ^ (k - 1)) % 256]

ByteAt(msg, i) == IF i <= Len(msg) THEN msg[i] ELSE 0

Top(b) == IF b > 127 THEN b - 256 ELSE b

Number(msg, at, w) ==
  CASE w = 0 -> 0
    [] w = 1 -> ByteAt(msg, at)
    [] w = 2 -> ByteAt(msg, at) + 256 * ByteAt(msg, at + 1)
    [] w = 4 -> ByteAt(msg, at) + 256 * ByteAt(msg, at + 1) + 65536 * ByteAt(msg, at + 2)
                + 16777216 * Top(ByteAt(msg, at + 3))

(* Assignment to a member of the given type.                               *)
Stored(type, x) ==
  CASE type = "U8" -> x % 256
    [] type = "I8" -> ((x + 128) % 256) - 128
    [] type = "I16" -> ((x + 32768) % 65536) - 32768
    [] type = "I32" -> x
    [] type = "BOOL" -> IF x = 0 THEN 0 ELSE 1

-----------------------------------------------------------------------------
(* The types of the settings, structure by structure.                      *)

ActuatorCondition ==
  [id |-> "U8", ch |-> "U8", min |-> "I16", max |-> "I16", logicMode |-> "U8", linkId |-> "U8"]

SerialPortConfig ==
  [functionMask |-> "I32", baud |-> "I32", gpsBaud |-> "I32", telemetryBaud |-> "I32",
   blackboxBaud |-> "I32"]

PidConfig == [P |-> "U8", I |-> "U8", D |-> "U8", F |-> "I16"]

InputChannelConfig == [map |-> "I8", fsMode |-> "I8", fsValue |-> "I16"]

InputConfig ==
  [serialRxProvider |-> "U8", minCheck |-> "I16", maxCheck |-> "I16", minRc |-> "I16",
   midRc |-> "I16", maxRc |-> "I16", interpolationMode |-> "I8",
   interpolationInterval |-> "I8", deadband |-> "I8", filterType |-> "I8",
   filterAutoFactor |-> "I8", inputFilter |-> "I16", inputDerivative |-> "I16",
   inputDerivativeType |-> "I8", expo |-> "U8", rate |-> "U8", superRate |-> "U8",
   rateLimit |-> "I16", rateType |-> "I8", rssiChannel |-> "U8"]

OutputConfig ==
  [outMin |-> "I16", outMax |-> "I16", outNeutral |-> "I16", protocol |-> "I8",
   async |-> "I8", dshotTelemetry |-> "I8", motorPoles |-> "I8", pwmRate |-> "I16",
   minCommand |-> "I16", minThrottle |-> "I16", maxThrottle |-> "I16", dshotIdle |-> "I16",
   throttleLimitType |-> "I8", throttleLimitPercent |-> "I8", motorLimit |-> "I8"]

SmallConfigs ==
  [delay |-> "U8", killSwitch |-> "U8", blackboxDev |-> "I8", pDenom |-> "I16",
   debugMode |-> "I8", rpmHarmonics |-> "U8", rpmMinFreq |-> "U8", cellWarning |-> "I16",
   vbatScale |-> "U8", resDiv |-> "U8", resMult |-> "U8", vbatSource |-> "I8",
   ibatSource |-> "I8", ibatScale |-> "I16", ibatOffset |-> "I16"]

SensorConfigs ==
  [gyroAlign |-> "I8", dlpf |-> "I8", accelDev |-> "I8", accelTrim |-> "I16",
   baroDev |-> "I8", magDev |-> "I8", magAlign |-> "I8", gyroLpf |-> "I16",
   gyroLpfType |-> "I8", gyroLpf2 |-> "I16", gyroLpf2Type |-> "I8", notch1 |-> "I16",
   notch1Cutoff |-> "I16", notch2 |-> "I16", notch2Cutoff |-> "I16", dynLpf |-> "I16",
   dynLpfCutoff |-> "I16", dynCount |-> "U8", dynQ |-> "I16", dynMin |-> "I16",
   dynMax |-> "I16"]

ControlConfigs ==
  [yawLpf |-> "I16", dtermLpf |-> "I16", dtermType |-> "I8", dtermLpf2 |-> "I16",
   dtermType2 |-> "I8", dtermNotch |-> "I16", dtermNotchCutoff |-> "I16",
   dtermDyn |-> "I16", dtermDynCutoff |-> "I16", setpointWeight |-> "I16", relax |-> "I8",
   relaxCutoff |-> "I8", angleLimit |-> "I8", mixerType |-> "I8", yawReverse |-> "BOOL",
   tpaScale |-> "I8", tpaBreakpoint |-> "I16", vtxChannel |-> "U8", vtxBand |-> "U8",
   vtxPower |-> "U8", lowPowerDisarm |-> "U8", smallAngle |-> "U8"]

GpsConfig ==
  [setHomeOnce |-> "U8", provider |-> "U8", sbasMode |-> "U8", autoConfig |-> "U8",
   autoBaud |-> "U8", enableGalileo |-> "U8"]

Unsorted ==
  [loopSync |-> "I8", featureMask |-> "I32", boardAlignment |-> "I16", beeperMask |-> "I32"]

Types ==
  ActuatorCondition @@ SerialPortConfig @@ PidConfig @@ InputChannelConfig @@ InputConfig
  @@ OutputConfig @@ SmallConfigs @@ SensorConfigs @@ ControlConfigs @@ GpsConfig @@ Unsorted

Type(field) == Types[field[1]]

-----------------------------------------------------------------------------
(* Conversions between a setting and its place on the page.                *)

BaudRates ==
  <<0, 9600, 19200, 38400, 57600, 115200, 230400, 250000, 400000, 460800, 500000, 921600,
    1000000, 1500000, 2000000, 2470000>>

ToBaudIndex(speed) ==
  CHOOSE i \in 0..15 : /\ i = 0 \/ speed >= BaudRates[i + 1]
                       /\ i = 15 \/ speed < BaudRates[i + 2]

FromBaudIndex(index) == IF index < 16 THEN BaudRates[index + 1] ELSE 0

(* Modes in their order, and the numbers that Betaflight gives the boxes.  *)
(* ALTHOLD keeps its own number.                                           *)
ModeCount == 9
Boxes == <<0, 20, 1, 3, 11, 6, 19, 23, 7>>

ToMspBoxId(mode) == IF mode < ModeCount THEN Boxes[mode + 1] ELSE mode

FromMspBoxId(box) ==
  CASE \E m \in 1..9 : m # 4 /\ Boxes[m] = box ->
         (CHOOSE m \in 1..9 : m # 4 /\ Boxes[m] = box) - 1
    [] box < ModeCount -> box
    [] OTHER -> ModeCount

Biquad == 1
Pt3 == 3
NoFilter == 10

ToFilterTypeDerivative(t) == CASE t = 0 -> NoFilter [] t = 2 -> Biquad [] OTHER -> Pt3
FromFilterTypeDerivative(t) == CASE t = NoFilter -> 0 [] t = Biquad -> 2 [] OTHER -> 1

FromGyroDlpf(t) == CASE t = 0 -> 0 [] t = 7 -> 1 [] OTHER -> 2

ToMeterSource(t) == IF t = 1 THEN 1 ELSE 0

Clamp(x, low, high) == IF x < low THEN low ELSE IF x > high THEN high ELSE x

(* Axes above the sticks are sent by their number among themselves.        *)
AuxOne == 4

(* Division of integers in C.                                              *)
Over(a, b) == IF a >= 0 THEN a \div b ELSE -((-a) \div b)

ToWire(as, v) ==
  CASE as = "tenths" -> Over(v + 5, 10)
    [] as = "low" -> IF v > 255 THEN 255 ELSE v
    [] as = "box" -> ToMspBoxId(v)
    [] as = "aux" -> v - AuxOne
    [] as = "step" -> Over(v - 900, 25)
    [] as = "baud" -> ToBaudIndex(v)
    [] as = "derivative" -> FromFilterTypeDerivative(v)
    [] as = "dlpf" -> FromGyroDlpf(v)
    [] as = "inverted" -> -1 - v
    [] OTHER -> v

FromWire(as, x) ==
  CASE as = "tenths" -> 10 * x
    [] as = "box" -> FromMspBoxId(x)
    [] as = "aux" -> x + AuxOne
    [] as = "step" -> 900 + 25 * x
    [] as = "baud" -> FromBaudIndex(x)
    [] as = "derivative" -> ToFilterTypeDerivative(x)
    [] as = "inverted" -> -1 - x
    [] as = "source" -> ToMeterSource(x)
    [] as = "trim" -> Clamp(Stored("I16", x), -300, 300)
    [] as = "tpa" -> Clamp(x, 0, 90)
    [] as = "breakpoint" -> Clamp(x, 1000, 2000)
    [] as = "angle" -> Clamp(x, 0, 180)
    [] OTHER -> x

-----------------------------------------------------------------------------
(* Pages.  What is read is a sequence of items; what is written comes in   *)
(* parts, and a part is looked for if that many bytes are left.            *)

Item(field, w, as) == <<[field |-> field, w |-> w, as |-> as]>>
As(name, w, as) == Item(<<name, 0>>, w, as)
One(name) == As(name, 1, "raw")
Two(name) == As(name, 2, "raw")
Four(name) == As(name, 4, "raw")
OneOf(name, i) == Item(<<name, i>>, 1, "raw")
TwoOf(name, i) == Item(<<name, i>>, 2, "raw")
Constant(n) == Item(<<"constant", n>>, 1, "raw")
Unused(n) == FlattenSeq([i \in 1..n |-> Constant(0)])
Each(n, Items(_)) == FlattenSeq([i \in 1..n |-> Items(i - 1)])

Part(need, items) == <<[need |-> need, items |-> items]>>

IsConstant(item) == item.field[1] = "constant"

ModeRanges ==
  Each(Conditions, LAMBDA i : Item(<<"id", i>>, 1, "box") \o Item(<<"ch", i>>, 1, "aux")
                              \o Item(<<"min", i>>, 1, "step") \o Item(<<"max", i>>, 1, "step"))
ModeRangesExtra ==
  Constant(Conditions)
  \o Each(Conditions, LAMBDA i : Item(<<"id", i>>, 1, "box") \o OneOf("logicMode", i)
                                 \o OneOf("linkId", i))
SetModeRange(i, box) ==
  IF i < Conditions /\ FromMspBoxId(box) < ModeCount
    THEN Part(0, Unused(1) \o Item(<<"id", i>>, 1, "box") \o Item(<<"ch", i>>, 1, "aux")
                 \o Item(<<"min", i>>, 1, "step") \o Item(<<"max", i>>, 1, "step"))
         \o Part(2, OneOf("logicMode", i) \o OneOf("linkId", i))
    ELSE <<>>

FeatureConfig == Four("featureMask")
SetFeatureConfig == Part(0, Four("featureMask"))

BatteryConfig ==
  Unused(2) \o As("cellWarning", 1, "tenths") \o Unused(2) \o One("vbatSource")
  \o One("ibatSource") \o Unused(4) \o Two("cellWarning")
SetBatteryConfig ==
  Part(0, Unused(2) \o As("cellWarning", 1, "tenths") \o Unused(2)
          \o As("vbatSource", 1, "source") \o As("ibatSource", 1, "source"))
  \o Part(6, Unused(4) \o Two("cellWarning"))

(* The only meters are those of number 10.                                 *)
VoltageMeterConfig ==
  Constant(1) \o Constant(5) \o Constant(10) \o Unused(1)
  \o One("vbatScale") \o One("resDiv") \o One("resMult")
SetVoltageMeterConfig(id) ==
  IF id = 10 THEN Part(0, Unused(1) \o One("vbatScale") \o One("resDiv") \o One("resMult"))
  ELSE <<>>

CurrentMeterConfig ==
  Constant(1) \o Constant(6) \o Constant(10) \o Constant(1)
  \o Two("ibatScale") \o Two("ibatOffset")
SetCurrentMeterConfig(id) ==
  IF id = 10 THEN Part(0, Unused(1) \o Two("ibatScale") \o Two("ibatOffset")) ELSE <<>>

AccTrim == TwoOf("accelTrim", 0) \o TwoOf("accelTrim", 1)
SetAccTrim ==
  Part(0, Item(<<"accelTrim", 0>>, 2, "trim") \o Item(<<"accelTrim", 1>>, 2, "trim"))

MixerConfig == One("mixerType") \o One("yawReverse")
SetMixerConfig == Part(0, One("mixerType") \o One("yawReverse"))

SensorConfig == One("accelDev") \o One("baroDev") \o One("magDev")
SetSensorConfig == Part(0, One("accelDev") \o One("baroDev") \o One("magDev"))

SensorAlignment ==
  One("gyroAlign") \o One("gyroAlign") \o One("magAlign")
  \o Constant(1) \o Unused(1) \o One("gyroAlign") \o Unused(1)
SetSensorAlignment ==
  Part(0, One("gyroAlign") \o Unused(1) \o One("magAlign"))
  \o Part(3, Unused(1) \o One("gyroAlign") \o Unused(1))

(* Both pages of the serial ports have a packet for each; of a write the   *)
(* packets of unknown ports are passed over.                               *)
Reported == SelectSeq(Ports, LAMBDA id : id < SoftSerial)
Index(id) == CHOOSE k \in 1..Len(Ports) : Ports[k] = id
Speeds(k) ==
  Item(<<"baud", k>>, 1, "baud") \o Item(<<"gpsBaud", k>>, 1, "baud")
  \o Item(<<"telemetryBaud", k>>, 1, "baud") \o Item(<<"blackboxBaud", k>>, 1, "baud")
PortsOut(w) ==
  Each(Len(Reported), LAMBDA n :
         LET k == Index(Reported[n + 1])
         IN Constant(Ports[k]) \o Item(<<"functionMask", k>>, w, "raw") \o Speeds(k))
PortPacket(id, w) ==
  Part(5 + w, IF \E k \in 1..Len(Ports) : Ports[k] = id
                THEN LET k == Index(id)
                     IN Constant(id) \o Item(<<"functionMask", k>>, w, "raw") \o Speeds(k)
                ELSE Unused(5 + w))
PortsIn(msg, skip, w) ==
  LET n == (Len(msg) - skip) \div (5 + w)
  IN FlattenSeq([i \in 1..n |-> PortPacket(ByteAt(msg, skip + 1 + (i - 1) * (5 + w)), w)])

CfSerialConfig == PortsOut(2)
SetCfSerialConfig(msg) == IF Len(msg) % 7 = 0 THEN PortsIn(msg, 0, 2) ELSE <<>>
CommonSerialConfig == Constant(Len(Reported)) \o PortsOut(4)
SetCommonSerialConfig(msg) ==
  IF Len(msg) > 0 /\ (Len(msg) - 1) % 9 = 0 THEN Part(0, Unused(1)) \o PortsIn(msg, 1, 4)
  ELSE <<>>

BlackboxConfig ==
  Constant(1) \o One("blackboxDev") \o Constant(1) \o Constant(1) \o Two("pDenom")
SetBlackboxConfig ==
  Part(0, One("blackboxDev") \o Unused(2) \o As("pDenom", 0, "raw")) \o Part(2, Two("pDenom"))

BeeperConfig == As("beeperMask", 4, "inverted") \o Unused(5)
SetBeeperConfig == Part(0, As("beeperMask", 4, "inverted"))

BoardAlignment == Each(3, LAMBDA i : TwoOf("boardAlignment", i))
SetBoardAlignment == Part(0, Each(3, LAMBDA i : TwoOf("boardAlignment", i)))

RxMap == Each(Channels, LAMBDA i : OneOf("map", i))
SetRxMap == Part(0, Each(8, LAMBDA i : OneOf("map", i)))

RssiConfig == One("rssiChannel")
SetRssiConfig == Part(0, One("rssiChannel"))

MotorConfig ==
  Two("minThrottle") \o Two("maxThrottle") \o Two("minCommand") \o Unused(1)
  \o One("motorPoles") \o One("dshotTelemetry") \o Unused(1)
SetMotorConfig ==
  Part(0, Two("minThrottle") \o Two("maxThrottle") \o Two("minCommand"))
  \o Part(2, One("motorPoles") \o One("dshotTelemetry"))

ArmingPage == Constant(5) \o Unused(1) \o One("smallAngle")
SetArmingPage == Part(0, Unused(2) \o As("smallAngle", 1, "angle"))

RcDeadband == One("deadband") \o Unused(4)
SetRcDeadband == Part(0, One("deadband") \o Unused(4))

RxConfig ==
  One("serialRxProvider") \o Two("maxCheck") \o Two("midRc") \o Two("minCheck") \o Unused(1)
  \o Two("minRc") \o Two("maxRc")
  \o One("interpolationMode") \o One("interpolationInterval") \o Unused(2)
  \o Unused(6) \o Unused(1) \o Unused(1) \o One("filterType")
  \o One("inputFilter") \o One("inputDerivative") \o Unused(1)
  \o As("inputDerivativeType", 1, "derivative") \o Unused(1) \o One("filterAutoFactor")
SetRxConfig ==
  Part(0, One("serialRxProvider") \o Two("maxCheck") \o Two("midRc") \o Two("minCheck")
          \o Unused(1) \o Two("minRc") \o Two("maxRc"))
  \o Part(4, One("interpolationMode") \o One("interpolationInterval") \o Unused(2))
  \o Part(6, Unused(6))
  \o Part(1, Unused(1))
  \o Part(6, Unused(1) \o One("filterType") \o One("inputFilter") \o One("inputDerivative")
             \o Unused(1) \o As("inputDerivativeType", 1, "derivative"))
  \o Part(1, Unused(1))
  \o Part(1, One("filterAutoFactor"))

FailsafePage == One("delay") \o Unused(3) \o One("killSwitch") \o Unused(2) \o Constant(1)
SetFailsafePage == Part(0, One("delay") \o Unused(3) \o One("killSwitch") \o Unused(3))

RxFailConfig == Each(Channels, LAMBDA i : OneOf("fsMode", i) \o TwoOf("fsValue", i))
SetRxFailConfig(i) ==
  IF i < Channels THEN Part(0, Unused(1) \o OneOf("fsMode", i) \o TwoOf("fsValue", i))
  ELSE <<>>

(* Pitch follows roll while the two are alike ("leads").                   *)
Roll == 0
Pitch == 1
Yaw == 2
RcTuning ==
  OneOf("rate", Roll) \o OneOf("expo", Roll) \o Each(3, LAMBDA i : OneOf("superRate", i))
  \o One("tpaScale") \o Constant(50) \o Unused(1) \o Two("tpaBreakpoint")
  \o OneOf("expo", Yaw) \o OneOf("rate", Yaw) \o OneOf("rate", Pitch) \o OneOf("expo", Pitch)
  \o One("throttleLimitType") \o One("throttleLimitPercent")
  \o Each(3, LAMBDA i : TwoOf("rateLimit", i)) \o One("rateType")
(* Mutant: what is written has two values of the yaw in the other order.   *)
SetRcTuning_Swapped(msg) ==
  IF Len(msg) < 10 THEN <<>>
  ELSE Part(0, Item(<<"rate", Roll>>, 1, "leads") \o Item(<<"expo", Roll>>, 1, "leads")
               \o Each(3, LAMBDA i : OneOf("superRate", i))
               \o As("tpaScale", 1, "tpa") \o Unused(2) \o As("tpaBreakpoint", 2, "breakpoint"))
       \o Part(1, OneOf("rate", Yaw))
       \o Part(1, OneOf("expo", Yaw))
       \o Part(1, OneOf("rate", Pitch))
       \o Part(1, OneOf("expo", Pitch))
       \o Part(2, One("throttleLimitType") \o One("throttleLimitPercent"))
       \o Part(6, Each(3, LAMBDA i : TwoOf("rateLimit", i)))
       \o Part(1, One("rateType"))

SetRcTuning(msg) ==
  IF Len(msg) < 10 THEN <<>>
  ELSE Part(0, Item(<<"rate", Roll>>, 1, "leads") \o Item(<<"expo", Roll>>, 1, "leads")
               \o Each(3, LAMBDA i : OneOf("superRate", i))
               \o As("tpaScale", 1, "tpa") \o Unused(2) \o As("tpaBreakpoint", 2, "breakpoint"))
       \o Part(1, OneOf("expo", Yaw))
       \o Part(1, OneOf("rate", Yaw))
       \o Part(1, OneOf("rate", Pitch))
       \o Part(1, OneOf("expo", Pitch))
       \o Part(2, One("throttleLimitType") \o One("throttleLimitPercent"))
       \o Part(6, Each(3, LAMBDA i : TwoOf("rateLimit", i)))
       \o Part(1, One("rateType"))

AdvancedConfig ==
  Constant(1) \o One("loopSync") \o One("async") \o One("protocol") \o Two("pwmRate")
  \o Two("dshotIdle") \o Unused(4) \o Constant(48) \o Constant(125) \o Unused(4)
  \o One("debugMode") \o Unused(1)
SetAdvancedConfig ==
  Part(0, Unused(1) \o One("loopSync") \o One("async") \o One("protocol") \o Two("pwmRate"))
  \o Part(2, Two("dshotIdle"))
  \o Part(1, Unused(1))
  \o Part(1, Unused(1))
  \o Part(8, Unused(8))
  \o Part(1, One("debugMode"))

FilterPage ==
  One("gyroLpf") \o Two("dtermLpf") \o Two("yawLpf")
  \o Two("notch1") \o Two("notch1Cutoff") \o Two("dtermNotch") \o Two("dtermNotchCutoff")
  \o Two("notch2") \o Two("notch2Cutoff") \o One("dtermType")
  \o As("dlpf", 1, "dlpf") \o Unused(1) \o Two("gyroLpf") \o Two("gyroLpf2")
  \o One("gyroLpfType") \o One("gyroLpf2Type") \o Two("dtermLpf2")
  \o One("dtermType2") \o Two("dynLpfCutoff") \o Two("dynLpf")
  \o Two("dtermDynCutoff") \o Two("dtermDyn")
  \o Constant(3) \o One("dynCount") \o Two("dynQ") \o Two("dynMin")
  \o One("rpmHarmonics") \o One("rpmMinFreq") \o Two("dynMax")
SetFilterPage ==
  Part(0, One("gyroLpf") \o Two("dtermLpf") \o Two("yawLpf"))
  \o Part(8, Two("notch1") \o Two("notch1Cutoff") \o Two("dtermNotch") \o Two("dtermNotchCutoff"))
  \o Part(4, Two("notch2") \o Two("notch2Cutoff"))
  \o Part(1, One("dtermType"))
  \o Part(10, Unused(2) \o Two("gyroLpf") \o Two("gyroLpf2") \o One("gyroLpfType")
              \o One("gyroLpf2Type") \o Two("dtermLpf2"))
  \o Part(9, One("dtermType2") \o Two("dynLpfCutoff") \o Two("dynLpf")
             \o Two("dtermDynCutoff") \o Two("dtermDyn"))
  \o Part(8, Unused(1) \o One("dynCount") \o Two("dynQ") \o Two("dynMin")
             \o One("rpmHarmonics") \o One("rpmMinFreq"))
  \o Part(2, Two("dynMax"))

Gains(i) == OneOf("P", i) \o OneOf("I", i) \o OneOf("D", i)
Pid == Each(PidItems, Gains)
SetPid == Part(0, Each(PidItems, Gains))

PidAdvanced ==
  Unused(9) \o As("setpointWeight", 1, "low") \o Unused(7) \o One("angleLimit") \o Unused(5)
  \o Two("setpointWeight") \o Unused(2) \o One("relax") \o Constant(1) \o Unused(3)
  \o Each(3, LAMBDA i : TwoOf("F", i)) \o Unused(1) \o Unused(7)
  \o One("relaxCutoff") \o One("motorLimit") \o Unused(2)
SetPidAdvanced ==
  Part(0, Unused(9) \o As("setpointWeight", 1, "low") \o Unused(7))
  \o Part(2, One("angleLimit") \o Unused(1))
  \o Part(4, Unused(4))
  \o Part(2, Two("setpointWeight"))
  \o Part(14, Unused(2) \o One("relax") \o Unused(4) \o Each(3, LAMBDA i : TwoOf("F", i))
              \o Unused(1))
  \o Part(7, Unused(7))
  \o Part(1, One("relaxCutoff"))
  \o Part(3, One("motorLimit") \o Unused(2))

ServoConfigurations ==
  Each(Outputs, LAMBDA i : TwoOf("outMin", i) \o TwoOf("outMax", i) \o TwoOf("outNeutral", i)
                           \o Constant(100) \o Constant(255) \o Unused(4))
SetServoConfiguration(i) ==
  IF i < Outputs
    THEN Part(0, Unused(1) \o TwoOf("outMin", i) \o TwoOf("outMax", i) \o TwoOf("outNeutral", i)
                 \o Unused(6))
    ELSE <<>>

(* A transmitter is there: without one the page is all zeros.              *)
VtxPage ==
  Constant(3) \o One("vtxBand") \o One("vtxChannel") \o One("vtxPower") \o Unused(3)
  \o Constant(1) \o One("lowPowerDisarm") \o Unused(6)
SetVtxPage ==
  Part(0, Unused(2)) \o Part(2, One("vtxPower") \o Unused(1)) \o Part(1, One("lowPowerDisarm"))
  \o Part(2, Unused(2)) \o Part(4, One("vtxBand") \o One("vtxChannel") \o Unused(2))

GpsPage ==
  One("provider") \o One("sbasMode") \o One("autoConfig") \o One("autoBaud")
  \o One("setHomeOnce") \o One("enableGalileo")
SetGpsPage ==
  Part(4, One("provider") \o One("sbasMode") \o One("autoConfig") \o One("autoBaud"))
  \o Part(2, One("setHomeOnce") \o One("enableGalileo"))

-----------------------------------------------------------------------------
(* What a page answers, and what it takes out of a message.                *)

Layout(p) ==
  CASE p = "mode ranges" -> ModeRanges \o ModeRangesExtra
    [] p = "features" -> FeatureConfig
    [] p = "battery" -> BatteryConfig
    [] p = "voltage meters" -> VoltageMeterConfig
    [] p = "current meters" -> CurrentMeterConfig
    [] p = "acc trim" -> AccTrim
    [] p = "mixer" -> MixerConfig
    [] p = "sensors" -> SensorConfig
    [] p = "alignment" -> SensorAlignment
    [] p = "ports" -> CfSerialConfig
    [] p = "common ports" -> CommonSerialConfig
    [] p = "blackbox" -> BlackboxConfig
    [] p = "beeper" -> BeeperConfig
    [] p = "board" -> BoardAlignment
    [] p = "rx map" -> RxMap
    [] p = "rssi" -> RssiConfig
    [] p = "motors" -> MotorConfig
    [] p = "arming" -> ArmingPage
    [] p = "deadband" -> RcDeadband
    [] p = "rx" -> RxConfig
    [] p = "failsafe" -> FailsafePage
    [] p = "rx fail" -> RxFailConfig
    [] p = "rc tuning" -> RcTuning
    [] p = "advanced" -> AdvancedConfig
    [] p = "filters" -> FilterPage
    [] p = "pid" -> Pid
    [] p = "pid advanced" -> PidAdvanced
    [] p = "servos" -> ServoConfigurations
    [] p = "vtx" -> VtxPage
    [] p = "gps" -> GpsPage

Parts(p, msg) ==
  CASE p = "mode ranges" -> SetModeRange(ByteAt(msg, 1), ByteAt(msg, 2))
    [] p = "features" -> SetFeatureConfig
    [] p = "battery" -> SetBatteryConfig
    [] p = "voltage meters" -> SetVoltageMeterConfig(ByteAt(msg, 1))
    [] p = "current meters" -> SetCurrentMeterConfig(ByteAt(msg, 1))
    [] p = "acc trim" -> SetAccTrim
    [] p = "mixer" -> SetMixerConfig
    [] p = "sensors" -> SetSensorConfig
    [] p = "alignment" -> SetSensorAlignment
    [] p = "ports" -> SetCfSerialConfig(msg)
    [] p = "common ports" -> SetCommonSerialConfig(msg)
    [] p = "blackbox" -> SetBlackboxConfig
    [] p = "beeper" -> SetBeeperConfig
    [] p = "board" -> SetBoardAlignment
    [] p = "rx map" -> SetRxMap
    [] p = "rssi" -> SetRssiConfig
    [] p = "motors" -> SetMotorConfig
    [] p = "arming" -> SetArmingPage
    [] p = "deadband" -> SetRcDeadband
    [] p = "rx" -> SetRxConfig
    [] p = "failsafe" -> SetFailsafePage
    [] p = "rx fail" -> SetRxFailConfig(ByteAt(msg, 1))
    [] p = "rc tuning" -> SetRcTuning(msg)
    [] p = "advanced" -> SetAdvancedConfig
    [] p = "filters" -> SetFilterPage
    [] p = "pid" -> SetPid
    [] p = "pid advanced" -> SetPidAdvanced
    [] p = "servos" -> SetServoConfiguration(ByteAt(msg, 1))
    [] p = "vtx" -> SetVtxPage
    [] p = "gps" -> SetGpsPage

(***************************************************************************)
(* sanitize(), as far as pages that reload the model show it; the rates    *)
(* are those of a page with all of them, or else of the rest of a          *)
(* configuration in order.  The first use of a board is left out, see      *)
(* Setup.                                                                  *)
(***************************************************************************)
Reloads(p) ==
  p \in {"features", "sensors", "ports", "common ports", "motors", "rx", "advanced", "filters",
         "pid", "pid advanced"}

Pwm == 0
Oneshot125 == 1
Oneshot42 == 2
Multishot == 3
Brushed == 4
Dshot600 == 7
Disabled == 9

(* The bits of a mask that are allowed.                                    *)
Masked(mask, bits) == MapThenSumSet(LAMBDA b : 2 ^ b * ((mask \div 2 ^ b) % 2), bits)
FunctionBits == {0, 1, 2, 3, 6, 7, 11, 12}
FeatureBits(loopRate) ==
  {0, 3, 4, 6, 7, 10, 25} \cup IF loopRate >= 1000 THEN {29} ELSE {}

TopPwmRate(protocol) ==
  CASE protocol = Pwm -> 480 [] protocol = Oneshot42 -> 4000
    [] protocol \in {Brushed, Multishot} -> 8000 [] OTHER -> 2000

SlowerThan(sync, limit) ==
  IF GyroRate \div sync > limit
  THEN LET least == (GyroRate + limit - 1) \div limit IN IF sync < least THEN least ELSE sync
  ELSE sync

SanitizeRates(config) ==
  LET Of(name) == config[<<name, 0>>]
      protocol == IF Of("protocol") > Dshot600 /\ Of("protocol") # Disabled
                  THEN Dshot600 ELSE Of("protocol")
      async == CASE protocol = Brushed -> 1 [] protocol \in 5..8 -> 0 [] OTHER -> Of("async")
      first == IF Of("loopSync") < 1 THEN 1 ELSE Of("loopSync")
  IN [config EXCEPT
        ![<<"protocol", 0>>] = protocol, ![<<"async", 0>>] = async,
        ![<<"pwmRate", 0>>] = IF async # 0 THEN Clamp(@, 50, TopPwmRate(protocol)) ELSE @,
        ![<<"loopSync", 0>>] =
           CASE async = 0 /\ protocol = Pwm -> SlowerThan(first, 500)
             [] async = 0 /\ protocol = Oneshot125 -> SlowerThan(first, 2000)
             [] OTHER -> first]

SanitizeField(field, v) ==
  CASE field[1] = "featureMask" -> Masked(v, FeatureBits(GyroRate))
    [] field[1] = "functionMask" -> Masked(v, FunctionBits)
    [] field[1] = "dynCount" -> Clamp(v, 0, 6)
    [] field[1] = "motorLimit" -> IF v < 1 \/ v > 100 THEN 100 ELSE v
    [] OTHER -> v

Sanitize(p, config) ==
  LET clean == [f \in DOMAIN config |-> SanitizeField(f, config[f])]
  IN CASE ~Reloads(p) -> config
       [] p = "advanced" -> SanitizeRates(config)
       [] OTHER -> clean

Refused(p, msg) ==
  CASE p = "mode ranges" ->
         ByteAt(msg, 1) >= Conditions \/ FromMspBoxId(ByteAt(msg, 2)) >= ModeCount
    [] p = "rx fail" -> ByteAt(msg, 1) >= Channels
    [] p = "servos" -> ByteAt(msg, 1) >= Outputs
    [] p = "ports" -> Len(msg) % 7 # 0
    [] p = "common ports" -> Len(msg) > 0 /\ (Len(msg) - 1) % 9 # 0
    [] p = "rc tuning" -> Len(msg) < 10
    [] OTHER -> FALSE

ValueIn(config, item) == IF IsConstant(item) THEN item.field[2] ELSE config[item.field]

Answer(p, config) ==
  FlattenSeq([i \in 1..Len(Layout(p)) |->
    LET item == Layout(p)[i] IN Bytes(ToWire(item.as, ValueIn(config, item)), item.w)])

Follower(field) == <<field[1], Pitch>>

Assign(config, item, x) ==
  LET value == Stored(Type(item.field), FromWire(item.as, x))
      both == item.as = "leads" /\ config[Follower(item.field)] = config[item.field]
  IN CASE IsConstant(item) -> config
       [] both -> [config EXCEPT ![item.field] = value, ![Follower(item.field)] = value]
       [] OTHER -> [config EXCEPT ![item.field] = value]

(* Bytes that did not come read as zero.                                   *)
TakeItem(state, item, msg) ==
  [at |-> IF state.at + item.w > Len(msg) THEN Len(msg) + 1 ELSE state.at + item.w,
   config |-> Assign(state.config, item, Number(msg, state.at, item.w))]

TakePart(state, part, msg) ==
  IF Len(msg) - state.at + 1 >= part.need
    THEN FoldLeft(LAMBDA st, item : TakeItem(st, item, msg), state, part.items)
    ELSE state

Taken(p, msg, config) ==
  FoldLeft(LAMBDA st, part : TakePart(st, part, msg), [at |-> 1, config |-> config],
           Parts(p, msg)).config

-----------------------------------------------------------------------------
(* The configurator.  It knows where the values of what it read go in what *)
(* it writes: mostly, they stay where they were.                           *)

Width(items) == FoldLeft(LAMBDA n, item : n + item.w, 0, items)

Message(p, e, b) ==
  CASE p = "mode ranges" ->
         <<e>> \o SubSeq(b, 4 * e + 1, 4 * e + 4)
         \o SubSeq(b, 4 * Conditions + 3 * e + 3, 4 * Conditions + 3 * e + 4)
    [] p = "voltage meters" -> <<b[3]>> \o SubSeq(b, 5, 7)
    [] p = "current meters" -> <<b[3]>> \o SubSeq(b, 5, 8)
    [] p = "alignment" -> SubSeq(b, 1, 3) \o SubSeq(b, 5, 7)
    [] p = "blackbox" -> SubSeq(b, 2, 6)
    [] p = "motors" -> SubSeq(b, 1, 6) \o SubSeq(b, 8, 9)
    [] p = "rx fail" -> <<e>> \o SubSeq(b, 3 * e + 1, 3 * e + 3)
    [] p = "servos" -> <<e>> \o SubSeq(b, 12 * e + 1, 12 * e + 12)
    [] p = "vtx" -> <<0, 0, b[4], 0, b[9], 0, 0, b[2], b[3], 0, 0>>
    [] OTHER -> b

(* Of the parts the configurator knows, the items with their places.       *)
Placed(parts, n) ==
  FoldLeft(LAMBDA st, item : [at |-> st.at + item.w,
                              items |-> Append(st.items, [item |-> item, at |-> st.at])],
           [at |-> 1, items |-> <<>>],
           FlattenSeq([i \in 1..n |-> parts[i].items]))

(* The items of a setting, all of which the configurator sets.             *)
PlacesOf(placed, field) == {i \in 1..Len(placed) : placed[i].item.field = field}

Edited(msg, placed, field, value) ==
  [k \in 1..Len(msg) |->
     LET here == {i \in PlacesOf(placed, field) :
                    placed[i].at <= k /\ k < placed[i].at + placed[i].item.w}
     IN IF here = {} THEN msg[k]
        ELSE LET i == CHOOSE i \in here : TRUE
             IN Bytes(ToWire(placed[i].item.as, value), placed[i].item.w)[k - placed[i].at + 1]]

Fields(p) ==
  {Layout(p)[i].field : i \in {j \in 1..Len(Layout(p)) : ~IsConstant(Layout(p)[j])}}

Extremes(field) ==
  LET type == Type(field) IN
  CASE field[1] = "id" -> 0..(ModeCount - 1)
    [] type = "U8" -> {0, 1, 200, 255}
    [] type = "I8" -> {-128, 0, 1, 127}
    [] type = "I16" -> {-32768, 0, 255, 300, 1550, 32767}
    [] type = "I32" -> {-2000000000, 0, 300, 65537, 115200, 2000000000}
    [] type = "BOOL" -> {0, 1}

(* Every setting with a value of its own, and all alike.                   *)
Place(p, f) == CHOOSE i \in 1..Len(Layout(p)) :
                 Layout(p)[i].field = f /\ \A j \in (i + 1)..Len(Layout(p)) : Layout(p)[j].field # f

Mixture(p) ==
  [f \in Fields(p) |->
     LET k == Place(p, f) IN
     CASE Layout(p)[k].as = "step" -> 900 + 25 * k
       [] Layout(p)[k].as = "box" -> k % ModeCount
       [] Layout(p)[k].as = "baud" -> BaudRates[(k % 15) + 2]
       [] Layout(p)[k].as = "derivative" -> Biquad
       [] f[1] = "tpaBreakpoint" -> 1500
       [] f[1] \in {"vbatSource", "ibatSource"} -> k % 2
       [] Type(f) \in {"I16", "I32"} /\ Layout(p)[k].w > 1 -> 256 + k
       [] Type(f) = "BOOL" -> 1
       [] OTHER -> k]

Alike(p) == [f \in Fields(p) |-> IF Type(f) = "BOOL" THEN 1 ELSE 8]

Extreme(p) ==
  UNION {{[Mixture(p) EXCEPT ![f] = v] : v \in Extremes(f)} : f \in Fields(p)}

-----------------------------------------------------------------------------
Nothing == <<>>

Init ==
  /\ phase = "closed" /\ page = [name |-> "none", entry |-> 0]
  /\ settings = Nothing /\ before = Nothing /\ meant = Nothing
  /\ known = 0 /\ wire = <<>> /\ accepted = TRUE

Entries(p) ==
  CASE p = "mode ranges" -> Conditions
    [] p = "rx fail" -> Channels
    [] p = "servos" -> Outputs
    [] OTHER -> 1

Open ==
  /\ phase = "closed" /\ phase' = "open"
  /\ \E p \in Pages : \E e \in 0..(Entries(p) - 1) :
       /\ page' = [name |-> p, entry |-> e]
       /\ settings' \in {Mixture(p), Alike(p)} \cup Extreme(p)
  /\ before' = settings' /\ meant' = settings'
  /\ UNCHANGED <<known, wire, accepted>>

Read ==
  /\ phase = "open" /\ phase' = "read"
  /\ wire' = Answer(page.name, settings)
  /\ UNCHANGED <<page, settings, before, meant, known, accepted>>

Unedited == Message(page.name, page.entry, wire)

(* As read, or with one setting changed, as far as the configurator goes.  *)
Send ==
  /\ phase = "read" /\ phase' = "sent"
  /\ LET msg == Unedited
         parts == Parts(page.name, msg)
     IN \E n \in 1..Len(parts) :
          LET placed == Placed(parts, n).items
              whole == Placed(parts, n).at - 1
              shown == {placed[i].item.field : i \in {j \in 1..Len(placed) : ~IsConstant(placed[j].item)}}
              cut == IF n = Len(parts) THEN msg ELSE SubSeq(msg, 1, whole)
          IN /\ known' = n
             /\ \/ wire' = cut /\ UNCHANGED meant
                \/ /\ settings \in {Mixture(page.name), Alike(page.name)}
                   /\ \E f \in shown : \E v \in Extremes(f) :
                        /\ wire' = Edited(cut, placed, f, v)
                        /\ meant' = [settings EXCEPT ![f] = v]
  /\ UNCHANGED <<page, settings, before, accepted>>

(* A configurator of another board sends a port that this one has not.     *)
Foreign == 5
SendForeign ==
  /\ phase = "read" /\ phase' = "sent"
  /\ page.name \in {"ports", "common ports"}
  /\ wire' = IF page.name = "ports" THEN <<Foreign, 1, 0, 5, 5, 5, 5>> \o wire
             ELSE <<wire[1] + 1, Foreign, 1, 0, 0, 0, 5, 5, 5, 5>> \o Tail(wire)
  /\ known' = Len(Parts(page.name, wire'))
  /\ UNCHANGED <<page, settings, before, meant, accepted>>

(* A write that ends anywhere, or names an entry that there is not.        *)
SendDamaged ==
  /\ phase = "read" /\ phase' = "sent"
  /\ settings = Mixture(page.name)
  /\ LET msg == Unedited
     IN \/ \E n \in 0..(Len(msg) - 1) : wire' = SubSeq(msg, 1, n)
        \/ Len(msg) > 0 /\ wire' = <<200>> \o Tail(msg)
        \/ Len(msg) > 1 /\ wire' = <<msg[1], 200>> \o SubSeq(msg, 3, Len(msg))
  /\ known' = 0
  /\ UNCHANGED <<page, settings, before, meant, accepted>>

Write ==
  /\ phase = "sent" /\ phase' = "written"
  /\ accepted' = ~Refused(page.name, wire)
  /\ LET taken == Taken(page.name, wire, settings)
     IN settings' = IF accepted' THEN Sanitize(page.name, taken) ELSE taken
  /\ UNCHANGED <<page, before, meant, known, wire>>

Close ==
  /\ phase = "written" /\ phase' = "closed" /\ page' = [name |-> "none", entry |-> 0]
  /\ settings' = Nothing /\ before' = Nothing /\ meant' = Nothing
  /\ known' = 0 /\ wire' = <<>> /\ accepted' = TRUE

Next == Open \/ Read \/ Send \/ SendForeign \/ SendDamaged \/ Write \/ Close

Spec == Init /\ [][Next]_vars

-----------------------------------------------------------------------------
TypeOK ==
  /\ phase \in {"closed", "open", "read", "sent", "written"}
  /\ page \in [name : Pages \cup {"none"}, entry : 0..255]
  /\ known \in 0..Len(wire) /\ accepted \in BOOLEAN
  /\ \A i \in 1..Len(wire) : wire[i] \in 0..255

(* What a place on a page can carry of a setting, as the protocol has it.  *)
Carries(item, v) ==
  CASE item.w = 0 -> FALSE
    [] item.as \in {"raw", "leads"} ->
         \/ Type(item.field) \in {"I8", "BOOL"} \/ item.w = 4
         \/ Type(item.field) = "I16" /\ item.w = 2
         \/ v \in 0..(256 ^ item.w - 1)
    [] item.as = "low" -> v \in 0..255
    [] item.as = "tenths" -> v \in 0..2550 /\ v % 10 = 0
    [] item.as = "source" -> v \in {0, 1}
    [] item.as = "box" -> v \in 0..(ModeCount - 1)
    [] item.as = "step" -> v \in 900..7275 /\ v % 25 = 0
    [] item.as = "baud" -> v \in Range(BaudRates)
    [] item.as = "derivative" -> v \in {NoFilter, Pt3, Biquad}
    [] item.as = "trim" -> v \in -300..300
    [] item.as = "tpa" -> v \in 0..90
    [] item.as = "breakpoint" -> v \in 1000..2000
    [] item.as = "angle" -> v \in 0..180
    [] OTHER -> TRUE

(***************************************************************************)
(* A configurator, old or new, that reads a page, changes one setting or   *)
(* none and writes the page back leaves every setting as it means it to    *)
(* be, in the limits of the model: no other setting changes, whatever the  *)
(* page has around it, but for what a place on the page cannot carry and   *)
(* for the pitch that goes with the roll as long as the two are alike.  A  *)
(* write that is refused, be it cut off or for an entry that there is not, *)
(* changes nothing.                                                        *)
(***************************************************************************)
IsAsMeant(field) ==
  LET placed == Placed(Parts(page.name, wire), known).items
      places == PlacesOf(placed, field)
      last == CHOOSE i \in places : \A j \in places : j <= i
      wanted == Sanitize(page.name, meant)[field]
  IN IF places = {}
       THEN \/ settings[field] = wanted
            \/ \E f \in DOMAIN settings :
                 /\ f[1] \in {"rate", "expo"} /\ f[2] = Roll /\ Follower(f) = field
                 /\ before[f] = before[field] /\ settings[f] = settings[field]
       ELSE Carries(placed[last].item, meant[field]) => settings[field] = wanted

PageIsKept ==
  phase = "written" =>
    /\ known > 0 => accepted /\ \A field \in DOMAIN settings : IsAsMeant(field)
    /\ ~accepted => settings = before
=============================================================================
