--------------------------- MODULE BlackboxFrames ---------------------------
(***************************************************************************)
(* What a log says and what a reader makes of it: the field tables of      *)
(* betaflight's blackbox.c, the header made from them, the frames the code *)
(* writes apart from them, byte by byte, and a reader who knows the header *)
(* only.  Blackbox has the states around this and the flash below it.      *)
(*                                                                         *)
(* A step is one Blackbox::update.  The craft is one of Crafts, records of *)
(* what updateData takes from the model, in the units of the log.          *)
(***************************************************************************)
EXTENDS BlackboxEncoding

CONSTANTS
  Crafts,        \* sequence: what the craft may be like at an update
  Setups,        \* configurations at boot
  Looptime,      \* of the PID loop, in microseconds
  SlowFactor,    \* a slow frame at least every so many I intervals (256)
  HomeEvery,     \* the home position again every so many I frames (128)
  Clock,         \* the time of each update, a sequence
  BeepAt,        \* the update at which the arming beep is played
  Spaces,        \* header columns for which the buffer may have room
  Losses         \* bound: updates whose bytes the reader does not get

VARIABLES
  setup,     \* the configuration since boot
  craft,     \* index of what the craft is like now
  shown,     \* index of what it was like at the last updateData
  rssi,      \* an RSSI channel is configured
  switch,    \* BLACKBOX is on
  rec,       \* the recorder's memory
  updates,   \* updates since recording began
  reader,    \* what a reader of the log has made of it
  losses

vars == <<setup, craft, shown, rssi, switch, rec, updates, reader, losses>>

Now == Clock[updates]

-----------------------------------------------------------------------------
(***************************************************************************)
(* The configuration, which Blackbox::begin and blackboxInit copy at boot. *)
(***************************************************************************)
Log2(n) == IF n = 0 THEN 0 ELSE CHOOSE k \in 0..15 : 2^k <= n /\ n < 2^(k + 1)

SampleRate(s) ==
  IF s.pDenom \in 0..4 THEN s.pDenom ELSE Log2(32000 \div (Looptime * s.pDenom))

BlackboxIInterval == 32000 \div Looptime

(* No P interval longer than the I interval: then there are I frames only. *)
BlackboxPInterval ==
  LET interval == 2^SampleRate(setup) IN IF interval > BlackboxIInterval THEN 0 ELSE interval

SInterval == BlackboxIInterval * SlowFactor

OnlyIntraframes == BlackboxPInterval = 0

FieldEnabled(field) == field \in setup.fields

GpsLogged == setup.gps /\ FieldEnabled("GPS")

(* The lowest motor output: of a pulse or of a DSHOT command. *)
MotorOutputLow == IF setup.digital THEN 47 ELSE 1000

-----------------------------------------------------------------------------
(***************************************************************************)
(* Whether a field is logged: a condition and, where there are several, a  *)
(* number.  The answers are cached when a log begins.                      *)
(***************************************************************************)
TestConditionUncached(c, n) ==
  CASE c = "ALWAYS" -> TRUE
    [] c = "AT_LEAST_MOTORS" -> setup.motors >= n /\ FieldEnabled("MOTOR")
    [] c = "MOTOR_HAS_RPM" -> setup.motors >= n /\ setup.telemetry /\ FieldEnabled("RPM")
    [] c = "TRICOPTER" -> FALSE
    [] c = "NONZERO_PID_D" -> n \in setup.dterm /\ FieldEnabled("PID")
    [] c \in {"PID", "RC_COMMANDS", "SETPOINT", "GYRO", "GYROUNFILT"} -> FieldEnabled(c)
    [] c = "MAG" -> setup.mag /\ FieldEnabled("MAG")
    [] c = "BARO" -> setup.baro /\ FieldEnabled("ALTITUDE")
    [] c = "VBAT" -> setup.vbat /\ FieldEnabled("BATTERY")
    [] c = "AMPERAGE_ADC" -> setup.current /\ FieldEnabled("BATTERY")
    [] c = "RSSI" -> rssi /\ FieldEnabled("RSSI")
    [] c = "ACC" -> setup.acc /\ FieldEnabled("ACC")
    [] c = "DEBUG_LOG" -> setup.debugging /\ FieldEnabled("DEBUG_LOG")
    [] c = "NOT_LOGGING_EVERY_FRAME" -> BlackboxPInterval # BlackboxIInterval

Conditions ==
  ({"ALWAYS", "TRICOPTER", "PID", "RC_COMMANDS", "SETPOINT", "GYRO", "GYROUNFILT", "MAG",
    "BARO", "VBAT", "AMPERAGE_ADC", "RSSI", "ACC", "DEBUG_LOG", "NOT_LOGGING_EVERY_FRAME"} \X {1})
    \union ({"AT_LEAST_MOTORS", "MOTOR_HAS_RPM"} \X (1..8)) \union ({"NONZERO_PID_D"} \X (1..3))

BuildConditionCache == {c \in Conditions : TestConditionUncached(c[1], c[2])}

Test(c) == <<c, 1>> \in rec.conditions
TestNth(c, n) == <<c, n>> \in rec.conditions

-----------------------------------------------------------------------------
(***************************************************************************)
(* The field tables: names, and for I and P frames what is predicted and   *)
(* how the difference is encoded.                                          *)
(***************************************************************************)
Array(name, size, sign, ip, ie, pp, pe, condition) ==
  [k \in 1..size |->
     [name |-> <<name, k>>, row |-> <<sign, ip, ie, pp, pe>>,
      condition |-> <<condition,
        IF condition \in {"AT_LEAST_MOTORS", "MOTOR_HAS_RPM", "NONZERO_PID_D"} THEN k ELSE 1>>]]

MainFields ==
  Array("loopIteration", 1, "U", "0", "UNSIGNED_VB", "INC", "NULL", "ALWAYS")
  \o Array("time", 1, "U", "0", "UNSIGNED_VB", "STRAIGHT_LINE", "SIGNED_VB", "ALWAYS")
  \o Array("axisP", 3, "S", "0", "SIGNED_VB", "PREVIOUS", "SIGNED_VB", "PID")
  \o Array("axisI", 3, "S", "0", "SIGNED_VB", "PREVIOUS", "TAG2_3S32", "PID")
  \o Array("axisD", 3, "S", "0", "SIGNED_VB", "PREVIOUS", "SIGNED_VB", "NONZERO_PID_D")
  \o Array("axisF", 3, "S", "0", "SIGNED_VB", "PREVIOUS", "SIGNED_VB", "PID")
  \o Array("rcCommand", 3, "S", "0", "SIGNED_VB", "PREVIOUS", "TAG8_4S16", "RC_COMMANDS")
  \o Array("throttle", 1, "U", "0", "UNSIGNED_VB", "PREVIOUS", "TAG8_4S16", "RC_COMMANDS")
  \o Array("setpoint", 4, "S", "0", "SIGNED_VB", "PREVIOUS", "TAG8_4S16", "SETPOINT")
  \o Array("vbatLatest", 1, "U", "VBATREF", "NEG_14BIT", "PREVIOUS", "TAG8_8SVB", "VBAT")
  \o Array("amperageLatest", 1, "S", "0", "SIGNED_VB", "PREVIOUS", "TAG8_8SVB", "AMPERAGE_ADC")
  \o Array("magADC", 3, "S", "0", "SIGNED_VB", "PREVIOUS", "TAG8_8SVB", "MAG")
  \o Array("baroAlt", 1, "S", "0", "SIGNED_VB", "PREVIOUS", "TAG8_8SVB", "BARO")
  \o Array("rssi", 1, "U", "0", "UNSIGNED_VB", "PREVIOUS", "TAG8_8SVB", "RSSI")
  \o Array("gyroADC", 3, "S", "0", "SIGNED_VB", "AVERAGE_2", "SIGNED_VB", "GYRO")
  \o Array("gyroUnfilt", 3, "S", "0", "SIGNED_VB", "AVERAGE_2", "SIGNED_VB", "GYROUNFILT")
  \o Array("accSmooth", 3, "S", "0", "SIGNED_VB", "AVERAGE_2", "SIGNED_VB", "ACC")
  \o Array("debug", 8, "S", "0", "SIGNED_VB", "AVERAGE_2", "SIGNED_VB", "DEBUG_LOG")
  \o SubSeq(Array("motor", 1, "U", "MINMOTOR", "UNSIGNED_VB", "AVERAGE_2", "SIGNED_VB",
                  "AT_LEAST_MOTORS"), 1, 1)
  \o SubSeq(Array("motor", 8, "U", "MOTOR_0", "SIGNED_VB", "AVERAGE_2", "SIGNED_VB",
                  "AT_LEAST_MOTORS"), 2, 8)
  \o Array("servo", 1, "U", "1500", "SIGNED_VB", "PREVIOUS", "SIGNED_VB", "TRICOPTER")
  \o Array("eRPM", 8, "U", "0", "UNSIGNED_VB", "PREVIOUS", "SIGNED_VB", "MOTOR_HAS_RPM")

(* Frames without P frames have one predictor and one encoding. *)
Simple(name, size, sign, p, e, condition) == Array(name, size, sign, p, e, "0", "NULL", condition)

GpsGFields ==
  Simple("gpsTime", 1, "U", "LAST_MAIN_FRAME_TIME", "UNSIGNED_VB", "NOT_LOGGING_EVERY_FRAME")
  \o Simple("GPS_numSat", 1, "U", "0", "UNSIGNED_VB", "ALWAYS")
  \o Simple("GPS_coord", 2, "S", "HOME_COORD", "SIGNED_VB", "ALWAYS")
  \o Simple("GPS_altitude", 1, "U", "0", "UNSIGNED_VB", "ALWAYS")
  \o Simple("GPS_speed", 1, "U", "0", "UNSIGNED_VB", "ALWAYS")
  \o Simple("GPS_ground_course", 1, "U", "0", "UNSIGNED_VB", "ALWAYS")

GpsHFields == Simple("GPS_home", 2, "S", "0", "SIGNED_VB", "ALWAYS")

SlowFields ==
  Simple("flightModeFlags", 1, "U", "0", "UNSIGNED_VB", "ALWAYS")
  \o Simple("stateFlags", 1, "U", "0", "UNSIGNED_VB", "ALWAYS")
  \o Simple("failsafePhase", 1, "U", "0", "TAG2_3S32", "ALWAYS")
  \o Simple("rxSignalReceived", 1, "U", "0", "TAG2_3S32", "ALWAYS")
  \o Simple("rxFlightChannelsValid", 1, "U", "0", "TAG2_3S32", "ALWAYS")

Table(frame) ==
  CASE frame = "I" -> MainFields [] frame = "H" -> GpsHFields
    [] frame = "G" -> GpsGFields [] frame = "S" -> SlowFields

-----------------------------------------------------------------------------
(* The craft and the switch, which is one of its modes. *)
CraftWith(k, on) == [Crafts[k] EXCEPT !.slow.flightModeFlags = @ + IF on THEN 64 ELSE 0]

(***************************************************************************)
(* What is loaded from the model: updateData and the bridge, then          *)
(* loadMainState, which leaves motors that do not exist as they were.      *)
(***************************************************************************)
Clamp(v, low, high) == IF v < low THEN low ELSE IF v > high THEN high ELSE v

MotorValue(us) ==
  LET pulse == Clamp(us, 1000, 2000)
  IN IF setup.digital THEN (pulse - 1000) * 2 + 47 ELSE pulse

(* Four motors are handed over, the rest stay at zero. *)
Globals(c) ==
  [c EXCEPT
     !.rcCommand = <<c.input[1] - 1500, c.input[2] - 1500, 1500 - c.input[3]>>,
     !.motor = [k \in 1..8 |-> IF k <= 4 THEN MotorValue(c.motor[k]) ELSE 0],
     !.accSmooth = IF setup.acc THEN c.accSmooth ELSE <<0, 0, 0>>,
     !.magADC = IF setup.mag THEN c.magADC ELSE <<0, 0, 0>>,
     !.baroAlt = IF setup.baro THEN c.baroAlt ELSE <<0>>]

Battery(c) == <<Clamp(c.vbatLatest[1], 0, 32000)>>

MainNames ==
  {"axisP", "axisI", "axisD", "axisF", "rcCommand", "throttle", "setpoint", "vbatLatest",
   "amperageLatest", "magADC", "baroAlt", "rssi", "gyroADC", "gyroUnfilt", "accSmooth", "debug"}

(* getDshotErpm hands over 16 bits of an eRPM, which are kept as a signed number. *)
Int16(v) == ((v + 2^15) % 2^16) - 2^15

LoadMainState(state, c, now) ==
  LET g == [Globals(c) EXCEPT !.eRPM = [k \in 1..8 |-> Int16(@[k])]]
      Existing(name) == [k \in 1..8 |-> IF k <= setup.motors THEN g[name][k] ELSE state[name][k]]
  IN [time |-> <<now>>,
      axisP |-> g.axisP, axisI |-> g.axisI, axisD |-> g.axisD, axisF |-> g.axisF,
      rcCommand |-> g.rcCommand, throttle |-> <<g.input[4]>>, setpoint |-> g.setpoint,
      vbatLatest |-> Battery(g), amperageLatest |-> g.amperageLatest,
      magADC |-> g.magADC, baroAlt |-> g.baroAlt, rssi |-> g.rssi,
      gyroADC |-> g.gyroADC, gyroUnfilt |-> g.gyroUnfilt, accSmooth |-> g.accSmooth, debug |-> g.debug,
      motor |-> Existing("motor"), eRPM |-> Existing("eRPM")]

EmptyState ==
  [name \in MainNames \union {"time", "motor", "eRPM"} |-> [k \in 1..8 |-> 0]]

-----------------------------------------------------------------------------
(***************************************************************************)
(* The frames.  history[1] is where the next one is loaded, history[2] and *)
(* history[3] are the last and the one before, all places of the ring.     *)
(***************************************************************************)
Mark(frame) ==
  CASE frame = "I" -> 73 [] frame = "P" -> 80 [] frame = "S" -> 83
    [] frame = "G" -> 71 [] frame = "H" -> 72 [] frame = "E" -> 69

History(r, age) == r.ring[r.history[age + 1]]

Loaded(r, c, now) == [r EXCEPT !.ring[r.history[1]] = LoadMainState(@, c, now)]

(* Mutant: the ring has two places. *)
NextPlace_OfTwo(place) == (place % 2) + 1

NextPlace(place) == (place % 3) + 1

IfTest(bytes, c) == IF Test(c) THEN bytes ELSE <<>>
IfEnabled(bytes, field) == IF FieldEnabled(field) THEN bytes ELSE <<>>

(* Of an array those whose condition holds, n at most. *)
Those(values, n, condition) ==
  LET some == SelectSeq([k \in 1..n |-> k], LAMBDA k : TestNth(condition, k))
  IN [k \in DOMAIN some |-> values[some[k]]]

UnsignedVBArray(vs) == FlattenSeq([k \in DOMAIN vs |-> UnsignedVB(vs[k])])

Intraframe(r) ==
  LET s == History(r, 0)
      motors == SubSeq(s.motor, 2, setup.motors)
  IN <<Mark("I")>>
     \o UnsignedVB(r.iteration) \o UnsignedVB(s.time[1])
     \o IfTest(SignedVBArray(s.axisP \o s.axisI \o Those(s.axisD, 3, "NONZERO_PID_D") \o s.axisF), "PID")
     \o IfTest(SignedVBArray(s.rcCommand) \o UnsignedVB(s.throttle[1]), "RC_COMMANDS")
     \o IfTest(SignedVBArray(s.setpoint), "SETPOINT")
     \o IfTest(UnsignedVB(Low(r.vbatReference - s.vbatLatest[1], 14)), "VBAT")
     \o IfTest(SignedVB(s.amperageLatest[1]), "AMPERAGE_ADC")
     \o IfTest(SignedVBArray(s.magADC), "MAG")
     \o IfTest(SignedVB(s.baroAlt[1]), "BARO")
     \o IfTest(UnsignedVB(s.rssi[1]), "RSSI")
     \o IfTest(SignedVBArray(s.gyroADC), "GYRO")
     \o IfTest(SignedVBArray(s.gyroUnfilt), "GYROUNFILT")
     \o IfTest(SignedVBArray(s.accSmooth), "ACC")
     \o IfTest(SignedVBArray(s.debug), "DEBUG_LOG")
     \o IfEnabled(UnsignedVB(s.motor[1] - MotorOutputLow)
                    \o SignedVBArray([k \in DOMAIN motors |-> motors[k] - s.motor[1]]), "MOTOR")
     \o IfEnabled(UnsignedVBArray(Those(s.eRPM, setup.motors, "MOTOR_HAS_RPM")), "RPM")

(* As division in C does. *)
Half(v) == IF v >= 0 THEN v \div 2 ELSE -(-v \div 2)

Minus(v, w) == [k \in DOMAIN v |-> v[k] - w[k]]

AveragePredicted(r, name, n) ==
  LET s == History(r, 0)[name]
      guess == [k \in 1..n |-> Half(History(r, 1)[name][k] + History(r, 2)[name][k])]
  IN SignedVBArray([k \in 1..n |-> s[k] - guess[k]])

(* Signed, as the cast to int32_t makes it. *)
Signed(v) == ((v + Word \div 2) % Word) - Word \div 2

Interframe(r) ==
  LET s == History(r, 0)
      last == History(r, 1)
      Change(name) == Minus(s[name], last[name])
      Optional(name, c) == IF Test(c) THEN Change(name) ELSE <<>>
  IN <<Mark("P")>>
     \o SignedVB(Signed(s.time[1] - 2 * last.time[1] + History(r, 2).time[1]))
     \o IfTest(SignedVBArray(Change("axisP")) \o Tag2_3S32(Change("axisI"))
                 \o SignedVBArray(Those(Change("axisD"), 3, "NONZERO_PID_D"))
                 \o SignedVBArray(Change("axisF")), "PID")
     \o IfTest(Tag8_4S16(Change("rcCommand") \o Change("throttle")), "RC_COMMANDS")
     \o IfTest(Tag8_4S16(Change("setpoint")), "SETPOINT")
     \o Tag8_8SVB(Optional("vbatLatest", "VBAT") \o Optional("amperageLatest", "AMPERAGE_ADC")
                    \o Optional("magADC", "MAG") \o Optional("baroAlt", "BARO")
                    \o Optional("rssi", "RSSI"))
     \o IfTest(AveragePredicted(r, "gyroADC", 3), "GYRO")
     \o IfTest(AveragePredicted(r, "gyroUnfilt", 3), "GYROUNFILT")
     \o IfTest(AveragePredicted(r, "accSmooth", 3), "ACC")
     \o IfTest(AveragePredicted(r, "debug", 8), "DEBUG_LOG")
     \o IfEnabled(AveragePredicted(r, "motor", setup.motors), "MOTOR")
     \o IfEnabled(SignedVBArray(Those(Change("eRPM"), setup.motors, "MOTOR_HAS_RPM")), "RPM")

-----------------------------------------------------------------------------
(***************************************************************************)
(* A step works on the recorder and what it writes.                        *)
(***************************************************************************)
Put(t, bytes) == [t EXCEPT !.out = @ \o bytes]

WriteIntraframe(t) ==
  [Put(t, Intraframe(t.rec)) EXCEPT
     !.rec.history = <<NextPlace(@[1]), @[1], @[1]>>]

WriteInterframe(t) ==
  [Put(t, Interframe(t.rec)) EXCEPT
     !.rec.history = <<NextPlace(@[1]), @[1], @[2]>>]

WriteSlowFrame(t) ==
  LET s == t.rec.slow
  IN [Put(t, <<Mark("S")>> \o UnsignedVB(s.flightModeFlags) \o UnsignedVB(s.stateFlags)
               \o Tag2_3S32(<<s.failsafePhase, s.rxSignalReceived, s.rxFlightChannelsValid>>))
        EXCEPT !.rec.slowTimer = 0]

WriteSlowFrameIfNeeded(t, c) ==
  IF t.rec.slowTimer >= SInterval \/ t.rec.slow # c.slow
  THEN WriteSlowFrame([t EXCEPT !.rec.slow = c.slow]) ELSE t

SyncBeep == 0
LoggingResume == 14
FlightMode == 30

LogEvent(t, id, numbers) == Put(t, <<Mark("E"), id>> \o UnsignedVBArray(numbers))

CheckAndLogArmingBeep(t) ==
  IF t.rec.beep # t.rec.lastBeep
  THEN LogEvent([t EXCEPT !.rec.lastBeep = t.rec.beep], SyncBeep, <<t.rec.beep>>) ELSE t

CheckAndLogFlightMode(t, c) ==
  LET flags == c.slow.flightModeFlags
  IN IF flags # t.rec.lastFlags
     THEN LogEvent([t EXCEPT !.rec.lastFlags = flags], FlightMode, <<flags, t.rec.lastFlags>>)
     ELSE t

ShouldLogIFrame(r) == r.loopIndex = 0
ShouldLogPFrame(r) == r.pFrameIndex = 0 /\ BlackboxPInterval # 0

ShouldLogGpsHomeFrame(r, g) ==
  \/ g.home # r.gps.home
  \/ r.pFrameIndex = BlackboxIInterval \div 2 /\ r.iFrameIndex % HomeEvery = 0

WriteGpsHomeFrame(t, g) ==
  [Put(t, <<Mark("H")>> \o SignedVBArray(g.home)) EXCEPT !.rec.gps.home = g.home]

WriteGpsFrame(t, g, now) ==
  LET since == now - History(t.rec, 1).time[1]
  IN [Put(t, <<Mark("G")>> \o IfTest(UnsignedVB(since), "NOT_LOGGING_EVERY_FRAME")
               \o UnsignedVB(g.numSat)
               \o SignedVBArray(Minus(g.coord, t.rec.gps.home))
               \o UnsignedVB(g.altCm \div 10) \o UnsignedVB(g.speed) \o UnsignedVB(g.course))
        EXCEPT !.rec.gps.numSat = g.numSat, !.rec.gps.coord = g.coord]

LogGps(t, g, now) ==
  CASE ~GpsLogged -> t
    [] GpsLogged /\ ShouldLogGpsHomeFrame(t.rec, g) -> WriteGpsFrame(WriteGpsHomeFrame(t, g), g, now)
    [] GpsLogged /\ ~ShouldLogGpsHomeFrame(t.rec, g)
         /\ (g.numSat # t.rec.gps.numSat \/ g.coord # t.rec.gps.coord) -> WriteGpsFrame(t, g, now)
    [] OTHER -> t

(* c is what the craft is like, d what updateData last saw of it. *)
LogIteration(t, c, d, now) ==
  LET slow == IF OnlyIntraframes THEN WriteSlowFrameIfNeeded(t, c) ELSE t
      events == CheckAndLogFlightMode(CheckAndLogArmingBeep(t), c)
      noted == WriteSlowFrameIfNeeded(events, c)
      main == IF ShouldLogPFrame(t.rec)
              THEN WriteInterframe([noted EXCEPT !.rec = Loaded(@, d, now)]) ELSE events
  IN IF ShouldLogIFrame(t.rec)
     THEN WriteIntraframe([slow EXCEPT !.rec = Loaded(@, d, now)])
     ELSE LogGps(main, d.gps, now)

AdvanceIterationTimers(t) ==
  LET r == [t.rec EXCEPT !.slowTimer = @ + 1, !.iteration = @ + 1]
      wraps == r.loopIndex + 1 >= BlackboxIInterval
  IN [t EXCEPT !.rec =
        [r EXCEPT !.loopIndex = IF wraps THEN 0 ELSE @ + 1,
                  !.iFrameIndex = IF wraps THEN @ + 1 ELSE @,
                  !.pFrameIndex = IF wraps \/ @ + 1 >= BlackboxPInterval THEN 0 ELSE @ + 1]]

-----------------------------------------------------------------------------
(***************************************************************************)
(* The header: a line for each row of a table, cut off wherever the buffer *)
(* has no more room, and the settings a reader needs.                      *)
(***************************************************************************)
FieldHeaderNames == <<"name", "signed", "predictor", "encoding", "predictor", "encoding">>

HeaderRows(frame) == IF frame = "I" THEN 6 ELSE 4

Cell(field, row) == IF row = 1 THEN field.name ELSE field.row[row - 1]

HeaderLine(r, frame, row) ==
  LET fields == SelectSeq(Table(frame), LAMBDA f : f.condition \in r.conditions)
      of == IF row > 4 THEN "P" ELSE frame
  IN <<[is |-> "begin"]>>
     \o [k \in DOMAIN fields |-> [is |-> "cell", cell |-> Cell(fields[k], row)]]
     \o <<[is |-> "end", of |-> of, row |-> FieldHeaderNames[row]]>>

NextSection(frame) ==
  CASE frame = "I" -> IF GpsLogged THEN "H" ELSE "S"
    [] frame = "H" -> "G" [] frame = "G" -> "S" [] frame = "S" -> "SYSINFO"

SendFieldDefinition(t, space) ==
  LET r == t.rec
      line == HeaderLine(r, r.section, r.row)
      n == IF r.sent + space < Len(line) THEN r.sent + space ELSE Len(line)
  IN [rec |-> CASE n < Len(line) -> [r EXCEPT !.sent = n]
                [] n = Len(line) /\ r.row < HeaderRows(r.section) ->
                     [r EXCEPT !.row = @ + 1, !.sent = 0]
                [] OTHER -> [r EXCEPT !.section = NextSection(@), !.row = 1, !.sent = 0],
      out |-> SubSeq(line, r.sent + 1, n)]

(* blackboxSetState: a slow frame is due whenever recording begins or goes on. *)
Running(r) == [r EXCEPT !.state = "RUNNING", !.slowTimer = SInterval]

(* Dividing by a P interval of zero for "P ratio" stops some processors; *)
(* the others go on.                                                     *)
Sysinfo(t) ==
  [rec |-> Running(t.rec),
   out |-> <<[is |-> "sysinfo", keyframes |-> BlackboxIInterval, interval |-> BlackboxPInterval, motorOutput |-> MotorOutputLow,
              vbatref |-> IF Test("VBAT") THEN t.rec.vbatReference ELSE 0]>>]

(* blackboxStart. *)
Started(c) ==
  [state |-> "HEADER", section |-> "I", row |-> 1, sent |-> 0,
   conditions |-> BuildConditionCache,
   vbatReference |-> Battery(c)[1],
   iteration |-> 0, loopIndex |-> 0, pFrameIndex |-> 0, iFrameIndex |-> 0, slowTimer |-> 0,
   ring |-> <<EmptyState, EmptyState, EmptyState>>, history |-> <<1, 2, 3>>,
   gps |-> [home |-> <<0, 0>>, coord |-> <<0, 0>>, numSat |-> 0],
   slow |-> [flightModeFlags |-> 0, stateFlags |-> 0, failsafePhase |-> 0,
             rxSignalReceived |-> 0, rxFlightChannelsValid |-> 0],
   lastFlags |-> c.slow.flightModeFlags, beep |-> 0, lastBeep |-> 0]

-----------------------------------------------------------------------------
(***************************************************************************)
(* A reader of the log, who goes by its header.  Beyond the end there are  *)
(* zeros, for bytes that were not written as the header says.              *)
(***************************************************************************)
ByteAt(bytes, pos) == IF pos <= Len(bytes) THEN bytes[pos] ELSE 0

(* A number of n digits to the given base, the lowest first. *)
Number(digits, base) ==
  LET sum[k \in 1..Len(digits) + 1] == IF k > Len(digits) THEN 0 ELSE digits[k] + base * sum[k + 1]
  IN sum[1]

VBLength(bytes, pos) ==
  CHOOSE n \in 1..4 :
    /\ n = 4 \/ ByteAt(bytes, pos + n - 1) < 128
    /\ \A k \in 1..n - 1 : ByteAt(bytes, pos + k - 1) >= 128

VB(bytes, pos, n) ==
  [pos |-> pos + n, vals |-> <<Number([k \in 1..n |-> Low(ByteAt(bytes, pos + k - 1), 7)], 128)>>]

(* A number that was read and where the next one begins. *)
ReadVB(bytes, pos) == VB(bytes, pos, VBLength(bytes, pos))

UnZigZag(v) == IF v % 2 = 0 THEN v \div 2 ELSE -(v \div 2) - 1

Extended(v, bits) == IF v >= 2^(bits - 1) THEN v - 2^bits ELSE v

UnZigZagged(read) == [read EXCEPT !.vals = <<UnZigZag(@[1])>>]

ReadSignedVB(bytes, pos) == UnZigZagged(ReadVB(bytes, pos))

(* A signed number of n bytes, the lowest first: the fourth has but four bits of a word. *)
SignedBytes(bytes, pos, n) ==
  Extended(Number([k \in 1..n |-> Low(ByteAt(bytes, pos + k - 1), IF k = 4 THEN 4 ELSE 8)], 256),
           IF n = 4 THEN 28 ELSE 8 * n)

(* The lowest bits of three bytes. *)
Three(a, b, c, bits) ==
  <<Extended(Low(a, bits), bits), Extended(Low(b, bits), bits), Extended(Low(c, bits), bits)>>

(* How many bytes the first j of three numbers have. *)
Taken(tag, j) == Number([k \in 1..j |-> Low(tag \div 4^(k - 1), 2) + 1], 1)

ReadTag2_3S32(bytes, pos) ==
  LET b == ByteAt(bytes, pos)
      c == ByteAt(bytes, pos + 1)
  IN CASE b \div 64 = 0 -> [pos |-> pos + 1, vals |-> Three(b \div 16, b \div 4, b, 2)]
       [] b \div 64 = 1 -> [pos |-> pos + 2, vals |-> Three(b, c \div 16, c, 4)]
       [] b \div 64 = 2 -> [pos |-> pos + 3, vals |-> Three(b, c, ByteAt(bytes, pos + 2), 6)]
       [] OTHER ->
            [pos |-> pos + 1 + Taken(b, 3),
             vals |-> [k \in 1..3 |->
                         SignedBytes(bytes, pos + 1 + Taken(b, k - 1), Taken(b, k) - Taken(b, k - 1))]]

(* How many nibbles the first j of four numbers have. *)
NibblesTaken(tag, j) == Number([k \in 1..j |-> <<0, 1, 2, 4>>[Low(tag \div 4^(k - 1), 2) + 1]], 1)

NibbleAt(bytes, pos, j) ==
  IF j % 2 = 0 THEN ByteAt(bytes, pos + j \div 2) \div 16 ELSE Low(ByteAt(bytes, pos + j \div 2), 4)

(* The number of n nibbles, the highest first, that ends before the j-th. *)
SignedNibbles(bytes, pos, j, n) ==
  IF n = 0 THEN 0
  ELSE Extended(Number([k \in 1..n |-> NibbleAt(bytes, pos, j - k)], 16), 4 * n)

ReadTag8_4S16(bytes, pos) ==
  LET tag == ByteAt(bytes, pos)
  IN [pos |-> pos + 1 + (NibblesTaken(tag, 4) + 1) \div 2,
      vals |-> [k \in 1..4 |->
                  SignedNibbles(bytes, pos + 1, NibblesTaken(tag, k),
                                NibblesTaken(tag, k) - NibblesTaken(tag, k - 1))]]

Joined(read, next) == [pos |-> next.pos, vals |-> read.vals \o next.vals]

AndMarked(read, bytes, marked) ==
  Joined(read, IF marked THEN ReadSignedVB(bytes, read.pos) ELSE [pos |-> read.pos, vals |-> <<0>>])

(* Those of n numbers that are marked. *)
ReadMarked(bytes, pos, marks, n) ==
  LET read[k \in 0..n] ==
        IF k = 0 THEN [pos |-> pos, vals |-> <<>>]
        ELSE AndMarked(read[k - 1], bytes, Low(marks \div 2^(k - 1), 1) = 1)
  IN read[n]

ReadTag8_8SVB(bytes, pos, n) ==
  IF n = 1 THEN ReadSignedVB(bytes, pos)
  ELSE ReadMarked(bytes, pos + 1, ByteAt(bytes, pos), n)

(* The columns from the k-th on that share its encoding, eight at most. *)
Together(encodings, k) ==
  LET ends == {n \in 1..8 : k + n > Len(encodings) \/ n = 8 \/ encodings[k + n] # encodings[k]}
  IN CHOOSE n \in ends : \A m \in ends : n <= m

(* The k-th column and those encoded with it. *)
ReadColumn(bytes, pos, encodings, k) ==
  LET e == encodings[k]
  IN CASE e = "SIGNED_VB" -> ReadSignedVB(bytes, pos)
       [] e = "UNSIGNED_VB" -> ReadVB(bytes, pos)
       [] e = "NEG_14BIT" ->
            LET v == ReadVB(bytes, pos) IN [v EXCEPT !.vals = <<-Extended(Low(@[1], 14), 14)>>]
       [] e = "TAG2_3S32" -> ReadTag2_3S32(bytes, pos)
       [] e = "TAG8_4S16" -> ReadTag8_4S16(bytes, pos)
       [] e = "TAG8_8SVB" -> ReadTag8_8SVB(bytes, pos, Together(encodings, k))
       [] e = "NULL" -> [pos |-> pos, vals |-> <<0>>]

AndColumn(read, bytes, encodings, k) ==
  IF Len(read.vals) >= k THEN read ELSE Joined(read, ReadColumn(bytes, read.pos, encodings, k))

ReadColumns(bytes, pos, encodings) ==
  LET read[k \in 0..Len(encodings)] ==
        IF k = 0 THEN [pos |-> pos, vals |-> <<>>] ELSE AndColumn(read[k - 1], bytes, encodings, k)
  IN read[Len(encodings)]

NewReader ==
  [line |-> <<>>,
   tables |-> [of \in {"I", "P", "H", "G", "S"} |->
                 [row \in {"name", "signed", "predictor", "encoding"} |-> <<>>]],
   keyframes |-> 0, interval |-> 0, motorOutput |-> 0, vbatref |-> 0,
   last |-> <<>>, older |-> <<>>,    \* main frames
   home |-> <<0, 0>>, gps |-> <<>>, slow |-> <<>>,
   modes |-> 0, beep |-> 0, resume |-> <<>>,
   known |-> {"home"},               \* what is current, as far as the reader knows
   got |-> {}]                       \* frames of this update

(* A piece of the header: cells of a line and perhaps its end, or the end of all. *)
ReadHeader(rd, tokens) ==
  LET end == tokens[Len(tokens)]
      cells == SelectSeq(tokens, LAMBDA token : token.is = "cell")
      line == (IF tokens[1].is = "begin" THEN <<>> ELSE rd.line) \o [k \in DOMAIN cells |-> cells[k].cell]
  IN CASE end.is \in {"begin", "cell"} -> [rd EXCEPT !.line = line]
       [] end.is = "end" -> [rd EXCEPT !.line = <<>>, !.tables[end.of][end.row] = line]
       [] end.is = "sysinfo" ->
            [rd EXCEPT !.keyframes = end.keyframes, !.interval = end.interval,
                       !.motorOutput = end.motorOutput, !.vbatref = end.vbatref]

Column(names, name) == IF name \in ToSet(names) THEN SelectInSeq(names, LAMBDA n : n = name) ELSE 0

(* The iteration of the next main frame. *)
NextFrame(rd, m) ==
  CHOOSE n \in m + 1 .. m + rd.keyframes :
    /\ (n % rd.keyframes) % rd.interval = 0
    /\ \A k \in m + 1 .. n - 1 : (k % rd.keyframes) % rd.interval # 0

Predicted(rd, frame, k, values) ==
  LET names == rd.tables["I"].name
      p == rd.tables[frame].predictor[k]
  IN CASE p = "0" -> 0
       [] p = "1500" -> 1500
       [] p = "PREVIOUS" -> rd.last[k]
       [] p = "AVERAGE_2" -> Half(rd.last[k] + rd.older[k])
       [] p = "STRAIGHT_LINE" -> 2 * rd.last[k] - rd.older[k]
       [] p = "INC" -> NextFrame(rd, rd.last[k])
       [] p = "MINMOTOR" -> rd.motorOutput
       [] p = "MOTOR_0" -> values[Column(names, <<"motor", 1>>)]
       [] p = "VBATREF" -> rd.vbatref
       [] p = "HOME_COORD" -> rd.home[rd.tables[frame].name[k][2]]
       [] p = "LAST_MAIN_FRAME_TIME" -> IF "main" \in rd.known THEN rd.last[Column(names, <<"time", 1>>)] ELSE 0

AndValue(values, v, sign) == Append(values, IF sign = "S" THEN Signed(v) ELSE v % Word)

AndCorrected(rd, frame, values, column, sign) ==
  AndValue(values, Predicted(rd, frame, Len(values) + 1, values) + column, sign)

Corrected(rd, frame, columns) ==
  LET signs == rd.tables[IF frame = "P" THEN "I" ELSE frame].signed
      vals[k \in 0..Len(signs)] ==
        IF k = 0 THEN <<>> ELSE AndCorrected(rd, frame, vals[k - 1], columns[k], signs[k])
  IN vals[Len(signs)]

(* What a frame changes, unless the frames it needs are not known. *)
Took(rd, frame, columns) ==
  LET vals == Corrected(rd, frame, columns)
  IN CASE frame = "I" ->
            [rd EXCEPT !.last = vals, !.older = vals, !.known = @ \union {"main"}, !.got = @ \union {"I"}]
       [] frame = "P" /\ "main" \in rd.known ->
            [rd EXCEPT !.older = rd.last, !.last = vals, !.got = @ \union {"P"}]
       [] frame = "S" -> [rd EXCEPT !.slow = vals, !.known = @ \union {"slow"}]
       [] frame = "H" -> [rd EXCEPT !.home = vals, !.known = @ \union {"home"}]
       [] frame = "G" /\ "home" \in rd.known ->
            [rd EXCEPT !.gps = vals, !.known = @ \union {"gps"}, !.got = @ \union {"G"}]
       [] OTHER -> rd

ReadFrame(rd, frame, read) == [pos |-> read.pos, rd |-> Took(rd, frame, read.vals)]

ReadEvent(rd, bytes, pos) ==
  LET first == ReadVB(bytes, pos + 1)
      second == ReadVB(bytes, first.pos)
  IN CASE ByteAt(bytes, pos) = SyncBeep ->
            [pos |-> first.pos, rd |-> [rd EXCEPT !.beep = first.vals[1]]]
       [] ByteAt(bytes, pos) = LoggingResume ->
            [pos |-> second.pos,
             rd |-> [rd EXCEPT !.resume = first.vals \o second.vals, !.got = @ \union {"resume"}]]
       [] ByteAt(bytes, pos) = FlightMode ->
            [pos |-> second.pos,
             rd |-> [rd EXCEPT !.modes = first.vals[1], !.known = @ \union {"modes"}]]
       [] OTHER -> [pos |-> Len(bytes) + 1, rd |-> [rd EXCEPT !.got = @ \union {"damage"}]]

(* A frame and its mark. *)
ReadNext(rd, bytes, pos) ==
  LET marked == {frame \in {"I", "P", "S", "G", "H"} : Mark(frame) = ByteAt(bytes, pos)}
  IN CASE ByteAt(bytes, pos) = Mark("E") -> ReadEvent(rd, bytes, pos + 1)
       [] marked # {} ->
            LET frame == CHOOSE frame \in marked : TRUE
            IN ReadFrame(rd, frame, ReadColumns(bytes, pos + 1, rd.tables[frame].encoding))
       [] OTHER -> [pos |-> Len(bytes) + 1, rd |-> [rd EXCEPT !.got = @ \union {"damage"}]]

FramesPerUpdate == 7

AndNext(read, bytes) == IF read.pos > Len(bytes) THEN read ELSE ReadNext(read.rd, bytes, read.pos)

ReadUpdate(rd, bytes) ==
  LET read[k \in 0..FramesPerUpdate] ==
        IF k = 0 THEN [pos |-> 1, rd |-> [rd EXCEPT !.got = {}]] ELSE AndNext(read[k - 1], bytes)
      last == read[FramesPerUpdate]
  IN IF last.pos = Len(bytes) + 1 THEN last.rd ELSE [last.rd EXCEPT !.got = @ \union {"damage"}]

Missed(rd) == [rd EXCEPT !.known = {}, !.got = {}]

-----------------------------------------------------------------------------
(***************************************************************************)
(* The craft is like the first of Crafts when recording begins.            *)
(***************************************************************************)
Init ==
  /\ setup \in Setups
  /\ craft = 1 /\ shown = 1
  /\ rssi = setup.rssi /\ switch = TRUE
  /\ rec = Started(CraftWith(1, TRUE))
  /\ updates = 0 /\ losses = 0
  /\ reader = NewReader

Header ==
  /\ rec.state = "HEADER"
  /\ \E space \in Spaces :
       LET t == IF rec.section = "SYSINFO" THEN Sysinfo([rec |-> rec])
                ELSE SendFieldDefinition([rec |-> rec], space)
       IN rec' = t.rec /\ reader' = ReadHeader(reader, t.out)
  /\ UNCHANGED <<setup, craft, shown, rssi, switch, updates, losses>>

(* updateArmed plays the beep, updateData looks at the craft when a main *)
(* frame is due, and blackboxUpdate writes.                              *)
Recorded(c, d, on, now) ==
  LET t == [rec |-> IF updates + 1 = BeepAt THEN [rec EXCEPT !.beep = now] ELSE rec, out |-> <<>>]
      off == setup.pausable /\ ~on
      resumed == LogEvent([t EXCEPT !.rec = Running(@)], LoggingResume, <<t.rec.iteration, now>>)
  IN AdvanceIterationTimers(
       CASE rec.state = "RUNNING" /\ off -> [t EXCEPT !.rec.state = "PAUSED"]
         [] rec.state = "RUNNING" /\ ~off -> LogIteration(t, c, d, now)
         [] rec.state = "PAUSED" /\ on /\ ShouldLogIFrame(rec) -> LogIteration(resumed, c, d, now)
         [] OTHER -> t)

Update ==
  /\ rec.state # "HEADER" /\ updates < Len(Clock)
  /\ updates' = updates + 1
  /\ \E c \in DOMAIN Crafts, on \in IF setup.pausable THEN BOOLEAN ELSE {switch} :
       LET d == IF ShouldLogIFrame(rec) \/ ShouldLogPFrame(rec) THEN c ELSE shown
           t == Recorded(CraftWith(c, on), CraftWith(d, on), on, Clock[updates + 1])
       IN /\ craft' = c /\ shown' = d /\ switch' = on
          /\ rec' = t.rec
          /\ \/ reader' = ReadUpdate(reader, t.out) /\ UNCHANGED losses
             \/ losses < Losses /\ losses' = losses + 1 /\ reader' = Missed(reader)
  /\ UNCHANGED <<setup, rssi>>

(* The configurator, while the log is written. *)
Configure ==
  /\ rssi = setup.rssi /\ rssi' = ~rssi
  /\ UNCHANGED <<setup, craft, shown, switch, rec, updates, reader, losses>>

(* The bound on what is recorded. *)
Ended == updates = Len(Clock) /\ UNCHANGED vars

Next == Header \/ Update \/ Configure \/ Ended

Spec == Init /\ [][Next]_vars

-----------------------------------------------------------------------------
(* What the columns ought to say, from the craft itself. *)
Truth(name) ==
  LET c == Crafts[craft]
      k == name[2]
  IN CASE name[1] = "loopIteration" -> updates - 1
       [] name[1] = "time" -> Now % Word
       [] name[1] = "rcCommand" -> IF k = 3 THEN 1500 - c.input[3] ELSE c.input[k] - 1500
       [] name[1] = "throttle" -> c.input[4]
       [] name[1] = "motor" -> MotorValue(c.motor[k])
       [] OTHER -> c[name[1]][k]

Given(name) == ~(name[1] = "motor" /\ name[2] > 4)

(* An eRPM that does not fit into a signed half word keeps its lower half only. *)
Says(v, name) ==
  IF name[1] = "eRPM" /\ Truth(name) >= 2^15
  THEN v % 2^16 = Truth(name) % 2^16
  ELSE v = Truth(name)

(***************************************************************************)
(* A main frame that follows the ones it is predicted from says, to a      *)
(* reader who knows the header only, what the craft was like and when:     *)
(* whatever fields were chosen, wherever the header was cut into pieces,   *)
(* through pauses, the wrap of the clock, lost frames and changes of the   *)
(* configuration (blackbox.c:605-872).  Motors beyond four are left out,   *)
(* and eRPM are cut to 16 bits, with a sign (blackbox.c:339).              *)
(***************************************************************************)
MainReadsBack ==
  reader.got \intersect {"I", "P"} # {} =>
    LET names == reader.tables["I"].name
    IN \A k \in DOMAIN names : Given(names[k]) => Says(reader.last[k], names[k])

(* An iteration without I frame was just logged. *)
BetweenKeyframes == updates > 0 /\ rec.state = "RUNNING" /\ rec.loopIndex # 1

SlowTruth ==
  LET s == CraftWith(craft, switch).slow
  IN <<s.flightModeFlags, s.stateFlags, s.failsafePhase, s.rxSignalReceived, s.rxFlightChannelsValid>>

GpsReadsBack ==
  LET names == reader.tables["G"].name
      g == Crafts[shown].gps
      GpsSays(name, v) == reader.gps[Column(names, <<name, 1>>)] = v
  IN /\ "gps" \in reader.known => 
          /\ GpsSays("GPS_numSat", g.numSat) /\ GpsSays("GPS_coord", g.coord[1])
          /\ reader.gps[Column(names, <<"GPS_coord", 2>>)] = g.coord[2]
     /\ "G" \in reader.got =>
          /\ GpsSays("GPS_altitude", g.altCm \div 10) /\ GpsSays("GPS_speed", g.speed)
          /\ GpsSays("GPS_ground_course", g.course)
          /\ "main" \in reader.known /\ BlackboxPInterval # BlackboxIInterval => GpsSays("gpsTime", Now % Word)

(***************************************************************************)
(* What is not in every frame is current too, once the reader has it: the  *)
(* slow state with each P frame, or with each I frame when there are no    *)
(* others, the modes and the position with every iteration between         *)
(* keyframes, and the beep and the resume at which a reader aligns the log *)
(* (blackbox.c:895-935, 1095-1118, 1724-1747, 1793-1838).                  *)
(***************************************************************************)
SideReadsBack ==
  /\ "damage" \notin reader.got
  /\ ("P" \in reader.got \/ ("I" \in reader.got /\ OnlyIntraframes)) /\ "slow" \in reader.known
       => reader.slow = SlowTruth
  /\ BetweenKeyframes =>
       /\ "modes" \in reader.known => reader.modes = SlowTruth[1]
       /\ GpsReadsBack
       /\ losses = 0 => reader.beep = rec.beep % Word
  /\ "resume" \in reader.got => "I" \in reader.got /\ reader.resume = <<updates - 1, Now % Word>>

(* A log reads back, whatever is in it. *)
LogReadsBack == MainReadsBack /\ SideReadsBack

=============================================================================
