----------------------------- MODULE CliParams -----------------------------
(***************************************************************************)
(* The table of the command line (Connect/Cli.cpp): which setting a name   *)
(* stands for, how a setting is printed, and what the words of a `set` do  *)
(* to it.                                                                  *)
(*                                                                         *)
(* A setting is known by its place in ModelConfig.  A word is its text and *)
(* the number that toInt() reads from it.  A string is the words it is     *)
(* made of, a mask the set of its bits.                                    *)
(***************************************************************************)
EXTENDS Integers, Sequences, SequencesExt, TLC

CONSTANTS
  InputChannels,   \* INPUT_CHANNELS
  OutputCount,     \* ESPFC_OUTPUT_COUNT
  Scalers,         \* SCALER_COUNT
  Modes,           \* ACTUATOR_CONDITIONS
  MixRules,        \* MIXER_RULE_MAX
  SerialNames      \* serial ports of the board

Token(text) == [text |-> text, number |-> 0]
Number(n) == [text |-> ToString(n), number |-> n]

-----------------------------------------------------------------------------
(* Names of values, in the order of the values. *)
BusNames == <<"NONE", "AUTO", "I2C", "SPI", "SLV">>
GyroNames ==
  <<"AUTO", "NONE", "MPU6000", "MPU6050", "MPU6500", "MPU9250", "LSM6DSO", "ICM20602",
    "BMI160", "ICM42688">>
BaroNames == <<"AUTO", "NONE", "BMP085", "MS5611", "BMP280", "SPL06-001">>
MagNames == <<"AUTO", "NONE", "HMC5883L", "AK8975", "AK8963", "QMC5883L", "QMC5883P">>
FusionNames == <<"NONE", "MADGWICK", "MAHONY", "RTQF">>
ProtocolNames ==
  <<"PWM", "ONESHOT125", "ONESHOT42", "MULTISHOT", "BRUSHED", "DSHOT150", "DSHOT300",
    "DSHOT600", "PROSHOT1000", "DISABLED">>
DlpfNames ==
  <<"256Hz", "188Hz", "98Hz", "42Hz", "20Hz", "10Hz", "5Hz", "EXPERIMENTAL">>
DebugNames ==
  <<"NONE", "CYCLETIME", "BATTERY", "GYRO_FILTERED", "ACCELEROMETER", "PIDLOOP",
    "GYRO_SCALED", "RC_INTERPOLATION", "ANGLERATE", "ESC_SENSOR", "SCHEDULER", "STACK",
    "ESC_SENSOR_RPM", "ESC_SENSOR_TMP", "ALTITUDE", "FFT", "FFT_TIME", "FFT_FREQ",
    "RX_FRSKY_SPI", "RX_SFHSS_SPI", "GYRO_RAW", "DUAL_GYRO_RAW", "DUAL_GYRO_DIFF",
    "MAX7456_SIGNAL", "MAX7456_SPICLOCK", "SBUS", "FPORT", "RANGEFINDER",
    "RANGEFINDER_QUALITY", "LIDAR_TF", "ADC_INTERNAL", "RUNAWAY_TAKEOFF", "SDIO",
    "CURRENT_SENSOR", "USB", "SMARTAUDIO", "RTH", "ITERM_RELAX", "ACRO_TRAINER",
    "RC_SMOOTHING", "RX_SIGNAL_LOSS", "RC_SMOOTHING_RATE", "ANTI_GRAVITY", "DYN_LPF",
    "RX_SPEKTRUM_SPI", "DSHOT_RPM_TELEMETRY", "RPM_FILTER", "D_MIN", "AC_CORRECTION",
    "AC_ERROR", "DUAL_GYRO_SCALED", "DSHOT_RPM_ERRORS", "CRSF_LINK_STATISTICS_UPLINK",
    "CRSF_LINK_STATISTICS_PWR", "CRSF_LINK_STATISTICS_DOWN", "BARO",
    "GPS_RESCUE_THROTTLE_PID", "DYN_IDLE", "FF_LIMIT", "FF_INTERPOLATED",
    "BLACKBOX_OUTPUT", "GYRO_SAMPLE", "RX_TIMING">>
FilterNames ==
  <<"PT1", "BIQUAD", "PT2", "PT3", "NOTCH", "NOTCH_DF1", "BPF", "FO", "FIR2", "MEDIAN3",
    "NONE">>
AlignNames ==
  <<"DEFAULT", "CW0", "CW90", "CW180", "CW270", "CW0_FLIP", "CW90_FLIP", "CW180_FLIP",
    "CW270_FLIP", "CUSTOM">>
MixerNames ==
  <<"NONE", "TRI", "QUADP", "QUADX", "BI", "GIMBAL", "Y6", "HEX6", "FWING", "Y4", "HEX6X",
    "OCTOX8", "OCTOFLATP", "OCTOFLATX", "AIRPLANE", "HELI120", "HELI90", "VTAIL4", "HEX6H",
    "PPMSERVO", "DUALCOPTER", "SINGLECOPTER", "ATAIL4", "CUSTOM", "CUSTOMAIRPLANE",
    "CUSTOMTRI", "QUADX1234">>
InterpolationNames == <<"NONE", "DEFAULT", "AUTO", "MANUAL">>
RateNames == <<"BETAFLIGHT", "RACEFLIGHT", "KISS", "ACTUAL", "QUICK">>
LimitNames == <<"NONE", "SCALE", "CLIP">>
InputFilterNames == <<"INTERPOLATION", "FILTER">>
RelaxNames == <<"OFF", "RP", "RPY", "RP_INC", "RPY_INC">>
SourceNames == <<"NONE", "ADC">>
LogDeviceNames == <<"NONE", "FLASH", "SD_CARD", "SERIAL">>
LogModeNames == <<"NORMAL", "TEST", "ALWAYS">>
LedNames == <<"SIMPLE", "STRIP">>

-----------------------------------------------------------------------------
(* Parameters: the kind follows from the type of the setting. *)
Param(name, kind, place, choices, bit) ==
  [name |-> name, kind |-> kind, place |-> place, choices |-> choices, bit |-> bit]

Bool(name, place) == Param(name, "BOOL", place, <<>>, 0)
Byte(name, place) == Param(name, "BYTE", place, <<>>, 0)
ByteU(name, place) == Param(name, "BYTE_U", place, <<>>, 0)
Short(name, place) == Param(name, "SHORT", place, <<>>, 0)
Long(name, place) == Param(name, "INT", place, <<>>, 0)
Choice(name, place, choices) == Param(name, "BYTE", place, choices, 0)
Bit(name, place, bit) == Param(name, "BITMASK", place, <<>>, bit)
Text(name, place) == Param(name, "STRING", place, <<>>, 0)

(* name_0, name_1, ... for the entries of an array of structures *)
Entries(name, kind, place, count) ==
  [i \in 1..count |-> Param(name \o ToString(i - 1), kind, place \o ToString(i - 1), <<>>, 0)]

Pair(name, place) ==
  <<Choice(name \o "_type", place \o ".type", FilterNames),
    Short(name \o "_freq", place \o ".freq")>>

Gains(name, pid) ==
  <<ByteU(name \o "_p", pid \o ".P"), ByteU(name \o "_i", pid \o ".I"),
    ByteU(name \o "_d", pid \o ".D"), Short(name \o "_f", pid \o ".F")>>

Axis(name, i) ==
  <<ByteU(name \o "_rate", "input.rate" \o i), ByteU(name \o "_srate", "input.superRate" \o i),
    ByteU(name \o "_expo", "input.expo" \o i), Short(name \o "_limit", "input.rateLimit" \o i)>>

Vector(name, place) ==
  <<Short(name \o "_x", place \o "0"), Short(name \o "_y", place \o "1"),
    Short(name \o "_z", place \o "2")>>

Pins(name, tx, rx) ==
  <<Byte(name \o "_tx", "pin." \o tx), Byte(name \o "_rx", "pin." \o rx)>>

FeatureParams ==
  <<Bit("feature_gps", "featureMask", 7), Bit("feature_dyn_notch", "featureMask", 29),
    Bit("feature_motor_stop", "featureMask", 4), Bit("feature_rx_ppm", "featureMask", 0),
    Bit("feature_rx_serial", "featureMask", 3), Bit("feature_rx_spi", "featureMask", 25),
    Bit("feature_soft_serial", "featureMask", 6), Bit("feature_telemetry", "featureMask", 10),
    Choice("debug_mode", "debug.mode", DebugNames), ByteU("debug_axis", "debug.axis")>>

GyroParams ==
  <<Choice("gyro_bus", "gyro.bus", BusNames), Choice("gyro_dev", "gyro.dev", GyroNames),
    Choice("gyro_dlpf", "gyro.dlpf", DlpfNames), Choice("gyro_align", "gyro.align", AlignNames)>>
  \o Pair("gyro_lpf", "gyro.filter") \o Pair("gyro_lpf2", "gyro.filter2")
  \o Pair("gyro_lpf3", "gyro.filter3")
  \o <<Short("gyro_notch1_freq", "gyro.notch1Filter.freq"),
       Short("gyro_notch1_cutoff", "gyro.notch1Filter.cutoff"),
       Short("gyro_notch2_freq", "gyro.notch2Filter.freq"),
       Short("gyro_notch2_cutoff", "gyro.notch2Filter.cutoff"),
       Short("gyro_dyn_lpf_min", "gyro.dynLpfFilter.cutoff"),
       Short("gyro_dyn_lpf_max", "gyro.dynLpfFilter.freq"),
       Short("gyro_dyn_notch_q", "gyro.dynamicFilter.q"),
       ByteU("gyro_dyn_notch_count", "gyro.dynamicFilter.count"),
       Short("gyro_dyn_notch_min", "gyro.dynamicFilter.min_freq"),
       Short("gyro_dyn_notch_max", "gyro.dynamicFilter.max_freq"),
       ByteU("gyro_rpm_harmonics", "gyro.rpmFilter.harmonics"),
       Short("gyro_rpm_q", "gyro.rpmFilter.q"),
       ByteU("gyro_rpm_min_freq", "gyro.rpmFilter.minFreq"),
       ByteU("gyro_rpm_fade", "gyro.rpmFilter.fade"),
       ByteU("gyro_rpm_weight_1", "gyro.rpmFilter.weights0"),
       ByteU("gyro_rpm_weight_2", "gyro.rpmFilter.weights1"),
       ByteU("gyro_rpm_weight_3", "gyro.rpmFilter.weights2"),
       ByteU("gyro_rpm_tlm_lpf_freq", "gyro.rpmFilter.freqLpf")>>
  \o Vector("gyro_offset", "gyro.bias")

SensorParams ==
  <<Choice("accel_bus", "accel.bus", BusNames), Choice("accel_dev", "accel.dev", GyroNames)>>
  \o Pair("accel_lpf", "accel.filter") \o Vector("accel_offset", "accel.bias")
  \o <<Short("accel_trim_roll", "accel.trim1"), Short("accel_trim_pitch", "accel.trim0"),
       Choice("mag_bus", "mag.bus", BusNames), Choice("mag_dev", "mag.dev", MagNames),
       Choice("mag_align", "mag.align", AlignNames),
       Choice("mag_filter_type", "mag.filter.type", FilterNames),
       Short("mag_filter_lpf", "mag.filter.freq")>>
  \o Vector("mag_offset", "mag.offset") \o Vector("mag_scale", "mag.scale")
  \o <<Choice("baro_bus", "baro.bus", BusNames), Choice("baro_dev", "baro.dev", BaroNames)>>
  \o Pair("baro_lpf", "baro.filter")

GpsParams ==
  <<ByteU("gps_min_sats", "gps.minSats"), ByteU("gps_set_home_once", "gps.setHomeOnce"),
    ByteU("gps_provider", "gps.provider"), ByteU("gps_sbas_mode", "gps.sbasMode"),
    ByteU("gps_auto_config", "gps.autoConfig"), ByteU("gps_auto_baud", "gps.autoBaud"),
    ByteU("gps_gnss_mode", "gps.gnssMode"), ByteU("gps_enable_dual_band", "gps.enableDualBand"),
    ByteU("gps_enable_gps", "gps.enableGPS"), ByteU("gps_enable_glonass", "gps.enableGLONASS"),
    ByteU("gps_enable_galileo", "gps.enableGalileo"),
    ByteU("gps_enable_beidou", "gps.enableBeiDou"),
    ByteU("gps_enable_qzss", "gps.enableQZSS"), ByteU("gps_enable_sbas", "gps.enableSBAS"),
    ByteU("gps_poshold_max_angle", "gps.posHoldMaxAngle"),
    ByteU("gps_poshold_deadband", "gps.posHoldStickDeadband"),
    Short("gps_poshold_max_velocity", "gps.posHoldMaxVelocity"),
    Short("gps_poshold_velocity_filter", "gps.posHoldVelocityFilter"),
    Short("gps_poshold_max_horz_accuracy", "gps.posHoldMaxHorizontalAccuracy"),
    Short("gps_poshold_gps_timeout", "gps.posHoldGpsTimeout")>>

BoardParams ==
  <<Short("board_align_roll", "boardAlignment0"), Short("board_align_pitch", "boardAlignment1"),
    Short("board_align_yaw", "boardAlignment2"),
    Choice("vbat_source", "vbat.source", SourceNames), ByteU("vbat_scale", "vbat.scale"),
    ByteU("vbat_mul", "vbat.resMult"), ByteU("vbat_div", "vbat.resDiv"),
    Short("vbat_cell_warn", "vbat.cellWarning"),
    Choice("ibat_source", "ibat.source", SourceNames), Short("ibat_scale", "ibat.scale"),
    Short("ibat_offset", "ibat.offset"), Choice("fusion_mode", "fusion.mode", FusionNames),
    ByteU("fusion_gain_p", "fusion.gain"), ByteU("fusion_gain_i", "fusion.gainI"),
    ByteU("fusion_use_mag", "fusion.useMag")>>

InputParams ==
  <<Choice("input_rate_type", "input.rateType", RateNames)>>
  \o Axis("input_roll", "0") \o Axis("input_pitch", "1") \o Axis("input_yaw", "2")
  \o <<Byte("input_deadband", "input.deadband"), Short("input_min", "input.minRc"),
       Short("input_mid", "input.midRc"), Short("input_max", "input.maxRc"),
       Choice("input_interpolation", "input.interpolationMode", InterpolationNames),
       Byte("input_interpolation_interval", "input.interpolationInterval"),
       Choice("input_filter_type", "input.filterType", InputFilterNames)>>
  \o Pair("input_lpf", "input.filter")
  \o <<Byte("input_lpf_factor", "input.filterAutoFactor")>>
  \o Pair("input_ff_lpf", "input.filterDerivative")
  \o <<ByteU("input_rssi_channel", "input.rssiChannel")>>
  \o Entries("input_", "INPUT_CHANNEL", "input.channel", InputChannels)

ModeParams ==
  <<ByteU("failsafe_delay", "failsafe.delay"),
    ByteU("failsafe_kill_switch", "failsafe.killSwitch"),
    ByteU("arming_small_angle", "arming.smallAngle"), ByteU("vtx_power", "vtx.power"),
    ByteU("vtx_channel", "vtx.channel"), ByteU("vtx_band", "vtx.band"),
    ByteU("vtx_low_power_disarm", "vtx.lowPowerDisarm")>>
  \o [i \in DOMAIN SerialNames |->
        Param("serial_" \o SerialNames[i], "SERIAL", "serial." \o SerialNames[i], <<>>, 0)]
  \o Entries("scaler_", "SCALER", "scaler", Scalers)
  \o Entries("mode_", "MODE", "conditions", Modes)

PidParams ==
  <<Byte("pid_sync", "loopSync")>>
  \o Gains("pid_roll", "pid.ROLL") \o Gains("pid_pitch", "pid.PITCH")
  \o Gains("pid_yaw", "pid.YAW") \o Gains("pid_level", "pid.LEVEL")
  \o <<Byte("pid_level_angle_limit", "level.angleLimit"),
       Short("pid_level_rate_limit", "level.rateLimit")>>
  \o Pair("pid_level_lpf", "level.ptermFilter") \o Gains("pid_althold_vel", "pid.VEL")
  \o <<ByteU("pid_althold_iterm_center", "altHold.itermCenter"),
       ByteU("pid_althold_iterm_range", "altHold.itermRange"),
       ByteU("pid_althold_baro_tau", "altHold.baroTau")>>
  \o Pair("pid_yaw_lpf", "yaw.filter") \o Pair("pid_dterm_lpf", "dterm.filter")
  \o Pair("pid_dterm_lpf2", "dterm.filter2")
  \o <<Short("pid_dterm_notch_freq", "dterm.notchFilter.freq"),
       Short("pid_dterm_notch_cutoff", "dterm.notchFilter.cutoff"),
       Short("pid_dterm_dyn_lpf_min", "dterm.dynLpfFilter.cutoff"),
       Short("pid_dterm_dyn_lpf_max", "dterm.dynLpfFilter.freq"),
       Short("pid_dterm_weight", "dterm.setpointWeight"), Byte("pid_iterm_limit", "iterm.limit"),
       Bool("pid_iterm_zero", "iterm.lowThrottleZeroIterm"),
       Choice("pid_iterm_relax", "iterm.relax", RelaxNames),
       Byte("pid_iterm_relax_cutoff", "iterm.relaxCutoff"),
       Byte("pid_tpa_scale", "controller.tpaScale"),
       Short("pid_tpa_breakpoint", "controller.tpaBreakpoint")>>

OutputParams ==
  <<Byte("mixer_sync", "mixerSync"), Choice("mixer_type", "mixer.type", MixerNames),
    Bool("mixer_yaw_reverse", "mixer.yawReverse"),
    Choice("mixer_throttle_limit_type", "output.throttleLimitType", LimitNames),
    Byte("mixer_throttle_limit_percent", "output.throttleLimitPercent"),
    Byte("mixer_output_limit", "output.motorLimit"),
    Choice("output_motor_protocol", "output.protocol", ProtocolNames),
    Byte("output_motor_async", "output.async"), Short("output_motor_rate", "output.rate"),
    Byte("output_motor_poles", "output.motorPoles"),
    Short("output_servo_rate", "output.servoRate"),
    Short("output_min_command", "output.minCommand"),
    Short("output_min_throttle", "output.minThrottle"),
    Short("output_max_throttle", "output.maxThrottle"),
    Short("output_dshot_idle", "output.dshotIdle"),
    Byte("output_dshot_telemetry", "output.dshotTelemetry")>>
  \o Entries("output_", "OUTPUT_CHANNEL", "output.channel", OutputCount)

(* Some pins have two names. *)
PinParams ==
  <<Byte("pin_input_rx", "pin.INPUT_RX")>>
  \o Entries("pin_output_", "BYTE", "pin.OUTPUT_", OutputCount)
  \o <<Byte("pin_button", "pin.BUTTON"), Byte("pin_buzzer", "pin.BUZZER"),
       Byte("pin_led", "pin.LED_BLINK")>>
  \o Pins("pin_serial_0", "SERIAL_0_TX", "SERIAL_0_RX")
  \o Pins("pin_uart1", "SERIAL_0_TX", "SERIAL_0_RX")
  \o Pins("pin_serial_1", "SERIAL_1_TX", "SERIAL_1_RX")
  \o Pins("pin_uart2", "SERIAL_1_TX", "SERIAL_1_RX")
  \o Pins("pin_serial_2", "SERIAL_2_TX", "SERIAL_2_RX")
  \o Pins("pin_uart3", "SERIAL_2_TX", "SERIAL_2_RX")
  \o <<Byte("pin_i2c_scl", "pin.I2C_0_SCL"), Byte("pin_i2c_sda", "pin.I2C_0_SDA"),
       Byte("pin_input_adc_0", "pin.INPUT_ADC_0"), Byte("pin_input_adc_1", "pin.INPUT_ADC_1"),
       Byte("pin_spi_0_sck", "pin.SPI_0_SCK"), Byte("pin_spi_0_mosi", "pin.SPI_0_MOSI"),
       Byte("pin_spi_0_miso", "pin.SPI_0_MISO"), Byte("pin_spi_cs_0", "pin.SPI_CS0"),
       Byte("pin_spi_cs_1", "pin.SPI_CS1"), Byte("pin_spi_cs_2", "pin.SPI_CS2"),
       Byte("pin_buzzer_invert", "buzzer.inverted"), ByteU("pin_led_invert", "led.invert"),
       Choice("pin_led_type", "led.type", LedNames), Short("i2c_speed", "i2cSpeed"),
       ByteU("rescue_config_delay", "rescueConfigDelay"),
       Long("telemetry_interval", "telemetryInterval")>>

LogParams ==
  <<Choice("blackbox_dev", "blackbox.dev", LogDeviceNames),
    Choice("blackbox_mode", "blackbox.mode", LogModeNames),
    Short("blackbox_rate", "blackbox.pDenom"), Bit("blackbox_log_acc", "blackbox.fieldsMask", 8),
    Bit("blackbox_log_alt", "blackbox.fieldsMask", 5),
    Bit("blackbox_log_bat", "blackbox.fieldsMask", 3),
    Bit("blackbox_log_debug", "blackbox.fieldsMask", 9),
    Bit("blackbox_log_gps", "blackbox.fieldsMask", 11),
    Bit("blackbox_log_gyro", "blackbox.fieldsMask", 7),
    Bit("blackbox_log_gyro_raw", "blackbox.fieldsMask", 13),
    Bit("blackbox_log_mag", "blackbox.fieldsMask", 4),
    Bit("blackbox_log_motor", "blackbox.fieldsMask", 10),
    Bit("blackbox_log_pid", "blackbox.fieldsMask", 0),
    Bit("blackbox_log_rc", "blackbox.fieldsMask", 1),
    Bit("blackbox_log_rpm", "blackbox.fieldsMask", 12),
    Bit("blackbox_log_rssi", "blackbox.fieldsMask", 6),
    Bit("blackbox_log_sp", "blackbox.fieldsMask", 2)>>

NamedParams ==
  <<Text("model_name", "modelName"), Text("wifi_ssid", "wireless.ssid"),
    Text("wifi_pass", "wireless.pass"), Short("wifi_tcp_port", "wireless.port"),
    Byte("mix_outputs", "customMixerCount")>>
  \o Entries("mix_", "MIXER", "customMixes", MixRules)

Params ==
  FeatureParams \o GyroParams \o SensorParams \o GpsParams \o BoardParams \o InputParams
  \o ModeParams \o PidParams \o OutputParams \o PinParams \o LogParams \o NamedParams

(* Settings that no name stands for; of featureMask, the bits that are     *)
(* not named.                                                              *)
Unnamed ==
  {"input.ppmMode", "input.serialRxProvider", "input.minCheck", "input.maxCheck",
   "buzzer.beeperMask", "telemetry", "pid.ALT", "pid.POS", "pid.POSR", "pid.NAVR", "pid.MAG"}

Places == {Params[i].place : i \in DOMAIN Params} \union Unnamed

-----------------------------------------------------------------------------
(* Printing. *)
PrintNumber(v, choices) ==
  IF v + 1 \in DOMAIN choices THEN Token(choices[v + 1]) ELSE Number(v)

Letter(condition, yes, no) == Token(IF condition THEN yes ELSE no)

FsLetter(mode) ==
  CASE mode = 0 -> Token("A") [] mode = 1 -> Token("H") [] mode = 2 -> Token("S")
    [] OTHER -> Token("?")

PrintStructure(kind, c) ==
  CASE kind = "OUTPUT_CHANNEL" ->
         <<Letter(c.servo, "S", "M"), Letter(c.reverse, "R", "N"), Number(c.min),
           Number(c.neutral), Number(c.max)>>
    [] kind = "INPUT_CHANNEL" ->
         <<Number(c.map), Number(c.min), Number(c.neutral), Number(c.max), FsLetter(c.fsMode),
           Number(c.fsValue)>>
    [] kind = "SCALER" ->
         <<Number(c.dimension), Number(c.channel), Number(c.minScale), Number(c.maxScale)>>
    [] kind = "MODE" ->
         <<Number(c.id), Number(c.ch), Number(c.min), Number(c.max), Number(c.logicMode),
           Number(c.linkId)>>
    [] kind = "MIXER" -> <<Number(c.src), Number(c.dst), Number(c.rate)>>
    [] kind = "SERIAL" ->
         <<Number(c.functionMask), Number(c.baud), Number(c.gpsBaud), Number(c.telemetryBaud),
           Number(c.blackboxBaud)>>

PrintValue(p, v) ==
  CASE p.kind \in {"BOOL", "INT"} -> <<Number(v)>>
    [] p.kind \in {"BYTE", "BYTE_U", "SHORT"} -> <<PrintNumber(v, p.choices)>>
    [] p.kind = "BITMASK" -> <<Number(IF p.bit \in v THEN 1 ELSE 0)>>
    [] p.kind = "STRING" -> [i \in DOMAIN v |-> Token(v[i])]
    [] OTHER -> PrintStructure(p.kind, v)

PrintParam(p, settings) ==
  <<Token("set"), Token(p.name)>> \o PrintValue(p, settings[p.place])

-----------------------------------------------------------------------------
(* Reading: w holds the words after the name. *)
Narrow(kind, n) ==
  CASE kind = "BYTE" -> ((n + 128) % 256) - 128
    [] kind = "BYTE_U" -> n % 256
    [] kind = "SHORT" -> ((n + 32768) % 65536) - 32768
    [] OTHER -> n

Parse(word, choices) ==
  IF Contains(choices, word.text)
  THEN (CHOOSE i \in DOMAIN choices :
          choices[i] = word.text /\ \A j \in 1..(i - 1) : choices[j] # word.text) - 1
  ELSE word.number

(* What is not given stays. *)
Given(w, i, kind, now) == IF i \in DOMAIN w THEN Narrow(kind, w[i].number) ELSE now
IsLetter(w, i, letter, now) == IF i \in DOMAIN w THEN w[i].text = letter ELSE now
FsMode(w, i, now) ==
  IF i \notin DOMAIN w THEN now
  ELSE CASE w[i].text = "H" -> 1 [] w[i].text = "S" -> 2 [] OTHER -> 0

Limit(low, high, n) == IF n < low THEN low ELSE IF n > high THEN high ELSE n

(* MIXER_SOURCE_MAX is 12. *)
WriteMixer(c, w) ==
  [src |-> Limit(0, 11, Given(w, 1, "INT", c.src)),
   dst |-> Limit(0, OutputCount - 1, Given(w, 2, "INT", c.dst)),
   rate |-> Limit(-1000, 1000, Given(w, 3, "INT", c.rate))]

WriteOutput(c, w) ==
  [servo |-> IsLetter(w, 1, "S", c.servo), reverse |-> IsLetter(w, 2, "R", c.reverse),
   min |-> Given(w, 3, "SHORT", c.min), neutral |-> Given(w, 4, "SHORT", c.neutral),
   max |-> Given(w, 5, "SHORT", c.max)]

(* Mutant: the values are read in the order of the structure. *)
WriteInput_AsDeclared(c, w) ==
  [min |-> Given(w, 1, "SHORT", c.min), neutral |-> Given(w, 2, "SHORT", c.neutral),
   max |-> Given(w, 3, "SHORT", c.max), map |-> Given(w, 4, "BYTE", c.map),
   fsMode |-> FsMode(w, 5, c.fsMode), fsValue |-> Given(w, 6, "SHORT", c.fsValue)]

WriteInput(c, w) ==
  [map |-> Given(w, 1, "BYTE", c.map), min |-> Given(w, 2, "SHORT", c.min),
   neutral |-> Given(w, 3, "SHORT", c.neutral), max |-> Given(w, 4, "SHORT", c.max),
   fsMode |-> FsMode(w, 5, c.fsMode), fsValue |-> Given(w, 6, "SHORT", c.fsValue)]

WriteScaler(c, w) ==
  [dimension |-> Given(w, 1, "INT", c.dimension), channel |-> Given(w, 2, "BYTE", c.channel),
   minScale |-> Given(w, 3, "SHORT", c.minScale), maxScale |-> Given(w, 4, "SHORT", c.maxScale)]

WriteMode(c, w) ==
  [id |-> Given(w, 1, "BYTE_U", c.id), ch |-> Given(w, 2, "BYTE_U", c.ch),
   min |-> Given(w, 3, "SHORT", c.min), max |-> Given(w, 4, "SHORT", c.max),
   logicMode |-> Given(w, 5, "BYTE_U", c.logicMode), linkId |-> Given(w, 6, "BYTE_U", c.linkId)]

WriteSerial(c, w) ==
  [functionMask |-> Given(w, 1, "INT", c.functionMask), baud |-> Given(w, 2, "INT", c.baud),
   gpsBaud |-> Given(w, 3, "INT", c.gpsBaud),
   telemetryBaud |-> Given(w, 4, "INT", c.telemetryBaud),
   blackboxBaud |-> Given(w, 5, "INT", c.blackboxBaud)]

(* The words of a set, and the value they leave.  Only one word of a       *)
(* string is taken.                                                        *)
Update(p, w, v) ==
  CASE p.kind = "STRING" -> IF w = <<>> THEN <<>> ELSE <<w[1].text>>
    [] w = <<>> -> v
    [] p.kind = "BOOL" -> IF w[1].text \in {"0", "1"} THEN w[1].number ELSE v
    [] p.kind \in {"BYTE", "BYTE_U", "SHORT", "INT"} -> Narrow(p.kind, Parse(w[1], p.choices))
    [] p.kind = "BITMASK" -> CASE w[1].text = "0" -> v \ {p.bit}
                               [] w[1].text = "1" -> v \union {p.bit}
                               [] OTHER -> v
    [] p.kind = "OUTPUT_CHANNEL" -> WriteOutput(v, w)
    [] p.kind = "INPUT_CHANNEL" -> WriteInput(v, w)
    [] p.kind = "SCALER" -> WriteScaler(v, w)
    [] p.kind = "MODE" -> WriteMode(v, w)
    [] p.kind = "MIXER" -> WriteMixer(v, w)
    [] p.kind = "SERIAL" -> WriteSerial(v, w)
=============================================================================
