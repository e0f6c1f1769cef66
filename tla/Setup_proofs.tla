---------------------------- MODULE Setup_proofs ----------------------------
(***************************************************************************)
(* Proofs about the configuration and the calibrations, for every rate of  *)
(* the gyro, every value a user may set and any number of commands,        *)
(* samples and restarts.                                                   *)
(***************************************************************************)
EXTENDS Setup, TLAPS

States == {"IDLE", "START", "UPDATE", "APPLY", "SAVE"}
Qualities == {"none", "raw", "shifted", "new"}

(* What output.maxThrottle is set to. *)
Pulse == 1000..2000

Configuration ==
  [sync : Int, protocol : Protocols \cup {"DISABLED", "PWM"}, async : BOOLEAN,
   rate : Int, throttle : Pulse, accel : BOOLEAN, mag : BOOLEAN,
   bias : [Sensors -> Qualities]]

TypeOK ==
  /\ config \in Configuration /\ stored \in Configuration \cup {Blank}
  /\ result \in {"OK", "BAD", "FAILED"}
  /\ inForce \in [clean : Configuration, loopRate : Int]
  /\ bias \in [Sensors -> Qualities]
  /\ cal \in [Sensors -> States] /\ samples \in [Sensors -> Int]
  /\ armed \in BOOLEAN
  /\ gyroRate \in GyroRates
  /\ present \in [accel : BOOLEAN, mag : BOOLEAN]
  /\ commands \in Nat /\ restarts \in Nat
  /\ disturbed \in BOOLEAN

(***************************************************************************)
(* Why a stored bias is finished.  Between START and SAVE the bias is the  *)
(* calibration's own and has gravity in it, else it was disturbed; at rest *)
(* and at SAVE it has none.  A save while the accelerometer is at rest     *)
(* therefore stores a finished one; a save on the way does not, but then   *)
(* the way ends in the save of its own.                                    *)
(***************************************************************************)
BiasIsOwn ==
  cal.accel \in {"UPDATE", "APPLY"} => bias.accel = "raw" \/ disturbed

BiasIsFinished ==
  cal.accel \in {"IDLE", "SAVE"} => bias.accel \notin Unfinished \/ disturbed

BiasInv == StoredBiasIsFinished /\ BiasIsOwn /\ BiasIsFinished

-----------------------------------------------------------------------------
(* What a user may set, and the bounds, are numbers. *)
LEMMA SettingsAreInts == Syncs \subseteq Int /\ PwmRates \subseteq Int
  BY SetupAssumption

LEMMA BoundsAreNats == Samples \in Nat /\ Commands \in Nat /\ Restarts \in Nat
  BY SetupAssumption

-----------------------------------------------------------------------------
(* Rates and pulses. *)

(* A rate divided by enough samples is within its limit. *)
LEMMA SlowEnough ==
  ASSUME NEW rate \in Nat, NEW limit \in Nat \ {0}, NEW n \in Nat \ {0},
         limit * n >= rate
  PROVE  rate \div n \in Nat /\ rate \div n <= limit
PROOF
  <1>1. rate \div n \in Nat /\ n * (rate \div n) <= rate OBVIOUS
  <1> DEFINE q == rate \div n
  <1>2. q \in Nat /\ n * q <= limit * n BY <1>1
  <1> HIDE DEF q
  <1>3. q <= limit BY <1>2, Z3
  <1> QED BY <1>1, <1>3 DEF q

(* A loop that is too fast for its pulses is slowed down to their limit. *)
LEMMA SlowerFacts ==
  ASSUME gyroRate \in GyroRates, NEW n \in Nat \ {0}, NEW limit \in Nat \ {0}
  PROVE  /\ SlowerThan(n, limit) \in Nat \ {0}
         /\ gyroRate \div SlowerThan(n, limit) \in Nat
         /\ gyroRate \div SlowerThan(n, limit) <= limit
PROOF
  <1>1. gyroRate \in Nat /\ gyroRate >= 1 BY SetupAssumption
  <1>2. CASE gyroRate \div n <= limit
    <2>1. ~(gyroRate \div n > limit) BY <1>1, <1>2
    <2>2. SlowerThan(n, limit) = n BY <2>1 DEF SlowerThan
    <2> QED BY <1>1, <1>2, <2>2
  <1>3. CASE gyroRate \div n > limit
    <2> DEFINE q == (gyroRate + limit - 1) \div limit
    <2>1. q \in Nat /\ limit * q > gyroRate - 1 BY <1>1
    <2>2. SlowerThan(n, limit) = AtLeast(n, q) BY <1>3 DEF SlowerThan
    <2> HIDE DEF q
    <2>3. limit * q >= gyroRate BY <1>1, <2>1
    <2>4. AtLeast(n, q) \in Nat \ {0} /\ AtLeast(n, q) >= q BY <2>1 DEF AtLeast
    <2> DEFINE m == AtLeast(n, q)
    <2>5. m \in Nat \ {0} /\ m >= q BY <2>4
    <2> HIDE DEF m
    <2>6. limit * m >= gyroRate BY <1>1, <2>1, <2>3, <2>5, Z3
    <2>7. gyroRate \div m \in Nat /\ gyroRate \div m <= limit
      BY <1>1, <2>5, <2>6, SlowEnough
    <2> QED BY <2>2, <2>5, <2>7 DEF m
  <1>4. gyroRate \div n \in Int BY <1>1
  <1> QED BY <1>2, <1>3, <1>4

(* A second, in the unit of the pulses. *)
Second == 1000000

(* What the pulses of a configuration need, for a loop at the rate given. *)
PulseFits(c, loopRate) ==
  LET rate == IF c.async THEN c.rate ELSE loopRate
  IN /\ c.protocol = "PWM" => rate * c.throttle <= Second
     /\ c.protocol = "ONESHOT125" => rate * (c.throttle \div 8) <= Second

(* The longest pulse of PWM fits in below 500 Hz, that of ONESHOT125 below *)
(* 2000 Hz.                                                                *)
SlowIsEnough(rate, throttle) ==
  /\ rate <= 500 => rate * throttle <= Second
  /\ rate <= 2000 => rate * (throttle \div 8) <= Second

(* A rate within the protocol's limit leaves room for the longest pulse. *)
LEMMA RateFits ==
  ASSUME NEW rate \in Int, NEW throttle \in Pulse
  PROVE  SlowIsEnough(rate, throttle)
PROOF
  <1>0. throttle \in Nat /\ throttle <= 2000 BY DEF Pulse
  <1>1. ASSUME rate <= 500 PROVE rate * throttle <= Second
    <2>1. rate * throttle <= 500 * throttle BY <1>0, <1>1, Z3
    <2> QED BY <1>0, <2>1, SMTT(60) DEF Second
  <1>2. ASSUME rate <= 2000 PROVE rate * (throttle \div 8) <= Second
    <2> DEFINE pulse == throttle \div 8
    <2>1. pulse \in Nat /\ pulse <= 250 BY <1>0
    <2> HIDE DEF pulse
    <2>2. rate * pulse <= 2000 * pulse BY <1>2, <2>1, Z3
    <2>3. rate * pulse <= Second BY <2>1, <2>2, SMTT(60) DEF Second
    <2> QED BY <2>3 DEF pulse
  <1> QED BY <1>1, <1>2 DEF SlowIsEnough

(* sanitize makes the pulses fit, whatever the configuration was. *)
LEMMA SanitizeFacts ==
  ASSUME gyroRate \in GyroRates, NEW c \in Configuration, NEW r
  PROVE  /\ Sanitize(c, r) \in Configuration
         /\ Sanitize(c, r).bias = c.bias
         /\ gyroRate \div Sanitize(c, r).sync \in Int
         /\ PulseFits(Sanitize(c, r), gyroRate \div Sanitize(c, r).sync)
PROOF
  <1> DEFINE first == LoopSync(c, r)
             async == Async(c)
             sync == CASE async -> first
                       [] c.protocol = "PWM" -> SlowerThan(first, 500)
                       [] c.protocol = "ONESHOT125" -> SlowerThan(first, 2000)
                       [] OTHER -> first
             cut == ~async /\ c.protocol = "PWM" /\ gyroRate \div first > 500
                      /\ gyroRate \div sync > 480 /\ c.throttle > 1940
             rate == IF async THEN Within(50, TopRate(c.protocol), c.rate) ELSE c.rate
             throttle == IF cut THEN 1940 ELSE c.throttle
             clean == [c EXCEPT !.sync = sync, !.async = async, !.rate = rate,
                                !.throttle = throttle]
  <1>1. Sanitize(c, r) = clean BY DEF Sanitize
  <1>2. first \in Nat \ {0} BY DEF LoopSync, AtLeast, Configuration
  <1>3. async \in BOOLEAN BY DEF Async
  <1>4. rate \in Int /\ (async => rate <= TopRate(c.protocol))
    BY DEF Within, AtLeast, TopRate, Configuration
  <1>5. throttle \in Pulse
    <2>1. c.throttle \in Pulse BY DEF Configuration
    <2>2. 1940 \in Pulse BY DEF Pulse
    <2> QED BY <2>1, <2>2
  <1>6. /\ sync \in Nat \ {0}
        /\ ~async /\ c.protocol = "PWM" => gyroRate \div sync <= 500
        /\ ~async /\ c.protocol = "ONESHOT125" => gyroRate \div sync <= 2000
    BY <1>2, SlowerFacts
  <1> HIDE DEF first, async, sync, cut, rate, throttle
  <1> DEFINE c1 == [c EXCEPT !.sync = sync]
             c2 == [c1 EXCEPT !.async = async]
             c3 == [c2 EXCEPT !.rate = rate]
             c4 == [c3 EXCEPT !.throttle = throttle]
  <1>7. Sanitize(c, r) = c4 BY <1>1
  <1> HIDE DEF clean
  <1>8. /\ c4 \in Configuration
        /\ c4.bias = c.bias /\ c4.sync = sync /\ c4.rate = rate
        /\ c4.throttle = throttle /\ c4.protocol = c.protocol /\ c4.async = async
    <2> HIDE DEF c2, c3, c4
    <2>1. /\ c1 \in Configuration /\ c1.bias = c.bias
          /\ c1.protocol = c.protocol /\ c1.sync = sync
      BY <1>6 DEF Configuration
    <2> HIDE DEF c1
    <2>2. /\ c2 \in Configuration /\ c2.bias = c.bias
          /\ c2.protocol = c.protocol /\ c2.sync = sync /\ c2.async = async
      BY <1>3, <2>1 DEF Configuration, c2
    <2>3. /\ c3 \in Configuration /\ c3.bias = c.bias /\ c3.rate = rate
          /\ c3.protocol = c.protocol /\ c3.sync = sync /\ c3.async = async
      BY <1>4, <2>2 DEF Configuration, c3
    <2> QED BY <1>5, <2>3 DEF Configuration, c4
  <1> HIDE DEF c1, c2, c3, c4
  <1>9. gyroRate \div sync \in Int BY <1>6, SetupAssumption
  <1>10. c.protocol = "PWM" => (IF async THEN rate ELSE gyroRate \div sync) <= 500
    BY <1>4, <1>6 DEF TopRate
  <1>11. c.protocol = "ONESHOT125" => (IF async THEN rate ELSE gyroRate \div sync) <= 2000
    BY <1>4, <1>6 DEF TopRate
  <1>12. (IF async THEN rate ELSE gyroRate \div sync) \in Int BY <1>4, <1>9
  <1>13. PulseFits(c4, gyroRate \div sync)
    <2> DEFINE used == IF async THEN rate ELSE gyroRate \div sync
    <2>1. /\ c.protocol = "PWM" => used <= 500
          /\ c.protocol = "ONESHOT125" => used <= 2000
          /\ used \in Int
      BY <1>10, <1>11, <1>12
    <2>2. used = IF c4.async THEN c4.rate ELSE gyroRate \div sync BY <1>8
    <2> HIDE DEF used
    <2>3. SlowIsEnough(used, throttle) BY <1>5, <2>1, RateFits
    <2>4. /\ c4.protocol = "PWM" => used * c4.throttle <= Second
          /\ c4.protocol = "ONESHOT125" => used * (c4.throttle \div 8) <= Second
      BY <1>8, <2>1, <2>3 DEF SlowIsEnough
    <2> QED BY <2>2, <2>4 DEF PulseFits
  <1> QED BY <1>7, <1>8, <1>9, <1>13

-----------------------------------------------------------------------------
(* The configurations that the commands lead to. *)

LEMMA DefaultsFacts ==
  /\ Defaults \in Configuration /\ Defaults.bias = NoBias
  /\ Earlier \in Configuration /\ Earlier.bias = NoBias
PROOF
  <1>1. NoBias \in [Sensors -> Qualities] BY DEF NoBias, Qualities
  <1>2. Defaults \in Configuration
    <2>1. 2000 \in Pulse BY DEF Pulse
    <2> QED BY <1>1, <2>1 DEF Defaults, Configuration
  <1>3. Earlier \in Configuration
    <2> DEFINE c1 == [Defaults EXCEPT !.sync = 1]
               c2 == [c1 EXCEPT !.protocol = "PWM"]
    <2>1. Earlier = [c2 EXCEPT !.mag = TRUE] BY DEF Earlier
    <2>2. c1 \in Configuration BY <1>2 DEF Configuration
    <2> HIDE DEF c1
    <2>3. c2 \in Configuration BY <2>2 DEF Configuration
    <2> HIDE DEF c2
    <2>4. \A x \in BOOLEAN : [c2 EXCEPT !.mag = x] \in Configuration
      BY <2>3 DEF Configuration
    <2> QED BY <2>1, <2>4, Zenon
  <1>4. Defaults.bias = NoBias /\ Earlier.bias = NoBias BY DEF Defaults, Earlier
  <1> QED BY <1>2, <1>3, <1>4

LEMMA BeginFacts ==
  ASSUME gyroRate \in GyroRates, NEW c \in Configuration, NEW r, Begin(c, r)
  PROVE  /\ config' \in Configuration /\ config'.bias = c.bias
         /\ inForce' \in [clean : Configuration, loopRate : Int]
         /\ PulseFits(inForce'.clean, inForce'.loopRate)
PROOF
  <1> DEFINE clean == Sanitize(c, r)
  <1>1. /\ clean \in Configuration /\ clean.bias = c.bias
        /\ gyroRate \div clean.sync \in Int
        /\ PulseFits(clean, gyroRate \div clean.sync)
    BY SanitizeFacts
  <1>2. config' = clean /\ inForce' = [clean |-> clean, loopRate |-> gyroRate \div clean.sync]
    BY DEF Begin
  <1> QED BY <1>1, <1>2

LEMMA SavedFacts ==
  ASSUME NEW c \in Configuration, bias \in [Sensors -> Qualities]
  PROVE  Saved(c) \in Configuration /\ Saved(c).bias = bias
PROOF BY DEF Saved, Configuration

LEMMA SetFacts ==
  ASSUME NEW c \in Configuration,
         NEW d \in Advanced(c) \cup Motor(c) \cup SensorsUsed(c)
  PROVE  d \in Configuration /\ d.bias = c.bias
PROOF
  <1>1. ASSUME NEW s \in Syncs, NEW a \in BOOLEAN, NEW p \in Protocols, NEW r \in PwmRates
        PROVE  /\ WithAdvanced(c, s, a, p, r) \in Configuration
               /\ WithAdvanced(c, s, a, p, r).bias = c.bias
    <2> DEFINE c1 == [c EXCEPT !.sync = s]
               c2 == [c1 EXCEPT !.async = a]
               c3 == [c2 EXCEPT !.protocol = p]
    <2>1. WithAdvanced(c, s, a, p, r) = [c3 EXCEPT !.rate = r] BY DEF WithAdvanced
    <2>2. c1 \in Configuration /\ c1.bias = c.bias
      BY SettingsAreInts DEF Configuration
    <2> HIDE DEF c1
    <2>3. c2 \in Configuration /\ c2.bias = c.bias BY <2>2 DEF Configuration
    <2> HIDE DEF c2
    <2>4. c3 \in Configuration /\ c3.bias = c.bias BY <2>3 DEF Configuration
    <2> HIDE DEF c3
    <2>5. [c3 EXCEPT !.rate = r] \in Configuration /\ [c3 EXCEPT !.rate = r].bias = c.bias
      BY <2>4, SettingsAreInts DEF Configuration
    <2> QED BY <2>1, <2>5
  <1>2. ASSUME NEW t \in Throttles
        PROVE  /\ [c EXCEPT !.throttle = t] \in Configuration
               /\ [c EXCEPT !.throttle = t].bias = c.bias
    <2>1. t \in Pulse BY SetupAssumption DEF Pulse
    <2> QED BY <2>1 DEF Configuration
  <1>3. ASSUME NEW a \in BOOLEAN, NEW b \in BOOLEAN
        PROVE  /\ WithSensors(c, a, b) \in Configuration
               /\ WithSensors(c, a, b).bias = c.bias
    <2> DEFINE c1 == [c EXCEPT !.accel = a]
    <2>1. WithSensors(c, a, b) = [c1 EXCEPT !.mag = b] BY DEF WithSensors
    <2>2. c1 \in Configuration /\ c1.bias = c.bias BY DEF Configuration
    <2> HIDE DEF c1
    <2>3. [c1 EXCEPT !.mag = b] \in Configuration /\ [c1 EXCEPT !.mag = b].bias = c.bias
      BY <2>2 DEF Configuration
    <2> QED BY <2>1, <2>3
  <1>4. CASE d \in Advanced(c) BY <1>1, <1>4 DEF Advanced
  <1>5. CASE d \in Motor(c)
    <2>1. PICK t \in Throttles : d = [c EXCEPT !.throttle = t] BY <1>5 DEF Motor
    <2> QED BY <1>2, <2>1
  <1>6. CASE d \in SensorsUsed(c) BY <1>3, <1>6 DEF SensorsUsed
  <1> QED BY <1>4, <1>5, <1>6

LEMMA SaveFacts ==
  ASSUME TypeOK, Save
  PROVE  /\ config' \in Configuration
         /\ stored' \in Configuration \cup {Blank}
         /\ result' \in {"OK", "BAD", "FAILED"}
         /\ stored'.bias = bias \/ (stored' = stored /\ result' = "FAILED")
PROOF
  <1>1. Saved(config) \in Configuration /\ Saved(config).bias = bias
    BY SavedFacts DEF TypeOK
  <1>2. config' = Saved(config) BY DEF Save
  <1>3. \/ stored' = Saved(config) /\ result' = "OK"
        \/ stored' = stored /\ result' = "FAILED"
    BY DEF Save
  <1> QED BY <1>1, <1>2, <1>3 DEF TypeOK

LEMMA FinishFacts ==
  ASSUME TypeOK, NEW s \in Sensors, Finishes(s)
  PROVE  /\ config' \in Configuration
         /\ stored' \in Configuration \cup {Blank}
         /\ result' \in {"OK", "BAD", "FAILED"}
         /\ \/ stored'.bias = bias
            \/ stored' = stored /\ result' \in {result, "FAILED"}
         /\ s = "accel" /\ cal["accel"] = "SAVE" =>
              stored'.bias = bias \/ result' = "FAILED"
PROOF
  <1>1. CASE Save BY <1>1, SaveFacts
  <1>2. CASE ~Save
    <2>1. UNCHANGED <<config, storage>> /\ ~(s = "accel" /\ cal["accel"] = "SAVE")
      BY <1>2 DEF Finishes, FinishCalibration
    <2> QED BY <2>1 DEF TypeOK, storage
  <1> QED BY <1>1, <1>2

LEMMA LoadedFacts ==
  ASSUME TypeOK
  PROVE  /\ Loaded \in Configuration /\ Loaded.bias \in [Sensors -> Qualities]
         /\ stored # Blank => Loaded = stored
PROOF
  <1>1. Loaded \in Configuration BY DEF TypeOK, Loaded
  <1> QED BY <1>1 DEF Loaded, Configuration

(* A calibration that rests goes on resting. *)
LEMMA AdvanceFacts ==
  ASSUME TypeOK, NEW s \in Sensors, NEW counted \in BOOLEAN, Advance(s, counted)
  PROVE  /\ cal' \in [Sensors -> States] /\ samples' \in [Sensors -> Int]
         /\ \A t \in Sensors \ {s} : cal'[t] = cal[t]
         /\ cal[s] = "IDLE" => cal'[s] = "IDLE"
         /\ cal'[s] = "IDLE" => cal[s] \in {"IDLE", "SAVE"}
         /\ cal'[s] = "UPDATE" => cal[s] \in {"START", "UPDATE"}
         /\ cal'[s] = "APPLY" => cal[s] = "UPDATE"
         /\ cal'[s] = "SAVE" => cal[s] = "APPLY"
         /\ cal'[s] # "START"
PROOF
  <1> DEFINE left == CASE cal[s] = "START" -> Samples
                       [] cal[s] = "UPDATE" /\ counted -> samples[s] - 1
                       [] OTHER -> samples[s]
  <1>1. left \in Int BY BoundsAreNats DEF TypeOK
  <1>2. /\ samples' = [samples EXCEPT ![s] = left]
        /\ cal' = [cal EXCEPT ![s] = NextState(cal[s], left)]
    BY DEF Advance
  <1> HIDE DEF left
  <1>3. NextState(cal[s], left) \in States BY DEF NextState, States
  <1>4. cal' \in [Sensors -> States] /\ samples' \in [Sensors -> Int]
    BY <1>1, <1>2, <1>3 DEF TypeOK
  <1>5. cal'[s] = NextState(cal[s], left) /\ \A t \in Sensors \ {s} : cal'[t] = cal[t]
    BY <1>2 DEF TypeOK
  <1>6. cal[s] \in States BY DEF TypeOK
  <1> QED BY <1>4, <1>5, <1>6 DEF NextState, States

-----------------------------------------------------------------------------
(* Types. *)

LEMMA TypeInit == Init => TypeOK
PROOF
  <1> SUFFICES ASSUME Init PROVE TypeOK OBVIOUS
  <1> DEFINE c == IF stored = Blank THEN Defaults ELSE stored
  <1>1. stored \in Configuration \cup {Blank} /\ c \in Configuration
    BY DefaultsFacts DEF Init
  <1>2. config = Sanitize(c, result) /\ gyroRate \in GyroRates BY DEF Init
  <1> HIDE DEF c
  <1>3. config \in Configuration /\ gyroRate \div config.sync \in Int
    BY <1>1, <1>2, SanitizeFacts
  <1>4. inForce \in [clean : Configuration, loopRate : Int] BY <1>3 DEF Init
  <1>5. present \in [accel : BOOLEAN, mag : BOOLEAN]
    BY <1>3 DEF Init, Detected, Configuration
  <1>6. bias \in [Sensors -> Qualities] BY DEF Init, NoBias, Qualities
  <1>7. cal \in [Sensors -> States] BY DEF Init, AtBoot, States, Sensors
  <1>8. samples \in [Sensors -> Int] BY DEF Init
  <1>9. result \in {"OK", "BAD", "FAILED"} BY DEF Init
  <1>10. commands \in Nat /\ restarts \in Nat BY BoundsAreNats DEF Init
  <1>11. armed \in BOOLEAN /\ disturbed \in BOOLEAN BY DEF Init
  <1> QED
    BY <1>1, <1>2, <1>3, <1>4, <1>5, <1>6, <1>7, <1>8, <1>9, <1>10, <1>11 DEF TypeOK

LEMMA TypeNext == TypeOK /\ [Next]_vars => TypeOK'
PROOF
  <1> SUFFICES ASSUME TypeOK, [Next]_vars PROVE TypeOK' OBVIOUS
  <1> USE DEF storage, calibration, craft
  <1>1. CASE EepromWrite
    <2>1. Save /\ UNCHANGED <<inForce, disturbed, calibration, craft>>
      BY <1>1 DEF EepromWrite
    <2>2. commands' \in Nat BY <1>1 DEF EepromWrite, UserCommand, TypeOK
    <2> QED BY <2>1, <2>2, SaveFacts DEF TypeOK
  <1>2. CASE MspSet
    <2>1. PICK c \in Advanced(config) \cup Motor(config) \cup SensorsUsed(config) :
            Begin(c, result)
      BY <1>2 DEF MspSet
    <2>2. c \in Configuration BY <2>1, SetFacts DEF TypeOK
    <2>3. config' \in Configuration /\ inForce' \in [clean : Configuration, loopRate : Int]
      BY <2>1, <2>2, BeginFacts DEF TypeOK
    <2>4. commands' \in Nat BY <1>2 DEF MspSet, UserCommand, TypeOK
    <2>5. UNCHANGED <<disturbed, storage, calibration, craft>> BY <1>2 DEF MspSet
    <2> QED BY <2>3, <2>4, <2>5 DEF TypeOK
  <1>3. CASE CliSet
    <2>1. config' \in Configuration
      <3>1. config \in Configuration BY DEF TypeOK
      <3>2. CASE config' \in Motor(config) \cup SensorsUsed(config)
        BY <3>1, <3>2, SetFacts
      <3>3. CASE config' \in {[config EXCEPT !.sync = s] : s \in Syncs}
        BY <3>1, <3>3, SettingsAreInts DEF Configuration
      <3>4. CASE config' \in {[config EXCEPT !.protocol = p] : p \in Protocols}
        BY <3>1, <3>4 DEF Configuration
      <3> QED BY <1>3, <3>2, <3>3, <3>4 DEF CliSet
    <2>2. commands' \in Nat BY <1>3 DEF CliSet, UserCommand, TypeOK
    <2>3. UNCHANGED <<inForce, disturbed, storage, calibration, craft>>
      BY <1>3 DEF CliSet
    <2> QED BY <2>1, <2>2, <2>3 DEF TypeOK
  <1>4. CASE CliLoad
    <2>1. /\ config' = Loaded /\ bias' = Loaded.bias /\ result' \in {"BAD", "OK"}
          /\ UNCHANGED <<stored, inForce, cal, samples, craft>>
      BY <1>4 DEF CliLoad
    <2>2. commands' \in Nat BY <1>4 DEF CliLoad, UserCommand, TypeOK
    <2>3. disturbed' \in BOOLEAN BY <1>4, Zenon DEF CliLoad
    <2> QED BY <2>1, <2>2, <2>3, LoadedFacts DEF TypeOK
  <1>5. CASE CliDefaults
    <2>1. config' \in Configuration /\ inForce' \in [clean : Configuration, loopRate : Int]
      BY <1>5, DefaultsFacts, BeginFacts DEF CliDefaults, TypeOK
    <2>2. commands' \in Nat BY <1>5 DEF CliDefaults, UserCommand, TypeOK
    <2>3. UNCHANGED <<disturbed, storage, calibration, craft>>
      BY <1>5 DEF CliDefaults
    <2> QED BY <2>1, <2>2, <2>3 DEF TypeOK
  <1>6. CASE ResetConf
    <2> DEFINE clean == Sanitize(Defaults, result)
    <2>1. clean \in Configuration BY DefaultsFacts, SanitizeFacts DEF TypeOK
    <2>2. /\ config' = Saved(clean)
          /\ inForce' = [clean |-> clean, loopRate |-> gyroRate \div Saved(clean).sync]
          /\ stored' \in {stored, Saved(clean)} /\ result' \in {"OK", "FAILED"}
          /\ UNCHANGED <<disturbed, calibration, craft>>
      BY <1>6 DEF ResetConf
    <2> HIDE DEF clean
    <2>3. Saved(clean) \in Configuration /\ Saved(clean).sync = clean.sync
      <3>1. bias \in [Sensors -> Qualities] BY DEF TypeOK
      <3> QED BY <2>1, <3>1, SavedFacts DEF Saved, Configuration
    <2>4. gyroRate \div clean.sync \in Int
      BY DefaultsFacts, SanitizeFacts DEF clean, TypeOK
    <2>5. inForce' \in [clean : Configuration, loopRate : Int]
      BY <2>1, <2>2, <2>3, <2>4
    <2>6. commands' \in Nat BY <1>6 DEF ResetConf, UserCommand, TypeOK
    <2> QED BY <2>2, <2>3, <2>5, <2>6 DEF TypeOK
  <1>7. CASE CalibrateGyro \/ CalibrateMag
    <2>1. cal' \in [Sensors -> States]
      BY <1>7 DEF CalibrateGyro, CalibrateMag, TypeOK, States, Sensors
    <2>2. commands' \in Nat BY <1>7
      DEF CalibrateGyro, CalibrateMag, UserCommand, TypeOK
    <2>3. UNCHANGED <<config, inForce, bias, samples, disturbed, storage, craft>>
      BY <1>7 DEF CalibrateGyro, CalibrateMag
    <2> QED BY <2>1, <2>2, <2>3 DEF TypeOK
  <1>8. CASE ArmOrDisarm
    <2>1. armed' \in BOOLEAN BY <1>8, Zenon DEF ArmOrDisarm
    <2>2. UNCHANGED <<config, inForce, gyroRate, present, commands, restarts, disturbed,
                      storage, calibration>>
      BY <1>8 DEF ArmOrDisarm
    <2> QED BY <2>1, <2>2 DEF TypeOK
  <1>9. CASE Restart
    <2> DEFINE c == IF stored = Blank THEN Defaults ELSE stored
               r == IF stored = Blank THEN "BAD" ELSE "OK"
    <2>1. c \in Configuration BY DefaultsFacts DEF TypeOK
    <2>2. /\ Begin(c, r) /\ result' = r /\ bias' = c.bias /\ present' = Detected(c)
          /\ UNCHANGED <<stored, gyroRate, commands>>
      BY <1>9 DEF Restart
    <2>3. r \in {"OK", "BAD"} OBVIOUS
    <2>4. disturbed' = (c.bias.accel \in Unfinished) BY <1>9 DEF Restart
    <2>5. armed' = FALSE /\ cal' \in [Sensors -> States] /\ samples' \in [Sensors -> Int]
      BY <1>9 DEF Restart, AtBoot, States, Sensors
    <2>6. restarts' \in Nat BY <1>9 DEF Restart, TypeOK
    <2> HIDE DEF c, r
    <2>7. config' \in Configuration /\ inForce' \in [clean : Configuration, loopRate : Int]
      BY <2>1, <2>2, BeginFacts DEF TypeOK
    <2>8. present' \in [accel : BOOLEAN, mag : BOOLEAN] /\ bias' \in [Sensors -> Qualities]
      BY <2>1, <2>2 DEF Detected, Configuration
    <2>9. disturbed' \in BOOLEAN
      <3>1. CASE c.bias.accel \in Unfinished BY <2>4, <3>1
      <3>2. CASE c.bias.accel \notin Unfinished BY <2>4, <3>2
      <3> QED BY <3>1, <3>2
    <2> QED BY <2>2, <2>3, <2>5, <2>6, <2>7, <2>8, <2>9 DEF TypeOK
  <1>10. ASSUME NEW s \in Sensors, ResetBias(s) PROVE TypeOK'
    <2>1. bias' \in [Sensors -> Qualities] BY <1>10 DEF ResetBias, TypeOK, Qualities
    <2>2. disturbed' \in BOOLEAN BY <1>10, Zenon DEF ResetBias
    <2>3. commands' \in Nat BY <1>10 DEF ResetBias, UserCommand, TypeOK
    <2>4. UNCHANGED <<config, inForce, cal, samples, storage, craft>>
      BY <1>10 DEF ResetBias
    <2> QED BY <2>1, <2>2, <2>3, <2>4 DEF TypeOK
  <1>11. ASSUME NEW still \in BOOLEAN, GyroUpdate(still) PROVE TypeOK'
    <2>1. Advance("gyro", still) /\ Finishes("gyro") /\ SensorFrame /\ UNCHANGED disturbed
      BY <1>11 DEF GyroUpdate
    <2>2. bias' \in [Sensors -> Qualities]
      BY <1>11 DEF GyroUpdate, Becomes, TypeOK, Qualities, Sensors
    <2>3. "gyro" \in Sensors BY DEF Sensors
    <2> QED BY <2>1, <2>2, <2>3, AdvanceFacts, FinishFacts DEF SensorFrame, TypeOK
  <1>12. CASE AccelUpdate
    <2>1. Advance("accel", TRUE) /\ Finishes("accel") /\ SensorFrame
      BY <1>12 DEF AccelUpdate
    <2>2. bias' \in [Sensors -> Qualities]
      BY <1>12 DEF AccelUpdate, Becomes, TypeOK, Qualities, Sensors
    <2>3. disturbed' \in BOOLEAN BY <1>12, Zenon DEF AccelUpdate
    <2>4. "accel" \in Sensors BY DEF Sensors
    <2> QED
      BY <2>1, <2>2, <2>3, <2>4, AdvanceFacts, FinishFacts DEF SensorFrame, TypeOK
  <1>13. CASE MagUpdate
    <2>1. Advance("mag", TRUE) /\ Finishes("mag") /\ SensorFrame /\ UNCHANGED disturbed
      BY <1>13 DEF MagUpdate
    <2>2. bias' \in [Sensors -> Qualities]
      BY <1>13 DEF MagUpdate, Becomes, TypeOK, Qualities, Sensors
    <2>3. "mag" \in Sensors BY DEF Sensors
    <2> QED BY <2>1, <2>2, <2>3, AdvanceFacts, FinishFacts DEF SensorFrame, TypeOK
  <1>14. CASE UNCHANGED vars BY <1>14 DEF vars, TypeOK
  <1> QED
    BY <1>1, <1>2, <1>3, <1>4, <1>5, <1>6, <1>7, <1>8, <1>9, <1>10, <1>11, <1>12,
        <1>13,
       <1>14
    DEF Next

(* Every variable keeps to its type, whatever the rates and the commands.  *)
THEOREM TypeCorrect == Spec => []TypeOK
PROOF BY TypeInit, TypeNext, PTL DEF Spec

-----------------------------------------------------------------------------
(* Pulses. *)

(* Only begin() puts rates and pulses into force, and it sanitizes first. *)
LEMMA PulsesNext == TypeOK /\ PulsesFit /\ [Next]_vars => PulsesFit'
PROOF
  <1> SUFFICES ASSUME TypeOK, PulsesFit, [Next]_vars PROVE PulsesFit' OBVIOUS
  <1>1. PulsesFit' <=> PulseFits(inForce'.clean, inForce'.loopRate)
    BY SMTT(60) DEF PulsesFit, PulseFits, Second
  <1>2. CASE UNCHANGED inForce BY <1>2, SMTT(60) DEF PulsesFit
  <1>3. CASE MspSet
    <2>1. PICK c \in Advanced(config) \cup Motor(config) \cup SensorsUsed(config) :
            Begin(c, result)
      BY <1>3 DEF MspSet
    <2>2. c \in Configuration BY <2>1, SetFacts DEF TypeOK
    <2> QED BY <1>1, <2>1, <2>2, BeginFacts DEF TypeOK
  <1>4. CASE CliDefaults
    BY <1>1, <1>4, DefaultsFacts, BeginFacts DEF CliDefaults, TypeOK
  <1>5. CASE ResetConf
    <2> DEFINE clean == Sanitize(Defaults, result)
    <2>1. clean \in Configuration /\ PulseFits(clean, gyroRate \div clean.sync)
      BY DefaultsFacts, SanitizeFacts DEF TypeOK
    <2>2. inForce' = [clean |-> clean, loopRate |-> gyroRate \div Saved(clean).sync]
      BY <1>5 DEF ResetConf
    <2> HIDE DEF clean
    <2>3. Saved(clean).sync = clean.sync BY <2>1 DEF Saved, Configuration
    <2> QED BY <1>1, <2>1, <2>2, <2>3
  <1>6. CASE Restart
    <2> DEFINE c == IF stored = Blank THEN Defaults ELSE stored
               r == IF stored = Blank THEN "BAD" ELSE "OK"
    <2>1. c \in Configuration BY DefaultsFacts DEF TypeOK
    <2>2. Begin(c, r) BY <1>6 DEF Restart
    <2> HIDE DEF c, r
    <2> QED BY <1>1, <2>1, <2>2, BeginFacts DEF TypeOK
  <1>7. \/ MspSet \/ CliDefaults \/ ResetConf \/ Restart
        \/ UNCHANGED inForce
    BY DEF Next, vars, EepromWrite, CliSet, CliLoad, CalibrateGyro, CalibrateMag,
           ArmOrDisarm, ResetBias, GyroUpdate, AccelUpdate, MagUpdate, SensorFrame
  <1> QED BY <1>2, <1>3, <1>4, <1>5, <1>6, <1>7

(***************************************************************************)
(* What begin() leaves in force can be sent, for every rate of the gyro    *)
(* and whatever a user sets, in any order.                                 *)
(***************************************************************************)
THEOREM PulsesAlwaysFit == Spec => []PulsesFit
PROOF
  <1>1. Init => PulsesFit
    <2> SUFFICES ASSUME Init PROVE PulsesFit OBVIOUS
    <2> DEFINE c == IF stored = Blank THEN Defaults ELSE stored
    <2>1. c \in Configuration /\ gyroRate \in GyroRates BY DefaultsFacts DEF Init
    <2>2. config = Sanitize(c, result) BY DEF Init
    <2> HIDE DEF c
    <2>3. PulseFits(config, gyroRate \div config.sync) BY <2>1, <2>2, SanitizeFacts
    <2>4. inForce = [clean |-> config, loopRate |-> gyroRate \div config.sync]
      BY DEF Init
    <2>5. PulseFits(inForce.clean, inForce.loopRate) BY <2>3, <2>4
    <2> QED BY <2>5, SMTT(60) DEF PulsesFit, PulseFits, Second
  <1> QED BY <1>1, TypeCorrect, PulsesNext, PTL DEF Spec

-----------------------------------------------------------------------------
(* Flight. *)

(* Arming waits for the calibrations, and a calibration for the disarming. *)
LEMMA FlightNext ==
  TypeOK /\ NoCalibrationInFlight /\ [Next]_vars => NoCalibrationInFlight'
PROOF
  <1> SUFFICES ASSUME TypeOK, NoCalibrationInFlight, [Next]_vars, armed'
               PROVE  \A s \in Sensors : cal'[s] = "IDLE"
    BY DEF NoCalibrationInFlight, CalibrationActive
  <1> USE DEF NoCalibrationInFlight, CalibrationActive
  <1>1. CASE UNCHANGED <<armed, cal>> BY <1>1
  <1>2. CASE CalibrateGyro \/ CalibrateMag
    BY <1>2 DEF CalibrateGyro, CalibrateMag, craft
  <1>3. CASE ArmOrDisarm BY <1>3 DEF ArmOrDisarm, calibration
  <1>4. CASE Restart BY <1>4 DEF Restart
  <1>5. ASSUME NEW s \in Sensors, NEW counted \in BOOLEAN, Advance(s, counted),
               UNCHANGED armed
        PROVE  \A t \in Sensors : cal'[t] = "IDLE"
    BY <1>5, AdvanceFacts
  <1>6. CASE \E still \in BOOLEAN : GyroUpdate(still)
    BY <1>5, <1>6 DEF GyroUpdate, SensorFrame, craft, Sensors
  <1>7. CASE AccelUpdate \/ MagUpdate
    BY <1>5, <1>7 DEF AccelUpdate, MagUpdate, SensorFrame, craft, Sensors
  <1>8. \/ CalibrateGyro \/ CalibrateMag \/ ArmOrDisarm \/ Restart
        \/ \E still \in BOOLEAN : GyroUpdate(still)
        \/ AccelUpdate \/ MagUpdate
        \/ UNCHANGED <<armed, cal>>
    BY DEF Next, vars, EepromWrite, MspSet, CliSet, CliLoad, CliDefaults, ResetConf,
           ResetBias, calibration, craft
  <1> QED BY <1>1, <1>2, <1>3, <1>4, <1>6, <1>7, <1>8

(***************************************************************************)
(* No calibration runs in flight, however the user's commands, the modes   *)
(* and the sensors' turns interleave.                                      *)
(***************************************************************************)
THEOREM NoneInFlight == Spec => []NoCalibrationInFlight
PROOF
  <1>1. Init => NoCalibrationInFlight BY DEF Init, NoCalibrationInFlight
  <1> QED BY <1>1, TypeCorrect, FlightNext, PTL DEF Spec

-----------------------------------------------------------------------------
(* Biases. *)

(* Whoever saves while the accelerometer's calibration stands still saves  *)
(* a finished bias of it, or fails.                                        *)
LEMMA StandingSave ==
  ASSUME TypeOK, BiasInv, UNCHANGED <<cal["accel"], bias["accel"]>>, disturbed' = disturbed,
         \/ stored'.bias = bias
         \/ stored' = stored /\ result' \in {result, "FAILED"}
  PROVE  BiasInv'
PROOF
  <1> USE DEF BiasInv
  <1>1. BiasIsOwn' /\ BiasIsFinished' BY DEF BiasIsOwn, BiasIsFinished
  <1>2. StoredBiasIsFinished'
    BY DEF StoredBiasIsFinished, BiasIsFinished
  <1> QED BY <1>1, <1>2

LEMMA BiasNext == TypeOK /\ BiasInv /\ [Next]_vars => BiasInv'
PROOF
  <1> SUFFICES ASSUME TypeOK, BiasInv, [Next]_vars PROVE BiasInv' OBVIOUS
  <1> USE DEF storage, calibration, craft
  <1>1. CASE UNCHANGED <<cal, bias, disturbed, stored, result>>
    BY <1>1, StandingSave
  <1>2. CASE EepromWrite BY <1>2, SaveFacts, StandingSave DEF EepromWrite
  <1>3. CASE ResetConf
    <2> DEFINE clean == Sanitize(Defaults, result)
    <2>1. clean \in Configuration BY DefaultsFacts, SanitizeFacts DEF TypeOK
    <2>2. /\ UNCHANGED <<cal, bias>> /\ disturbed' = disturbed
          /\ \/ stored' = Saved(clean)
             \/ stored' = stored /\ result' = "FAILED"
      BY <1>3 DEF ResetConf
    <2> HIDE DEF clean
    <2>3. Saved(clean).bias = bias BY <2>1, SavedFacts DEF TypeOK
    <2> QED BY <2>2, <2>3, StandingSave
  <1>4. CASE CliLoad
    <2>1. /\ bias' = Loaded.bias /\ UNCHANGED <<stored, cal>>
          /\ disturbed' = (disturbed \/ Loaded.bias.accel \in Unfinished
                             \/ cal.accel \notin {"IDLE", "START"})
      BY <1>4 DEF CliLoad
    <2>2. BiasIsOwn' /\ BiasIsFinished' BY <2>1 DEF BiasIsOwn, BiasIsFinished
    <2>3. StoredBiasIsFinished' BY <2>1, LoadedFacts DEF StoredBiasIsFinished
    <2> QED BY <2>2, <2>3 DEF BiasInv
  <1>5. CASE CalibrateGyro \/ CalibrateMag
    <2>1. /\ UNCHANGED <<bias, stored, result>> /\ disturbed' = disturbed
          /\ cal'["accel"] \in {cal["accel"], "START"}
      BY <1>5 DEF CalibrateGyro, CalibrateMag, TypeOK, Sensors
    <2> QED
      BY <2>1 DEF BiasInv, BiasIsOwn, BiasIsFinished, StoredBiasIsFinished
  <1>6. CASE Restart
    <2> DEFINE c == IF stored = Blank THEN Defaults ELSE stored
    <2>1. /\ bias' = c.bias /\ disturbed' = (c.bias.accel \in Unfinished)
          /\ cal' = AtBoot /\ stored' = stored
      BY <1>6 DEF Restart
    <2>2. stored # Blank => c = stored OBVIOUS
    <2> HIDE DEF c
    <2>3. cal'.accel = "IDLE" BY <2>1 DEF AtBoot
    <2> QED
      BY <2>1, <2>2, <2>3
      DEF BiasInv, BiasIsOwn, BiasIsFinished, StoredBiasIsFinished
  <1>7. ASSUME NEW s \in Sensors, ResetBias(s) PROVE BiasInv'
    <2>1. /\ UNCHANGED <<cal, stored, result>>
          /\ bias' = [bias EXCEPT ![s] = "none"]
          /\ disturbed' = (disturbed \/ (s = "accel" /\ cal[s] \notin {"IDLE", "START"}))
      BY <1>7 DEF ResetBias
    <2>2. CASE s = "accel"
      <3>1. bias'["accel"] = "none" BY <2>1, <2>2 DEF TypeOK, Sensors
      <3> QED
        BY <2>1, <2>2, <3>1
        DEF BiasInv, BiasIsOwn, BiasIsFinished, StoredBiasIsFinished, Unfinished
    <2>3. CASE s # "accel"
      <3>1. bias'["accel"] = bias["accel"] BY <2>1, <2>3 DEF TypeOK, Sensors
      <3> QED
        BY <2>1, <2>3, <3>1
        DEF BiasInv, BiasIsOwn, BiasIsFinished, StoredBiasIsFinished
    <2> QED BY <2>2, <2>3
  <1>8. ASSUME NEW s \in Sensors \ {"accel"}, NEW counted \in BOOLEAN, NEW q,
               Advance(s, counted), Finishes(s), Becomes(s, q), disturbed' = disturbed
        PROVE  BiasInv'
    <2>1. "accel" \in Sensors BY DEF Sensors
    <2>2. cal'["accel"] = cal["accel"] BY <1>8, <2>1, AdvanceFacts
    <2>3. bias'["accel"] = bias["accel"] BY <1>8, <2>1 DEF Becomes, TypeOK
    <2> QED BY <1>8, <2>2, <2>3, FinishFacts, StandingSave
  <1>9. CASE \E still \in BOOLEAN : GyroUpdate(still)
    BY <1>8, <1>9 DEF GyroUpdate, Sensors
  <1>10. CASE MagUpdate BY <1>8, <1>10 DEF MagUpdate, Sensors
  <1>11. CASE AccelUpdate
    <2>1. /\ cal["accel"] # "IDLE" /\ Advance("accel", TRUE) /\ Finishes("accel")
          /\ disturbed' = (disturbed /\ cal.accel # "START")
          /\ bias' = [bias EXCEPT !["accel"] =
                        CASE cal.accel = "START" -> "raw"
                          [] cal.accel = "APPLY" ->
                               IF bias.accel = "raw" THEN "new" ELSE "shifted"
                          [] OTHER -> bias.accel]
      BY <1>11 DEF AccelUpdate, Becomes
    <2>2. "accel" \in Sensors BY DEF Sensors
    <2>3. /\ cal'["accel"] = "IDLE" => cal["accel"] = "SAVE"
          /\ cal'["accel"] = "UPDATE" => cal["accel"] \in {"START", "UPDATE"}
          /\ cal'["accel"] = "APPLY" => cal["accel"] = "UPDATE"
          /\ cal'["accel"] = "SAVE" => cal["accel"] = "APPLY"
      BY <2>1, <2>2, AdvanceFacts
    <2>4. bias'["accel"] = CASE cal.accel = "START" -> "raw"
                             [] cal.accel = "APPLY" ->
                                  IF bias.accel = "raw" THEN "new" ELSE "shifted"
                             [] OTHER -> bias.accel
      BY <2>1, <2>2 DEF TypeOK
    <2>5. cal["accel"] = "SAVE" => stored'.bias = bias \/ result' = "FAILED"
      BY <2>1, <2>2, FinishFacts
    <2>6. BiasIsOwn' BY <2>1, <2>3, <2>4 DEF BiasInv, BiasIsOwn
    <2>7. BiasIsFinished'
      <3>1. CASE cal["accel"] = "SAVE"
        <4>1. bias'["accel"] = bias["accel"] /\ (disturbed => disturbed')
          BY <2>1, <2>4, <3>1
        <4> QED BY <3>1, <4>1 DEF BiasInv, BiasIsFinished
      <3>2. CASE cal["accel"] = "APPLY"
        <4>1. bias["accel"] = "raw" => bias'["accel"] = "new" BY <2>4, <3>2
        <4>2. bias["accel"] # "raw" => disturbed /\ disturbed'
          BY <2>1, <3>2 DEF BiasInv, BiasIsOwn
        <4> QED BY <4>1, <4>2 DEF BiasIsFinished, Unfinished
      <3>3. CASE cal["accel"] \notin {"SAVE", "APPLY"}
        BY <2>3, <3>3 DEF BiasIsFinished
      <3> QED BY <3>1, <3>2, <3>3
    <2>8. StoredBiasIsFinished'
      BY <2>1, <2>3, <2>5 DEF BiasInv, BiasIsFinished, StoredBiasIsFinished
    <2> QED BY <2>6, <2>7, <2>8 DEF BiasInv
  <1>12. \/ UNCHANGED <<cal, bias, disturbed, stored, result>>
         \/ EepromWrite \/ ResetConf \/ CliLoad \/ CalibrateGyro \/ CalibrateMag
         \/ Restart \/ MagUpdate \/ AccelUpdate
         \/ \E s \in Sensors : ResetBias(s)
         \/ \E still \in BOOLEAN : GyroUpdate(still)
    BY DEF Next, vars, MspSet, CliSet, CliDefaults, ArmOrDisarm
  <1> QED
    BY <1>1, <1>2, <1>3, <1>4, <1>5, <1>6, <1>7, <1>9, <1>10, <1>11, <1>12

(***************************************************************************)
(* The EEPROM holds no half-made bias of an accelerometer at rest, whoever *)
(* saved while it was being calibrated.                                    *)
(***************************************************************************)
THEOREM StoredBiasStaysFinished == Spec => []StoredBiasIsFinished
PROOF
  <1>1. Init => BiasInv
    <2> SUFFICES ASSUME Init PROVE BiasInv OBVIOUS
    <2>1. cal.accel = "IDLE" /\ bias.accel = "none"
      BY DEF Init, AtBoot, NoBias, Sensors
    <2>2. stored # Blank => stored.bias.accel = "none"
      BY DefaultsFacts DEF Init, NoBias, Sensors
    <2> QED
      BY <2>1, <2>2
      DEF BiasInv, BiasIsOwn, BiasIsFinished, StoredBiasIsFinished, Unfinished
  <1>2. BiasInv => StoredBiasIsFinished BY DEF BiasInv
  <1> QED BY <1>1, <1>2, TypeCorrect, BiasNext, PTL DEF Spec

=============================================================================
