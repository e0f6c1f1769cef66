---------------------------- MODULE MotorOutput ----------------------------
(***************************************************************************)
(* From the flight modes to the wires: the mixer (Output/Mixer, Mixers),   *)
(* which the loop runs, and the ESC driver of the ESP8266 and the ESP32-C3 *)
(* (EscDriver), whose timer interrupt plays the pulses from a list that it *)
(* makes anew for every frame.  The interrupt may come between any two     *)
(* steps of the loop; while it runs, the loop stands still.                *)
(*                                                                         *)
(* Pulses are microseconds, ticks are those of the driver's timer.  What   *)
(* the mixer calls 1.0 is Full; a source of Percent is 1.0.  The timer is  *)
(* ideal: the compensation for its latency is what the latency takes.      *)
(***************************************************************************)
EXTENDS Integers, FiniteSets, FiniteSetsExt

CONSTANTS
  Configs,     \* settings the board may boot with, and what is then flown:
               \* modes, throttle and what the controllers ask
  TestPulses,  \* what MSP_SET_MOTOR may ask of a motor
  Channels,    \* OUTPUT_CHANNELS
  WaitEdge,    \* TIMER1_WAIT_EDGE: shorter delays are spent in the handler
  MinTicks,    \* shortest pause between two frames
  DeltaMin     \* DELTA_TICKS_MIN

VARIABLES
  cfg, protocol,       \* settings, and what the driver makes of the protocol
  flight, disarmed,    \* the loop's inputs; the pulses of stopped outputs
  us, saturated,       \* what the mixer has made of them
  pc, at,              \* where the loop is, and at which channel
  slots,               \* pin and pulse of each channel
  isr, busy,           \* the timer's interrupt; a frame is being played
  asked, left,         \* what the frame was made of, and the pulses to end in it
  level, width,        \* the wires, and how long they were high this frame
  whole,               \* no wire was attached in the middle of the frame
  fits, loud           \* the last frame: was what was asked; had a motor turn

loop == <<flight, disarmed, us, saturated, pc, at>>
driver == <<slots, isr, busy, asked, left, protocol>>
wires == <<level, width, whole, fits, loud>>
vars == <<cfg, loop, driver, wires>>

Full == 10000
Percent == 100
Outputs == 0..(Channels - 1)
MinCommand == 1000
Neutral == 1500
Digital == {"DSHOT150", "DSHOT300", "DSHOT600"}

Analog == {"PWM", "ONESHOT125", "ONESHOT42", "MULTISHOT", "BRUSHED"}

(***************************************************************************)
(* The pulses of a test and of the least and greatest throttle are those   *)
(* the configurator offers, which the code does not check.  A board that   *)
(* is not on the list has no mixer, a protocol not on the list no driver.  *)
(* The pauses are longer than the shortest wait on the ESP8266 (150 and    *)
(* 140 ticks, or 250 and 240), and the shortest period is 10000 ticks.     *)
(***************************************************************************)
Axes == {"roll", "pitch", "yaw", "thrust"}

Flights == [armed : BOOLEAN, air : BOOLEAN, low : BOOLEAN, src : [Axes -> Int]]

Throttles == 1000..2000

Settings ==
  [protocol : Analog \cup Digital \cup {"DISABLED"}, async : BOOLEAN, rate : Int,
   mixer : {"QUADX", "QUADX_1234", "TRI", "GIMBAL", "NONE"},
   flights : SUBSET Flights, yawReverse : BOOLEAN,
   limitType : {"NONE", "SCALE", "CLIP"}, limitPercent : Int, motorLimit : Int,
   servos : SUBSET Outputs, motorStop : BOOLEAN,
   minThrottle : Throttles, maxThrottle : Throttles, idle : Throttles]

ASSUME MotorAssumption ==
  /\ Configs \subseteq Settings /\ TestPulses \subseteq Throttles
  /\ Channels \in Nat \ {0} /\ DeltaMin \in Nat

ASSUME WaitAssumption ==
  WaitEdge \in Nat /\ MinTicks \in Nat /\ WaitEdge < MinTicks /\ WaitEdge < 10000

Clamp(x, lo, hi) == IF x < lo THEN lo ELSE IF x > hi THEN hi ELSE x
Round(a, b) == (2 * a + b) \div (2 * b)

-----------------------------------------------------------------------------
(* The mixer. *)

QuadX ==
  [count |-> 4,
   rate |-> [roll |-> <<-100, -100, 100, 100>>, pitch |-> <<100, -100, 100, -100>>,
             yaw |-> <<-100, 100, 100, -100>>, thrust |-> <<100, 100, 100, 100>>]]

QuadX1234 ==
  [count |-> 4,
   rate |-> [roll |-> <<100, -100, -100, 100>>, pitch |-> <<-100, -100, 100, 100>>,
             yaw |-> <<-100, 100, -100, 100>>, thrust |-> <<100, 100, 100, 100>>]]

Tricopter ==
  [count |-> 4,
   rate |-> [roll |-> <<0, -100, 100, 0>>, pitch |-> <<133, -67, -67, 0>>,
             yaw |-> <<0, 0, 0, 100>>, thrust |-> <<100, 100, 100, 0>>]]

Gimbal ==
  [count |-> 2,
   rate |-> [roll |-> <<0, 0, 0, 0>>, pitch |-> <<100, 100, 0, 0>>,
             yaw |-> <<100, -100, 0, 0>>, thrust |-> <<0, 0, 0, 0>>]]

GetMixer(type) ==
  CASE type = "QUADX" -> QuadX
    [] type = "QUADX_1234" -> QuadX1234
    [] type = "TRI" -> Tricopter
    [] type = "GIMBAL" -> Gimbal
    [] OTHER -> [count |-> 0, rate |-> [a \in Axes |-> <<0, 0, 0, 0>>]]

Mixer == GetMixer(cfg.mixer)
Driven == {o \in Outputs : o < Mixer.count}

Share(axis, o) == flight.src[axis] * Mixer.rate[axis][o + 1]

(* The channel map of the configurator has yaw turned. *)
Turned(o) == IF cfg.yawReverse THEN Share("yaw", o) ELSE -Share("yaw", o)

Stabilized(o) ==
  IF o \in Driven THEN Share("roll", o) + Share("pitch", o) + Turned(o) ELSE 0

LimitThrust(thrust) ==
  LET limit == cfg.limitPercent IN
  CASE cfg.limitType = "NONE" \/ limit >= 100 \/ limit < 1 -> thrust
    [] cfg.limitType = "SCALE" -> ((thrust + Full) * limit) \div 100 - Full
    [] cfg.limitType = "CLIP" -> Clamp(thrust, -Full, (2 * limit * Full) \div 100 - Full)

(***************************************************************************)
(* Air mode: when the axes ask for more than there is, all of them are     *)
(* scaled down; else the thrust keeps as far from its limits as they need. *)
(* What they ask is taken to be spread evenly around nothing.              *)
(***************************************************************************)
Spread ==
  LET asks == {0} \cup {Stabilized(o) : o \in Driven} IN Max(asks) - Min(asks)

Thrust_KeepsClimbing(spread) == LimitThrust(flight.src.thrust * Percent)

Thrust(spread) ==
  LET thrust == LimitThrust(flight.src.thrust * Percent) IN
  CASE ~flight.air -> thrust
    [] spread > 2 * Full -> 0
    [] OTHER -> Clamp(thrust, spread \div 2 - Full, Full - spread \div 2)

Mixed ==
  LET spread == Spread
      thrust == Thrust(spread)
      scaled(x) == IF flight.air /\ spread > 2 * Full THEN (x * 2 * Full) \div spread ELSE x
      lift(o) == IF o \in Driven THEN (thrust * Mixer.rate["thrust"][o + 1]) \div 100 ELSE 0
  IN [o \in Outputs |-> scaled(Stabilized(o)) + lift(o)]

LimitOutput(x, o) ==
  LET limit == cfg.motorLimit IN
  CASE limit >= 100 \/ limit < 1 -> x
    [] o \in cfg.servos -> Clamp(x, -(limit * Full) \div 100, (limit * Full) \div 100)
    [] OTHER -> Clamp(x + Full, 0, (2 * limit * Full) \div 100) - Full

Saturates(mixed) == \E o \in Driven \ cfg.servos : 100 * mixed[o] >= 98 * Full

(* The pulses: of a servo around its neutral, of a motor from the least to *)
(* the greatest throttle, which a digital protocol sets itself.            *)
MinThrottle == IF cfg.protocol \in Digital THEN cfg.idle ELSE cfg.minThrottle
MaxThrottle == IF cfg.protocol \in Digital THEN 2000 ELSE cfg.maxThrottle

ServoPulse(x) == Clamp(Neutral + Round(x * 500, Full), 1000, 2000)
MotorPulse(x) ==
  MinThrottle + Round((Clamp(x, -Full, Full) + Full) * (MaxThrottle - MinThrottle), 2 * Full)

Stop_ThrottleOnly == cfg.motorStop /\ flight.low

Stop == ~flight.armed \/ (cfg.motorStop /\ flight.low)

Stopped(o) ==
  IF o \in cfg.servos /\ disarmed[o] = 1000 THEN Neutral ELSE disarmed[o]

Output(o, mixed) ==
  CASE o \notin Driven \/ Stop -> Stopped(o)
    [] o \in cfg.servos -> ServoPulse(LimitOutput(mixed[o], o))
    [] OTHER -> MotorPulse(LimitOutput(mixed[o], o))

(* Model::begin: the pulses of outputs that are stopped. *)
DefaultDisarmed == [o \in Outputs |-> IF o \in cfg.servos THEN Neutral ELSE MinCommand]

-----------------------------------------------------------------------------
(* The ESC driver. *)

TicksPerUs == 80
UsToTicksReal(t) == t * TicksPerUs
Interval == UsToTicksReal(1000000 \div Clamp(cfg.rate, 50, 8000))
IntervalMin == Interval \div 500
IntervalMax == Interval - IntervalMin

(* Arduino's map(): a division that rounds towards zero. *)
MapTo(x, lo, hi) == lo + ((x - 1000) * (hi - lo)) \div 1000

UsToTicks(t) ==
  CASE protocol = "ONESHOT125" -> MapTo(t, UsToTicksReal(125), UsToTicksReal(250))
    [] protocol = "ONESHOT42" -> MapTo(t, UsToTicksReal(42), UsToTicksReal(84))
    [] protocol = "MULTISHOT" -> MapTo(t, UsToTicksReal(5), UsToTicksReal(25))
    [] protocol = "BRUSHED" -> MapTo(Clamp(t, 1000, 2000), 0, Interval)
    [] protocol \in Digital -> t
    [] OTHER -> UsToTicksReal(t)

Async == protocol = "BRUSHED" \/ cfg.async

Slot(pin, pulse) == [pin |-> pin, pulse |-> pulse]
NoSlot == Slot(FALSE, 0)

Active == {o \in Outputs : slots[o].pin}
Pulse(o) == slots[o].pulse

(* Brushed motors: a pulse near nothing is left out, one near the whole    *)
(* period is not ended.                                                    *)
Begun == {o \in Active : ~(protocol = "BRUSHED" /\ Pulse(o) <= IntervalMin)}
Ended_Unbuffered ==
  {o \in Outputs : ~(protocol = "BRUSHED" /\ Pulse(o) >= IntervalMax)}

Ended == {o \in Outputs : ~(protocol = "BRUSHED" /\ asked[o] >= IntervalMax)}

(***************************************************************************)
(* commit sorts the slots by their pulses and makes an item for each that  *)
(* is more than DeltaMin longer than the one before it; the others end     *)
(* together with the first of their group.                                 *)
(***************************************************************************)
Least(S) == Min({asked[o] : o \in S})
Greatest(S) == Max({asked[o] : o \in S})

Follows(q, S) == \E r \in S : asked[r] < asked[q] /\ asked[q] - asked[r] <= DeltaMin

Group ==
  {o \in left : \A q \in left :
     (Least(left) < asked[q] /\ asked[q] <= asked[o]) => Follows(q, left)}

(* The pause after the last item. *)
Pause_NoMinimum ==
  CASE ~Async -> 0
    [] left = {} -> Interval
    [] OTHER -> Interval - Greatest(left)

Pause ==
  CASE ~Async -> 0
    [] left = {} -> Interval
    [] OTHER -> Max({Interval - Greatest(left), MinTicks})

(* Digital frames are played by the loop itself. *)
DshotConvert(pulse) == IF pulse > 1000 THEN (pulse - 1000) * 2 + 47 ELSE 0
DshotValue(o) ==
  IF slots[o].pin THEN DshotConvert(Clamp(Pulse(o), 0, 2000)) ELSE 0

-----------------------------------------------------------------------------
Low == [o \in Outputs |-> FALSE]
Zero == [o \in Outputs |-> 0]

Init ==
  /\ cfg \in Configs
  /\ protocol = cfg.protocol
  /\ flight = [armed |-> FALSE, air |-> FALSE, low |-> TRUE, src |-> [a \in Axes |-> 0]]
  /\ disarmed = DefaultDisarmed
  /\ us = Zero /\ saturated = FALSE
  /\ pc = "attach" /\ at = 0
  /\ slots = [o \in Outputs |-> NoSlot]
  /\ isr = IF Async /\ protocol \in Analog THEN "armed" ELSE "off"
  /\ busy = FALSE /\ asked = Zero /\ left = {}
  /\ level = Low /\ width = Zero
  /\ whole = TRUE /\ fits = TRUE /\ loud = FALSE

Loop(place) == isr # "running" /\ pc = place

Advance(next) ==
  IF at + 1 < Channels THEN at' = at + 1 /\ UNCHANGED pc ELSE at' = 0 /\ pc' = next

(* attach stores the pin, then the pulse, then lowers the wire, and all    *)
(* that with the interrupt enabled.                                        *)
Attach ==
  /\ Loop("attach")
  /\ IF at \in cfg.servos
       THEN Advance("idle") /\ UNCHANGED slots
       ELSE slots' = [slots EXCEPT ![at].pin = TRUE] /\ pc' = "pulse" /\ UNCHANGED at
  /\ UNCHANGED <<cfg, flight, disarmed, us, saturated, isr, busy, asked, left, protocol, wires>>

AttachPulse ==
  /\ Loop("pulse")
  /\ slots' = [slots EXCEPT ![at].pulse = UsToTicks(1000)]
  /\ level' = [level EXCEPT ![at] = FALSE]
  /\ whole' = (whole /\ ~level[at])
  /\ IF at + 1 < Channels THEN at' = at + 1 /\ pc' = "attach" ELSE at' = 0 /\ pc' = "idle"
  /\ UNCHANGED <<cfg, flight, disarmed, us, saturated, isr, busy, asked, left, protocol,
                 width, fits, loud>>

(* Modes, throttle and controllers change between two runs of the mixer. *)
Fly ==
  /\ Loop("idle")
  /\ flight' \in cfg.flights
  /\ UNCHANGED <<cfg, disarmed, us, saturated, pc, at, driver, wires>>

(* MSP_SET_MOTOR: the pulse of a stopped output, armed or not. *)
SetMotor ==
  /\ Loop("idle")
  /\ \E p \in TestPulses : disarmed' = [o \in Outputs |-> p]
  /\ UNCHANGED <<cfg, flight, us, saturated, pc, at, driver, wires>>

(* Model::begin, which ends every reload. *)
Reload ==
  /\ Loop("idle")
  /\ disarmed' = DefaultDisarmed
  /\ UNCHANGED <<cfg, flight, us, saturated, pc, at, driver, wires>>

(* The ESCs' own protocol takes the wires: motorDisable, then no way back. *)
MotorDisable ==
  /\ Loop("idle")
  /\ protocol' = "DISABLED"
  /\ isr' = IF protocol \in Analog THEN "off" ELSE isr
  /\ level' = Low
  /\ UNCHANGED <<cfg, loop, slots, busy, asked, left, width, whole, fits, loud>>

Update ==
  /\ Loop("idle")
  /\ LET mixed == Mixed
     IN /\ us' = [o \in Outputs |-> Output(o, mixed)]
        /\ saturated' = Saturates(mixed)
  /\ pc' = "write" /\ at' = 0
  /\ UNCHANGED <<cfg, flight, disarmed, driver, wires>>

Write ==
  /\ Loop("write")
  /\ slots' = IF at \in cfg.servos THEN slots
              ELSE [slots EXCEPT ![at].pulse = UsToTicks(us[at])]
  /\ Advance("apply")
  /\ UNCHANGED <<cfg, flight, disarmed, us, saturated, isr, busy, asked, left, protocol, wires>>

(* What a run of the mixer leaves in us is made anew by the next.  *)
Apply ==
  /\ Loop("apply")
  /\ pc' = "idle" /\ us' = Zero
  /\ isr' = IF protocol \in Analog /\ ~Async /\ ~busy THEN "armed" ELSE isr
  /\ loud' = IF protocol \in Digital THEN \E o \in Outputs : DshotValue(o) # 0 ELSE loud
  /\ UNCHANGED <<cfg, flight, disarmed, saturated, at, slots, busy, asked, left, protocol,
                 level, width, whole, fits>>

-----------------------------------------------------------------------------
(* The interrupt: items are played until one has a delay worth waiting for. *)

Spend(ticks, high, widths) ==
  /\ level' = high
  /\ width' = [o \in Outputs |-> widths[o] + IF high[o] THEN ticks ELSE 0]

Wait(ticks, otherwise) == isr' = IF ticks > WaitEdge THEN "armed" ELSE otherwise

BeginFrame ==
  /\ isr = "armed" /\ ~busy
  /\ busy' = TRUE /\ whole' = TRUE
  /\ asked' = [o \in Outputs |-> IF o \in Active THEN Pulse(o) ELSE 0]
  /\ left' = Active
  /\ LET ticks == IF Active = {} THEN 0 ELSE Min({Pulse(o) : o \in Active})
     IN /\ Spend(ticks, [o \in Outputs |-> level[o] \/ o \in Begun], Zero)
        /\ Wait(ticks, "running")
  /\ UNCHANGED <<cfg, protocol, loop, slots, fits, loud>>

EndPulses ==
  /\ isr # "off" /\ busy /\ Group # left
  /\ left' = left \ Group
  /\ LET ticks == Least(left \ Group) - Greatest(Group)
     IN /\ Spend(ticks, [o \in Outputs |-> level[o] /\ o \notin Group \cap Ended], width)
        /\ Wait(ticks, "running")
  /\ UNCHANGED <<cfg, protocol, loop, slots, busy, asked, whole, fits, loud>>

Slack == Channels * DeltaMin

Meant(o, had) ==
  CASE protocol = "BRUSHED" /\ asked[o] <= IntervalMin -> had <= asked[o]
    [] protocol = "BRUSHED" /\ asked[o] >= IntervalMax -> had >= Interval - Slack
    [] OTHER -> had \in (asked[o] - Slack)..asked[o]

EndFrame ==
  /\ isr # "off" /\ busy /\ Group = left
  /\ busy' = FALSE /\ left' = {} /\ asked' = Zero /\ width' = Zero
  /\ LET high == [o \in Outputs |-> level[o] /\ o \notin Group \cap Ended]
         had == [o \in Outputs |-> width[o] + IF high[o] THEN Pause ELSE 0]
     IN /\ level' = high
        /\ fits' = (whole => \A o \in Outputs : Meant(o, had[o]))
        /\ loud' = \E o \in Outputs : had[o] > UsToTicks(MinCommand)
  /\ Wait(Pause, "off")
  /\ UNCHANGED <<cfg, protocol, loop, slots, whole>>

Handle == BeginFrame \/ EndPulses \/ EndFrame

Next ==
  \/ Attach \/ AttachPulse
  \/ Fly \/ SetMotor \/ Reload \/ MotorDisable
  \/ Update \/ Write \/ Apply
  \/ Handle

LoopStep == Attach \/ AttachPulse \/ Update \/ Write \/ Apply

(* An enabled timer fires, and does not keep the loop from running. *)
Spec == Init /\ [][Next]_vars /\ SF_vars(LoopStep) /\ WF_vars(Handle)

-----------------------------------------------------------------------------
Pulses == Int

TypeOK ==
  /\ cfg \in Configs /\ protocol \in {cfg.protocol, "DISABLED"} /\ flight \in Flights
  /\ disarmed \in [Outputs -> Pulses] /\ us \in [Outputs -> Pulses]
  /\ pc \in {"attach", "pulse", "idle", "write", "apply"} /\ at \in Outputs
  /\ slots \in [Outputs -> [pin : BOOLEAN, pulse : Pulses]]
  /\ isr \in {"off", "armed", "running"} /\ left \subseteq Outputs
  /\ busy \in BOOLEAN /\ saturated \in BOOLEAN
  /\ whole \in BOOLEAN /\ fits \in BOOLEAN /\ loud \in BOOLEAN
  /\ asked \in [Outputs -> Pulses]
  /\ level \in [Outputs -> BOOLEAN] /\ width \in [Outputs -> Int]

(***************************************************************************)
(* The pulses on the wires are those the frame was made of, whatever the   *)
(* loop writes meanwhile: never longer, and shorter by no more than what   *)
(* the groups may lose; a brushed motor's short pulse is left out, but for *)
(* the end of a long one before it, and its long one fills the period.     *)
(***************************************************************************)
PulseIsAsked == fits

(***************************************************************************)
(* A wire that is high has an interrupt to come that may lower it: no      *)
(* motor is left running because the handler did not ask to be called.     *)
(***************************************************************************)
HighIsWatched == (\E o \in Outputs : level[o]) => isr # "off"

(***************************************************************************)
(* Once the craft stays disarmed (or its throttle low, with MOTOR_STOP)    *)
(* and no test runs, every motor gets the pulse of a stopped one and no    *)
(* longer one, whatever the frame that was on its way.                     *)
(***************************************************************************)
Halted ==
  /\ ~flight.armed \/ (cfg.motorStop /\ flight.low)
  /\ disarmed = DefaultDisarmed

Quiet ==
  CASE protocol = "DISABLED" -> level = Low
    [] OTHER -> ~loud

MotorsStop == <>[]Halted => <>[]Quiet

(***************************************************************************)
(* Air mode gives up thrust, and if need be strength, but not the control  *)
(* of the attitude: the differences between the motors of a quad are in    *)
(* the proportion the controllers ask for.  The code takes what they ask   *)
(* to be as far above nothing as below: with yaw on top of roll and pitch  *)
(* it need not be, and then the strongest motor is cut off.                *)
(***************************************************************************)
Balanced == \A o \in Driven : \E p \in Driven : Stabilized(p) = -Stabilized(o)

AirModeKeepsControl ==
  (pc = "write" /\ flight.air /\ ~Stop /\ Mixer \in {QuadX, QuadX1234} /\ Balanced
    /\ cfg.motorLimit = 100 /\ cfg.servos = {}) =>
    LET unit == Max({Spread, 2 * Full})
        error(o, p) == (us[o] - us[p]) * unit
                         - (Stabilized(o) - Stabilized(p)) * (MaxThrottle - MinThrottle)
    IN \A o, p \in Driven : error(o, p) \in (-2 * unit)..(2 * unit)

=============================================================================
