# A TLA+ model of the darkflight firmware

darkflight is a flight controller for ESP32, ESP8266 and RP2040 boards.  Its own
code is `src/lib/Espfc/src`; the paths below are relative to that directory
unless they begin with `src/`.  This project models the part of the firmware on
which a craft's safety rests: the receiver and its failsafe, arming and the
flight modes, the scheduling of the tasks on one core and on two, the lock-free
structures the two cores share and a sample's way through them, the GPS driver
and the position hold, the configuration with its calibrations and its EEPROM,
the flight recorder and its flash store, the mixer and the ESC driver, the byte
parsers of the serial links, the requests that arrive over the radio link, and
the settings that configurators and the command line read and write.
TLC checks small instances; the TLA+ proof system proves the safety properties
that matter most for every value of the constants.

## The system

| Component | State it keeps | Operations | Talks to |
|---|---|---|---|
| Receiver and failsafe, `Input.cpp` | channel values, `rxLoss`, `rxFailSafe`, `frameTime`, `frameCount`, the failsafe phase | `update`: read the receiver, `processInputs`, `failsafe` (idle, stage 1, stage 2) | disarms the Model; the Actuator reads channels and phase |
| Modes and arming, `Control/Actuator.cpp` | arming-disable flags, switch mask, mode mask, `airmodeAllowed`, rescue-config mode | `update`: `updateArmingDisabled`, `updateModeMask`, `updateArmed`, `updateAirMode`, `updateRescueConfig` (and scaler, buzzer, LED, filter) | reads Input, sensors, GPS; writes the Model |
| Model, `Model.h`, `ModelState.h` | everything shared: mode mask, flags, sensors, configuration | `disarm`, `clearMode`, `updateModes`, `setArmingDisabled`, calibration, load and save | every component holds a reference |
| Scheduler, `Espfc.cpp`, `SensorManager.cpp`, `src/src/main.cpp` | gyro, loop, input, actuator timers; `_loop_next`; `_fusionUpdate` | `update` (gyro task), `updateOther` (PID task), the timer interrupt | calls every component; posts events |
| Timer, `Utils/Timer.cpp` | `next`, `iteration`, `interval`, `denom` | `check`, `update`, `syncTo` | the scheduler and most components |
| Event queue, `Target/Queue*` | a ring with two atomic indices (or a FreeRTOS or Pico SDK queue) | `send`, `receive`, `isEmpty` | gyro task to PID task |
| Sequence lock, `Utils/SeqLockWrapper.hpp` | a counter and a vector | `store`, `fetch` | accelerometer and gyro data between the cores |
| Position hold, `Control/PosHold.hpp` | `active`, `overrideActive`, `fallbackAngle`, `lastGpsTs`, velocities, set point | `update`, `reset`, `isGpsHealthy` | reads GPS and modes, clears its mode, writes `setpoint.angle` |
| Controller, `Control/Controller.cpp`, `Pid`, `Rates` | integrators, set points | `outerLoop`, `innerLoop` | reads modes and PosHold, feeds the Mixer |
| Attitude and altitude, `Control/Fusion.cpp`, `Altitude.hpp`, `src/lib/AHRS` | quaternion, filters | `update` | sensors to Controller |
| GPS, `Sensor/GpsSensor.cpp`, `src/lib/Gps` | a state machine of detection, configuration and reception, a UBX and NMEA parser, the fix | `update`, `process...`, `handleNav...` | serial port to PosHold and Actuator |
| Gyro, accelerometer, magnetometer, barometer, voltage, `Sensor/` | samples, calibration states, filters | `read`, `update`, `calibrate` | buses to everything above |
| Receiver protocols, `Device/Input*`, `Rc/Crsf` | byte parsers | `update`, `parse`, `apply` | serial port to Input |
| MSP over CRSF, `Rc/Crsf.cpp`, `Device/InputCRSF.cpp`, `Connect/Msp.cpp` | the message in the making: command, expected and received length, buffer, sequence number | `decodeMsp`, `append`, `applyMspReq` | radio link to MspProcessor |
| Serial, MSP and CLI, `SerialManager.cpp`, `Connect/` | ports, message parsers, debug stream | `update`, `processCommand`, `execute` | may change the configuration, calibrate, disarm, forbid arming |
| Mixer and ESC driver, `Output/`, `src/lib/EscDriver` | motor values, DShot frames and telemetry | `update`, `apply` | Controller to motors |
| ESC programming, `src/lib/betaflight/src/io/serial_4way*` | selected ESC, interface mode, what is known of its boot loader | requests of a host, from `MSP_SET_PASSTHROUGH` to a restart | boot loaders, over each motor's wire |
| Blackbox, `Blackbox/`, vendored encoder | log state, flash address, journal | `update`, `updateArmed`, `flashfs...` | reads the Model, writes flash or a serial port |
| Buzzer, LED, VTX, button, telemetry, wireless | small timed machines | `update` | read the Model |
| Storage, Hardware, buses, chips, targets | configuration bytes, registers | begin, load, save, read, write | the boards |

Hard behaviours:

- **Concurrency.** On ESP32 the gyro task and the PID task run on two cores and
  share the Model without locks; only the event queue and the sequence lock are
  built for it.  The mode mask is changed from both by load and store.
- **Rates.** Input runs at about 1 kHz, the actuator at 50 Hz, the controller at
  a fraction of the gyro rate, so each sees the others' state one or many steps
  old; slots of the gyro's count decide who runs.
- **Time.** Every duration is a difference or a comparison of 32-bit
  microseconds, which wrap every 71 minutes.
- **Failure.** Frames stop, or arrive flagged, or invalid; a GPS loses its fix;
  a queue is full and drops; a craft reboots in the air with its switches on.
- **Order.** A disarm and the recovery of the link may fall between two actuator
  updates; a latch is all that keeps the craft from arming again.

What makes each part correct:

- *Receiver and failsafe*: a failed or silent link disarms in time, and stays
  failed until a good frame.
- *Modes and arming*: arming only from a safe state, no arming again by itself,
  the reason of a disarm is its cause, no rescue access point in flight.
- *Scheduler*: everybody is served again and again; the actuator keeps its
  interval; the mixer keeps clear of the running motor frame; the filter and
  its sample do not load the same cycle.
- *Event queue*: a bounded first-in first-out channel, without a race on a slot.
- *Sequence lock*: a fetch returns one store's value, and ends.
- *A sample between the cores*: the filter is never woken for a newer sample
  than it then reads.
- *Position hold*: the set point steered by is a current one, a lost fix leaves
  the craft level, and a drop stays a drop.
- *GPS driver*: the set-up of the module ends, whatever it answers; it is
  complete when the driver receives; a working module is received.
- *Configuration and calibration*: no calibration in flight; each ends; the bias
  it leaves in the EEPROM is a finished one; the rates in force leave room for
  the pulses.
- *Recorder and flash*: a closed log can be decoded, no log overwrites another,
  a loss of power costs the end of the open log only, and a disarmed craft
  closes its log.  What a log says is what the craft was like, to a reader who
  knows no more than its header.
- *Byte parsers*: a damaged byte makes at most one wrong frame and costs a
  bounded number of good ones.
- *MSP over CRSF*: what runs is what was sent, whole, and a damaged request
  does not reach the next.
- *Mixer and ESC driver*: a stopped craft's motors stop; a pulse is as long as the
  one asked for, whatever the loop writes meanwhile; no wire is left high with no
  interrupt to lower it; air mode gives up thrust, not the control of the attitude.
- *ESC programming*: what is acknowledged was done, by the selected ESC and at the
  place that was meant; what is refused was not.
- *Settings over MSP*: a page that is read, changed in one place and written back
  leaves every other setting as it was, whichever version wrote it.
- *Command line*: a dump that is played back restores every setting it names, into
  whatever craft and with whatever comments.
- *Not modelled*: home and satellites.

## Modules

| Module | Models |
|---|---|
| `FlightState` | the shared variables of modes and failsafe, with the Model operations on them |
| `Input` | `Input::update` |
| `Actuator` | `Actuator::update` |
| `FlightModes` | the two composed with the clock, the radio, the sensors, the configurator and the position hold's `clearMode`; its properties |
| `ArmingContract` | what a pilot relies on: a link verdict, a switch, a latch and an armed state; abstract specification of `FlightModes` |
| `Timer` | `Utils/Timer.cpp` as operators on the clock modulo `ClockWrap` |
| `GyroCycle` | what both schedulers share: rates, clock, the gyro's iterations and the actuator's due time |
| `SchedulerSingle` | `Espfc::update` on one core, any time passing between calls |
| `SchedulerMulti` | the hardware timer, the gyro task, the queue and the PID task |
| `EventChannel` | the bounded channel the scheduler takes the queue for |
| `QueueAtomic` | the ring one memory access at a time; implements `EventChannel` |
| `SeqLock` | `store` and `fetch` one access at a time |
| `SampleHandoff` | ring and lock in the hands of the gyro and PID tasks: store and announce, receive and fetch |
| `RingSize` | the capacity of the ring and its assumption |
| `PosHold` | position hold and the outer loop in the PID task against mode mask, failsafe and GPS in the gyro task |
| `CrsfMsp` | requests in chunks over a lossy link, `decodeMsp` and the call of the MSP processor |
| `GpsSensor` | `GpsSensor::update` and the UBX parser against a module and a line that lose, damage, delay and refuse |
| `Setup` | configuration, EEPROM, what `begin` derives, and the calibrations of the three sensors |
| `Flashfs` | `BlackboxFlashfs.cpp` as operators on a store: write, flush, journal, close, erase, mount and repair |
| `Blackbox` | arming, switches and betaflight's recorder, one `update` a step, over `Flashfs` |
| `BlackboxFrames` | what a log says: field tables, header, I, P, slow, GPS and event frames byte by byte, and a reader |
| `BlackboxEncoding` | `blackbox_encoding.c`: numbers as bytes |
| `LogStore` | what a log store promises; abstract specification of `Blackbox` |
| `MotorOutput` | the mixer with its limits, air mode and stop, and the ESC driver of ESP8266 and ESP32-C3 with its timer interrupt |
| `SerialParsers` | the parsers of SBUS, IBUS, CRSF, PPM and MSP, byte by byte |
| `MspSettings` | thirty pages of settings that MSP reads and writes, with the types of `ModelConfig.h` |
| `CliParams` | the table of the command line: names, values with names, what is printed and what is read |
| `Cli` | a port's characters, lines and commands, and a dump that is played back |
| `EscPassthrough` | betaflight's four-way interface between a host and the boot loaders of the ESCs, in both of their dialects |
| `MC*` | instances for TLC |
| `*_proofs` | theorems |

How state and actions correspond to the code:

- **Flight modes.** Bit masks are sets of names; a channel value is the position
  that thresholds and ranges tell apart (three per switch; low, middle and high
  thrust; and out of range).  The clock counts tenths of a second, the unit of
  the failsafe delay, and wraps.  Each call of `Input::update` and
  `Actuator::update` is one action, as it is in the gyro task: between two ticks
  each runs at least once, in any order and any number of times.  Interrupting a
  call by the other core is the subject of `PosHold`, not of `FlightModes`.
  The 200 ms, 5-frame and 100-frame thresholds are constants so that small
  values show every phase.
- **Schedulers.** An action is one call of `update` or the handling of one
  event; `ran` names the parts it ran.  One call reads the clock once.  Timers
  that are synchronised to another keep only their iteration count.  On one core
  the time between calls is arbitrary in `Gaps`; on two cores each task takes
  any time, so events pile up and overflow.  The RP2040 targets, whose two cores
  poll, are not covered.
- **Ring and sequence lock.** One action is one load or store.  The atomics are
  sequentially consistent in the model; the code's acquire and release order is
  what makes this sound for the slot and the words they guard.
- **Position hold.** One axis stands for roll and pitch, and a set point is
  current or not.  A change of the mode mask is a load and a store; `cores`
  says whether the other task may come between.  The two `clearMode` calls of a
  disarm are one.  Local variables are emptied once they are used.
- **MSP over CRSF.** The transmitter and the link are the environment: a request
  is started, continued or given up, and a chunk is delivered, lost or delivered
  twice; damaged chunks die at the CRC of their frame.  `DecodeStart`,
  `DecodeNext` and `DecodeMismatch` are the branches of `decodeMsp`.  A payload
  byte is named by its command and its place, so a mixture of two requests
  shows.  The first chunk carries the whole header, as the protocol asks, so
  `fillMessage` never returns early; the reading position, which only the copy
  given to the processor advances, is left out.
  A chunk before any request's first one completes the empty message of the boot,
  whose type is that of a command: command zero may run, without a payload.

- **Hand-over of a sample.** The events and the words are those of the two
  structures; an accelerometer event also names the store it announces, which
  the code's does not, so that a fetch can be compared with its event.  The
  PID task fetches after the gyro's events as well, for the calibration and the
  log.
- **GPS driver.** A step is one `update`: it takes what the line holds or counts
  the time-out down.  A command is named by what it sets, and the module keeps
  what was set, also over a restart of the craft.  A fault is spent on losing,
  damaging or delaying an answer, on losing a command, or on a refusal.  Of the
  parser the member `written` is kept, which only a whole message clears.
- **Configuration.** The fields kept are those `sanitize` changes and those that
  say which sensors are used.  A bias is known by how it came about: none, an
  old one, one with gravity still in it, a finished one.  A save may fail; a
  restart loads what was saved.  `inForce` is what the last `begin` derived,
  which a CLI `set` leaves behind the configuration.
- **Recorder.** A cell of the flash stands for 32 bytes and holds a kind of
  frame: first line of the header, more of it, main frames, a resume, others.
  A cell programmed twice without an erase shows.  Delays are counted in
  updates.  A loss of power may come between any two updates, and the restart
  mounts and repairs.  The log store of `LogStore` is read out of the cells
  and the journal.
- **What a log says.** A step is one `update` of a recorder that records; `rec` holds
  what `blackbox.c` keeps in its statics.  The craft is one of three records of what
  `updateData` takes from the model.  Frames are bytes, the header is lines of cells,
  sent in pieces as the buffer has room; words have 28 bits, since TLC has 32.
  `reader` goes by the header alone, as the log viewer does: it is external, made
  from the meaning of the predictors and encodings in `blackbox_fielddefs.h`.
  It may miss the bytes of an update, and is then without frames to predict from.
- **Parsers.** A byte is its role in the frame and whether it is what was sent;
  data may look like the mark of a frame or not.  Power-up in the middle of a
  frame is one of the damages.  A checksum detects every damage.

- **Settings.** A setting is a name and an index with the range of its type.  A page
  is two lists of values in bytes, what it answers (`RcTuning`) and what it takes
  (`SetRcTuning`), the second in parts with the number of bytes each needs.  `Write`
  takes the parts out of the message and limits the rates, masks and counts as
  `sanitize` does if the page reloads the model.  A configurator reads, changes one
  setting or none, and sends as many parts as its version knows; or it sends a
  message cut off anywhere, or for an entry that there is not.
- **Command line.** A word is its text and the number that is read from it; lines are
  words, a comment sign among them.  `Typed` and `Ended` are what `process` does to the
  characters of a word and to the end of a line, `Execute` the commands that change
  settings.  A setting is known by its place in `ModelConfig`, and its kind by its type,
  which chooses the constructor of `Param`.  The dump is of one of four samples of settings
  (all zero, the ends of every type, values that have no name, strings of several
  words) and is played back into another of them.
- **ESC programming.** A step is a request and its answer, with every message that
  passes on the wire meanwhile; one of them may be damaged, either way.  Memory is
  cut into pieces of what one request writes, addressed by the high byte.  The boot
  loaders are external, made from what the two dialects send and expect;
  `pointer` is where a host that goes by the answers takes address 0xFFFF to be.
  An ESC may lose power between two requests.
- **Motor output.** Thrust and axes are integers, 10000 for the mixer's 1.0 and 100
  for a mixer's or controller's 1.0; pulses are microseconds, then ticks.  A
  step of the loop attaches or writes one channel, runs the mixer, or applies;
  a step of the interrupt plays items until one is worth waiting for.  The list
  is made when the frame begins, from the slots as they are then.  Flights and
  motor tests change between two runs of the mixer.

Several definitions are followed, or preceded, by a variant marked *Mutant*: the
same operation with a plausible mistake.  They are not part of any
specification; substituting one makes TLC find the violation of the property it
is listed with in `PROJECT.json`.

## Runs

| Run | Shows | Bounds, and why they are enough |
|---|---|---|
| `flight` | a failed or silent link disarms in time (`FailedLinkDisarms`); a flown craft is latched (`FlownIsLatched`); arming is safe (`ArmsOnlyWhenSafe`) | one switch with off, fly and hold, failsafe; both failsafe stages and the wrap of the age within 4 ticks; thrust low and high; a calibration and a lost fix at any time |
| `ground` | boot switches do not arm (`NoArmBeforeFrames`); the core implements `ArmingContract` (`KeepsContract`); `DisarmReasonTruthful`; `RescueOpens`; `DeadLinkDisarms` | an arm switch that boots inside its range, invalid frames, MSP and CLI, a rescue delay, a transmitter that goes off for good while the clock wraps on: the receiver then is silent, flags frames as lost or declares failsafe, in any mixture |
| `handoff` | no fetch is older than its event, none under an even counter is a mixture (`FetchIsSound`); `IsChannel`; `EventsArrive`. A dump restores the settings (`DumpRestores`) | a ring of two events, so full, empty and wrapped with both tasks in the middle of a call; three stores of two words, so a fetch can meet none, part of one, or several. Every line of a dump of each sample, into another one, with comments above and behind the lines and both kinds of line ends, a calibration that ends near the beginning, the middle or the end of it, power lost after any line; of entries that are alike, as channels are, two or three |
| `one_core` | `ActuatorOnTime`, `InputServed` | a 2 kHz gyro, three gyro cycles per loop, gaps of half to one and a half gyro periods, the clock wrapping at 31 and the count at 16 |
| `two_cores` | `MixerSpaced`, `ControllerServed` | two gyro cycles per loop, a queue of three, a wrap at 9: over two loops, so the mixer is early, late and missed |
| `hold` | `HoldIsCurrent`, `StaysLevel`, `HoldResumes`, `DropDisarms` | one core and two; two time stamps tell a new message from a used one; four switch positions |
| `ports` | a damage makes at most one wrong frame and costs a bounded number of good ones (`DamageIsBounded`); a request over the radio runs with its whole payload (`PayloadIsWhole`); an undamaged one runs, and nothing else runs meanwhile (`DamageIsConfined`); a page of settings written back is what the configurator means (`PageIsKept`); an ESC that is programmed does what is acknowledged (`AnswerIsTrue`) | three damages to frames of four to seven bytes, sizes that swallow two more frames: with one wrong frame, or one lost frame, less than the property allows TLC finds a violation; requests of none to three chunks, one of an unknown version, one beyond the buffer; a period of four and three losses in a row stand for 16 and 15; every page with every setting, all different, all alike, or one of them at the ends of its type, read and written whole or in its first parts; four requests to two ESCs, of the same family, of different ones, or one of them unknown, with any of the first five messages damaged, pieces of 256 bytes and of fewer |
| `motors` | `PulseIsAsked`, `HighIsWatched`, `AirModeKeepsControl`, `MotorsStop` | boards of every protocol and mixer, each with the throttle limits and servos that change its pulses; flights that hover, climb, dive and spin beyond what the motors give; a motor test, a reload and the ESC protocol between any two runs of the mixer; the timer between any two steps |
| `gps` | `ConfigIsComplete`: what the driver meant to set is set when it receives; `Settles`; `WorkingModuleIsReceived` | a module of each generation, at a rate that is tried and one that is not, lists of two and three messages, two faults and one restart: a late answer can meet the next command, and a refusal every stage |
| `config` | `NoCalibrationInFlight`, `StoredBiasIsFinished`, `PulsesFit`, `CalibrationEnds` | any three commands and a restart; a gyro rate that the limits divide and one they do not; a calibration of one sample, saves that fail |
| `log` | closed logs can be decoded (`LogsDecodable`); `Flashfs` and the recorder implement `LogStore` (`IsLogStore`); `LogCloses`; frames read back (`LogReadsBack`: main frames, `MainReadsBack`, and what is not in each of them, `SideReadsBack`) | a flash of 8 cells, chunks of 2, sectors of 4 and two journal items: two or three logs fill either, in every position to a chunk, a sector and a stride. Frames: an I interval of four, P intervals of none, 1, 2 and 4, six updates over the wrap of the clock, any change of the craft between them, pauses, one lost update; crafts at rest, with small and with extreme values; five choices of fields, so that each encoding meets groups that are full, of one and empty |
| `input_starved` | violation of `InputServed` | a 2 kHz gyro and two cycles per loop |

Deadlock is checked in every run.

## Fairness

- `FlightModes`: weak fairness of `Input::update`, `Actuator::update` and of
  time.  The gyro task, of the highest priority on its core, calls both from
  their timers, and `InputServed` and `ActuatorOnTime` are what the schedulers
  add to that.  Nothing is assumed of the radio, the pilot or the sensors, but that
  a receiver without a transmitter does not report good frames (`ReceiverStatus`).
  Lost frames that go on for ever are the exception `DeadLinkDisarms` states.
- `SchedulerSingle`: `loop()` is called again and again by the Arduino core.
- `SchedulerMulti`: time passes, the notified gyro task runs, and the PID task,
  which polls, handles its events.  `ControllerServed` assumes in addition that
  the PID task finds its queue empty again and again.
- `SampleHandoff`: the PID task, which polls, takes its steps, and the gyro task
  finishes a store it has begun; nothing obliges it to begin one, to announce it
  or to finish a push.
- `PosHold`: actuator, input and controller are served again and again;
  strongly, since on one core each waits for the other's update to end.
- `GpsSensor`: `update` is called for ever.  That the line delivers and that the
  module answers are conditions of `WorkingModuleIsReceived`, not assumptions.
- `Setup`: the three sensors are read at their rates, and a craft whose gyro is
  being calibrated is at rest again and again.  That a sensor being calibrated
  stays in use is a condition of `CalibrationEnds`.
- `Blackbox`: the loop calls `update` for ever.
- `MotorOutput`: an enabled timer fires, and the interrupt does not keep the loop
  from running (strong fairness of its steps, which wait while the handler
  runs).

## Proofs

| Theorem | Says |
|---|---|
| `FlightModes_proofs`: `TypeCorrect`, `LinkLossDisarms`, `FlownLatches`, `ReasonStaysFresh` | the invariants of the runs for every switch assignment, failsafe setting, delay and clock width |
| `BootStaysDisarmed` | nothing is armed before the receiver's frames count, whatever range a switch boots in |
| `ArmingIsSafe`, `LatchNeedsSwitchOff`, `ReasonIsTrue`, `RescueStays` | the action properties, from the same invariant |
| `CoreKeepsContract` | `FlightModes` implements `ArmingContract` |
| `SampleHandoff_proofs`: `LoadsAreStable`, `SlotsDoNotRace`, `HandoffIsChannel` | for every size of the ring and set of events: what a task loaded stays true, no slot is raced for, and the ring is a bounded channel |
| `LockShape`, `HandoffFetchesWhole` | for any number of words and stores: the counter tells what a store has written, and a fetch under an even one is a store's value |
| `FetchesAreFresh`, `FetchesAreSound` | no fetch is older than its event, for every size, number of words and of stores |
| `Scheduler_proofs`: `ActuatorNextHolds`, `ActuatorKeepsTime` | for every rate, interval and call duration, while the clock does not wrap between two firings |
| `SpacingHolds`, `MixerKeepsSpacing` | the same of the mixer on two cores, for every size of the queue |
| `SerialPorts_proofs`: `MessagesArePrefixes`, `PayloadsAreWhole` | for all requests, chunk lengths, buffers and sequence periods of at least two, while fewer chunks than a period are lost in a row |
| `DamageStaysConfined` | under the same conditions an undamaged request runs, and nothing else meanwhile, whatever was lost before it |
| `EscInvariant`, `AnswersAreTrue` | for all boards and kinds of boot loader, memories of whole pages, data, damaged messages and sequences of requests, resets and losses of power: the answer to every request of the ESC interface is true |
| `Navigation_proofs`: `TypeCorrect`, `HoldStaysLevel`, `HoldsAreCurrent`, `DropsLast` | for all switch positions, time stamps and either number of cores: a craft that held stays level; on one core a hold is made of its own angles, and a dropped craft stays disarmed |
| `DriverInvariant`, `SettingsComplete` | for all lists of messages, baud rates, modules, timeouts, faults and restarts: a GPS driver that receives has told the module all that its version needs, but for as many commands as answers were taken for answers to another |
| `Setup_proofs`: `TypeCorrect`, `PulsesAlwaysFit`, `NoneInFlight`, `StoredBiasStaysFinished` | the invariants of the run for every gyro rate, divider and pulse rate a user may set, throttle limit and number of samples, commands and restarts |
| `MotorOutput_proofs`: `TypeCorrect`, `PulsesAreAsked`, `HighStaysWatched` | for any number of channels, every protocol, rate and list of flights, and every order of interrupts and steps of the loop |
| `AirModeControls` | whatever axes and throttle ask for, whatever the limit of the thrust and the range of the pulses |
| `Blackbox_proofs`: `RecorderInvariant`, `LogsStayDecodable` | for every size of partition, journal, chunks, sectors and strides, all delays, frame intervals and header lengths: every closed log can be decoded, whatever is armed, switched, tested, filled, erased or cut off meanwhile |
| `RecorderIsLogStore` | `Blackbox` over `Flashfs` implements `LogStore`: no log overwrites another, and a loss of power costs the end of the open log only |

The assumptions are those the modules state of their constants: positive rates
and sizes, ranges within the positions, and that a craft boots calibrating its
gyro (`BootAssumption`).  `SetupAssumption` has gyros of at most 8 kHz, as the drivers
detect them.  It and `MotorAssumption` have throttle limits and test pulses of 1000
to 2000, which is what configurators offer and the code does not check.
`WaitAssumption`, that the pause between two frames is longer than the shortest
delay worth an interrupt, is true of the ESP8266 (150 and 140 ticks, or 250 and 240)
and not of the ESP32-C3 (150 and 240): what is proved of `MotorOutput` is proved for
the ESP8266, and below is what TLC finds with the other's numbers.
`DriverAssumption` has the GPS driver's three lists of messages not empty, as they are
written in the code.
`EscAssumption` has at least one motor, the kinds of boot loader the code tells
apart, a length of one byte, and the memory a multiple of the largest page of four
times 256 bytes (it is 64 of them with a two-byte address).
`GeometryAssumption` has sectors made of whole chunks, as the flash chips have.
`RecorderAssumption` has erases over MSP between logs only (`BetweenLogs`): in the
middle of a header the closed log that follows cannot be decoded, as said below.

- *Flight modes.* `SafetyInvariant` is inductive.  `FailsafeMeansDisarmed` alone
  is not: the actuator might arm in the very update after the disarm, which only
  the phase prevents, so the age of the link, the phase and the pending update
  are tied together (`LossDetected`, `LossDisarms`).  `RescueIsFinal`
  needs that an armed craft has given the access point up
  (`ArmedGaveUpRescue`), and `DisarmReasonTruthful` that an armed craft has its
  switch on (`ArmedIsSwitched`).  The contract follows step by step: link
  changes map to `Judge`, the latch to `Refuse` and `Arm`.  Before the first frames
  every switch that holds its value stands at its centre, and one that reads as on
  there is latched by the first update that sees the boot calibration, or has it
  still ahead (`BootLatched`).
- *Ring.* `LoadsStayTrue` says that what a task loaded is still the index, or
  still bounds it, when it acts: each index has one writer and the other moves
  away from it.  With it a write hits a free slot and a read the oldest event,
  so the two stores of an index are `Send` and `Receive` and the rest stutters.
- *Sequence lock.* `StoreShape` ties the parity of the counter to an open store
  and the words already written; `CopyShape` says a copy under the even counter
  that still stands is a copy of that store's value.
- *Hand-over.* Every step of the two tasks is a step of the ring's specification
  or leaves it alone, and likewise of the lock's, so the theorems about the two
  are instantiated and hold of the whole (`UsesRing`, `UsesLock`).  Freshness
  needs the order of the two: whatever names a sample, in the ring or on its way,
  names one whose store is complete (`AnnouncedIsStored`), no word is behind the
  counter (`DataIsRecent`), and so none that a fetch copies after it took the
  event (`CopyIsRecent`).  The odd counters on which a fetch may return do no
  harm here: it has then copied every word once.
- *Schedulers.* The history variables measure the time since the last firing;
  the invariant equates `next` with it as long as the clock is calm.  The clock
  arithmetic of `Timer::update` is a lemma on `%` for one interval ahead.
- *MSP over CRSF.* A message in the making is a prefix of a request
  (`MessageIsPrefix`), but that its next bytes continue it needs the link: the
  difference of the two sequence numbers counts the chunks the link is ahead
  (`SequenceCounts`), so a chunk in sequence is the very next one, and it starts
  where the message ends, unless the buffer refused an earlier one
  (`ChunkContinues`).  For the recovery the message is compared with the request
  on the link instead: once its start has arrived undamaged, the message has its
  command and its bytes up to the chunk on the link, which is next in the sequence
  (`StartedIsOwn`).
- *ESC programming.* An action is a whole request and its messages, so most of the
  proof is about operators.  A message whose arrival is damaged leaves the ESC alone
  and gets no answer, or an error; any other is heard and done (`BlTakes`, `BlAsks`,
  `StkTells`).  The length of the data gets no answer and silence counts as consent;
  that it was heard when the data are acknowledged needs that between requests no
  loader awaits data (`EscInv`), so that data without a length are refused
  (`BlSetBuffer`).  A request that passes no address of its own needs that
  the ESC's pointer is where the interface has it.  From these each request has a lemma
  (`WriteIsRight`, `ReadIsRight`, ...) that it leaves the invariant, and that its answer
  says what became of the memories.
- *Position hold.* `StaysLevel` is not inductive: the controller reads the mode in
  one step and the fallback in another.  `LevelAhead` says what it is still going to
  see, and `StoreKeepsHold` that the mask which the gyro task has yet to store does
  not take the mode back.  On one core the PID task's steps follow each other
  (`PidAlone`), so the mode it sees on is one it has just served.  The same fact
  gives `DropsLast`: the mask of a disarm cannot be overwritten by one loaded
  before, which is what happens on two cores (see below).
- *GPS driver.* `ConfigIsComplete` speaks of the last state of the set-up, so the
  invariant says of each state what the module has been told before it (`Told`), and
  counts what is missing against the mistaken answers (`Few`, `Reached`).  While a
  command is waited for its answer leads to a state that is reached once the command
  is done, and silence to the error state or, for the two commands that are only tried,
  to one that is reached without (`OnCourse`).  What makes an answer worth its state is
  that it is true (`Truthful`): the module acknowledges what it has done, and no answer
  is older than the restart, so an answer to this very command means that it is done,
  and any other adds to the count.  Each operation of `GpsSensor.cpp` hands the
  invariant on, and the truth of every frame that has still to be read (`Follows`);
  that the frames of one update, worked on by recursion (`ReadMany`), do so together
  is got by least counter-example (`ReadManyFacts`, `SetInduction`).
- *Configuration.* Every way to `begin` passes `sanitize`, whose divider makes the
  loop slow enough for the longest pulse (`SanitizeFacts`).  A bias between `START`
  and `SAVE` is the calibration's own (`BiasIsOwn`), and at `SAVE` and at rest it is
  finished (`BiasIsFinished`); so what the last save of a calibration stores is
  finished, whatever was stored on the way.
- *Motor output.* `Watched`: but for brushed motors every wire that is high has its
  end among the pulses left, so the end of a frame leaves none; the frames of brushed
  motors follow each other without an end, for which the pause must be worth an
  interrupt.  For the pulses the invariant names the ticks `e` played since the frame
  began (`InFrame`): they are at most the next end, and behind it by at most
  `DeltaMin` for each channel whose end has come.  That needs that the ends which the
  driver puts together are close (`GroupIsNarrow`, by its least counter-example).
  `Meant` allows a short pulse, which a brushed motor else does not get, where a long
  one has left the wire high: at the beginning of a frame the handler raises wires and
  lowers none.
  For air mode the greatest ask of a balanced quad is half the spread (`EvenSpread`),
  so the clamped thrust, or the scale, leaves every motor within its limits
  (`PulseOf`); what the two divisions cost together is then counted (`SharesWithin`,
  `SharesScaled`).
- *Recorder and flash.* `LogsDecodable` speaks of closed logs only, and closing one
  adds what was open.  So the invariant (`Inv`) has the open log too, and has it as its
  reader will find it: `Image` is the cells with the buffer laid over them, and a flush,
  which programs the buffer, leaves the image as it is (`FlushAsync` is a stutter of the
  log store).  `Sound` says of the store that logs lie one after another
  (`Journal`), that cells above the address are erased, that closed logs are good and
  the open one decodable.  It is kept by a byte that may come next (`FitsNext`), and
  which may is up to the recorder: `Phase` ties its state to what the log holds, as that
  a P frame is written only after an I frame that no pause separates from it
  (`Ready` while `loopIndex` is not zero).  A store that fills up closes the log by
  itself in the middle of a call, behind the recorder's back; from there `Phase` is
  void, and what saves the rest of the call is that a full store takes no more bytes
  (`Later`) and that the update ends in few states (`Boundary`).  `Write` is a
  recursive function on the length of the data; that it goes from store to store a byte
  at a time is got by least counter-example (`WriteFacts`, `SetInduction`).  For a loss of power
  `Left` lists what it may leave: the old store, the new one, or the new one up to some
  cell, with or without the log's beginning in the journal.  `JournalFix` then closes
  the open log where the first stride of erased cells begins, and that this is above
  its last byte but for less than a gap is the step to `Recover`.  Each `Update` maps to
  `Grow`, `CloseLog` or `Erase`.

The type invariants, `RescueIsFinal`, `ReasonIsFresh`, `NoSlotRace` and what
`DropsLast` says of one core are proved and not part of a run: the runs check what
depends on them.

Only model-checked: every liveness property (fairness and ENABLED are beyond the
prover); `DumpRestores`, `PageIsKept`, `LogReadsBack` and `DamageIsBounded`, which
need induction over texts, pages, logs and streams; and so everything about
`BlackboxFrames`, `SerialParsers`, `MspSettings` and `Cli`.

## Disagreements between the code and what is said of it

Shown by a run, and listed in `PROJECT.json`:

- `input_starved`: on one core `input.timer.syncTo(gyro.timer, 1)` is evaluated
  only in the loop's slot (`Espfc.cpp:77`).  With a 2 kHz gyro and a 1 kHz loop
  the two slots never meet: the receiver, failsafe included, is never served.

Stated as properties in the modules and refuted by TLC when added to the run
named; none is part of a run:

- `PosHold!StaysDropped` (`hold`): on two cores the `clearMode` of a bailing
  position hold may store a mode mask it loaded before failsafe disarmed the
  craft (`Model.h:46`).  The next `Input::update` disarms again (`DropDisarms`).
  On one core it holds (`DropsLast`).
- `CrsfMsp!RunsOnlyRequests` (`ports`): the reset after a sequence mismatch
  leaves the command and an empty message, which the next chunk in sequence
  completes: the command runs without its payload (`Rc/Crsf.cpp:205`; the comment
  at `Rc/Crsf.cpp:213` says "reset message").
- `Blackbox!FlightIsRecorded` (`log`): a flush of an empty buffer writes nothing
  and reports failure, so a header whose section ends with a full chunk leaves the
  recorder waiting for the flush for ever: nothing of the flight is recorded
  (`src/lib/betaflight/src/blackbox/blackbox_io.c:229` promises "true if all data
  has been written").
- `GpsSensor!SixUsesItsMessages` (`gps` with `Kinds = {"M6"}` and neither faults
  nor restarts): the two lists of messages are swapped, and a NEO-6M is told to
  send those of its successors (`Sensor/GpsSensor.cpp:343`;
  `src/docs/GPS_CONFIGURATION.md:56`).
- `FlightModes!AirModeNeedsThrottle` (`flight`, with AIRMODE on a switch of its
  own): a permission left from a flight that failsafe ended gives air mode at
  once after the next arming (`Control/Actuator.cpp:171`; `src/docs/setup.md:109`
  wants 40% throttle).
- `FlightModes!FailsafeSinceBootOpens` (`ground`): frames flagged as failsafe
  count, and close the access point (`Control/Actuator.cpp:273`;
  `src/docs/wireless.md:14`).
- `FlightModes!AnyDeadLinkDisarms` (`ground`): each frame restarts the age of the
  link, also one the receiver flags as lost (`Input.cpp:116`, `Input.cpp:298`).  A
  receiver that goes on with such frames and never declares failsafe, as SBUS
  allows (`Device/InputSBUS.cpp:43`), reaches neither stage, and an armed craft
  stays armed.  No document promises otherwise; `DeadLinkDisarms` excepts it.
- `FlightModes!StageOneAfterTenth`: the comment at `Input.cpp:218` says 100 ms,
  the code waits 200 ms.
- `SeqLock!OddMeansRetry`: `continue` in `do ... while (seqBefore != seqAfter)`
  tests the condition, so two passes under the same odd counter end the fetch
  (`Utils/SeqLockWrapper.hpp:86`).  `EvenFetchIsWhole` is what does hold.
- `SchedulerSingle!ActuatorFires`, `SchedulerMulti!SkipsOnlyEarly`: a due time
  just below the wrap of the clock is not seen to have passed until the clock
  has come round (`Utils/Timer.cpp:67`, `Espfc.cpp:117`).  `ActuatorOnTime` and
  `MixerSpaced` say what holds away from it.
- `PosHold!EngagedIsLevel`: a hold switch put on without a fix leaves rate mode,
  where `src/README.md:50` speaks of Angle mode (`Control/Actuator.cpp:174`).
- `PosHold!HoldIsCurrent` without its restriction to one core: the mode may be
  granted between `PosHold::update` and `outerLoop` (`Control/Controller.cpp:144`).

Behaviours a reader of the code may not expect.  The modules have them, or leave
them out where said, and no document speaks of them:

- *GPS.* After a frame that fails its checksum the parser keeps `written`, so the
  next messages are misread until one is accepted.  A restart between the command
  that stops NMEA and the one that starts UBX finds a silent module, and the
  driver looks for it in vain.  `present` is never taken back.
- *Configuration.* A save during the calibration of the accelerometer stores a
  half-done bias, which the end of the calibration heals (`StoredBiasIsFinished`).
  A calibration of the magnetometer may be started without one: it never ends and
  the craft cannot be armed.  `MSP_RESET_CONF` keeps the calibration.  After a
  blank EEPROM a gyro on I2C loses the first `loopSync`.  The limit of 1940 for PWM
  is skipped at a loop rate of exactly 500 Hz.
- *Motor test.* The values of `MSP_SET_MOTOR` are what the motors get while the craft
  is disarmed (`Output/Mixer.cpp:241`).  Arming does not clear them and is not
  prevented by them: after a disarm they are in force again, until a reload
  (`SetMotor`).  Once the ESC protocol has taken the wires nothing gives them back
  before a reboot.
- *Motor output.* Air mode takes what the axes ask for to be spread evenly around
  nothing: with yaw on top of roll and pitch it need not be, and the strongest
  motor is cut off (hence `Balanced`).  The ESP32-C3 waits for delays above 240
  ticks only and pauses for no less than 150: with its numbers TLC refutes
  `HighIsWatched` for a brushed motor at full throttle, unless the timer of its
  framework goes on by itself.  A pulse of a brushed motor too short to
  raise a wire for is played all the same when full throttle had left the wire high
  (`Meant`).  Custom mixers, the servo driver and motors driven
  directly from a channel are left out.
- *Recorder.* Arming does not cancel the end of the log that a disarm has
  scheduled: a flight begun within 500 ms of the last one ends its log at once.
  An erase over MSP during a header keeps up to 63 bytes of it in the buffer;
  the run asks for an erase between logs only.  The repair after a loss of power
  misses an end less than 128 bytes before the end of the partition, and takes
  data that reads as erased for the end (`Flashfs!EndIsMissed`, left out of
  `PowerLoss`).
- *What a log says.* `updateData` hands over four motors; the rest are logged as
  zero (`Given`).  The first motor is in I frames also of a craft without motors.
  With a P frame in every I interval only, an I frame is never followed by a P frame,
  so no slow frame is ever written, and a GPS frame leaves out its time, which the
  comment at `blackbox.c:1099` means for frames at every iteration.  The home
  position is repeated only when the P interval is more than half the I interval.  With
  no P frames the header's "P ratio" divides by zero.  A mode that changes and changes
  back between two looks is in no event.  An altitude below zero is written without sign.
  An eRPM is kept in 16 bits with a sign and written as an unsigned number
  (`blackbox.c:339`, `1170`, `707`): from 32768 on a log shows a number near 2^32, of
  which only the lower 16 bits mean anything, and only they are compared (`Says`).
- *Settings over MSP.* Pages do not show everything: the setpoint weight is one
  byte to old configurators, the gyro's first filter one byte in the part that all
  versions have, the frequencies of the receiver's filters one byte to all; a mode
  range comes in steps of 25, baud rates from a table, limits as `sanitize` has them
  (`Carries`).  A blackbox page without `p_denom` sets it to zero, and the VTX page
  without a transmitter reads as zeros, which written back clear band, channel and
  power.  Bytes that did not come read as zero: only the serial
  ports and RC tuning refuse a message that is too short.  Roll takes pitch along while the two are alike.  RC tuning,
  mixer and board pages do not reload the model, so their limits apply later.
- *ESC programming.* A write before any boot loader was found is acknowledged
  and nothing is done (`serial_4way.c:770`).  The length of a buffer is not answered,
  and silence is consent: a second fault in the same request could make data be
  taken for a command, so the model has one.  Once set for ARM the interface no
  longer tries the other dialect, and an SK ESC cannot be connected before the next
  `SetMode`.  A page's address is cut to its low byte.  An armed craft is not refused.
- *Command line.* `src/docs/cli.md:356` says to use `dump` "to backup all your settings".
  The table does not name all of them (`Unnamed`: the receiver's protocol, the PPM mode, the limits
  of the sticks, the beeper's mask, six PID controllers, some feature bits), and `set` of an
  offset of gyro, accelerometer or magnetometer is undone by the `save` that follows
  it, which takes them from the state of the craft.  A string keeps its first word,
  and a `#` in it begins a comment.  A comment behind a command swallows the next line
  where lines end in a line feed alone.  These are what `Restorable` leaves out.
  `_active` and `_ignore` are shared by all ports.  Commands run before `#` was
  typed, and after Ctrl-D the unsaved changes, said to be lost, are still in force.
- *Parsers.* An MSP message that reads as a reply leaves the port in `RECEIVED`, deaf
  to MSP and to the command line, until a reboot (`Deaf`).  Data that look like the
  mark of a frame may keep SBUS, IBUS and CRSF from finding their place again
  (`Plain`): IBUS does not reset its index, CRSF takes a 0xC8 as its next-to-last
  byte for a beginning.

## Not modelled

Floating-point control and estimation (rates, PID, filters, AHRS, altitude):
outside TLC's and the provers' reach.  Register access of
chips, pins and peripherals, the DShot waveforms, the WiFi stack and printf: input
and output.  What MSP and the command line only report: serialisation, field by field; what they change in
settings, arming, calibration and the log is modelled.  `PROJECT.json` lists
every component with its status.

## Plan

1. Done: receiver, modes and arming; schedulers; queue, sequence lock and the
   hand-over of a sample; position hold; GPS driver; configuration and calibration;
   recorder, flash store and what a log says; mixer and ESC driver; byte parsers; MSP over CRSF
   and the settings it carries; the command line; ESC programming.
   Proved: the safety of
   the flight modes, the queue, the lock, the hand-over, the schedulers' times,
   the requests over CRSF, ESC programming, position hold, the GPS driver's set-up, the configuration,
   the motors' pulses, and the recorder with its store.
2. Proofs: that a page of settings is kept (`PageIsKept`), by a least counter-example
   over the bytes of a page as for `Write` in `Blackbox_proofs` and `ReadMany` in
   `Navigation_proofs`.
3. Modules still worth writing: the RMT driver of the ESP32 and DShot telemetry;
   the barometer's and the battery's timers; NMEA sentences; home.
