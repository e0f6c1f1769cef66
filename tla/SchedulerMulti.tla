--------------------------- MODULE SchedulerMulti ---------------------------
(***************************************************************************)
(* Espfc::update and Espfc::updateOther on the targets with two cores: a   *)
(* hardware timer wakes the gyro task, which reads the sensors, serves the *)
(* input and the actuator and posts events; the PID task takes the events  *)
(* one at a time and runs the controller, the mixer and the attitude       *)
(* filter.  The queue is the channel of EventChannel, which QueueAtomic    *)
(* implements; what does not fit in it is dropped.                         *)
(* (Its specification and type invariant are named Multi..., so that both   *)
(* schedulers can be reasoned about in one module.)                        *)
(***************************************************************************)
EXTENDS GyroCycle, Sequences

CONSTANT QueueSize    \* events the queue holds

ASSUME QueueAssumption == QueueSize \in Nat \ {0}

Event == {"GYRO_READ", "ACCEL_READ", "DISARM"}

VARIABLES
  timerCount,      \* ticks since the last interrupt of the hardware timer
  notified,        \* the gyro task has a notification
  channel,         \* appQueue
  pid,             \* the event the PID task is handling, or "idle"
  loopNext,        \* _loop_next
  sinceMixer       \* history: ticks since the mixer ran, at most ClockWrap

clockVars == <<now, timerCount>>
gyroVars == <<gyroIteration, actuatorNext>>
pidVars == <<pid, loopNext, sinceMixer>>
multiVars == <<clockVars, notified, gyroVars, channel, pidVars, ran>>

Queue == INSTANCE EventChannel WITH Size <- QueueSize, received <- pid

(* Statics are zero when the hardware timer starts. *)
MultiInit ==
  /\ now = 0 /\ timerCount = 0 /\ notified = FALSE
  /\ gyroIteration = 0 /\ actuatorNext = 0
  /\ channel = <<>>
  /\ pid = "idle" /\ loopNext = 0 /\ sinceMixer = ClockWrap
  /\ ran = {}

-----------------------------------------------------------------------------
(* Time passes; every GyroInterval ticks gyroTimerIsr notifies the gyro     *)
(* task.  Notifications do not add up (ulTaskNotifyTake clears them).        *)
Tick ==
  /\ now' = (now + 1) % ClockWrap
  /\ timerCount' = (timerCount + 1) % GyroInterval
  /\ notified' = (notified \/ timerCount' = 0)
  /\ sinceMixer' = IF sinceMixer < ClockWrap THEN sinceMixer + 1 ELSE ClockWrap
  /\ ran' = {}
  /\ UNCHANGED <<gyroVars, channel, pid, loopNext>>

(* Queue::send: a full queue drops the event. *)
Sent(q, e) == IF Len(q) < QueueSize THEN Append(q, e) ELSE q

(* Mutant: the accelerometer's cycle posts no gyro event. *)
SensorEvents_AccelOnly(q) ==
  IF InSlot(gyroIteration', AccelDenom, 0) THEN Sent(q, "ACCEL_READ")
  ELSE IF InSlot(gyroIteration', LoopSync, 0) THEN Sent(q, "GYRO_READ") ELSE q

(* SensorManager::read: the gyro event of a loop's cycle, then the          *)
(* accelerometer's.                                                          *)
SensorEvents(q) ==
  LET looped == IF InSlot(gyroIteration', LoopSync, 0) THEN Sent(q, "GYRO_READ") ELSE q
  IN  IF InSlot(gyroIteration', AccelDenom, 0) THEN Sent(looped, "ACCEL_READ") ELSE looped

(* Espfc::update(true), in the gyro task.  The input, the actuator or a      *)
(* command of the serial link may disarm, which posts an event too.          *)
GyroTask ==
  /\ notified
  /\ notified' = FALSE
  /\ gyroIteration' = Iterated(gyroIteration)
  /\ \/ channel' = SensorEvents(channel)
     \/ channel' = Sent(SensorEvents(channel), "DISARM")
  /\ actuatorNext' = IF Due(actuatorNext, ActuatorInterval, now)
                       THEN NextAt(now, ActuatorInterval) ELSE actuatorNext
  /\ ran' = {"gyro"}
       \cup (IF InSlot(gyroIteration', AccelDenom, 0) THEN {"accel"} ELSE {})
       \cup (IF InSlot(gyroIteration', InputDenom, 1) THEN {"input"} ELSE {})
       \cup (IF Due(actuatorNext, ActuatorInterval, now) THEN {"actuator"} ELSE {})
  /\ UNCHANGED <<clockVars, pidVars>>

-----------------------------------------------------------------------------
(* Espfc::updateOther: an event leaves the queue. *)
Receive ==
  /\ pid = "idle"
  /\ Queue!Receive
  /\ ran' = {}
  /\ UNCHANGED <<clockVars, notified, gyroVars, loopNext, sinceMixer>>

(* Mutant: a whole loop, not half, is kept free. *)
HalfLoop_Whole == GyroInterval * LoopSync

HalfLoop == (GyroInterval * LoopSync) \div 2

(* The controller is done and half a loop has not passed since the mixer    *)
(* last ran: the motor frame may still be on the wire.                       *)
MixerEarly == ~(loopNext < now)

(* EVENT_GYRO_READ: preLoop and the controller, then the mixer and the      *)
(* black box unless they would be early.                                     *)
ControlOnly ==
  /\ pid = "GYRO_READ"
  /\ MixerEarly
  /\ ran' = {"controller"}
  /\ UNCHANGED <<loopNext, sinceMixer>>

ControlAndMix ==
  /\ pid = "GYRO_READ"
  /\ ~MixerEarly
  /\ loopNext' = NextAt(now, HalfLoop)
  /\ sinceMixer' = 0
  /\ ran' = {"controller", "mixer"}

(* EVENT_ACCEL_READ: the attitude and altitude filters. *)
Fuse ==
  /\ pid = "ACCEL_READ"
  /\ ran' = {"fusion"}
  /\ UNCHANGED <<loopNext, sinceMixer>>

(* EVENT_DISARM and the rest have no handler. *)
Ignore ==
  /\ pid = "DISARM"
  /\ ran' = {}
  /\ UNCHANGED <<loopNext, sinceMixer>>

(* The handler of the event in hand returns. *)
Serve ==
  /\ ControlOnly \/ ControlAndMix \/ Fuse \/ Ignore
  /\ pid' = "idle"
  /\ UNCHANGED <<clockVars, notified, gyroVars, channel>>

MultiNext == Tick \/ GyroTask \/ Receive \/ Serve

MultiSpec == MultiInit /\ [][MultiNext]_multiVars

(* Time passes, the gyro task (the highest priority of its core) answers its *)
(* notifications and the PID task, which polls and never blocks, takes its   *)
(* events: the wireless tasks that share its core delay it, no more.         *)
MultiFairSpec ==
  /\ MultiSpec
  /\ WF_multiVars(Tick) /\ WF_multiVars(GyroTask)
  /\ WF_multiVars(Receive) /\ WF_multiVars(Serve)

-----------------------------------------------------------------------------
(* The variables stay within their types. *)
MultiTypeOK ==
  /\ {now, actuatorNext, loopNext} \subseteq Clock
  /\ timerCount \in 0..(GyroInterval - 1) /\ notified \in BOOLEAN
  /\ gyroIteration \in Iteration
  /\ channel \in Seq(Event) /\ Len(channel) <= QueueSize
  /\ pid \in Event \cup {"idle"}
  /\ ran \subseteq Handler
  /\ sinceMixer \in 0..ClockWrap

(* The receiver and the failsafe are served again and again, whatever the    *)
(* PID task does.                                                             *)
ReceiverServed == []<>("input" \in ran)

(* A PID task that empties its queue again and again runs the controller     *)
(* again and again: the drop on overflow does not single out gyro events.    *)
ControllerServed == []<>(channel = <<>>) => []<>("controller" \in ran)

(* The clock has not wrapped since the mixer ran, and the half loop ended    *)
(* before the wrap.                                                           *)
MixerClockCalm ==
  /\ sinceMixer <= now
  /\ now - sinceMixer + HalfLoop < ClockWrap

(* Away from the wrap of the clock, the mixer (motors, black box) is skipped *)
(* exactly when no more than half a loop has passed since it ran.            *)
MixerSpaced ==
  [][Serve /\ pid = "GYRO_READ" /\ MixerClockCalm =>
       ("mixer" \in ran' <=> 2 * sinceMixer > GyroInterval * LoopSync)]_multiVars

(* What the comment in Espfc::updateOther says: the mixer is skipped only    *)
(* when it is earlier than half a loop after its last run.  (A half loop     *)
(* that ends at this very tick is left out: the comparison is strict.)       *)
SkipsOnlyEarly ==
  [][Serve /\ pid = "GYRO_READ" /\ "mixer" \notin ran' /\ loopNext # now =>
       2 * sinceMixer <= GyroInterval * LoopSync]_multiVars

=============================================================================
