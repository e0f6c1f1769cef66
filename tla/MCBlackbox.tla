---------------------------- MODULE MCBlackbox -----------------------------
(***************************************************************************)
(* Two things about the log: when it is written and where it is kept       *)
(* (Blackbox, over a partition of 8 cells of 32 bytes, so that chunks,     *)
(* sectors, strides and the journal are all used up by two or three short  *)
(* logs), and what it says (BlackboxFrames).  They share no state, and one *)
(* of them is watched at a time.                                           *)
(***************************************************************************)
EXTENDS Blackbox, Integers

VARIABLES watched, setup, craft, shown, rssi, switch, frameRec, updates, reader, losses

frameVars == <<setup, craft, shown, rssi, switch, frameRec, updates, reader, losses>>

AllFields ==
  {"MOTOR", "RPM", "PID", "RC_COMMANDS", "SETPOINT", "GYRO", "GYROUNFILT", "MAG",
   "ALTITUDE", "BATTERY", "RSSI", "ACC", "DEBUG_LOG", "GPS"}

(* Each iteration with everything; every second one with two more motors, *)
(* fewer fields and a switch; one optional field alone; none; and P       *)
(* frames as far apart as I frames, or none at all.                       *)
Everything ==
  [fields |-> AllFields, motors |-> 4, dterm |-> {1, 2}, mag |-> TRUE, baro |-> TRUE, acc |-> TRUE,
   vbat |-> TRUE, current |-> TRUE, telemetry |-> TRUE, debugging |-> TRUE, rssi |-> TRUE, gps |-> TRUE,
   digital |-> TRUE, pDenom |-> 32, pausable |-> FALSE]

SixMotors ==
  [Everything EXCEPT !.motors = 6, !.digital = FALSE, !.acc = FALSE, !.mag = FALSE, !.rssi = FALSE,
                     !.telemetry = FALSE, !.dterm = {3}, !.pDenom = 1, !.pausable = TRUE]

VoltageOnly ==
  [Everything EXCEPT !.fields = {"BATTERY", "MOTOR", "GPS"}, !.current = FALSE, !.motors = 1, !.pDenom = 1]

OnlyI ==
  [Everything EXCEPT !.fields = {"SETPOINT", "GPS", "RSSI"}, !.rssi = FALSE, !.pDenom = 3,
                     !.pausable = TRUE]

BoardSetups == {Everything, SixMotors, VoltageOnly, OnlyI, [OnlyI EXCEPT !.pDenom = 2]}

(* At rest; small differences of every sort; large ones and limits. *)
LoggedCrafts ==
  <<[axisP |-> <<0, 1, -1>>, axisI |-> <<0, 0, 0>>, axisD |-> <<0, 0, 0>>, axisF |-> <<0, 0, 0>>,
     input |-> <<1500, 1500, 1500, 1000>>, setpoint |-> <<0, 0, 0, 0>>,
     rcCommand |-> <<0, 0, 0>>, throttle |-> <<1000>>,
     vbatLatest |-> <<1600>>, amperageLatest |-> <<0>>, magADC |-> <<1, 2, 3>>, baroAlt |-> <<0>>,
     rssi |-> <<0>>, gyroADC |-> <<0, 0, 0>>, gyroUnfilt |-> <<0, 0, 0>>, accSmooth |-> <<0, 0, 2048>>,
     debug |-> <<0, 0, 0, 0, 0, 0, 0, 0>>, motor |-> <<1000, 1000, 1000, 1000, 1000, 1000, 1000, 1000>>,
     eRPM |-> <<0, 0, 0, 0, 0, 0, 0, 0>>,
     slow |-> [flightModeFlags |-> 1, stateFlags |-> 0, failsafePhase |-> 0,
               rxSignalReceived |-> 1, rxFlightChannelsValid |-> 1],
     gps |-> [home |-> <<0, 0>>, coord |-> <<0, 0>>, numSat |-> 0, altCm |-> 0, speed |-> 0, course |-> 0]],
    [axisP |-> <<63, 64, -65>>, axisI |-> <<1, -2, 1>>, axisD |-> <<5, -7, 9>>, axisF |-> <<8191, 8192, -8193>>,
     input |-> <<1507, 1492, 1500, 1100>>, setpoint |-> <<7, -8, 0, 127>>,
     rcCommand |-> <<0, 0, 0>>, throttle |-> <<1000>>,
     vbatLatest |-> <<1550>>, amperageLatest |-> <<64>>, magADC |-> <<1, 2, 4>>, baroAlt |-> <<-150>>,
     rssi |-> <<128>>, gyroADC |-> <<3, -3, 101>>, gyroUnfilt |-> <<5, -4, 99>>, accSmooth |-> <<-1, 3, 2000>>,
     debug |-> <<1, 0, 0, -300, 0, 0, 0, 16383>>, motor |-> <<1100, 1205, 999, 2001, 1000, 1000, 1000, 1000>>,
     eRPM |-> <<100, 200, 300, 400, 0, 0, 0, 0>>,
     slow |-> [flightModeFlags |-> 3, stateFlags |-> 0, failsafePhase |-> 2,
               rxSignalReceived |-> 0, rxFlightChannelsValid |-> 1],
     gps |-> [home |-> <<0, 0>>, coord |-> <<700, -700>>, numSat |-> 8, altCm |-> 1234, speed |-> 127, course |-> 3599]],
    [axisP |-> <<-2097152, 2097151, 0>>, axisI |-> <<9000000, -40000, 200>>, axisD |-> <<1, 2, 3>>,
     axisF |-> <<1, 1, 1>>,
     input |-> <<2000, 1000, 1372, 2000>>, setpoint |-> <<-128, 128, 1998, -1998>>,
     rcCommand |-> <<0, 0, 0>>, throttle |-> <<1000>>,
     vbatLatest |-> <<0>>, amperageLatest |-> <<32000>>, magADC |-> <<-32768, 32767, 3>>, baroAlt |-> <<30000>>,
     rssi |-> <<1023>>, gyroADC |-> <<-2000, 2000, 1>>, gyroUnfilt |-> <<-32768, 32767, 0>>,
     accSmooth |-> <<-32768, 32767, 0>>,
     debug |-> <<-32768, 32767, 0, 0, 1, 2, 3, 4>>, motor |-> <<2000, 1000, 1500, 1499, 1000, 1000, 1000, 1000>>,
     eRPM |-> <<20000, 33333, 0, 600000, 0, 0, 0, 0>>,
     slow |-> [flightModeFlags |-> 3, stateFlags |-> 24, failsafePhase |-> 2,
               rxSignalReceived |-> 0, rxFlightChannelsValid |-> 0],
     gps |-> [home |-> <<500, -900>>, coord |-> <<800, -700>>, numSat |-> 8, altCm |-> 1239, speed |-> 200, course |-> 0]]>>

(* Words of 28 bits wrap between the fourth and the fifth update. *)
UpdateTimes ==
  <<268435000, 268435100, 268435200, 268435455, 268435456, 268440000>>

(* An I interval of four iterations. *)
Encoded == INSTANCE BlackboxFrames WITH
  Crafts <- LoggedCrafts, Setups <- BoardSetups, Looptime <- 8000, SlowFactor <- 1, HomeEvery <- 1,
  Clock <- UpdateTimes, BeepAt <- 3, Spaces <- {9, 64}, Losses <- 1, rec <- frameRec

EitherInit ==
  /\ watched \in {"store", "frames"}
  /\ Init /\ Encoded!Init
  /\ watched # "store" => mode = "NORMAL" /\ ~pausable
  /\ watched # "frames" => setup = OnlyI

EitherNext ==
  \/ watched = "store" /\ Next /\ UNCHANGED <<watched, frameVars>>
  \/ watched = "frames" /\ Encoded!Next /\ UNCHANGED <<watched, vars>>

WatchedUpdate == watched = "store" /\ Update

EitherSpec ==
  EitherInit /\ [][EitherNext]_<<watched, vars, frameVars>> /\ WF_vars(WatchedUpdate)

(* The properties of the frames, see BlackboxFrames. *)
LogReadsBack == Encoded!LogReadsBack

=============================================================================
