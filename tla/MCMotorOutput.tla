--------------------------- MODULE MCMotorOutput ---------------------------
(***************************************************************************)
(* Boards of each kind of protocol, and flights that hover, climb, roll    *)
(* beyond what the motors can give, and stop.                              *)
(***************************************************************************)
EXTENDS MotorOutput

Ask(roll, pitch, yaw, thrust) ==
  [roll |-> roll, pitch |-> pitch, yaw |-> yaw, thrust |-> thrust]

Flying(air, low, src) == [armed |-> TRUE, air |-> air, low |-> low, src |-> src]

Parked == [armed |-> FALSE, air |-> FALSE, low |-> TRUE, src |-> Ask(0, 0, 0, 0)]
Lifted == Flying(FALSE, FALSE, Ask(0, 0, 0, -100))
Hover == Flying(FALSE, FALSE, Ask(1, -1, 2, 20))
Climb == Flying(TRUE, FALSE, Ask(40, 20, 0, 100))
Dive == Flying(TRUE, TRUE, Ask(90, -80, 0, -100))
Spin == Flying(TRUE, FALSE, Ask(90, 60, 30, 40))

Board(proto, async, rate, mixer, flights) ==
  [protocol |-> proto, async |-> async, rate |-> rate, mixer |-> mixer,
   flights |-> {Parked} \cup flights,
   yawReverse |-> FALSE, limitType |-> "NONE", limitPercent |-> 100, motorLimit |-> 100,
   servos |-> {}, motorStop |-> FALSE, minThrottle |-> 1070, maxThrottle |-> 2000,
   idle |-> 1056]

Boards ==
  {Board("PWM", FALSE, 480, "QUADX", {Climb}),
   [Board("PWM", TRUE, 480, "TRI", {Hover, Spin}) EXCEPT !.servos = {3}],
   [Board("ONESHOT125", TRUE, 2000, "QUADX_1234", {Climb}) EXCEPT
      !.limitType = "CLIP", !.limitPercent = 80, !.yawReverse = TRUE],
   [Board("ONESHOT42", FALSE, 480, "QUADX", {Dive}) EXCEPT
      !.limitType = "SCALE", !.limitPercent = 60],
   [Board("MULTISHOT", FALSE, 480, "QUADX", {Hover, Dive}) EXCEPT !.motorStop = TRUE],
   [Board("BRUSHED", TRUE, 480, "QUADX", {Climb, Lifted}) EXCEPT !.minThrottle = 1001],
   [Board("DSHOT300", FALSE, 480, "QUADX", {Hover, Climb, Dive, Spin}) EXCEPT !.motorLimit = 70],
   Board("DSHOT600", FALSE, 480, "QUADX", {Hover, Climb, Dive, Spin}),
   [Board("PWM", FALSE, 50, "GIMBAL", {Hover, Spin}) EXCEPT !.servos = {0, 1}],
   Board("DISABLED", FALSE, 480, "NONE", {Hover})}

=============================================================================
