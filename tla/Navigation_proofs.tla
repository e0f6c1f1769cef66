-------------------------- MODULE Navigation_proofs --------------------------
(***************************************************************************)
(* What position hold and the GPS driver keep.                             *)
(*                                                                         *)
(* Position hold, whatever the number of cores, the switch positions and   *)
(* the time stamps: a craft that held stays level, and on one core a hold  *)
(* steers by angles of its own and a dropped craft stays disarmed.         *)
(*                                                                         *)
(* The GPS driver, whatever the lists of messages, the baud rates, the     *)
(* faults and the restarts: a driver that receives has told the module all *)
(* that its version needs, but for as many commands as answers were taken  *)
(* for answers to another one.                                             *)
(***************************************************************************)
EXTENDS PosHold, GpsSensor, Integers, FiniteSetTheorems, WellFoundedInduction, TLAPS

(* Why a craft that held has a level law ahead of it: the mode is on, or   *)
(* the fallback is, or a bail is about to set it.  The gyro task cannot    *)
(* take the mode away while the switch is on: the mask it has still to     *)
(* store grants what was granted.                                          *)
StoreKeepsHold ==
  storing /\ "POSHOLD" \in mask /\ "POSHOLD" \in switch => "POSHOLD" \in newMask

ClearDropsHold == "POSHOLD" \notin loaded

LevelAhead ==
  levelDue =>
    /\ "POSHOLD" \in switch
    /\ "POSHOLD" \in mask \/ fallbackAngle \/ at = "clear"
    /\ at = "test" => "POSHOLD" \in mask
    /\ at = "axes" => angleLaw

LevelInv == TypeOK /\ StoreKeepsHold /\ ClearDropsHold /\ LevelAhead /\ StaysLevel

(* On one core the PID task's steps follow each other undisturbed: a mode  *)
(* that is on after PosHold::update is one PosHold::update has served.     *)
UsedIsCurrent == lastGpsTs # 0 => current

PidAlone == at # "idle" => ~storing

ServedIsCurrent == at \in {"outer", "axes"} /\ "POSHOLD" \in mask => current

HoldInv ==
  /\ TypeOK /\ ClearDropsHold /\ UsedIsCurrent
  /\ cores = 1 => PidAlone /\ ServedIsCurrent
  /\ HoldIsCurrent

(* A drop on one core: the disarmed mask is stored, or the only one that   *)
(* anyone has still to store, and the failsafe blocks arming.              *)
DropInv ==
  /\ TypeOK
  /\ dropped => phase # "IDLE"
  /\ cores = 1 =>
       /\ PidAlone
       /\ at = "clear" => loaded \subseteq mask
       /\ dropped /\ storing => "ARMED" \notin newMask
       /\ dropped /\ ~storing => "ARMED" \notin mask

-----------------------------------------------------------------------------
(* What the constants are, for the provers. *)
LEMMA ConstantFacts ==
  /\ Cores \subseteq {1, 2} /\ Positions \subseteq SUBSET Mode
  /\ Samples \in Nat /\ Samples > 1
BY CoresAssumption, SamplesAssumption, PositionsAssumption

(* A message's time stamp is one of the Samples, never the 0 of "none yet". *)
LEMMA StampReading ==
  ASSUME NEW w \in Nat, w > 1, NEW x \in Nat
  PROVE  (x % w) + 1 \in 1..w
BY Z3

(* The variables start within their types. *)
LEMMA InitTypeOK == Init => TypeOK
<1> SUFFICES ASSUME Init PROVE TypeOK
  OBVIOUS
<1> USE DEF Init
<1>1. {mask, switch, newMask, loaded} \subseteq SUBSET Mode
  OBVIOUS
<1>2. {armBlocked, storing, healthy, active, overrideActive, fallbackAngle,
       late, angleLaw, current, levelDue, dropped} \subseteq BOOLEAN
  OBVIOUS
<1>3. phase \in Phase /\ lastMsgTs \in 0..Samples /\ lastGpsTs \in 0..Samples
  BY ConstantFacts DEF Phase
<1> QED
  BY <1>1, <1>2, <1>3 DEF TypeOK

(* Every step keeps them there. *)
LEMMA NextTypeOK == TypeOK /\ [Next]_vars => TypeOK'
<1> SUFFICES ASSUME TypeOK, [Next]_vars PROVE TypeOK'
  OBVIOUS
<1> USE DEF TypeOK, modeVars, linkVars, gpsVars, holdVars, lawVars, pidVars
<1>1. CASE UpdateModeMask /\ UNCHANGED cores
  BY <1>1, ConstantFacts DEF UpdateModeMask, Granted
<1>2. CASE StoreMask /\ UNCHANGED cores
  BY <1>2 DEF StoreMask
<1>3. CASE LinkChange /\ UNCHANGED cores
  BY <1>3 DEF LinkChange
<1>4. CASE InputUpdate /\ UNCHANGED cores
  <2>1. phase' \in Phase /\ dropped' \in BOOLEAN
    BY <1>4 DEF InputUpdate, LinkIdle, FailsafeStage1, FailsafeStage2, Phase
  <2>2. newMask' \in SUBSET Mode /\ storing' \in BOOLEAN
    BY <1>4 DEF InputUpdate, LinkIdle, FailsafeStage1, FailsafeStage2
  <2>3. UNCHANGED <<mask, switch, armBlocked, link, gpsVars, pidVars, late, levelDue>>
    BY <1>4 DEF InputUpdate, LinkIdle, FailsafeStage1, FailsafeStage2
  <2> QED
    BY <1>4, <2>1, <2>2, <2>3
<1>5. CASE GpsMessage /\ UNCHANGED cores
  BY <1>5, ConstantFacts, StampReading DEF GpsMessage
<1>6. CASE GpsTimeout /\ UNCHANGED cores
  BY <1>6 DEF GpsTimeout
<1>7. CASE Inactive /\ UNCHANGED cores
  <2>1. {active', overrideActive', fallbackAngle', current'} \subseteq BOOLEAN
    BY <1>7 DEF Inactive, Reset
  <2>2. lastGpsTs' \in 0..Samples
    BY <1>7, ConstantFacts DEF Inactive, Reset
  <2> QED
    BY <1>7, <2>1, <2>2 DEF Inactive
<1>8. CASE ReadClock /\ UNCHANGED cores
  BY <1>8 DEF ReadClock
<1>9. CASE Bail /\ UNCHANGED cores
  BY <1>9 DEF Bail
<1>10. CASE BailStore /\ UNCHANGED cores
  <2>1. {active', overrideActive', fallbackAngle', current'} \subseteq BOOLEAN
    BY <1>10 DEF BailStore, Reset
  <2>2. lastGpsTs' \in 0..Samples
    BY <1>10, ConstantFacts DEF BailStore, Reset
  <2> QED
    BY <1>10, <2>1, <2>2 DEF BailStore
<1>11. CASE Hold /\ UNCHANGED cores
  BY <1>11 DEF Hold, Engage, Manual, Automatic
<1>12. CASE OuterLoop /\ UNCHANGED cores
  BY <1>12 DEF OuterLoop
<1>13. CASE OuterLoopAxes /\ UNCHANGED cores
  BY <1>13 DEF OuterLoopAxes
<1>14. CASE UNCHANGED vars
  BY <1>14 DEF vars, taskVars
<1> QED
  BY <1>1, <1>2, <1>3, <1>4, <1>5, <1>6, <1>7, <1>8, <1>9, <1>10, <1>11, <1>12, <1>13, <1>14
  DEF Next, GyroUpdate, ControllerUpdate

(* Every variable stays within its type, and a healthy GPS has sent.        *)
THEOREM TypeCorrect == Spec => []TypeOK
BY InitTypeOK, NextTypeOK, PTL DEF Spec

-----------------------------------------------------------------------------
(***************************************************************************)
(* A craft that held stays level, on one core and on two.                  *)
(***************************************************************************)
(* Nothing has held before the start. *)
LEMMA LevelInit == Init => LevelInv
BY InitTypeOK
DEF Init, LevelInv, StoreKeepsHold, ClearDropsHold, LevelAhead, StaysLevel

(* Every step of either task keeps the level law ahead. *)
LEMMA LevelStep == LevelInv /\ [Next]_vars => LevelInv'
<1> SUFFICES ASSUME LevelInv, [Next]_vars PROVE LevelInv'
  OBVIOUS
<1> USE DEF LevelInv, StoreKeepsHold, ClearDropsHold, LevelAhead, StaysLevel,
            modeVars, linkVars, gpsVars, holdVars, lawVars, pidVars
<1>0. TypeOK'
  BY NextTypeOK
<1>1. CASE UpdateModeMask
  BY <1>0, <1>1 DEF UpdateModeMask, Granted, GyroTask
<1>2. CASE StoreMask
  BY <1>0, <1>2 DEF StoreMask
<1>3. CASE LinkChange
  BY <1>0, <1>3 DEF LinkChange
<1>4. CASE InputUpdate
  BY <1>0, <1>4 DEF InputUpdate, LinkIdle, FailsafeStage1, FailsafeStage2, GyroTask
<1>5. CASE GpsMessage
  BY <1>0, <1>5 DEF GpsMessage
<1>6. CASE GpsTimeout
  BY <1>0, <1>6 DEF GpsTimeout
<1>7. CASE Inactive
  BY <1>0, <1>7 DEF Inactive
<1>8. CASE ReadClock
  BY <1>0, <1>8 DEF ReadClock
<1>9. CASE Bail
  BY <1>0, <1>9 DEF Bail
<1>10. CASE BailStore
  BY <1>0, <1>10 DEF BailStore
<1>11. CASE Hold
  BY <1>0, <1>11 DEF Hold
<1>12. CASE OuterLoop
  BY <1>0, <1>12 DEF OuterLoop
<1>13. CASE OuterLoopAxes
  BY <1>0, <1>13 DEF OuterLoopAxes
<1>14. CASE UNCHANGED vars
  BY <1>0, <1>14 DEF vars, taskVars
<1> QED
  BY <1>1, <1>2, <1>3, <1>4, <1>5, <1>6, <1>7, <1>8, <1>9, <1>10, <1>11, <1>12, <1>13, <1>14
  DEF Next, GyroUpdate, ControllerUpdate

(* A craft that held its position never drops into rate control while its   *)
(* switch is on, whichever task's steps fall between those of the other:    *)
(* the fallback is set before the angle law is chosen again                 *)
(* (PosHold::update, Controller::outerLoop).                                *)
THEOREM HoldStaysLevel == Spec => []StaysLevel
<1>1. LevelInv => StaysLevel
  BY DEF LevelInv
<1> QED
  BY <1>1, LevelInit, LevelStep, PTL DEF Spec

-----------------------------------------------------------------------------
(***************************************************************************)
(* On one core a hold steers by angles written since it was engaged.       *)
(***************************************************************************)
(* Nothing holds at the start. *)
LEMMA HoldInit == Init => HoldInv
BY InitTypeOK
DEF Init, HoldInv, ClearDropsHold, UsedIsCurrent, PidAlone, ServedIsCurrent, HoldIsCurrent

(* Every step keeps the angles of a hold its own. *)
LEMMA HoldStep == HoldInv /\ [Next]_vars => HoldInv'
<1> SUFFICES ASSUME HoldInv, [Next]_vars PROVE HoldInv'
  OBVIOUS
<1> USE DEF HoldInv, ClearDropsHold, UsedIsCurrent, PidAlone, ServedIsCurrent, HoldIsCurrent,
            modeVars, linkVars, gpsVars, holdVars, lawVars, pidVars, GyroTask, PidTask
<1>0. TypeOK'
  BY NextTypeOK
<1>1. CASE UpdateModeMask /\ UNCHANGED cores
  BY <1>0, <1>1 DEF UpdateModeMask
<1>2. CASE StoreMask /\ UNCHANGED cores
  BY <1>0, <1>2 DEF StoreMask
<1>3. CASE LinkChange /\ UNCHANGED cores
  BY <1>0, <1>3 DEF LinkChange
<1>4. CASE InputUpdate /\ UNCHANGED cores
  BY <1>0, <1>4 DEF InputUpdate, LinkIdle, FailsafeStage1, FailsafeStage2
<1>5. CASE GpsMessage /\ UNCHANGED cores
  BY <1>0, <1>5 DEF GpsMessage
<1>6. CASE GpsTimeout /\ UNCHANGED cores
  BY <1>0, <1>6 DEF GpsTimeout
<1>7. CASE Inactive /\ UNCHANGED cores
  BY <1>0, <1>7 DEF Inactive, Reset
<1>8. CASE ReadClock /\ UNCHANGED cores
  BY <1>0, <1>8 DEF ReadClock
<1>9. CASE Bail /\ UNCHANGED cores
  BY <1>0, <1>9 DEF Bail
<1>10. CASE BailStore /\ UNCHANGED cores
  BY <1>0, <1>10 DEF BailStore, Reset
<1>11. CASE Hold /\ UNCHANGED cores
  <2>1. current'
    BY <1>11 DEF Hold, Manual, Automatic, TypeOK
  <2> QED
    BY <1>0, <1>11, <2>1 DEF Hold, Manual, Automatic
<1>12. CASE OuterLoop /\ UNCHANGED cores
  BY <1>0, <1>12 DEF OuterLoop
<1>13. CASE OuterLoopAxes /\ UNCHANGED cores
  BY <1>0, <1>13 DEF OuterLoopAxes
<1>14. CASE UNCHANGED vars
  BY <1>0, <1>14 DEF vars, taskVars
<1> QED
  BY <1>1, <1>2, <1>3, <1>4, <1>5, <1>6, <1>7, <1>8, <1>9, <1>10, <1>11, <1>12, <1>13, <1>14
  DEF Next, GyroUpdate, ControllerUpdate

(* What Controller::update's comment asks, on one core: the angles a hold   *)
(* steers by were written since PosHold::reset.                             *)
THEOREM HoldsAreCurrent == Spec => []HoldIsCurrent
<1>1. HoldInv => HoldIsCurrent
  BY DEF HoldInv
<1> QED
  BY <1>1, HoldInit, HoldStep, PTL DEF Spec

-----------------------------------------------------------------------------
(***************************************************************************)
(* On one core a craft that failsafe dropped stays disarmed.               *)
(***************************************************************************)
(* Nothing is dropped at the start. *)
LEMMA DropInit == Init => DropInv
BY InitTypeOK DEF Init, DropInv, PidAlone

(* No step of either task arms a dropped craft: the actuator grants ARMED   *)
(* to a craft that is armed or out of failsafe, and clearMode stores back    *)
(* what it loaded.                                                           *)
LEMMA DropStep == DropInv /\ [Next]_vars => DropInv'
<1> SUFFICES ASSUME DropInv, [Next]_vars PROVE DropInv'
  OBVIOUS
<1> USE DEF DropInv, PidAlone, GyroTask, PidTask,
            modeVars, linkVars, gpsVars, holdVars, lawVars, pidVars
<1>0. TypeOK'
  BY NextTypeOK
<1>1. CASE UpdateModeMask /\ UNCHANGED cores
  BY <1>0, <1>1 DEF UpdateModeMask, Granted, CanActivateMode, ArmingFailsafe
<1>2. CASE StoreMask /\ UNCHANGED cores
  BY <1>0, <1>2 DEF StoreMask
<1>3. CASE LinkChange /\ UNCHANGED cores
  BY <1>0, <1>3 DEF LinkChange
<1>4. CASE InputUpdate /\ UNCHANGED cores
  BY <1>0, <1>4 DEF InputUpdate, LinkIdle, FailsafeStage1, FailsafeStage2
<1>5. CASE GpsMessage /\ UNCHANGED cores
  BY <1>0, <1>5 DEF GpsMessage
<1>6. CASE GpsTimeout /\ UNCHANGED cores
  BY <1>0, <1>6 DEF GpsTimeout
<1>7. CASE Inactive /\ UNCHANGED cores
  BY <1>0, <1>7 DEF Inactive
<1>8. CASE ReadClock /\ UNCHANGED cores
  BY <1>0, <1>8 DEF ReadClock
<1>9. CASE Bail /\ UNCHANGED cores
  BY <1>0, <1>9 DEF Bail
<1>10. CASE BailStore /\ UNCHANGED cores
  BY <1>0, <1>10 DEF BailStore
<1>11. CASE Hold /\ UNCHANGED cores
  BY <1>0, <1>11 DEF Hold
<1>12. CASE OuterLoop /\ UNCHANGED cores
  BY <1>0, <1>12 DEF OuterLoop
<1>13. CASE OuterLoopAxes /\ UNCHANGED cores
  BY <1>0, <1>13 DEF OuterLoopAxes
<1>14. CASE UNCHANGED vars
  BY <1>0, <1>14 DEF vars, taskVars
<1> QED
  BY <1>1, <1>2, <1>3, <1>4, <1>5, <1>6, <1>7, <1>8, <1>9, <1>10, <1>11, <1>12, <1>13, <1>14
  DEF Next, GyroUpdate, ControllerUpdate

(* Failsafe stage 2 is a drop: on one core nothing arms the craft before    *)
(* the link is good again, neither its switch nor the mode mask that a       *)
(* bailing hold stores.                                                      *)
THEOREM DropsLast == Spec => [](cores = 1 => StaysDropped)
<1>1. DropInv => (cores = 1 => StaysDropped)
  BY DEF DropInv, StaysDropped
<1> QED
  BY <1>1, DropInit, DropStep, PTL DEF Spec

-----------------------------------------------------------------------------
(***************************************************************************)
(* The GPS driver.                                                         *)
(*                                                                         *)
(* What the craft and the module may be.                                   *)
(***************************************************************************)
DriverStates ==
  {"DETECT_BAUD", "GET_VERSION", "CONFIGURE_BAUD", "DISABLE_NMEA", "ENABLE_UBX",
   "ENABLE_NAV5", "ENABLE_SBAS", "DETECT_GPS_L5", "CONFIGURE_GNSS",
   "CONFIGURE_NAV_RATE", "RECEIVE", "ERROR", "WAIT"}

Rates == ItemsOf(Bauds) \cup Targets

Items ==
  ItemsOf(NmeaOff) \cup ItemsOf(PvtOn) \cup ItemsOf(LegacyOn) \cup {"", "all"}

Names ==
  {"none", "version", "baud", "nmea", "ubx", "nav5", "sbas", "l5", "gnss", "rate"}

Cmds == [name : Names, item : Items]

Frames == [type : {"ack", "nak", "value", "version"}, to : Cmds]

Drivers ==
  [state : DriverStates, ackState : DriverStates, timeoutState : DriverStates,
   counter : Nat, left : Nat, baud : Rates, present : BOOLEAN,
   version : {"UNKNOWN", "M6", "M8", "M10"}, written : Nat, deaf : BOOLEAN, updated : BOOLEAN]

Configs ==
  [provider : {0, 1}, autoConfig : BOOLEAN, autoBaud : BOOLEAN, sbas : BOOLEAN,
   target : Targets]

Modules == [kind : Kinds, on : BOOLEAN, baud : Rates, done : SUBSET Cmds]

Worlds ==
  [gps : Drivers, module : Modules, line : Seq(Frames), faults : Int, pending : Cmds,
   strays : Nat]

-----------------------------------------------------------------------------
(***************************************************************************)
(* What a module must have been told before the driver comes to a state.   *)
(***************************************************************************)
First(name, items, n) == {Cmd(name, items[k]) : k \in 1..n}

NmeaTold(g) ==
  IF IsLegacyProto(g) THEN First("nmea", NmeaOff, Len(NmeaOff)) ELSE {Cmd("nmea", "all")}

UbxTold(g) ==
  IF IsLegacyProto(g) THEN First("ubx", LegacyMessages(g), Len(LegacyMessages(g)))
  ELSE {Cmd("ubx", "all")}

SbasTold(g) == IF config.sbas /\ g.version # "M6" THEN {Plain("sbas")} ELSE {}

GnssTold(g) == IF g.version # "M6" THEN {Plain("gnss")} ELSE {}

Told(g, state) ==
  LET messages == NmeaTold(g) \cup UbxTold(g)
      modes == messages \cup {Plain("nav5")} \cup SbasTold(g)
  IN CASE state = "DISABLE_NMEA" ->
            IF IsLegacyProto(g) THEN First("nmea", NmeaOff, g.counter) ELSE {}
       [] state = "ENABLE_UBX" ->
            NmeaTold(g) \cup IF IsLegacyProto(g)
                             THEN First("ubx", LegacyMessages(g), g.counter) ELSE {}
       [] state = "ENABLE_NAV5" -> messages
       [] state = "ENABLE_SBAS" -> messages \cup {Plain("nav5")}
       [] state \in {"DETECT_GPS_L5", "CONFIGURE_GNSS"} -> modes
       [] state = "CONFIGURE_NAV_RATE" -> modes \cup GnssTold(g)
       [] state = "RECEIVE" -> modes \cup GnssTold(g) \cup {Plain("rate")}
       [] OTHER -> {}

Few(S, n) == IsFiniteSet(S) /\ Cardinality(S) <= n

(* A state of the set-up, once the version is known. *)
Setting ==
  {"CONFIGURE_BAUD", "DISABLE_NMEA", "ENABLE_UBX", "ENABLE_NAV5", "ENABLE_SBAS",
   "DETECT_GPS_L5", "CONFIGURE_GNSS", "CONFIGURE_NAV_RATE", "RECEIVE"}

(* The list of a state has an item left. *)
Counts(g, state) ==
  /\ state = "CONFIGURE_BAUD" => g.counter = 0
  /\ state = "DISABLE_NMEA" /\ IsLegacyProto(g) => g.counter < Len(NmeaOff)
  /\ state = "ENABLE_UBX" /\ IsLegacyProto(g) => g.counter < Len(LegacyMessages(g))

(* The state may be entered, with all but a few of what comes before it    *)
(* done, or done once another command is.                                  *)
Reached(w, state, done) ==
  /\ state \in Setting /\ w.gps.version = w.module.kind
  /\ Counts(w.gps, state)
  /\ Few(Told(w.gps, state) \ done, w.strays)

AsksVersion(w) == w.gps.state = "WAIT" /\ w.pending = Plain("version")

OnCourse(w) ==
  LET g == w.gps
  IN /\ g.state \in Setting => Reached(w, g.state, w.module.done)
     /\ g.state = "RECEIVE" => g.ackState = "RECEIVE" /\ g.timeoutState = "ERROR"
     /\ AsksVersion(w) =>
          g.ackState = "CONFIGURE_BAUD" /\ g.timeoutState = "ERROR"
     /\ g.state = "WAIT" /\ ~AsksVersion(w) =>
          /\ Reached(w, g.ackState, w.module.done \cup {w.pending})
          /\ \/ g.timeoutState = "ERROR"
             \/ /\ g.timeoutState = g.ackState /\ g.ackState # "RECEIVE"
                /\ Reached(w, g.ackState, w.module.done)

(* A frame on the line tells the truth, and no answer is older than the    *)
(* restart.                                                                *)
Truthful(w, frame) ==
  /\ frame \in Frames
  /\ frame.type \in {"ack", "value"} => frame.to \in w.module.done
  /\ frame.type = "version" => frame.to = Plain("version")
  /\ AsksVersion(w) => frame.type = "version"
  /\ w.gps.state \notin {"DETECT_BAUD", "GET_VERSION"}

WorldInv(w) ==
  /\ w \in Worlds /\ OnCourse(w)
  /\ \A k \in 1..Len(w.line) : Truthful(w, w.line[k])

Configured == config.provider = 1 /\ config.autoConfig

DriverInv == config \in Configs /\ (Configured => WorldInv(World))

-----------------------------------------------------------------------------
(***************************************************************************)
(* Lemmas about few commands, and about records.                           *)
(***************************************************************************)
(* A part of few is few.                                                   *)
LEMMA FewSubset ==
  ASSUME NEW S, NEW T, T \subseteq S, NEW m \in Nat, NEW n \in Nat, m <= n, Few(S, m)
  PROVE  Few(T, n)
PROOF
  <1>1. IsFiniteSet(T) /\ Cardinality(T) <= Cardinality(S) BY FS_Subset DEF Few
  <1>2. Cardinality(S) \in Nat /\ Cardinality(T) \in Nat BY <1>1, FS_CardinalityType DEF Few
  <1> QED BY <1>1, <1>2 DEF Few

(* One more is one more. *)
LEMMA FewMore ==
  ASSUME NEW S, NEW D, NEW p, NEW n \in Nat, Few(S \ (D \cup {p}), n)
  PROVE  Few(S \ D, n + 1)
PROOF
  <1> DEFINE Q == S \ (D \cup {p})
  <1>1. IsFiniteSet(Q) /\ Cardinality(Q) <= n BY DEF Few
  <1>2. Cardinality(Q) \in Nat BY <1>1, FS_CardinalityType
  <1>3. S \ D \subseteq Q \cup {p} OBVIOUS
  <1> HIDE DEF Q
  <1>4. /\ IsFiniteSet(Q \cup {p})
        /\ Cardinality(Q \cup {p}) \in {Cardinality(Q), Cardinality(Q) + 1}
    BY <1>1, FS_AddElement
  <1>5. Cardinality(Q \cup {p}) <= n + 1 BY <1>1, <1>2, <1>4
  <1>6. Few(Q \cup {p}, n + 1) BY <1>4, <1>5 DEF Few
  <1> QED BY <1>3, <1>6, FewSubset

(* The constants.                                                          *)
LEMMA Given ==
  /\ Timeout \in Nat /\ DetectTimeout \in Nat /\ Faults \in Nat
  /\ Bauds \in Seq(Nat) /\ Targets \subseteq Nat
  /\ NmeaOff \in Seq(STRING) /\ NmeaOff # <<>>
  /\ PvtOn \in Seq(STRING) /\ PvtOn # <<>>
  /\ LegacyOn \in Seq(STRING) /\ LegacyOn # <<>>
  /\ Kinds \subseteq {"M6", "M8", "M10"}
PROOF
  <1>1. {Timeout, DetectTimeout, Faults, Restarts} \subseteq Nat BY DriverAssumption
  <1>2. Bauds \in Seq(Nat) /\ Targets \subseteq Nat BY DriverAssumption
  <1>3. {NmeaOff, PvtOn, LegacyOn} \subseteq Seq(STRING) \ {<<>>} BY DriverAssumption
  <1>4. Kinds \subseteq {"M6", "M8", "M10"} BY DriverAssumption
  <1> QED BY <1>1, <1>2, <1>3, <1>4

(* A list of messages is not empty.                                        *)
LEMMA ListFacts ==
  ASSUME NEW items \in {NmeaOff, PvtOn, LegacyOn}
  PROVE  /\ items \in Seq(STRING) /\ Len(items) \in Nat \ {0}
         /\ \A k \in 1..Len(items) : items[k] \in Items
PROOF
  <1>1. items \in Seq(STRING) /\ items # <<>> BY Given
  <1>2. Len(items) \in Nat /\ Len(items) # 0 BY <1>1
  <1>3. \A k \in 1..Len(items) : items[k] \in Items BY DEF Items, ItemsOf
  <1> QED BY <1>1, <1>2, <1>3

(* A command.                                                              *)
LEMMA CmdFacts ==
  ASSUME NEW name \in Names, NEW item \in Items
  PROVE  /\ Cmd(name, item) \in Cmds
         /\ Cmd(name, item).name = name /\ Cmd(name, item).item = item
PROOF BY DEF Cmd, Cmds

(* A command without an item.                                              *)
LEMMA PlainFacts ==
  ASSUME NEW name \in Names
  PROVE  Plain(name) \in Cmds /\ Plain(name).name = name
PROOF
  <1>1. "" \in Items BY DEF Items
  <1> QED BY <1>1, CmdFacts DEF Plain

(* The fields of a world.                                                  *)
LEMMA WorldFields ==
  ASSUME NEW w \in Worlds
  PROVE  /\ w.gps \in Drivers /\ w.module \in Modules /\ w.line \in Seq(Frames)
         /\ w.faults \in Int /\ w.pending \in Cmds /\ w.strays \in Nat
PROOF BY DEF Worlds

(* The fields of a driver.                                                 *)
LEMMA DriverFields ==
  ASSUME NEW g \in Drivers
  PROVE  /\ g.state \in DriverStates /\ g.ackState \in DriverStates
         /\ g.timeoutState \in DriverStates /\ g.counter \in Nat /\ g.left \in Nat
         /\ g.baud \in Rates /\ g.present \in BOOLEAN
         /\ g.version \in {"UNKNOWN", "M6", "M8", "M10"}
         /\ g.written \in Nat /\ g.deaf \in BOOLEAN /\ g.updated \in BOOLEAN
PROOF BY DEF Drivers

(* The fields of a module.                                                 *)
LEMMA ModuleFields ==
  ASSUME NEW m \in Modules
  PROVE  m.kind \in Kinds /\ m.on \in BOOLEAN /\ m.baud \in Rates /\ m.done \subseteq Cmds
PROOF BY DEF Modules

(* A world with another driver.                                            *)
LEMMA NewGps ==
  ASSUME NEW w \in Worlds, NEW g \in Drivers
  PROVE  LET v == [w EXCEPT !.gps = g]
         IN /\ v \in Worlds /\ v.gps = g /\ v.module = w.module /\ v.line = w.line
            /\ v.faults = w.faults /\ v.pending = w.pending /\ v.strays = w.strays
PROOF BY DEF Worlds

(* The first items of a list, one more at a time.                          *)
LEMMA FirstFacts ==
  ASSUME NEW name, NEW items, NEW n \in Nat
  PROVE  /\ First(name, items, 0) = {}
         /\ First(name, items, n + 1) \subseteq First(name, items, n) \cup {Cmd(name, items[n + 1])}
PROOF
  <1>1. First(name, items, 0) = {} BY DEF First
  <1>2. ASSUME NEW k \in 1..(n + 1)
        PROVE  Cmd(name, items[k]) \in First(name, items, n) \cup {Cmd(name, items[n + 1])}
    <2>1. CASE k = n + 1 BY <2>1
    <2>2. CASE k # n + 1
      <3>1. k \in 1..n BY <2>2
      <3> QED BY <3>1 DEF First
    <2> QED BY <2>1, <2>2
  <1> QED BY <1>1, <1>2 DEF First

-----------------------------------------------------------------------------
(***************************************************************************)
(* What a state has been told depends on the version and the counter only. *)
(***************************************************************************)
LEMMA ToldSame ==
  ASSUME NEW g, NEW h, g.version = h.version, g.counter = h.counter, NEW state
  PROVE  Told(g, state) = Told(h, state) /\ (Counts(g, state) <=> Counts(h, state))
PROOF
  <1>1. IsLegacyProto(g) = IsLegacyProto(h) /\ LegacyMessages(g) = LegacyMessages(h)
    BY DEF IsLegacyProto, LegacyMessages
  <1>2. NmeaTold(g) = NmeaTold(h) /\ UbxTold(g) = UbxTold(h)
    BY <1>1 DEF NmeaTold, UbxTold
  <1>3. SbasTold(g) = SbasTold(h) /\ GnssTold(g) = GnssTold(h)
    BY DEF SbasTold, GnssTold
  <1>4. Told(g, state) = Told(h, state) BY <1>1, <1>2, <1>3 DEF Told
  <1> QED BY <1>1, <1>4 DEF Counts

(* With the counter back at zero less needs to have been told.             *)
LEMMA ToldAnew ==
  ASSUME NEW g \in Drivers, NEW h \in Drivers, g.version = h.version, h.counter = 0, NEW state
  PROVE  Told(h, state) \subseteq Told(g, state) /\ Counts(h, state)
PROOF
  <1>1. IsLegacyProto(g) = IsLegacyProto(h) /\ LegacyMessages(g) = LegacyMessages(h)
    BY DEF IsLegacyProto, LegacyMessages
  <1>2. NmeaTold(g) = NmeaTold(h) /\ UbxTold(g) = UbxTold(h)
    BY <1>1 DEF NmeaTold, UbxTold
  <1>3. SbasTold(g) = SbasTold(h) /\ GnssTold(g) = GnssTold(h)
    BY DEF SbasTold, GnssTold
  <1>4. First("nmea", NmeaOff, h.counter) = {} /\ First("ubx", LegacyMessages(h), h.counter) = {}
    BY FirstFacts
  <1>5. Told(h, state) \subseteq Told(g, state)
    <2>1. CASE state = "DISABLE_NMEA" BY <1>4, <2>1 DEF Told
    <2>2. CASE state = "ENABLE_UBX" BY <1>1, <1>2, <1>4, <2>2 DEF Told
    <2>3. CASE state \notin {"DISABLE_NMEA", "ENABLE_UBX"} BY <1>2, <1>3, <2>3 DEF Told
    <2> QED BY <2>1, <2>2, <2>3
  <1>6. LegacyMessages(h) \in {PvtOn, LegacyOn} BY DEF LegacyMessages
  <1>7. 0 < Len(NmeaOff) /\ 0 < Len(LegacyMessages(h))
    <2>1. NmeaOff \in {NmeaOff, PvtOn, LegacyOn} OBVIOUS
    <2>2. LegacyMessages(h) \in {NmeaOff, PvtOn, LegacyOn} BY <1>6
    <2>3. Len(NmeaOff) \in Nat \ {0} BY <2>1, ListFacts
    <2>4. Len(LegacyMessages(h)) \in Nat \ {0} BY <2>2, ListFacts
    <2> QED BY <2>3, <2>4
  <1> QED BY <1>5, <1>7 DEF Counts

(* Worlds that do not differ in what the invariant looks at, but that more *)
(* may be done.                                                            *)
Alike(w, v) ==
  /\ v \in Worlds
  /\ v.gps.state = w.gps.state /\ v.gps.ackState = w.gps.ackState
  /\ v.gps.timeoutState = w.gps.timeoutState
  /\ v.gps.version = w.gps.version /\ v.gps.counter = w.gps.counter
  /\ v.module.kind = w.module.kind /\ w.module.done \subseteq v.module.done
  /\ v.pending = w.pending /\ v.strays = w.strays

(* What an operation may make of a world.                                  *)
Follows(w, v) ==
  WorldInv(v) /\ \A frame : Truthful(w, frame) => Truthful(v, frame)

(* A state that is reached stays reached.                                  *)
LEMMA ReachedKept ==
  ASSUME NEW w \in Worlds, NEW v \in Worlds, NEW state, NEW done, NEW more, done \subseteq more,
         v.gps.version = w.gps.version, v.gps.counter = w.gps.counter,
         v.module.kind = w.module.kind, w.strays <= v.strays, Reached(w, state, done)
  PROVE  Reached(v, state, more)
PROOF
  <1>1. Told(w.gps, state) = Told(v.gps, state) /\ Counts(v.gps, state)
    BY ToldSame DEF Reached
  <1>2. Told(v.gps, state) \ more \subseteq Told(w.gps, state) \ done BY <1>1
  <1>3. w.strays \in Nat /\ v.strays \in Nat BY WorldFields
  <1>4. Few(Told(v.gps, state) \ more, v.strays) BY <1>2, <1>3, FewSubset DEF Reached
  <1> QED BY <1>1, <1>4 DEF Reached

(* An alike world is on course and has the same frames to fear.            *)
LEMMA AlikeFollows ==
  ASSUME NEW w, WorldInv(w), NEW v, Alike(w, v),
         \A k \in 1..Len(v.line) : Truthful(w, v.line[k])
  PROVE  Follows(w, v)
PROOF
  <1>0. w \in Worlds /\ v \in Worlds /\ OnCourse(w) BY DEF WorldInv, Alike
  <1>1. ASSUME NEW state, NEW done, NEW more, done \subseteq more, Reached(w, state, done)
        PROVE  Reached(v, state, more)
    <2>1. w.strays <= v.strays
      <3>1. w.strays \in Nat BY <1>0, WorldFields
      <3> QED BY <3>1 DEF Alike
    <2> QED BY <1>0, <1>1, <2>1, ReachedKept DEF Alike
  <1>2. AsksVersion(v) = AsksVersion(w) BY DEF AsksVersion, Alike
  <1>3. w.module.done \subseteq v.module.done /\ v.pending = w.pending BY DEF Alike
  <1>4. OnCourse(v)
    <2>1. v.gps.state \in Setting => Reached(v, v.gps.state, v.module.done)
      BY <1>0, <1>1, <1>3 DEF Alike, OnCourse
    <2>2. v.gps.state = "WAIT" /\ ~AsksVersion(v) =>
            /\ Reached(v, v.gps.ackState, v.module.done \cup {v.pending})
            /\ \/ v.gps.timeoutState = "ERROR"
               \/ /\ v.gps.timeoutState = v.gps.ackState /\ v.gps.ackState # "RECEIVE"
                  /\ Reached(v, v.gps.ackState, v.module.done)
      <3> SUFFICES ASSUME v.gps.state = "WAIT", ~AsksVersion(v)
                   PROVE  /\ Reached(v, v.gps.ackState, v.module.done \cup {v.pending})
                          /\ \/ v.gps.timeoutState = "ERROR"
                             \/ /\ v.gps.timeoutState = v.gps.ackState
                                /\ v.gps.ackState # "RECEIVE"
                                /\ Reached(v, v.gps.ackState, v.module.done)
        OBVIOUS
      <3>1. w.gps.state = "WAIT" /\ ~AsksVersion(w) BY <1>2 DEF Alike
      <3>2. w.module.done \cup {w.pending} \subseteq v.module.done \cup {v.pending} BY <1>3
      <3>3. Reached(v, w.gps.ackState, v.module.done \cup {v.pending})
        BY <1>0, <1>1, <3>1, <3>2 DEF OnCourse
      <3>4. Reached(w, w.gps.ackState, w.module.done) =>
              Reached(v, w.gps.ackState, v.module.done)
        BY <1>1, <1>3
      <3> QED BY <1>0, <3>1, <3>3, <3>4 DEF OnCourse, Alike
    <2> QED BY <1>0, <1>2, <2>1, <2>2 DEF OnCourse, Alike
  <1>5. \A frame : Truthful(w, frame) => Truthful(v, frame)
    BY <1>2, <1>3 DEF Truthful, Alike
  <1> QED BY <1>0, <1>4, <1>5 DEF Follows, WorldInv

-----------------------------------------------------------------------------
(***************************************************************************)
(* Sending a command.                                                      *)
(***************************************************************************)
(* The module answers the command it is sent, and acknowledges only what   *)
(* it does not refuse.                                                     *)
Answers(answers, cmd) ==
  /\ answers \in Seq(Frames)
  /\ \A k \in 1..Len(answers) :
       /\ answers[k].to = cmd
       /\ answers[k].type = "version" <=> cmd.name = "version"
       /\ answers[k].type \in {"ack", "value"} =>
            \A i \in 1..Len(answers) : answers[i].type # "nak"

(* An answer is a frame.                                                   *)
LEMMA AnswerFacts ==
  ASSUME NEW type \in {"ack", "nak", "value", "version"}, NEW cmd \in Cmds
  PROVE  /\ Answer(type, cmd) \in Frames
         /\ Answer(type, cmd).type = type /\ Answer(type, cmd).to = cmd
PROOF BY DEF Answer, Frames

(* What the module may reply.                                              *)
LEMMA RepliesFacts ==
  ASSUME NEW cmd \in Cmds, NEW kind,
         NEW answers \in Replies(kind, cmd) \cup Refusals(cmd) \cup {<<>>}
  PROVE  Answers(answers, cmd)
PROOF
  <1> DEFINE A(type) == Answer(type, cmd)
  <1>1. \A type \in {"ack", "nak", "value", "version"} :
          A(type) \in Frames /\ A(type).type = type /\ A(type).to = cmd
    BY AnswerFacts
  <1>2. \/ answers = <<>>
        \/ answers = <<A("version")>> /\ cmd.name = "version"
        \/ answers \in {<<A("value"), A("ack")>>, <<A("nak")>>, <<A("ack")>>}
           /\ cmd.name # "version"
    <2>1. CASE answers \in Refusals(cmd) BY <2>1 DEF Refusals
    <2>2. CASE answers \in Replies(kind, cmd)
      <3>1. CASE cmd.name = "version" BY <2>2, <3>1 DEF Replies
      <3>2. CASE cmd.name = "l5" /\ kind = "M10" BY <2>2, <3>2 DEF Replies
      <3>3. CASE \/ cmd.name = "l5" /\ kind # "M10"
                 \/ cmd.name = "ubx" /\ kind = "M6" /\ cmd.item \in ItemsOf(PvtOn)
        BY <2>2, <3>3 DEF Replies
      <3>4. CASE cmd.name = "baud" BY <2>2, <3>4 DEF Replies
      <3>5. CASE /\ cmd.name \notin {"version", "l5", "baud"}
                 /\ ~(cmd.name = "ubx" /\ kind = "M6" /\ cmd.item \in ItemsOf(PvtOn))
        BY <2>2, <3>5 DEF Replies
      <3> QED BY <3>1, <3>2, <3>3, <3>4, <3>5
    <2>3. CASE answers = <<>> BY <2>3
    <2> QED BY <2>1, <2>2, <2>3
  <1> HIDE DEF A
  <1>3. CASE answers = <<>> BY <1>3 DEF Answers
  <1>4. CASE answers = <<A("version")>> /\ cmd.name = "version"
    <2>1. answers \in Seq(Frames) /\ Len(answers) = 1 /\ answers[1] = A("version")
      BY <1>1, <1>4
    <2> QED BY <1>1, <1>4, <2>1 DEF Answers
  <1>5. CASE answers \in {<<A("nak")>>, <<A("ack")>>} /\ cmd.name # "version"
    <2>1. PICK type \in {"ack", "nak"} : answers = <<A(type)>> BY <1>5
    <2>2. A(type) \in Frames /\ A(type).type = type /\ A(type).to = cmd BY <1>1
    <2>3. answers \in Seq(Frames) /\ Len(answers) = 1 /\ answers[1] = A(type) BY <2>1, <2>2
    <2>4. \A k \in 1..Len(answers) : answers[k].type = type /\ answers[k].to = cmd
      BY <2>2, <2>3
    <2> QED BY <1>5, <2>3, <2>4 DEF Answers
  <1>6. CASE answers = <<A("value"), A("ack")>> /\ cmd.name # "version"
    <2>1. /\ answers \in Seq(Frames) /\ Len(answers) = 2
          /\ answers[1] = A("value") /\ answers[2] = A("ack")
      BY <1>1, <1>6
    <2>2. \A k \in 1..Len(answers) : k = 1 \/ k = 2 BY <2>1
    <2>3. \A k \in 1..Len(answers) : answers[k].to = cmd /\ answers[k].type \in {"ack", "value"}
      BY <1>1, <2>1, <2>2
    <2> QED BY <1>6, <2>1, <2>3 DEF Answers
  <1> QED BY <1>2, <1>3, <1>4, <1>5, <1>6

(* What the module makes of a command, field by field.                     *)
Heard(w, cmd, v) ==
  /\ v \in Worlds
  /\ v.gps = w.gps /\ v.module.kind = w.module.kind
  /\ w.module.done \subseteq v.module.done
  /\ v.pending = w.pending /\ v.strays = w.strays
  /\ \A k \in 1..Len(v.line) :
       \/ \E i \in 1..Len(w.line) : v.line[k] = w.line[i]
       \/ /\ v.line[k] \in Frames /\ v.line[k].to = cmd
          /\ v.line[k].type = "version" <=> cmd.name = "version"
          /\ v.line[k].type \in {"ack", "value"} => cmd \in v.module.done

(* The command is carried out.                                             *)
LEMMA CarriesOutFacts ==
  ASSUME NEW w \in Worlds, config \in Configs, NEW cmd \in Cmds,
         NEW answers, Answers(answers, cmd)
  PROVE  Heard(w, cmd, CarriesOut(w, cmd, answers))
PROOF
  <1> DEFINE refused == \E k \in 1..Len(answers) : answers[k].type = "nak"
             done == IF refused THEN w.module.done ELSE w.module.done \cup {cmd}
             baud == IF cmd.name = "baud" THEN config.target ELSE w.module.baud
             m == [w.module EXCEPT !.done = done, !.baud = baud]
             line1 == w.line \o answers
             v == CarriesOut(w, cmd, answers)
  <1>0. w.module \in Modules /\ w.line \in Seq(Frames) /\ answers \in Seq(Frames)
    BY WorldFields DEF Answers
  <1>1. baud \in Rates BY <1>0, ModuleFields DEF Configs, Rates
  <1>2. done \subseteq Cmds BY <1>0, ModuleFields
  <1>3. v = [w EXCEPT !.line = line1, !.module = m]
    BY <1>0 DEF CarriesOut, Modules, Worlds
  <1> HIDE DEF baud
  <1>4. m \in Modules /\ m.kind = w.module.kind /\ m.done = done
    <2> HIDE DEF done
    <2> QED BY <1>0, <1>1, <1>2 DEF Modules
  <1>5. line1 \in Seq(Frames) BY <1>0
  <1> HIDE DEF m, line1, v
  <1>6. /\ v \in Worlds /\ v.gps = w.gps /\ v.module = m /\ v.line = line1
        /\ v.pending = w.pending /\ v.strays = w.strays
    BY <1>3, <1>4, <1>5 DEF Worlds
  <1>7. ASSUME NEW k \in 1..Len(line1)
        PROVE  \/ \E i \in 1..Len(w.line) : line1[k] = w.line[i]
               \/ \E i \in 1..Len(answers) : line1[k] = answers[i]
    BY <1>0, <1>7 DEF line1
  <1>8. ASSUME NEW i \in 1..Len(answers)
        PROVE  /\ answers[i] \in Frames /\ answers[i].to = cmd
               /\ answers[i].type = "version" <=> cmd.name = "version"
               /\ answers[i].type \in {"ack", "value"} => cmd \in done
    <2>1. answers[i] \in Frames BY <1>0
    <2> QED BY <2>1 DEF Answers
  <1>9. w.module.done \subseteq done OBVIOUS
  <1> HIDE DEF done
  <1>10. ASSUME NEW k \in 1..Len(v.line)
         PROVE  \/ \E i \in 1..Len(w.line) : v.line[k] = w.line[i]
                \/ /\ v.line[k] \in Frames /\ v.line[k].to = cmd
                   /\ v.line[k].type = "version" <=> cmd.name = "version"
                   /\ v.line[k].type \in {"ack", "value"} => cmd \in v.module.done
    BY <1>4, <1>6, <1>7, <1>8
  <1> QED BY <1>4, <1>6, <1>9, <1>10 DEF Heard, v

(* A fault is spent.                                                       *)
LEMMA NewFaults ==
  ASSUME NEW w \in Worlds
  PROVE  LET v == [w EXCEPT !.faults = @ - 1]
         IN /\ v \in Worlds /\ v.gps = w.gps /\ v.module = w.module /\ v.line = w.line
            /\ v.pending = w.pending /\ v.strays = w.strays
PROOF BY DEF Worlds

(* The command goes over the line.                                         *)
LEMMA TransmitFacts ==
  ASSUME NEW w \in Worlds, config \in Configs, NEW cmd \in Cmds, NEW v \in Transmit(w, cmd)
  PROVE  Heard(w, cmd, v)
PROOF
  <1> DEFINE faulty == [w EXCEPT !.faults = @ - 1]
  <1>1. /\ faulty \in Worlds /\ faulty.gps = w.gps /\ faulty.module = w.module
        /\ faulty.line = w.line /\ faulty.pending = w.pending /\ faulty.strays = w.strays
    BY NewFaults
  <1>2. \/ v = w \/ v = faulty
        \/ \E answers \in Replies(w.module.kind, cmd) \cup Refusals(cmd) \cup {<<>>} :
             v = CarriesOut(w, cmd, answers) \/ v = CarriesOut(faulty, cmd, answers)
    BY DEF Transmit
  <1> HIDE DEF faulty
  <1>3. CASE v = w BY <1>3 DEF Heard
  <1>4. CASE v = faulty BY <1>1, <1>4 DEF Heard
  <1>5. ASSUME NEW answers \in Replies(w.module.kind, cmd) \cup Refusals(cmd) \cup {<<>>},
               v = CarriesOut(w, cmd, answers) \/ v = CarriesOut(faulty, cmd, answers)
        PROVE  Heard(w, cmd, v)
    <2>1. Answers(answers, cmd) BY RepliesFacts
    <2>2. CASE v = CarriesOut(w, cmd, answers) BY <2>1, <2>2, CarriesOutFacts
    <2>3. CASE v = CarriesOut(faulty, cmd, answers)
      <3>1. Heard(faulty, cmd, v) BY <1>1, <2>1, <2>3, CarriesOutFacts
      <3> QED BY <1>1, <3>1 DEF Heard
    <2> QED BY <1>5, <2>2, <2>3
  <1> QED BY <1>2, <1>3, <1>4, <1>5

(* A world whose driver has changed state.                                 *)
LEMMA SetStateFacts ==
  ASSUME NEW w \in Worlds, NEW state \in DriverStates
  PROVE  LET v == SetState(w, state)
         IN /\ v \in Worlds /\ v.gps.state = state
            /\ v.gps.ackState = w.gps.ackState /\ v.gps.timeoutState = w.gps.timeoutState
            /\ v.gps.version = w.gps.version /\ v.gps.counter = w.gps.counter
            /\ v.module = w.module /\ v.line = w.line
            /\ v.pending = w.pending /\ v.strays = w.strays
PROOF
  <1> DEFINE g == [w.gps EXCEPT !.state = state, !.left = Timeout]
  <1>1. w.gps \in Drivers /\ Timeout \in Nat BY WorldFields, Given
  <1>2. /\ g \in Drivers /\ g.state = state
        /\ g.ackState = w.gps.ackState /\ g.timeoutState = w.gps.timeoutState
        /\ g.version = w.gps.version /\ g.counter = w.gps.counter
    BY <1>1 DEF Drivers
  <1>3. SetState(w, state) = [w EXCEPT !.gps = g] BY <1>1 DEF SetState, Worlds
  <1> HIDE DEF g
  <1> QED BY <1>2, <1>3, NewGps

(* What send leaves, field by field.                                       *)
LEMMA SendFacts ==
  ASSUME NEW w \in Worlds, config \in Configs, NEW cmd \in Cmds,
         NEW ack \in DriverStates, NEW timeout \in DriverStates,
         NEW v \in Send(w, cmd, ack, timeout)
  PROVE  /\ v \in Worlds /\ v.gps.state = "WAIT"
         /\ v.gps.ackState = ack /\ v.gps.timeoutState = timeout
         /\ v.gps.version = w.gps.version /\ v.gps.counter = w.gps.counter
         /\ v.module.kind = w.module.kind /\ w.module.done \subseteq v.module.done
         /\ v.pending = cmd /\ v.strays = w.strays
         /\ \A k \in 1..Len(v.line) :
              \/ \E i \in 1..Len(w.line) : v.line[k] = w.line[i]
              \/ /\ v.line[k] \in Frames /\ v.line[k].to = cmd
                 /\ v.line[k].type = "version" <=> cmd.name = "version"
                 /\ v.line[k].type \in {"ack", "value"} => cmd \in v.module.done
PROOF
  <1>1. PICK u \in Transmit(w, cmd) :
          v = [SetState(u, "WAIT") EXCEPT !.gps.ackState = ack,
                                          !.gps.timeoutState = timeout, !.pending = cmd]
    BY DEF Send
  <1>2. Heard(w, cmd, u) BY TransmitFacts
  <1> DEFINE t == SetState(u, "WAIT")
  <1>3. /\ t \in Worlds /\ t.gps.state = "WAIT"
        /\ t.gps.version = u.gps.version /\ t.gps.counter = u.gps.counter
        /\ t.module = u.module /\ t.line = u.line /\ t.strays = u.strays
    <2>1. "WAIT" \in DriverStates BY DEF DriverStates
    <2> QED BY <1>2, <2>1, SetStateFacts DEF Heard
  <1>4. v = [t EXCEPT !.gps.ackState = ack, !.gps.timeoutState = timeout, !.pending = cmd]
    BY <1>1
  <1> HIDE DEF t
  <1> DEFINE g == [t.gps EXCEPT !.ackState = ack, !.timeoutState = timeout]
  <1>5. t.gps \in Drivers BY <1>3, WorldFields
  <1>6. /\ g \in Drivers /\ g.state = "WAIT" /\ g.ackState = ack /\ g.timeoutState = timeout
        /\ g.version = t.gps.version /\ g.counter = t.gps.counter
    BY <1>3, <1>5 DEF Drivers
  <1>7. v = [t EXCEPT !.gps = g, !.pending = cmd] BY <1>3, <1>4, <1>5 DEF Worlds
  <1> HIDE DEF g
  <1>8. /\ v \in Worlds /\ v.gps = g /\ v.module = t.module /\ v.line = t.line
        /\ v.pending = cmd /\ v.strays = t.strays
    BY <1>3, <1>6, <1>7 DEF Worlds
  <1>9. /\ v.gps.state = "WAIT" /\ v.gps.ackState = ack /\ v.gps.timeoutState = timeout
        /\ v.gps.version = w.gps.version /\ v.gps.counter = w.gps.counter
    BY <1>2, <1>3, <1>6, <1>8 DEF Heard
  <1>10. v.module = u.module /\ v.line = u.line /\ v.strays = w.strays
    BY <1>2, <1>3, <1>8 DEF Heard
  <1> QED BY <1>2, <1>8, <1>9, <1>10 DEF Heard

(* A command of the set-up keeps the course, if all that comes before the  *)
(* state after it is done but for a few and the command itself.            *)
LEMMA SendFollows ==
  ASSUME NEW w \in Worlds, config \in Configs, w.gps.state \in Setting,
         \A k \in 1..Len(w.line) : Truthful(w, w.line[k]),
         NEW cmd \in Cmds, cmd.name # "version", NEW ack, NEW timeout,
         Reached(w, ack, w.module.done \cup {cmd}),
         \/ timeout = "ERROR"
         \/ timeout = ack /\ ack # "RECEIVE" /\ Reached(w, ack, w.module.done),
         NEW v \in Send(w, cmd, ack, timeout)
  PROVE  Follows(w, v)
PROOF
  <1>1. ack \in DriverStates /\ timeout \in DriverStates
    BY DEF Reached, Setting, DriverStates
  <1>2. /\ v \in Worlds /\ v.gps.state = "WAIT"
        /\ v.gps.ackState = ack /\ v.gps.timeoutState = timeout
        /\ v.gps.version = w.gps.version /\ v.gps.counter = w.gps.counter
        /\ v.module.kind = w.module.kind /\ w.module.done \subseteq v.module.done
        /\ v.pending = cmd /\ v.strays = w.strays
    BY <1>1, SendFacts
  <1>3. \A k \in 1..Len(v.line) :
          \/ \E i \in 1..Len(w.line) : v.line[k] = w.line[i]
          \/ /\ v.line[k] \in Frames /\ v.line[k].to = cmd
             /\ v.line[k].type = "version" <=> cmd.name = "version"
             /\ v.line[k].type \in {"ack", "value"} => cmd \in v.module.done
    BY <1>1, SendFacts
  <1>4. ~AsksVersion(v)
    <2>1. "version" \in Names BY DEF Names
    <2> QED BY <1>2, <2>1, PlainFacts DEF AsksVersion
  <1>5. \A frame : Truthful(w, frame) => Truthful(v, frame)
    BY <1>2, <1>4 DEF Truthful
  <1>6. w.strays \in Nat BY WorldFields
  <1>7. Reached(v, ack, v.module.done \cup {v.pending})
    <2>1. w.module.done \cup {cmd} \subseteq v.module.done \cup {v.pending} BY <1>2
    <2> QED BY <1>2, <1>6, <2>1, ReachedKept
  <1>8. Reached(w, ack, w.module.done) => Reached(v, ack, v.module.done)
    BY <1>2, <1>6, ReachedKept
  <1>9. OnCourse(v)
    <2>1. v.gps.state \notin Setting /\ v.gps.state # "RECEIVE" BY <1>2 DEF Setting
    <2> QED BY <1>2, <1>4, <1>7, <1>8, <2>1 DEF OnCourse
  <1>10. ASSUME NEW k \in 1..Len(v.line) PROVE Truthful(v, v.line[k])
    <2>1. CASE \E i \in 1..Len(w.line) : v.line[k] = w.line[i] BY <1>5, <2>1
    <2>2. CASE /\ v.line[k] \in Frames /\ v.line[k].to = cmd
               /\ v.line[k].type = "version" <=> cmd.name = "version"
               /\ v.line[k].type \in {"ack", "value"} => cmd \in v.module.done
      BY <1>2, <1>4, <2>2 DEF Truthful
    <2> QED BY <1>3, <2>1, <2>2
  <1> QED BY <1>2, <1>5, <1>9, <1>10 DEF Follows, WorldInv

(* A state that needs no command keeps the course.                         *)
LEMMA SetStateFollows ==
  ASSUME NEW w, WorldInv(w), w.gps.state \in Setting, NEW state, state # "RECEIVE",
         Reached(w, state, w.module.done)
  PROVE  Follows(w, SetState(w, state))
PROOF
  <1> DEFINE v == SetState(w, state)
  <1>0. w \in Worlds /\ state \in DriverStates /\ state \in Setting
    BY DEF WorldInv, Reached, Setting, DriverStates
  <1>1. /\ v \in Worlds /\ v.gps.state = state
        /\ v.gps.version = w.gps.version /\ v.gps.counter = w.gps.counter
        /\ v.module = w.module /\ v.line = w.line
        /\ v.pending = w.pending /\ v.strays = w.strays
    BY <1>0, SetStateFacts
  <1> HIDE DEF v
  <1>2. v.gps.state # "WAIT" BY <1>0, <1>1 DEF Setting
  <1>3. \A frame : Truthful(w, frame) => Truthful(v, frame)
    BY <1>0, <1>1, <1>2 DEF Truthful, AsksVersion, Setting
  <1>4. Reached(v, state, v.module.done)
    <2>1. w.strays \in Nat BY <1>0, WorldFields
    <2> QED BY <1>0, <1>1, <2>1, ReachedKept
  <1>5. OnCourse(v) BY <1>1, <1>2, <1>4 DEF OnCourse, AsksVersion
  <1> QED BY <1>1, <1>3, <1>5 DEF Follows, WorldInv, v

-----------------------------------------------------------------------------
(***************************************************************************)
(* What a driver's member may become without a word to the module.         *)
(***************************************************************************)
(* Following is transitive.                                                *)
LEMMA FollowsTrans ==
  ASSUME NEW w, NEW u, NEW v, Follows(w, u), Follows(u, v)
  PROVE  Follows(w, v)
PROOF BY DEF Follows

(* A world that is alike and has the same line follows.                    *)
LEMMA SameLineFollows ==
  ASSUME NEW w, WorldInv(w), NEW v, Alike(w, v), v.line = w.line
  PROVE  Follows(w, v)
PROOF BY AlikeFollows DEF WorldInv

(* Another driver that is alike.                                           *)
LEMMA GpsFollows ==
  ASSUME NEW w, WorldInv(w), NEW g \in Drivers,
         g.state = w.gps.state, g.ackState = w.gps.ackState,
         g.timeoutState = w.gps.timeoutState, g.version = w.gps.version,
         g.counter = w.gps.counter, NEW v, v = [w EXCEPT !.gps = g]
  PROVE  Follows(w, v)
PROOF
  <1>1. w \in Worlds BY DEF WorldInv
  <1>2. /\ v \in Worlds /\ v.gps = g /\ v.module = w.module /\ v.line = w.line
        /\ v.pending = w.pending /\ v.strays = w.strays
    BY <1>1, NewGps
  <1>3. Alike(w, v) BY <1>2 DEF Alike
  <1> QED BY <1>2, <1>3, SameLineFollows

(* A countdown, a baud rate, a flag or the parser's memory.                *)
LEMMA MemberFollows ==
  ASSUME NEW w, WorldInv(w), NEW n \in Nat, NEW baud \in Rates
  PROVE  /\ Follows(w, [w EXCEPT !.gps.left = n])
         /\ Follows(w, [w EXCEPT !.gps.baud = baud])
         /\ Follows(w, [w EXCEPT !.gps.written = n])
         /\ Follows(w, [w EXCEPT !.gps.present = TRUE])
         /\ Follows(w, [w EXCEPT !.gps.updated = TRUE])
         /\ Follows(w, [w EXCEPT !.gps.deaf = TRUE])
PROOF
  <1> DEFINE Like(g) ==
               /\ g \in Drivers /\ g.state = w.gps.state /\ g.ackState = w.gps.ackState
               /\ g.timeoutState = w.gps.timeoutState /\ g.version = w.gps.version
               /\ g.counter = w.gps.counter
  <1>0. w \in Worlds /\ w.gps \in Drivers BY WorldFields DEF WorldInv
  <1>1. ASSUME NEW g, Like(g), NEW v, v = [w EXCEPT !.gps = g] PROVE Follows(w, v)
    BY <1>1, GpsFollows
  <1>2. Follows(w, [w EXCEPT !.gps.left = n])
    <2> DEFINE g == [w.gps EXCEPT !.left = n]
    <2>1. Like(g) BY <1>0 DEF Drivers
    <2>2. [w EXCEPT !.gps.left = n] = [w EXCEPT !.gps = g] BY <1>0 DEF Worlds
    <2> HIDE DEF g, Like
    <2> QED BY <1>1, <2>1, <2>2
  <1>3. Follows(w, [w EXCEPT !.gps.baud = baud])
    <2> DEFINE g == [w.gps EXCEPT !.baud = baud]
    <2>1. Like(g) BY <1>0 DEF Drivers
    <2>2. [w EXCEPT !.gps.baud = baud] = [w EXCEPT !.gps = g] BY <1>0 DEF Worlds
    <2> HIDE DEF g, Like
    <2> QED BY <1>1, <2>1, <2>2
  <1>4. Follows(w, [w EXCEPT !.gps.written = n])
    <2> DEFINE g == [w.gps EXCEPT !.written = n]
    <2>1. Like(g) BY <1>0 DEF Drivers
    <2>2. [w EXCEPT !.gps.written = n] = [w EXCEPT !.gps = g] BY <1>0 DEF Worlds
    <2> HIDE DEF g, Like
    <2> QED BY <1>1, <2>1, <2>2
  <1>5. Follows(w, [w EXCEPT !.gps.present = TRUE])
    <2> DEFINE g == [w.gps EXCEPT !.present = TRUE]
    <2>1. Like(g) BY <1>0 DEF Drivers
    <2>2. [w EXCEPT !.gps.present = TRUE] = [w EXCEPT !.gps = g] BY <1>0 DEF Worlds
    <2> HIDE DEF g, Like
    <2> QED BY <1>1, <2>1, <2>2
  <1>6. Follows(w, [w EXCEPT !.gps.updated = TRUE])
    <2> DEFINE g == [w.gps EXCEPT !.updated = TRUE]
    <2>1. Like(g) BY <1>0 DEF Drivers
    <2>2. [w EXCEPT !.gps.updated = TRUE] = [w EXCEPT !.gps = g] BY <1>0 DEF Worlds
    <2> HIDE DEF g, Like
    <2> QED BY <1>1, <2>1, <2>2
  <1>7. Follows(w, [w EXCEPT !.gps.deaf = TRUE])
    <2> DEFINE g == [w.gps EXCEPT !.deaf = TRUE]
    <2>1. Like(g) BY <1>0 DEF Drivers
    <2>2. [w EXCEPT !.gps.deaf = TRUE] = [w EXCEPT !.gps = g] BY <1>0 DEF Worlds
    <2> HIDE DEF g, Like
    <2> QED BY <1>1, <2>1, <2>2
  <1> QED BY <1>2, <1>3, <1>4, <1>5, <1>6, <1>7

(* A fault that is spent changes nothing else.                             *)
LEMMA FaultFollows ==
  ASSUME NEW w, WorldInv(w)
  PROVE  Follows(w, [w EXCEPT !.faults = @ - 1])
PROOF
  <1> DEFINE v == [w EXCEPT !.faults = @ - 1]
  <1>1. w \in Worlds BY DEF WorldInv
  <1>2. /\ v \in Worlds /\ v.gps = w.gps /\ v.module = w.module /\ v.line = w.line
        /\ v.pending = w.pending /\ v.strays = w.strays
    BY <1>1, NewFaults
  <1> HIDE DEF v
  <1>3. Alike(w, v) BY <1>2 DEF Alike
  <1> QED BY <1>2, <1>3, SameLineFollows DEF v

(* Another counter.                                                        *)
LEMMA NewCounter ==
  ASSUME NEW w \in Worlds, NEW n \in Nat
  PROVE  LET v == [w EXCEPT !.gps.counter = n]
         IN /\ v \in Worlds /\ v.gps.counter = n
            /\ v.gps.state = w.gps.state /\ v.gps.version = w.gps.version
            /\ v.module = w.module /\ v.line = w.line
            /\ v.pending = w.pending /\ v.strays = w.strays
PROOF
  <1> DEFINE g == [w.gps EXCEPT !.counter = n]
  <1>1. w.gps \in Drivers BY WorldFields
  <1>2. /\ g \in Drivers /\ g.counter = n /\ g.state = w.gps.state
        /\ g.version = w.gps.version
    BY <1>1 DEF Drivers
  <1>3. [w EXCEPT !.gps.counter = n] = [w EXCEPT !.gps = g] BY <1>1 DEF Worlds
  <1> DEFINE v == [w EXCEPT !.gps = g]
  <1> HIDE DEF g
  <1>4. /\ v \in Worlds /\ v.gps = g /\ v.module = w.module /\ v.line = w.line
        /\ v.pending = w.pending /\ v.strays = w.strays
    BY <1>2, NewGps
  <1> HIDE DEF v
  <1> QED BY <1>2, <1>3, <1>4 DEF v

-----------------------------------------------------------------------------
(***************************************************************************)
(* The states of handle(), one by one.                                     *)
(***************************************************************************)
(* One command for each item of a list.                                    *)
LEMMA ItemsFollow ==
  ASSUME NEW w, WorldInv(w), config \in Configs,
         NEW name \in {"nmea", "ubx"}, NEW items \in {NmeaOff, PvtOn, LegacyOn},
         NEW next \in Setting, w.gps.state \in Setting \ {"RECEIVE"},
         w.gps.counter < Len(items), NEW Base,
         \A u \in Worlds : u.gps.version = w.gps.version =>
           /\ Told(u.gps, w.gps.state) = Base \cup First(name, items, u.gps.counter)
           /\ u.gps.counter < Len(items) => Counts(u.gps, w.gps.state)
           /\ u.gps.counter = 0 => /\ Told(u.gps, next) = Base \cup First(name, items, Len(items))
                                   /\ Counts(u.gps, next),
         NEW v \in SendItems(w, name, items, next)
  PROVE  Follows(w, v)
PROOF
  <1> DEFINE n == w.gps.counter + 1
             cmd == Cmd(name, items[n])
             done == w.module.done
             state == w.gps.state
  <1>0. w \in Worlds /\ w.gps.counter \in Nat /\ w.strays \in Nat /\ Len(items) \in Nat
    BY WorldFields, DriverFields, ListFacts DEF WorldInv
  <1>1. n \in Nat /\ n \in 1..Len(items) BY <1>0
  <1>2. cmd \in Cmds /\ cmd.name # "version"
    <2>1. name \in Names BY DEF Names
    <2>2. items[n] \in Items BY <1>1, ListFacts
    <2> QED BY <2>1, <2>2, CmdFacts
  <1>3. Few((Base \cup First(name, items, w.gps.counter)) \ done, w.strays)
    BY <1>0 DEF WorldInv, OnCourse, Reached
  <1>4. Few((Base \cup First(name, items, n)) \ (done \cup {cmd}), w.strays)
    <2>1. First(name, items, n) \subseteq First(name, items, w.gps.counter) \cup {cmd}
      BY <1>0, FirstFacts
    <2>2. (Base \cup First(name, items, n)) \ (done \cup {cmd})
            \subseteq (Base \cup First(name, items, w.gps.counter)) \ done
      BY <2>1
    <2> QED BY <1>0, <1>3, <2>2, FewSubset
  <1>5. w.gps.version = w.module.kind BY DEF WorldInv, OnCourse, Reached
  <1>6. ASSUME NEW u \in Worlds, u.gps.state = w.gps.state, u.gps.version = w.gps.version,
               u.module = w.module, u.line = w.line, u.pending = w.pending,
               u.strays = w.strays, NEW ack, Reached(u, ack, done \cup {cmd}),
               v \in Send(u, cmd, ack, "ERROR")
        PROVE  Follows(w, v)
    <2>1. \A frame : Truthful(w, frame) <=> Truthful(u, frame)
      BY <1>6 DEF Truthful, AsksVersion
    <2>2. \A k \in 1..Len(u.line) : Truthful(u, u.line[k]) BY <1>6, <2>1 DEF WorldInv
    <2>3. Follows(u, v)
      <3> HIDE DEF cmd
      <3> QED BY <1>2, <1>6, <2>2, SendFollows
    <2> QED BY <2>1, <2>3 DEF Follows
  <1>7. CASE n < Len(items)
    <2> DEFINE u == [w EXCEPT !.gps.counter = n]
    <2>1. /\ u \in Worlds /\ u.gps.counter = n
          /\ u.gps.state = w.gps.state /\ u.gps.version = w.gps.version
          /\ u.module = w.module /\ u.line = w.line
          /\ u.pending = w.pending /\ u.strays = w.strays
      BY <1>0, <1>1, NewCounter
    <2>2. v \in Send(u, cmd, state, "ERROR") BY <1>7 DEF SendItems
    <2> HIDE DEF u, n, cmd, done
    <2>3. Reached(u, state, done \cup {cmd})
      BY <1>4, <1>5, <1>7, <2>1 DEF Reached
    <2> QED BY <1>6, <2>1, <2>2, <2>3
  <1>8. CASE ~(n < Len(items))
    <2> DEFINE u == [w EXCEPT !.gps.counter = 0]
    <2>1. /\ u \in Worlds /\ u.gps.counter = 0
          /\ u.gps.state = w.gps.state /\ u.gps.version = w.gps.version
          /\ u.module = w.module /\ u.line = w.line
          /\ u.pending = w.pending /\ u.strays = w.strays
      BY <1>0, NewCounter
    <2>2. v \in Send(u, cmd, next, "ERROR") BY <1>8 DEF SendItems
    <2>3. n = Len(items) BY <1>0, <1>1, <1>8
    <2> HIDE DEF u, n, cmd, done
    <2>4. Reached(u, next, done \cup {cmd})
      BY <1>4, <1>5, <2>1, <2>3 DEF Reached
    <2> QED BY <1>6, <2>1, <2>2, <2>4
  <1> QED BY <1>7, <1>8

(* A single command between two states of the set-up.                      *)
LEMMA CommandFollows ==
  ASSUME NEW w, WorldInv(w), config \in Configs, w.gps.state \in Setting,
         NEW cmd \in Cmds, cmd.name # "version", NEW ack \in Setting,
         Told(w.gps, ack) \subseteq Told(w.gps, w.gps.state) \cup {cmd},
         Counts(w.gps, ack), NEW v \in Send(w, cmd, ack, "ERROR")
  PROVE  Follows(w, v)
PROOF
  <1>1. w \in Worlds /\ w.strays \in Nat BY WorldFields DEF WorldInv
  <1>2. /\ w.gps.version = w.module.kind
        /\ Few(Told(w.gps, w.gps.state) \ w.module.done, w.strays)
    BY DEF WorldInv, OnCourse, Reached
  <1>3. Told(w.gps, ack) \ (w.module.done \cup {cmd})
          \subseteq Told(w.gps, w.gps.state) \ w.module.done
    OBVIOUS
  <1>4. Reached(w, ack, w.module.done \cup {cmd})
    BY <1>1, <1>2, <1>3, FewSubset DEF Reached
  <1> QED BY <1>1, <1>4, SendFollows DEF WorldInv

(* The same where an answer and silence lead to the same state, for which  *)
(* the command is not needed.                                              *)
LEMMA TrialFollows ==
  ASSUME NEW w, WorldInv(w), config \in Configs, w.gps.state \in Setting,
         NEW cmd \in Cmds, cmd.name # "version", NEW ack \in Setting \ {"RECEIVE"},
         Told(w.gps, ack) \subseteq Told(w.gps, w.gps.state),
         Counts(w.gps, ack), NEW v \in Send(w, cmd, ack, ack)
  PROVE  Follows(w, v)
PROOF
  <1>1. w \in Worlds /\ w.strays \in Nat BY WorldFields DEF WorldInv
  <1>2. /\ w.gps.version = w.module.kind
        /\ Few(Told(w.gps, w.gps.state) \ w.module.done, w.strays)
    BY DEF WorldInv, OnCourse, Reached
  <1>3. /\ Told(w.gps, ack) \ w.module.done \subseteq Told(w.gps, w.gps.state) \ w.module.done
        /\ Told(w.gps, ack) \ (w.module.done \cup {cmd})
             \subseteq Told(w.gps, w.gps.state) \ w.module.done
    OBVIOUS
  <1>4. Reached(w, ack, w.module.done) /\ Reached(w, ack, w.module.done \cup {cmd})
    BY <1>1, <1>2, <1>3, FewSubset DEF Reached
  <1> QED BY <1>1, <1>4, SendFollows DEF WorldInv

(* A state that is passed by.                                              *)
LEMMA PassFollows ==
  ASSUME NEW w, WorldInv(w), w.gps.state \in Setting, NEW state \in Setting \ {"RECEIVE"},
         Told(w.gps, state) \subseteq Told(w.gps, w.gps.state), Counts(w.gps, state)
  PROVE  Follows(w, SetState(w, state))
PROOF
  <1>1. w \in Worlds /\ w.strays \in Nat BY WorldFields DEF WorldInv
  <1>2. /\ w.gps.version = w.module.kind
        /\ Few(Told(w.gps, w.gps.state) \ w.module.done, w.strays)
    BY DEF WorldInv, OnCourse, Reached
  <1>3. Told(w.gps, state) \ w.module.done \subseteq Told(w.gps, w.gps.state) \ w.module.done
    OBVIOUS
  <1>4. Reached(w, state, w.module.done) BY <1>1, <1>2, <1>3, FewSubset DEF Reached
  <1> QED BY <1>4, SetStateFollows

(* The states of the set-up, and what each does.                           *)
SettingUp == Setting \ {"RECEIVE"}

Step(w) ==
  CASE w.gps.state = "CONFIGURE_BAUD" -> ConfigureBaud(w)
    [] w.gps.state = "DISABLE_NMEA" -> DisableNmea(w)
    [] w.gps.state = "ENABLE_UBX" -> EnableUbx(w)
    [] w.gps.state = "ENABLE_NAV5" -> EnableNav5(w)
    [] w.gps.state = "ENABLE_SBAS" -> EnableSbas(w)
    [] w.gps.state = "DETECT_GPS_L5" -> DetectGpsL5(w)
    [] w.gps.state = "CONFIGURE_GNSS" -> ConfigureGnss(w)
    [] w.gps.state = "CONFIGURE_NAV_RATE" -> ConfigureRate(w)

(* Each of them, with the commands it sends.                               *)
LEMMA SetUpFollows ==
  ASSUME NEW w, WorldInv(w), config \in Configs, w.gps.state \in SettingUp, NEW v \in Step(w)
  PROVE  Follows(w, v)
PROOF
  <1> DEFINE g == w.gps
             state == g.state
  <1>0. w \in Worlds /\ g \in Drivers /\ state \in Setting /\ Counts(g, state)
    BY WorldFields DEF WorldInv, SettingUp, OnCourse, Reached
  <1>1. \A name \in {"baud", "nav5", "sbas", "l5", "gnss", "rate"} :
          Plain(name) \in Cmds /\ Plain(name).name # "version"
    BY PlainFacts DEF Names
  <1>2. \A name \in {"nmea", "ubx"} :
          Cmd(name, "all") \in Cmds /\ Cmd(name, "all").name # "version"
    BY CmdFacts DEF Names, Items
  <1>3. /\ First("nmea", NmeaOff, 0) = {}
        /\ \A items : First("ubx", items, 0) = {}
    BY FirstFacts
  <1>4. LegacyMessages(g) \in {PvtOn, LegacyOn} BY DEF LegacyMessages
  <1>5. Len(NmeaOff) \in Nat \ {0} /\ Len(LegacyMessages(g)) \in Nat \ {0}
    <2>1. NmeaOff \in {NmeaOff, PvtOn, LegacyOn} /\ LegacyMessages(g) \in {NmeaOff, PvtOn, LegacyOn}
      BY <1>4
    <2> QED BY <2>1, ListFacts
  <1>6. CASE state = "CONFIGURE_BAUD"
    <2>1. g.counter = 0 BY <1>0, <1>6 DEF Counts
    <2>2. Told(g, "DISABLE_NMEA") = {} /\ Counts(g, "DISABLE_NMEA")
      BY <1>3, <1>5, <2>1 DEF Told, Counts
    <2>3. "DISABLE_NMEA" \in Setting \ {"RECEIVE"} BY DEF Setting
    <2>4. v \in ConfigureBaud(w) BY <1>6 DEF Step
    <2>5. CASE ~config.autoBaud
      <3>1. v = SetState(w, "DISABLE_NMEA") BY <2>4, <2>5 DEF ConfigureBaud
      <3> QED BY <1>0, <2>2, <2>3, <3>1, PassFollows
    <2>6. CASE config.autoBaud
      <3>1. PICK u \in Send(w, Plain("baud"), "DISABLE_NMEA", "DISABLE_NMEA") :
              v = [u EXCEPT !.gps.baud = config.target]
        BY <2>4, <2>6 DEF ConfigureBaud
      <3>2. Follows(w, u) BY <1>0, <1>1, <2>2, <2>3, TrialFollows
      <3>3. config.target \in Rates BY DEF Configs, Rates
      <3>4. Follows(u, v)
        <4>1. WorldInv(u) /\ 0 \in Nat BY <3>2 DEF Follows
        <4> QED BY <3>1, <3>3, <4>1, MemberFollows
      <3> QED BY <3>2, <3>4, FollowsTrans
    <2> QED BY <2>5, <2>6
  <1>7. CASE state = "DISABLE_NMEA"
    <2>1. v \in DisableNmea(w) BY <1>7 DEF Step
    <2>2. CASE IsLegacyProto(g)
      <3>1. v \in SendItems(w, "nmea", NmeaOff, "ENABLE_UBX") BY <2>1, <2>2 DEF DisableNmea
      <3>2. g.counter < Len(NmeaOff) BY <1>0, <1>7, <2>2 DEF Counts
      <3>3. ASSUME NEW u \in Worlds, u.gps.version = g.version
            PROVE  /\ Told(u.gps, state) = {} \cup First("nmea", NmeaOff, u.gps.counter)
                   /\ u.gps.counter < Len(NmeaOff) => Counts(u.gps, state)
                   /\ u.gps.counter = 0 =>
                        /\ Told(u.gps, "ENABLE_UBX") = {} \cup First("nmea", NmeaOff, Len(NmeaOff))
                        /\ Counts(u.gps, "ENABLE_UBX")
        <4>1. IsLegacyProto(u.gps) /\ LegacyMessages(u.gps) = LegacyMessages(g)
          BY <2>2, <3>3 DEF IsLegacyProto, LegacyMessages
        <4>2. NmeaTold(u.gps) = First("nmea", NmeaOff, Len(NmeaOff)) BY <4>1 DEF NmeaTold
        <4>3. Told(u.gps, state) = First("nmea", NmeaOff, u.gps.counter)
          BY <1>7, <4>1 DEF Told
        <4>4. u.gps.counter = 0 =>
                Told(u.gps, "ENABLE_UBX") = First("nmea", NmeaOff, Len(NmeaOff))
          BY <1>3, <4>1, <4>2 DEF Told
        <4>5. /\ u.gps.counter < Len(NmeaOff) => Counts(u.gps, state)
              /\ u.gps.counter = 0 => Counts(u.gps, "ENABLE_UBX")
          BY <1>5, <1>7, <4>1 DEF Counts
        <4> QED BY <4>3, <4>4, <4>5
      <3>4. "ENABLE_UBX" \in Setting /\ state \in Setting \ {"RECEIVE"} BY <1>7 DEF Setting
      <3> QED BY <3>1, <3>2, <3>3, <3>4, ItemsFollow
    <2>3. CASE ~IsLegacyProto(g)
      <3>1. v \in Send(w, Cmd("nmea", "all"), "ENABLE_UBX", "ERROR")
        BY <2>1, <2>3 DEF DisableNmea
      <3>2. Told(g, "ENABLE_UBX") = {Cmd("nmea", "all")} /\ Counts(g, "ENABLE_UBX")
        BY <2>3 DEF Told, NmeaTold, Counts
      <3>3. "ENABLE_UBX" \in Setting BY DEF Setting
      <3> QED BY <1>0, <1>2, <3>1, <3>2, <3>3, CommandFollows
    <2> QED BY <2>2, <2>3
  <1>8. CASE state = "ENABLE_UBX"
    <2>1. v \in EnableUbx(w) BY <1>8 DEF Step
    <2>2. CASE IsLegacyProto(g)
      <3> DEFINE items == LegacyMessages(g)
      <3>1. PICK u \in SendItems(w, "ubx", items, "ENABLE_NAV5") :
              v = u \/ v = [u EXCEPT !.gps.left = 10 * Timeout]
        BY <2>1, <2>2 DEF EnableUbx
      <3>2. g.counter < Len(items) BY <1>0, <1>8, <2>2 DEF Counts
      <3>3. ASSUME NEW x \in Worlds, x.gps.version = g.version
            PROVE  /\ Told(x.gps, state) = NmeaTold(g) \cup First("ubx", items, x.gps.counter)
                   /\ x.gps.counter < Len(items) => Counts(x.gps, state)
                   /\ x.gps.counter = 0 =>
                        /\ Told(x.gps, "ENABLE_NAV5") = NmeaTold(g) \cup First("ubx", items, Len(items))
                        /\ Counts(x.gps, "ENABLE_NAV5")
        <4>1. IsLegacyProto(x.gps) /\ LegacyMessages(x.gps) = items
          BY <2>2, <3>3 DEF IsLegacyProto, LegacyMessages
        <4>2. NmeaTold(x.gps) = NmeaTold(g) BY <2>2, <4>1 DEF NmeaTold
        <4>3. UbxTold(x.gps) = First("ubx", items, Len(items)) BY <4>1 DEF UbxTold
        <4> HIDE DEF items
        <4>4. Told(x.gps, state) = NmeaTold(g) \cup First("ubx", items, x.gps.counter)
          BY <1>8, <4>1, <4>2 DEF Told
        <4>5. Told(x.gps, "ENABLE_NAV5") = NmeaTold(g) \cup First("ubx", items, Len(items))
          BY <4>2, <4>3 DEF Told
        <4>6. /\ x.gps.counter < Len(items) => Counts(x.gps, state)
              /\ Counts(x.gps, "ENABLE_NAV5")
          BY <1>8, <4>1 DEF Counts
        <4> QED BY <4>4, <4>5, <4>6
      <3>4. "ENABLE_NAV5" \in Setting /\ state \in Setting \ {"RECEIVE"} BY <1>8 DEF Setting
      <3>5. items \in {NmeaOff, PvtOn, LegacyOn} BY <1>4
      <3> HIDE DEF items
      <3>6. Follows(w, u) BY <3>1, <3>2, <3>3, <3>4, <3>5, ItemsFollow
      <3>7. Follows(u, [u EXCEPT !.gps.left = 10 * Timeout])
        <4>1. WorldInv(u) BY <3>6 DEF Follows
        <4>2. 10 * Timeout \in Nat BY Given
        <4>3. \E baud : baud \in Rates
          <5>1. g.baud \in Rates BY <1>0, DriverFields
          <5> QED BY <5>1
        <4> QED BY <4>1, <4>2, <4>3, MemberFollows
      <3> QED BY <3>1, <3>6, <3>7, FollowsTrans
    <2>3. CASE ~IsLegacyProto(g)
      <3>1. v \in Send(w, Cmd("ubx", "all"), "ENABLE_NAV5", "ERROR")
        BY <2>1, <2>3 DEF EnableUbx
      <3>2. Told(g, "ENABLE_NAV5") \subseteq Told(g, state) \cup {Cmd("ubx", "all")}
        BY <1>8, <2>3 DEF Told, UbxTold
      <3>3. "ENABLE_NAV5" \in Setting /\ Counts(g, "ENABLE_NAV5") BY DEF Setting, Counts
      <3> QED BY <1>0, <1>2, <3>1, <3>2, <3>3, CommandFollows
    <2> QED BY <2>2, <2>3
  <1>9. CASE state = "ENABLE_NAV5"
    <2>1. v \in Send(w, Plain("nav5"), "ENABLE_SBAS", "ERROR") BY <1>9 DEF Step, EnableNav5
    <2>2. Told(g, "ENABLE_SBAS") \subseteq Told(g, state) \cup {Plain("nav5")}
      BY <1>9 DEF Told
    <2>3. "ENABLE_SBAS" \in Setting /\ Counts(g, "ENABLE_SBAS") BY DEF Setting, Counts
    <2> QED BY <1>0, <1>1, <2>1, <2>2, <2>3, CommandFollows
  <1>10. CASE state = "ENABLE_SBAS"
    <2>1. v \in EnableSbas(w) BY <1>10 DEF Step
    <2>2. "DETECT_GPS_L5" \in Setting \ {"RECEIVE"} /\ Counts(g, "DETECT_GPS_L5")
      BY DEF Setting, Counts
    <2>3. CASE config.sbas /\ g.version # "M6"
      <3>1. v \in Send(w, Plain("sbas"), "DETECT_GPS_L5", "ERROR")
        BY <2>1, <2>3 DEF EnableSbas
      <3>2. Told(g, "DETECT_GPS_L5") \subseteq Told(g, state) \cup {Plain("sbas")}
        BY <1>10 DEF Told, SbasTold
      <3> QED BY <1>0, <1>1, <2>2, <3>1, <3>2, CommandFollows
    <2>4. CASE ~(config.sbas /\ g.version # "M6")
      <3>1. v = SetState(w, "DETECT_GPS_L5") BY <2>1, <2>4 DEF EnableSbas
      <3>2. Told(g, "DETECT_GPS_L5") \subseteq Told(g, state)
        BY <1>10, <2>4 DEF Told, SbasTold
      <3> QED BY <1>0, <2>2, <3>1, <3>2, PassFollows
    <2> QED BY <2>3, <2>4
  <1>11. CASE state = "DETECT_GPS_L5"
    <2>1. v \in DetectGpsL5(w) BY <1>11 DEF Step
    <2>2. "CONFIGURE_GNSS" \in Setting \ {"RECEIVE"} /\ Counts(g, "CONFIGURE_GNSS")
      BY DEF Setting, Counts
    <2>3. Told(g, "CONFIGURE_GNSS") \subseteq Told(g, state) BY <1>11 DEF Told
    <2>4. CASE g.version = "M6"
      <3>1. v = SetState(w, "CONFIGURE_GNSS") BY <2>1, <2>4 DEF DetectGpsL5
      <3> QED BY <1>0, <2>2, <2>3, <3>1, PassFollows
    <2>5. CASE g.version # "M6"
      <3>1. v \in Send(w, Plain("l5"), "CONFIGURE_GNSS", "CONFIGURE_GNSS")
        BY <2>1, <2>5 DEF DetectGpsL5
      <3> QED BY <1>0, <1>1, <2>2, <2>3, <3>1, TrialFollows
    <2> QED BY <2>4, <2>5
  <1>12. CASE state = "CONFIGURE_GNSS"
    <2>1. v \in ConfigureGnss(w) BY <1>12 DEF Step
    <2>2. "CONFIGURE_NAV_RATE" \in Setting \ {"RECEIVE"} /\ Counts(g, "CONFIGURE_NAV_RATE")
      BY DEF Setting, Counts
    <2>3. CASE g.version = "M6"
      <3>1. v = SetState(w, "CONFIGURE_NAV_RATE") BY <2>1, <2>3 DEF ConfigureGnss
      <3>2. Told(g, "CONFIGURE_NAV_RATE") \subseteq Told(g, state)
        BY <1>12, <2>3 DEF Told, GnssTold
      <3> QED BY <1>0, <2>2, <3>1, <3>2, PassFollows
    <2>4. CASE g.version # "M6"
      <3>1. v \in Send(w, Plain("gnss"), "CONFIGURE_NAV_RATE", "ERROR")
        BY <2>1, <2>4 DEF ConfigureGnss
      <3>2. Told(g, "CONFIGURE_NAV_RATE") \subseteq Told(g, state) \cup {Plain("gnss")}
        BY <1>12 DEF Told, GnssTold
      <3> QED BY <1>0, <1>1, <2>2, <3>1, <3>2, CommandFollows
    <2> QED BY <2>3, <2>4
  <1>13. CASE state = "CONFIGURE_NAV_RATE"
    <2>1. v \in Send(w, Plain("rate"), "RECEIVE", "ERROR") BY <1>13 DEF Step, ConfigureRate
    <2>2. Told(g, "RECEIVE") \subseteq Told(g, state) \cup {Plain("rate")}
      BY <1>13 DEF Told
    <2>3. "RECEIVE" \in Setting /\ Counts(g, "RECEIVE") BY DEF Setting, Counts
    <2> QED BY <1>0, <1>1, <2>1, <2>2, <2>3, CommandFollows
  <1> QED BY <1>6, <1>7, <1>8, <1>9, <1>10, <1>11, <1>12, <1>13 DEF SettingUp, Setting

-----------------------------------------------------------------------------
(***************************************************************************)
(* The states that take messages, and those before the set-up.             *)
(***************************************************************************)
(* A world on course with the same line, whose frames are no less true.    *)
LEMMA OnCourseFollows ==
  ASSUME NEW w, WorldInv(w), NEW v \in Worlds, OnCourse(v), v.line = w.line,
         \A frame : Truthful(w, frame) => Truthful(v, frame)
  PROVE  Follows(w, v)
PROOF BY DEF Follows, WorldInv

(* A driver that comes to a state of the set-up that is reached, or to its *)
(* error state.                                                            *)
LEMMA ArrivesFollows ==
  ASSUME NEW w, WorldInv(w), NEW v \in Worlds, v.gps.state \in Setting \cup {"ERROR"},
         v.gps.state \in Setting => Reached(v, v.gps.state, v.module.done),
         v.gps.state = "RECEIVE" => v.gps.ackState = "RECEIVE" /\ v.gps.timeoutState = "ERROR",
         v.module = w.module, v.line = w.line
  PROVE  Follows(w, v)
PROOF
  <1>1. v.gps.state \notin {"WAIT", "DETECT_BAUD", "GET_VERSION"} BY DEF Setting
  <1>2. \A frame : Truthful(w, frame) => Truthful(v, frame)
    BY <1>1 DEF Truthful, AsksVersion
  <1>3. OnCourse(v) BY <1>1 DEF OnCourse, AsksVersion
  <1> QED BY <1>2, <1>3, OnCourseFollows

(* The same through send()'s two ways on: the state that is next has been  *)
(* reached, unless the answer was to another command.                      *)
LEMMA AnswerReaches ==
  ASSUME NEW w, WorldInv(w), w.gps.state = "WAIT", ~AsksVersion(w),
         NEW v \in Worlds, v.module = w.module, v.gps.version = w.gps.version,
         v.gps.counter \in {w.gps.counter, 0},
         \/ v.strays = w.strays /\ w.pending \in w.module.done
         \/ v.strays = w.strays + 1
  PROVE  Reached(v, w.gps.ackState, v.module.done)
PROOF
  <1> DEFINE s == w.gps.ackState
             done == w.module.done
  <1>0. /\ w \in Worlds /\ w.strays \in Nat /\ w.gps \in Drivers /\ v.gps \in Drivers
        /\ Reached(w, s, done \cup {w.pending})
    BY WorldFields DEF WorldInv, OnCourse
  <1>1. Told(v.gps, s) \subseteq Told(w.gps, s) /\ Counts(v.gps, s)
    <2>1. CASE v.gps.counter = w.gps.counter
      <3>1. Counts(w.gps, s) BY <1>0 DEF Reached
      <3>2. Told(v.gps, s) = Told(w.gps, s) /\ (Counts(v.gps, s) <=> Counts(w.gps, s))
        BY <2>1, ToldSame
      <3> QED BY <3>1, <3>2
    <2>2. CASE v.gps.counter = 0 BY <1>0, <2>2, ToldAnew
    <2> QED BY <2>1, <2>2
  <1>2. Few(Told(w.gps, s) \ (done \cup {w.pending}), w.strays) BY <1>0 DEF Reached
  <1> HIDE DEF s, done
  <1>3. Few(Told(w.gps, s) \ done, v.strays) /\ v.strays \in Nat
    <2>1. CASE v.strays = w.strays /\ w.pending \in w.module.done
      <3>1. done \cup {w.pending} = done BY <2>1 DEF done
      <3> QED BY <1>0, <1>2, <2>1, <3>1
    <2>2. CASE v.strays = w.strays + 1
      <3>1. Few(Told(w.gps, s) \ done, w.strays + 1) BY <1>0, <1>2, FewMore
      <3> QED BY <1>0, <2>2, <3>1
    <2> QED BY <2>1, <2>2
  <1>4. Few(Told(v.gps, s) \ done, v.strays)
    <2>1. Told(v.gps, s) \ done \subseteq Told(w.gps, s) \ done BY <1>1
    <2> QED BY <1>3, <2>1, FewSubset
  <1> QED BY <1>0, <1>1, <1>4 DEF Reached, s, done

(* A message, or the end of the wait for one.                              *)
LEMMA TakenFollows ==
  ASSUME NEW w, WorldInv(w), w.gps.state \in {"WAIT", "RECEIVE"},
         NEW msg, msg = NoFrame \/ Truthful(w, msg), NEW v, v = Taken(w, msg)
  PROVE  Follows(w, v)
PROOF
  <1> DEFINE g == w.gps
             stray == g.state = "WAIT" /\ msg # NoFrame /\ msg.to # w.pending
             next == v.gps
             Going(s) == next.state = s /\ next.ackState = g.ackState
                         /\ next.timeoutState = g.timeoutState
             Kept == next.version = g.version /\ next.counter = g.counter
             Anew == next.version = w.module.kind /\ next.counter = 0
  <1>0. /\ w \in Worlds /\ g \in Drivers /\ w.module \in Modules /\ w.strays \in Nat
        /\ OnCourse(w)
    BY WorldFields DEF WorldInv
  <1>1. /\ g.state \in DriverStates /\ g.ackState \in DriverStates
        /\ g.timeoutState \in DriverStates /\ g.version \in {"UNKNOWN", "M6", "M8", "M10"}
        /\ w.module.kind \in {"UNKNOWN", "M6", "M8", "M10"}
    BY <1>0, DriverFields, ModuleFields, Given
  <1>2. \/ msg = NoFrame /\ msg.type = "none"
        \/ msg # NoFrame /\ msg.type \in {"ack", "nak", "value", "version"} /\ Truthful(w, msg)
    BY DEF NoFrame, Truthful, Frames
  <1>3. /\ v \in Worlds /\ v.module = w.module /\ v.line = w.line /\ v.pending = w.pending
        /\ v.strays = IF stray THEN w.strays + 1 ELSE w.strays
        /\ msg.type = "ack" => Going(g.ackState) /\ Kept
        /\ msg.type = "nak" => Going(g.timeoutState) /\ Kept
        /\ msg.type = "value" =>
             Going(g.ackState) /\ next.version = g.version /\ next.counter = 0
        /\ msg.type = "version" => Going(g.ackState) /\ Anew
        /\ msg.type = "none" =>
             Kept /\ (Going(g.state) \/ (g.state = "WAIT" /\ Going(g.timeoutState)))
    <2> DEFINE ng ==
          CASE msg.type = "ack" -> [g EXCEPT !.state = g.ackState]
            [] msg.type = "nak" -> [g EXCEPT !.state = g.timeoutState]
            [] msg.type = "value" -> [g EXCEPT !.state = g.ackState, !.counter = 0]
            [] msg.type = "version" ->
                 [g EXCEPT !.state = g.ackState, !.counter = 0,
                           !.version = w.module.kind]
            [] OTHER ->
                 IF g.state = "WAIT" /\ g.left = 0
                 THEN [g EXCEPT !.state = g.timeoutState, !.present = FALSE] ELSE g
               n == IF stray THEN w.strays + 1 ELSE w.strays
    <2>1. v = [w EXCEPT !.gps = ng, !.strays = n] BY DEF Taken
    <2>2. /\ ng \in Drivers /\ ng.ackState = g.ackState /\ ng.timeoutState = g.timeoutState
          /\ msg.type = "ack" =>
               ng.state = g.ackState /\ ng.version = g.version /\ ng.counter = g.counter
          /\ msg.type = "nak" =>
               ng.state = g.timeoutState /\ ng.version = g.version /\ ng.counter = g.counter
          /\ msg.type = "value" =>
               ng.state = g.ackState /\ ng.version = g.version /\ ng.counter = 0
          /\ msg.type = "version" =>
               ng.state = g.ackState /\ ng.version = w.module.kind /\ ng.counter = 0
          /\ msg.type = "none" =>
               /\ ng.version = g.version /\ ng.counter = g.counter
               /\ ng.state = g.state \/ (g.state = "WAIT" /\ ng.state = g.timeoutState)
      <3> HIDE DEF g
      <3>1. CASE msg.type = "ack" BY <1>0, <1>1, <3>1 DEF Drivers
      <3>2. CASE msg.type = "nak" BY <1>0, <1>1, <3>2 DEF Drivers
      <3>3. CASE msg.type = "value" BY <1>0, <1>1, <3>3 DEF Drivers
      <3>4. CASE msg.type = "version" BY <1>0, <1>1, <3>4 DEF Drivers
      <3>5. CASE msg.type = "none" BY <1>0, <1>1, <3>5 DEF Drivers
      <3> QED BY <1>2, <3>1, <3>2, <3>3, <3>4, <3>5
    <2>3. n \in Nat BY <1>0
    <2> HIDE DEF ng, n
    <2>4. /\ v \in Worlds /\ next = ng /\ v.module = w.module /\ v.line = w.line
          /\ v.pending = w.pending /\ v.strays = n
      BY <1>0, <2>1, <2>2, <2>3 DEF Worlds
    <2> QED BY <2>2, <2>4 DEF n
  <1>4. v.strays \in Nat /\ w.strays <= v.strays BY <1>0, <1>3
  <1>5. ASSUME Going("ERROR") PROVE Follows(w, v)
    BY <1>3, <1>5, ArrivesFollows DEF Setting
  <1>6. ASSUME NEW s, s \in {"RECEIVE", "WAIT"}, s = g.state, Going(s), Kept, ~stray
        PROVE  Follows(w, v)
    <2>1. Alike(w, v) BY <1>3, <1>6 DEF Alike
    <2> QED BY <1>3, <2>1, SameLineFollows
  <1> HIDE DEF next, Going
  <1>7. CASE g.state = "RECEIVE"
    <2>1. g.ackState = "RECEIVE" /\ g.timeoutState = "ERROR" /\ Reached(w, "RECEIVE", w.module.done)
      BY <1>0, <1>7 DEF OnCourse, Setting
    <2>2. ~stray BY <1>7
    <2>3. CASE msg.type \in {"ack", "none"} BY <1>3, <1>6, <1>7, <2>1, <2>2, <2>3
    <2>4. CASE msg.type = "nak" BY <1>3, <1>5, <2>1, <2>4
    <2>5. CASE msg.type \in {"value", "version"}
      <3>1. next.version = g.version /\ next.counter = 0 /\ Going("RECEIVE")
        BY <1>3, <2>1, <2>5 DEF Reached
      <3>2. next \in Drivers BY <1>3, WorldFields DEF next
      <3>3. Told(next, "RECEIVE") \subseteq Told(g, "RECEIVE") /\ Counts(next, "RECEIVE")
        BY <1>0, <3>1, <3>2, ToldAnew
      <3>4. Few(Told(next, "RECEIVE") \ w.module.done, w.strays)
        <4>1. Told(next, "RECEIVE") \ w.module.done \subseteq Told(g, "RECEIVE") \ w.module.done
          BY <3>3
        <4>2. Few(Told(g, "RECEIVE") \ w.module.done, w.strays) BY <2>1 DEF Reached
        <4> QED BY <1>0, <4>1, <4>2, FewSubset
      <3>5. v.strays = w.strays BY <1>3, <2>2
      <3>6. Reached(v, "RECEIVE", v.module.done)
        BY <1>3, <2>1, <3>1, <3>3, <3>4, <3>5 DEF Reached, next
      <3>7. v.gps.state = "RECEIVE" /\ v.gps.ackState = "RECEIVE" /\ v.gps.timeoutState = "ERROR"
        BY <2>1, <3>1 DEF Going, next
      <3> QED BY <1>3, <3>6, <3>7, ArrivesFollows DEF Setting
    <2> QED BY <1>2, <2>3, <2>4, <2>5
  <1>8. CASE AsksVersion(w)
    <2>1. g.state = "WAIT" /\ w.pending = Plain("version")
          /\ g.ackState = "CONFIGURE_BAUD" /\ g.timeoutState = "ERROR"
      BY <1>0, <1>8 DEF OnCourse, AsksVersion
    <2>2. msg # NoFrame => msg.type = "version" /\ msg.to = w.pending
      BY <1>2, <1>8, <2>1 DEF Truthful
    <2>3. ~stray BY <2>2
    <2>4. CASE msg.type = "none" BY <1>3, <1>5, <1>6, <2>1, <2>3, <2>4
    <2>5. CASE msg.type = "version"
      <3>1. Going("CONFIGURE_BAUD") /\ Anew BY <1>3, <2>1, <2>5
      <3>2. Told(next, "CONFIGURE_BAUD") = {} /\ Counts(next, "CONFIGURE_BAUD")
        BY <3>1 DEF Told, Counts
      <3>3. Few({}, v.strays)
        <4>1. IsFiniteSet({}) /\ Cardinality({}) = 0 BY FS_EmptySet
        <4> QED BY <1>4, <4>1 DEF Few
      <3>4. Told(next, "CONFIGURE_BAUD") \ v.module.done = {} BY <3>2
      <3>5. "CONFIGURE_BAUD" \in Setting BY DEF Setting
      <3>6. next.version = v.module.kind BY <1>3, <3>1
      <3>7. Reached(v, "CONFIGURE_BAUD", v.module.done)
        BY <3>2, <3>3, <3>4, <3>5, <3>6 DEF Reached, next
      <3>8. v.gps.state = "CONFIGURE_BAUD" BY <3>1 DEF Going, next
      <3> QED BY <1>3, <3>5, <3>7, <3>8, ArrivesFollows
    <2> QED BY <1>2, <2>2, <2>4, <2>5
  <1>9. CASE g.state = "WAIT" /\ ~AsksVersion(w)
    <2>1. /\ Reached(w, g.ackState, w.module.done \cup {w.pending})
          /\ \/ g.timeoutState = "ERROR"
             \/ /\ g.timeoutState = g.ackState /\ g.ackState # "RECEIVE"
                /\ Reached(w, g.ackState, w.module.done)
      BY <1>0, <1>9 DEF OnCourse
    <2>2. g.ackState \in Setting /\ g.version = w.module.kind BY <2>1 DEF Reached
    <2>3. ASSUME msg.type \in {"ack", "value", "version"} PROVE Follows(w, v)
      <3>1. msg # NoFrame /\ Truthful(w, msg) BY <1>2, <2>3
      <3>2. Going(g.ackState) /\ next.version = g.version /\ next.counter \in {g.counter, 0}
        BY <1>3, <2>2, <2>3
      <3>3. \/ v.strays = w.strays /\ w.pending \in w.module.done
            \/ v.strays = w.strays + 1
        <4>1. CASE stray BY <1>3, <4>1
        <4>2. CASE ~stray
          <5>1. msg.to = w.pending BY <1>9, <3>1, <4>2
          <5>2. msg.type # "version" BY <1>9, <3>1, <5>1 DEF Truthful, AsksVersion
          <5>3. w.pending \in w.module.done BY <2>3, <3>1, <5>1, <5>2 DEF Truthful
          <5> QED BY <1>3, <4>2, <5>3
        <4> QED BY <4>1, <4>2
      <3>4. Reached(v, g.ackState, v.module.done)
        BY <1>3, <1>9, <3>2, <3>3, AnswerReaches DEF next
      <3>5. /\ v.gps.state = g.ackState /\ v.gps.ackState = g.ackState
            /\ v.gps.timeoutState = g.timeoutState
        BY <3>2 DEF Going, next
      <3>6. g.ackState = "RECEIVE" => g.timeoutState = "ERROR" BY <2>1
      <3> QED BY <1>3, <2>2, <3>4, <3>5, <3>6, ArrivesFollows
    <2>4. ASSUME Going(g.timeoutState), Kept PROVE Follows(w, v)
      <3>1. CASE g.timeoutState = "ERROR" BY <1>5, <2>4, <3>1
      <3>2. CASE /\ g.timeoutState = g.ackState /\ g.ackState # "RECEIVE"
                 /\ Reached(w, g.ackState, w.module.done)
        <4>1. Reached(v, g.ackState, v.module.done)
          BY <1>0, <1>3, <1>4, <2>4, <3>2, ReachedKept DEF next
        <4>2. v.gps.state = g.ackState BY <2>4, <3>2 DEF Going, next
        <4> QED BY <1>3, <2>2, <3>2, <4>1, <4>2, ArrivesFollows
      <3> QED BY <2>1, <3>1, <3>2
    <2>5. CASE msg.type = "nak" BY <1>3, <2>4, <2>5
    <2>6. CASE msg.type = "none"
      <3>1. ~stray BY <1>2, <2>6
      <3> QED BY <1>3, <1>6, <1>9, <2>4, <2>6, <3>1
    <2> QED BY <1>2, <2>3, <2>5, <2>6
  <1> QED BY <1>7, <1>8, <1>9

(* Nothing is on the line before the module is asked for its version.      *)
LEMMA QuietFollows ==
  ASSUME NEW w, WorldInv(w), w.gps.state \in {"DETECT_BAUD", "GET_VERSION"},
         NEW v \in Worlds, v.gps.state \in {"DETECT_BAUD", "GET_VERSION", "ERROR"},
         v.line = w.line
  PROVE  Follows(w, v)
PROOF
  <1>1. \A frame : ~Truthful(w, frame) BY DEF Truthful
  <1>2. OnCourse(v) BY DEF OnCourse, Setting, AsksVersion
  <1> QED BY <1>1, <1>2, OnCourseFollows

(* A world follows itself.                                                 *)
LEMMA SelfFollows ==
  ASSUME NEW w, WorldInv(w)
  PROVE  Follows(w, w)
PROOF BY DEF Follows

(* The search for a baud rate.                                             *)
LEMMA DetectFollows ==
  ASSUME NEW w, WorldInv(w), config \in Configs, w.gps.state = "DETECT_BAUD",
         NEW v \in DetectBaud(w)
  PROVE  Follows(w, v)
PROOF
  <1>0. w \in Worlds /\ w.gps \in Drivers /\ w.gps.counter \in Nat
    BY WorldFields, DriverFields DEF WorldInv
  <1>1. CASE w.gps.left > 0 BY <1>1, SelfFollows DEF DetectBaud
  <1>2. CASE ~(w.gps.left > 0) /\ w.gps.counter < Len(Bauds)
    <2> DEFINE n == w.gps.counter + 1
               g == [w.gps EXCEPT !.baud = Bauds[n], !.counter = n, !.left = DetectTimeout]
    <2>1. n \in 1..Len(Bauds) /\ n \in Nat /\ DetectTimeout \in Nat BY <1>0, <1>2, Given
    <2>2. Bauds[n] \in Rates BY <2>1 DEF Rates, ItemsOf
    <2>3. v = [w EXCEPT !.gps.baud = Bauds[n], !.gps.counter = @ + 1, !.gps.left = DetectTimeout]
      BY <1>2 DEF DetectBaud
    <2>4. v = [w EXCEPT !.gps = g] BY <1>0, <2>3 DEF Worlds, Drivers
    <2> HIDE DEF n
    <2>5. g \in Drivers /\ g.state = "DETECT_BAUD" BY <1>0, <2>1, <2>2 DEF Drivers
    <2> HIDE DEF g
    <2>6. v \in Worlds /\ v.gps = g /\ v.line = w.line BY <1>0, <2>4, <2>5, NewGps
    <2> QED BY <2>5, <2>6, QuietFollows
  <1>3. CASE ~(w.gps.left > 0) /\ ~(w.gps.counter < Len(Bauds))
    <2> DEFINE g == [w.gps EXCEPT !.state = "ERROR", !.counter = 0,
                                  !.baud = config.target, !.left = DetectTimeout]
    <2>1. config.target \in Rates /\ DetectTimeout \in Nat /\ "ERROR" \in DriverStates
      BY Given DEF Configs, Rates, DriverStates
    <2>2. v = [w EXCEPT !.gps.state = "ERROR", !.gps.counter = 0,
                        !.gps.baud = config.target, !.gps.left = DetectTimeout]
      BY <1>3 DEF DetectBaud
    <2>3. v = [w EXCEPT !.gps = g] BY <1>0, <2>2 DEF Worlds, Drivers
    <2>4. g \in Drivers /\ g.state = "ERROR" BY <1>0, <2>1 DEF Drivers
    <2> HIDE DEF g
    <2>5. v \in Worlds /\ v.gps = g /\ v.line = w.line BY <1>0, <2>3, <2>4, NewGps
    <2> QED BY <2>4, <2>5, QuietFollows
  <1> QED BY <1>1, <1>2, <1>3

(* The module is asked for its version.                                    *)
LEMMA ReadVersionFollows ==
  ASSUME NEW w, WorldInv(w), config \in Configs, Configured, w.gps.state = "GET_VERSION",
         NEW v \in ReadVersion(w)
  PROVE  Follows(w, v)
PROOF
  <1> DEFINE cmd == Plain("version")
  <1>1. PICK u \in Send(w, cmd, "CONFIGURE_BAUD", "ERROR") : v = [u EXCEPT !.gps.left = 3 * Timeout]
    BY DEF ReadVersion, Configured
  <1>2. cmd \in Cmds /\ cmd.name = "version" BY PlainFacts DEF Names
  <1>3. "CONFIGURE_BAUD" \in DriverStates /\ "ERROR" \in DriverStates BY DEF DriverStates
  <1>4. w \in Worlds /\ \A frame : ~Truthful(w, frame) BY DEF WorldInv, Truthful
  <1>5. \A i \in 1..Len(w.line) : FALSE BY <1>4 DEF WorldInv
  <1> HIDE DEF cmd
  <1>6. /\ u \in Worlds /\ u.gps.state = "WAIT" /\ u.gps.ackState = "CONFIGURE_BAUD"
        /\ u.gps.timeoutState = "ERROR" /\ u.pending = cmd
    BY <1>1, <1>2, <1>3, <1>4, SendFacts
  <1>7. \A k \in 1..Len(u.line) :
          \/ \E i \in 1..Len(w.line) : u.line[k] = w.line[i]
          \/ /\ u.line[k] \in Frames /\ u.line[k].to = cmd
             /\ u.line[k].type = "version" <=> cmd.name = "version"
             /\ u.line[k].type \in {"ack", "value"} => cmd \in u.module.done
    BY <1>1, <1>2, <1>3, <1>4, SendFacts
  <1>8. \A k \in 1..Len(u.line) : Truthful(u, u.line[k])
    <2> SUFFICES ASSUME NEW k \in 1..Len(u.line) PROVE Truthful(u, u.line[k])
      OBVIOUS
    <2>1. u.line[k] \in Frames /\ u.line[k].to = cmd /\ u.line[k].type = "version"
      BY <1>2, <1>5, <1>7
    <2> QED BY <1>6, <2>1 DEF Truthful, cmd
  <1>9. AsksVersion(u) BY <1>6 DEF AsksVersion, cmd
  <1>10. OnCourse(u) BY <1>6, <1>9 DEF OnCourse, Setting
  <1>11. WorldInv(u) /\ Follows(w, u) BY <1>4, <1>6, <1>8, <1>10 DEF WorldInv, Follows
  <1>12. Follows(u, v)
    <2>1. 3 * Timeout \in Nat BY Given
    <2>2. u.gps.baud \in Rates BY <1>6, WorldFields, DriverFields
    <2> QED BY <1>1, <1>11, <2>1, <2>2, MemberFollows
  <1> QED BY <1>11, <1>12, FollowsTrans

(* The error state is not left.                                            *)
LEMMA ErrorFollows ==
  ASSUME NEW w, WorldInv(w), w.gps.state = "ERROR", NEW v \in HandleError(w)
  PROVE  Follows(w, v)
PROOF
  <1> DEFINE n == IF w.gps.counter = 0 THEN 1 ELSE w.gps.counter
             g == [w.gps EXCEPT !.counter = n, !.present = FALSE]
  <1>0. w \in Worlds /\ w.gps \in Drivers /\ w.gps.counter \in Nat
    BY WorldFields, DriverFields DEF WorldInv
  <1>1. v = [w EXCEPT !.gps = g] BY <1>0 DEF HandleError, Worlds, Drivers
  <1>2. n \in Nat BY <1>0
  <1> HIDE DEF n
  <1>3. g \in Drivers /\ g.state = "ERROR" BY <1>0, <1>2 DEF Drivers
  <1> HIDE DEF g
  <1>4. v \in Worlds /\ v.gps = g /\ v.line = w.line /\ v.module = w.module
    BY <1>0, <1>1, <1>3, NewGps
  <1> QED BY <1>3, <1>4, ArrivesFollows DEF Setting

(* A message is taken, or waited for.                                      *)
LEMMA ReceiveFollows ==
  ASSUME NEW w, WorldInv(w), w.gps.state \in {"WAIT", "RECEIVE"},
         NEW msg, msg = NoFrame \/ Truthful(w, msg), NEW v \in HandleReceive(w, msg)
  PROVE  Follows(w, v)
PROOF
  <1> DEFINE u == Stamped(w)
  <1>1. Follows(w, u) /\ u.gps.state = w.gps.state
    <2>1. CASE w.gps.state = "RECEIVE"
      <3>1. w \in Worlds /\ w.gps \in Drivers /\ w.gps.baud \in Rates
        BY WorldFields, DriverFields DEF WorldInv
      <3>2. u = [w EXCEPT !.gps.present = TRUE] BY <2>1 DEF Stamped
      <3>3. u.gps.state = w.gps.state BY <3>1, <3>2 DEF Worlds, Drivers
      <3>4. 0 \in Nat OBVIOUS
      <3> QED BY <3>1, <3>2, <3>3, <3>4, MemberFollows
    <2>2. CASE w.gps.state # "RECEIVE" BY <2>2, SelfFollows DEF Stamped
    <2> QED BY <2>1, <2>2
  <1>2. v = Taken(u, msg) BY DEF HandleReceive
  <1> HIDE DEF u
  <1>3. WorldInv(u) /\ (msg = NoFrame \/ Truthful(u, msg)) BY <1>1 DEF Follows
  <1>4. Follows(u, v) BY <1>1, <1>2, <1>3, TakenFollows
  <1> QED BY <1>1, <1>4, FollowsTrans

(* Every state of the driver.                                              *)
LEMMA HandleFollows ==
  ASSUME NEW w, WorldInv(w), config \in Configs, Configured,
         NEW msg, msg = NoFrame \/ Truthful(w, msg), NEW v \in Handle(w, msg)
  PROVE  Follows(w, v)
PROOF
  <1>0. w.gps.state \in DriverStates
    <2>1. w \in Worlds BY DEF WorldInv
    <2> QED BY <2>1, WorldFields, DriverFields
  <1>1. CASE w.gps.state = "DETECT_BAUD"
    <2>1. v \in DetectBaud(w) BY <1>1 DEF Handle
    <2> QED BY <1>1, <2>1, DetectFollows
  <1>2. CASE w.gps.state = "GET_VERSION"
    <2>1. v \in ReadVersion(w) BY <1>2 DEF Handle
    <2> QED BY <1>2, <2>1, ReadVersionFollows
  <1>3. CASE w.gps.state \in SettingUp
    <2>1. v \in Step(w) BY <1>3 DEF Handle, Step, SettingUp, Setting
    <2> QED BY <1>3, <2>1, SetUpFollows
  <1>4. CASE w.gps.state = "ERROR"
    <2>1. v \in HandleError(w) BY <1>4 DEF Handle
    <2> QED BY <1>4, <2>1, ErrorFollows
  <1>5. CASE w.gps.state \in {"WAIT", "RECEIVE"}
    <2>1. v \in HandleReceive(w, msg) BY <1>5 DEF Handle
    <2> QED BY <1>5, <2>1, ReceiveFollows
  <1> QED BY <1>0, <1>1, <1>2, <1>3, <1>4, <1>5 DEF DriverStates, SettingUp, Setting

(* A message wakes a driver that looks for a baud rate.                    *)
LEMMA OnMessageFollows ==
  ASSUME NEW w, WorldInv(w), Configured
  PROVE  Follows(w, OnMessage(w))
PROOF
  <1>1. CASE w.gps.state # "DETECT_BAUD" BY <1>1, SelfFollows DEF OnMessage
  <1>2. CASE w.gps.state = "DETECT_BAUD"
    <2> DEFINE g == [w.gps EXCEPT !.state = "GET_VERSION"]
               v == OnMessage(w)
    <2>0. w \in Worlds /\ w.gps \in Drivers BY WorldFields DEF WorldInv
    <2>1. v = [w EXCEPT !.gps.state = "GET_VERSION"] BY <1>2 DEF OnMessage, Configured
    <2>2. v = [w EXCEPT !.gps = g] BY <2>0, <2>1 DEF Worlds, Drivers
    <2>3. g \in Drivers /\ g.state = "GET_VERSION" BY <2>0 DEF Drivers, DriverStates
    <2> HIDE DEF g, v
    <2>4. v \in Worlds /\ v.gps = g /\ v.line = w.line BY <2>0, <2>2, <2>3, NewGps
    <2>5. Follows(w, v) BY <1>2, <2>3, <2>4, QuietFollows
    <2> QED BY <2>5 DEF v
  <1> QED BY <1>1, <1>2

-----------------------------------------------------------------------------
(***************************************************************************)
(* What holds of 0 and is handed on holds of all numbers up to a bound: of *)
(* the counterexamples there would be a least one, the one with the fewest *)
(* below it.                                                               *)
(***************************************************************************)
LEMMA SetInduction ==
  ASSUME NEW N \in Nat, NEW S, 0 \in S,
         \A n \in 0..N : n < N /\ n \in S => n + 1 \in S
  PROVE  \A n \in 0..N : n \in S
PROOF
  <1> DEFINE Bad == (0..N) \ S
             Below(o) == {p \in Bad : p < o}
             Family == {Below(o) : o \in Bad}
             Smaller == StrictSubsetOrdering(Bad)
  <1>0. SUFFICES ASSUME Bad # {} PROVE FALSE
    OBVIOUS
  <1>1. IsFiniteSet(Bad)
    <2>1. IsFiniteSet(0..N) BY FS_Interval
    <2>2. Bad \subseteq 0..N OBVIOUS
    <2> HIDE DEF Bad
    <2> QED BY <2>1, <2>2, FS_Subset, Zenon
  <1>2. \A o \in Bad : o \in Int BY SMT
  <1>3. \A o \in Bad : o # 0 /\ o - 1 \in Bad
    <2> SUFFICES ASSUME NEW o \in Bad PROVE o # 0 /\ o - 1 \in Bad
      OBVIOUS
    <2>1. o # 0 /\ o \in Nat /\ o - 1 \in 0..N /\ o - 1 < N BY SMT
    <2>2. (o - 1) + 1 = o /\ o \notin S BY <2>1
    <2> QED BY <2>1, <2>2
  <1> HIDE DEF Bad
  <1>4. IsWellFoundedOn(Smaller, FiniteSubsetsOf(Bad))
    BY <1>1, FS_StrictSubsetOrderingWellFounded
  <1>5. Family \subseteq FiniteSubsetsOf(Bad)
    <2> SUFFICES ASSUME NEW o \in Bad PROVE Below(o) \in FiniteSubsetsOf(Bad)
      OBVIOUS
    <2> DEFINE D == Below(o)
    <2>1. D \subseteq Bad OBVIOUS
    <2> HIDE DEF D
    <2>2. D \in FiniteSubsetsOf(Bad) BY <1>1, <2>1, FS_Subset, Zenon DEF FiniteSubsetsOf
    <2> QED BY <2>2 DEF D
  <1>6. Family # {}
    <2>1. PICK o \in Bad : TRUE BY <1>0
    <2>2. Below(o) \in Family OBVIOUS
    <2> HIDE DEF Family
    <2> QED BY <2>2
  <1>7. PICK B \in Family : \A C \in Family : ~(<<C, B>> \in Smaller)
    <2> HIDE DEF Family, Smaller
    <2> QED BY <1>4, <1>5, <1>6, WFMin
  <1>8. PICK o \in Bad : B = Below(o) BY <1>7
  <1> DEFINE p == o - 1
  <1>9. p \in Bad /\ p \in Int /\ o \in Int /\ p < o BY <1>2, <1>3
  <1> HIDE DEF p
  <1>10. Below(p) \subseteq Below(o)
    <2> SUFFICES ASSUME NEW q \in Bad, q < p PROVE q < o
      OBVIOUS
    <2>1. q \in Int BY <1>2
    <2> QED BY <1>9, <2>1
  <1>11. p \in Below(o) /\ p \notin Below(p) BY <1>9
  <1>12. <<Below(p), Below(o)>> \in Smaller BY <1>10, <1>11 DEF StrictSubsetOrdering
  <1> QED BY <1>7, <1>8, <1>9, <1>12

-----------------------------------------------------------------------------
(***************************************************************************)
(* Reading the line.                                                       *)
(***************************************************************************)
(* What the parser makes of a frame.                                       *)
LEMMA ParseFollows ==
  ASSUME NEW w, WorldInv(w), NEW frame, Truthful(w, frame), NEW p \in Parse(w, frame)
  PROVE  Follows(w, p.world) /\ p.msg \in {NoFrame, frame}
PROOF
  <1> DEFINE length == FrameLength(frame)
             deaf == [w EXCEPT !.gps.deaf = TRUE]
             read == [w EXCEPT !.gps.written = length]
             damaged == [w EXCEPT !.gps.written = length, !.faults = @ - 1]
  <1>1. length \in Nat BY DEF FrameLength, Truthful, Frames
  <1>2. w \in Worlds /\ w.gps.baud \in Rates
    BY WorldFields, DriverFields DEF WorldInv
  <1>3. p \in {[world |-> deaf, msg |-> NoFrame], [world |-> read, msg |-> NoFrame],
               [world |-> w, msg |-> frame], [world |-> damaged, msg |-> NoFrame]}
    <2> HIDE DEF deaf, read, damaged, length
    <2> QED BY DEF Parse, deaf, read, damaged, length
  <1>4. damaged = [read EXCEPT !.faults = @ - 1] BY <1>2 DEF Worlds
  <1> HIDE DEF length
  <1>5. Follows(w, deaf) /\ Follows(w, read) BY <1>1, <1>2, MemberFollows
  <1>6. Follows(w, damaged)
    <2> HIDE DEF read, damaged
    <2>1. WorldInv(read) BY <1>5 DEF Follows
    <2>2. Follows(read, damaged) BY <1>4, <2>1, FaultFollows
    <2> QED BY <1>5, <2>2, FollowsTrans
  <1>7. Follows(w, w) BY SelfFollows
  <1> HIDE DEF deaf, read, damaged
  <1> QED BY <1>3, <1>5, <1>6, <1>7

(* What the driver makes of a frame.                                       *)
LEMMA ProcessFollows ==
  ASSUME NEW w, WorldInv(w), config \in Configs, Configured,
         NEW frame, Truthful(w, frame), NEW v \in ProcessUbx(w, frame)
  PROVE  Follows(w, v)
PROOF
  <1>1. PICK p \in Parse(w, frame) :
          v \in IF p.msg = NoFrame THEN {p.world}
                ELSE {[u EXCEPT !.gps.updated = TRUE] : u \in Handle(OnMessage(p.world), p.msg)}
    BY DEF ProcessUbx
  <1>2. Follows(w, p.world) /\ p.msg \in {NoFrame, frame} BY ParseFollows
  <1>3. CASE p.msg = NoFrame BY <1>1, <1>2, <1>3
  <1>4. CASE p.msg # NoFrame
    <2> DEFINE x == OnMessage(p.world)
    <2>1. p.msg = frame BY <1>2, <1>4
    <2>2. WorldInv(p.world) BY <1>2 DEF Follows
    <2>3. Follows(p.world, x) BY <2>2, OnMessageFollows
    <2> HIDE DEF x
    <2>4. Follows(w, x) BY <1>2, <2>3, FollowsTrans
    <2>5. WorldInv(x) /\ Truthful(x, frame) BY <2>4 DEF Follows
    <2>6. PICK u \in Handle(x, frame) : v = [u EXCEPT !.gps.updated = TRUE]
      BY <1>1, <1>4, <2>1 DEF x
    <2>7. Follows(x, u) BY <2>5, HandleFollows
    <2>8. WorldInv(u) BY <2>7 DEF Follows
    <2>9. u.gps.baud \in Rates /\ 0 \in Nat
      BY <2>8, WorldFields, DriverFields DEF WorldInv
    <2>10. Follows(u, v) BY <2>6, <2>8, <2>9, MemberFollows
    <2>11. Follows(w, u) BY <2>4, <2>7, FollowsTrans
    <2> QED BY <2>10, <2>11, FollowsTrans
  <1> QED BY <1>3, <1>4

(* The worlds after each of the first frames on the line.                  *)
Reading(w, n, g) ==
  /\ ReadMany(w, n) = g[n]
  /\ g[0] = {[w EXCEPT !.line = SubSeq(@, n + 1, Len(@))]}
  /\ \A k \in 0..n :
       k < n => g[k + 1] = UNION {ProcessUbx(v, w.line[k + 1]) : v \in g[k]}

(* The frames are worked on one after the other: the recursive function in *)
(* ReadMany exists.                                                        *)
LEMMA ReadManyFacts ==
  ASSUME NEW w, NEW n \in Nat
  PROVE  \E g : Reading(w, n, g)
PROOF
  <1> DEFINE first == {[w EXCEPT !.line = SubSeq(@, n + 1, Len(@))]}
             More(V, k) == UNION {ProcessUbx(v, w.line[k]) : v \in V}
             Runs(g, m) == g[0] = first /\ \A k \in 0..n : k < m => g[k + 1] = More(g[k], k + 1)
             Body(f) == [k \in 0..n |-> IF k = 0 THEN first ELSE More(f[k - 1], k)]
             after == CHOOSE f : f = Body(f)
  <1>1. ReadMany(w, n) = after[n] BY DEF ReadMany
  <1> HIDE DEF first, More
  <1>2. \E g : Runs(g, n)
    <2> DEFINE S == {m \in 0..n : \E g : Runs(g, m)}
    <2>1. 0 \in S
      <3> DEFINE g0 == [k \in {0} |-> first]
      <3>1. g0[0] = first OBVIOUS
      <3>2. \A k \in 0..n : ~(k < 0) OBVIOUS
      <3> HIDE DEF g0
      <3>3. Runs(g0, 0) BY <3>1, <3>2
      <3> HIDE DEF Runs
      <3> QED BY <3>3
    <2>2. ASSUME NEW m \in 0..n, m < n, m \in S PROVE m + 1 \in S
      <3>1. PICK g : Runs(g, m) BY <2>2
      <3> DEFINE h == [k \in 0..n |-> IF k = m + 1 THEN More(g[m], m + 1) ELSE g[k]]
      <3>2. h[0] = first BY <3>1
      <3>3. ASSUME NEW k \in 0..n, k < m + 1 PROVE h[k + 1] = More(h[k], k + 1)
        <4>1. CASE k = m BY <2>2, <4>1
        <4>2. CASE k < m
          <5>1. h[k] = g[k] /\ h[k + 1] = g[k + 1] BY <2>2, <4>2
          <5>2. g[k + 1] = More(g[k], k + 1) BY <3>1, <4>2
          <5> QED BY <5>1, <5>2
        <4> QED BY <3>3, <4>1, <4>2
      <3> HIDE DEF h
      <3>4. Runs(h, m + 1) BY <3>2, <3>3
      <3>5. m + 1 \in 0..n BY <2>2
      <3> HIDE DEF Runs
      <3> QED BY <3>4, <3>5
    <2>3. n \in S
      <3> HIDE DEF S
      <3>1. \A m \in 0..n : m \in S BY <2>1, <2>2, SetInduction
      <3> QED BY <3>1
    <2> QED BY <2>3
  <1>3. PICK g : Runs(g, n) BY <1>2
  <1>4. after = Body(after)
    <2> DEFINE f == [k \in 0..n |-> g[k]]
    <2>1. ASSUME NEW k \in 0..n
          PROVE  f[k] = IF k = 0 THEN first ELSE More(f[k - 1], k)
      <3>1. CASE k = 0 BY <1>3, <3>1
      <3>2. CASE k # 0
        <4>1. k - 1 \in 0..n /\ k - 1 < n /\ (k - 1) + 1 = k BY <3>2
        <4>2. g[k] = More(g[k - 1], k) BY <1>3, <4>1
        <4>3. f[k - 1] = g[k - 1] /\ f[k] = g[k] BY <4>1
        <4> QED BY <3>2, <4>2, <4>3
      <3> QED BY <3>1, <3>2
    <2>2. f = Body(f) BY <2>1
    <2> HIDE DEF f, Body
    <2> QED BY <2>2, Zenon
  <1> HIDE DEF after
  <1>5. 0 \in 0..n /\ n \in 0..n OBVIOUS
  <1>6. after[0] = first
    <2>1. Body(after)[0] = first BY <1>5
    <2> HIDE DEF Body
    <2> QED BY <1>4, <2>1
  <1>7. ASSUME NEW k \in 0..n, k < n PROVE after[k + 1] = More(after[k], k + 1)
    <2>1. k + 1 \in 0..n /\ k + 1 # 0 /\ (k + 1) - 1 = k BY <1>7
    <2>2. Body(after)[k + 1] = More(after[k], k + 1) BY <2>1
    <2> HIDE DEF Body
    <2> QED BY <1>4, <2>2
  <1> QED BY <1>1, <1>6, <1>7 DEF first, More, Reading

(* What the driver makes of the first frames on the line.                  *)
LEMMA ReadManyFollows ==
  ASSUME NEW w, WorldInv(w), config \in Configs, Configured,
         NEW n \in 0..Len(w.line), NEW v \in ReadMany(w, n)
  PROVE  Follows(w, v)
PROOF
  <1> DEFINE first == [w EXCEPT !.line = SubSeq(@, n + 1, Len(@))]
  <1>0. w \in Worlds /\ w.line \in Seq(Frames) /\ Len(w.line) \in Nat /\ n \in Nat
    BY WorldFields DEF WorldInv
  <1>9. PICK g : Reading(w, n, g) BY <1>0, ReadManyFacts
  <1>1. /\ ReadMany(w, n) = g[n] /\ g[0] = {first}
        /\ \A k \in 0..n :
             k < n => g[k + 1] = UNION {ProcessUbx(u, w.line[k + 1]) : u \in g[k]}
    BY <1>9 DEF Reading
  <1>2. Follows(w, first)
    <2> DEFINE rest == SubSeq(w.line, n + 1, Len(w.line))
    <2>1. /\ rest \in Seq(Frames) /\ Len(rest) = Len(w.line) - n
          /\ \A k \in 1..Len(rest) : rest[k] = w.line[n + k]
      BY <1>0
    <2>2. \A k \in 1..Len(rest) : n + k \in 1..Len(w.line) BY <1>0, <2>1
    <2>3. first = [w EXCEPT !.line = rest] BY <1>0
    <2> HIDE DEF rest, first
    <2>4. Alike(w, first) /\ first.line = rest BY <1>0, <2>1, <2>3 DEF Alike, Worlds
    <2>5. \A k \in 1..Len(first.line) : Truthful(w, first.line[k])
      BY <2>1, <2>2, <2>4 DEF WorldInv
    <2> QED BY <2>4, <2>5, AlikeFollows
  <1> HIDE DEF first
  <1> DEFINE S == {k \in 0..n : \A u \in g[k] : Follows(w, u)}
  <1>3. 0 \in S BY <1>0, <1>1, <1>2
  <1>4. ASSUME NEW k \in 0..n, k < n, k \in S PROVE k + 1 \in S
    <2>1. k + 1 \in 0..n /\ k + 1 \in 1..Len(w.line) BY <1>0, <1>4
    <2>2. Truthful(w, w.line[k + 1]) BY <2>1 DEF WorldInv
    <2>3. ASSUME NEW x \in g[k + 1] PROVE Follows(w, x)
      <3>1. PICK u \in g[k] : x \in ProcessUbx(u, w.line[k + 1]) BY <1>1, <1>4
      <3>2. Follows(w, u) BY <1>4
      <3>3. WorldInv(u) /\ Truthful(u, w.line[k + 1]) BY <2>2, <3>2 DEF Follows
      <3>4. Follows(u, x) BY <3>1, <3>3, ProcessFollows
      <3> QED BY <3>2, <3>4, FollowsTrans
    <2> QED BY <2>1, <2>3
  <1>5. n \in S
    <2> HIDE DEF S
    <2>1. \A k \in 0..n : k \in S BY <1>0, <1>3, <1>4, SetInduction
    <2> QED BY <1>0, <2>1
  <1> QED BY <1>1, <1>5

-----------------------------------------------------------------------------
(***************************************************************************)
(* An update, and the invariant.                                           *)
(***************************************************************************)
(* One update of the driver.                                               *)
LEMMA UpdatesFollow ==
  ASSUME NEW w, WorldInv(w), config \in Configs, Configured, NEW v \in Updates(w)
  PROVE  Follows(w, v)
PROOF
  <1>1. PICK n \in Reads(w) : \E heard \in Detections(w) :
          v \in UNION {IF u.gps.updated THEN {u} ELSE Handle(u, NoFrame) :
                         u \in ReadMany(IF heard THEN OnMessage(Late(w, n)) ELSE Late(w, n), n)}
    BY DEF Updates
  <1> DEFINE behind == Late(w, n)
  <1>2. PICK x \in {behind, OnMessage(behind)} : \E u \in ReadMany(x, n) :
          v \in IF u.gps.updated THEN {u} ELSE Handle(u, NoFrame)
    BY <1>1
  <1>3. Follows(w, behind) /\ behind.line = w.line
    <2>1. CASE behind = w BY <2>1, SelfFollows
    <2>2. CASE behind = [w EXCEPT !.faults = @ - 1]
      <3>1. w \in Worlds BY DEF WorldInv
      <3>2. Follows(w, behind) BY <2>2, FaultFollows
      <3>3. behind.line = w.line BY <2>2, <3>1, NewFaults
      <3> QED BY <3>2, <3>3
    <2> QED BY <2>1, <2>2 DEF Late
  <1> HIDE DEF behind
  <1>4. Follows(w, x) /\ x.line = w.line
    <2>1. CASE x = behind BY <1>3, <2>1
    <2>2. CASE x = OnMessage(behind)
      <3>1. WorldInv(behind) BY <1>3 DEF Follows
      <3>2. Follows(behind, x) BY <2>2, <3>1, OnMessageFollows
      <3>3. behind \in Worlds BY <3>1 DEF WorldInv
      <3>4. x.line = behind.line BY <2>2, <3>3 DEF OnMessage, Worlds
      <3> QED BY <1>3, <3>2, <3>4, FollowsTrans
    <2> QED BY <2>1, <2>2
  <1>5. n \in 0..Len(x.line) BY <1>4 DEF Reads
  <1>6. PICK u \in ReadMany(x, n) : v \in IF u.gps.updated THEN {u} ELSE Handle(u, NoFrame)
    BY <1>2
  <1>7. WorldInv(x) BY <1>4 DEF Follows
  <1>8. Follows(x, u) BY <1>5, <1>7, ReadManyFollows
  <1>9. Follows(w, u) BY <1>4, <1>8, FollowsTrans
  <1>10. v = u \/ v \in Handle(u, NoFrame) BY <1>6
  <1>11. Follows(u, v)
    <2>1. WorldInv(u) BY <1>8 DEF Follows
    <2>2. CASE v = u BY <2>1, <2>2, SelfFollows
    <2>3. CASE v \in Handle(u, NoFrame) BY <2>1, <2>3, HandleFollows
    <2> QED BY <1>10, <2>2, <2>3
  <1> QED BY <1>9, <1>11, FollowsTrans

(* Time passes.                                                            *)
LEMMA TickedFollows ==
  ASSUME NEW w, WorldInv(w)
  PROVE  Follows(w, Ticked(w))
PROOF
  <1> DEFINE n == IF w.gps.left = 0 THEN 0 ELSE w.gps.left - 1
             g == [w.gps EXCEPT !.left = n, !.updated = FALSE]
  <1>0. w \in Worlds /\ w.gps \in Drivers /\ w.gps.left \in Nat
    BY WorldFields, DriverFields DEF WorldInv
  <1>1. n \in Nat BY <1>0
  <1>2. Ticked(w) = [w EXCEPT !.gps = g] BY <1>0 DEF Ticked, Worlds, Drivers
  <1> HIDE DEF n
  <1>3. /\ g \in Drivers /\ g.state = w.gps.state /\ g.ackState = w.gps.ackState
        /\ g.timeoutState = w.gps.timeoutState /\ g.version = w.gps.version
        /\ g.counter = w.gps.counter
    BY <1>0, <1>1 DEF Drivers
  <1> HIDE DEF g
  <1> QED BY <1>2, <1>3, GpsFollows

(* The world after a step that leaves the configuration alone.             *)
LEMMA WorldNext ==
  ASSUME NEW w, WorldInv(w), World' = w, config' = config
  PROVE  WorldInv(World)'
PROOF
  <1>1. \A g, state : Told(g, state)' = Told(g, state)
    BY config' = config DEF Told, SbasTold
  <1>2. \A x, state, done : Reached(x, state, done)' = Reached(x, state, done)
    BY <1>1 DEF Reached
  <1>3. \A x : OnCourse(x)' = OnCourse(x) BY <1>2 DEF OnCourse
  <1>4. WorldInv(w)' BY <1>3 DEF WorldInv
  <1> QED BY <1>4

(* A driver that has just started.                                         *)
LEMMA StartedFacts ==
  ASSUME config \in Configs
  PROVE  Started(config) \in Drivers /\ Started(config).state = "DETECT_BAUD"
PROOF
  <1>1. config.target \in Rates /\ DetectTimeout \in Nat BY Given DEF Configs, Rates
  <1>2. "DETECT_BAUD" \in DriverStates /\ "WAIT" \in DriverStates BY DEF DriverStates
  <1> QED BY <1>1, <1>2 DEF Started, Drivers

(* A world whose driver has just started, with nothing on the line.        *)
LEMMA FreshWorld ==
  ASSUME NEW w \in Worlds, w.gps.state = "DETECT_BAUD", w.line = <<>>
  PROVE  WorldInv(w)
PROOF
  <1>1. OnCourse(w) BY DEF OnCourse, Setting, AsksVersion
  <1>2. \A k \in 1..Len(w.line) : Truthful(w, w.line[k]) OBVIOUS
  <1> QED BY <1>1, <1>2 DEF WorldInv

(* The driver starts on course.                                            *)
LEMMA InitOnCourse == DriverInit => DriverInv
PROOF
  <1> SUFFICES ASSUME DriverInit PROVE DriverInv
    OBVIOUS
  <1>1. config \in Configs BY DEF DriverInit, Configs
  <1>2. module \in Modules BY DEF DriverInit, Modules, Rates
  <1>3. Started(config) \in Drivers /\ Started(config).state = "DETECT_BAUD"
    BY <1>1, StartedFacts
  <1>4. /\ gps = Started(config) /\ line = <<>> /\ pending = Plain("none")
        /\ strays = 0 /\ faults = Faults
    BY DEF DriverInit
  <1>5. Plain("none") \in Cmds BY PlainFacts DEF Names
  <1>6. Faults \in Int BY Given
  <1>7. <<>> \in Seq(Frames) OBVIOUS
  <1>8. World \in Worlds /\ World.gps = gps /\ World.line = line
    BY <1>2, <1>3, <1>4, <1>5, <1>6, <1>7 DEF World, Worlds
  <1>9. WorldInv(World) BY <1>3, <1>4, <1>8, FreshWorld
  <1> QED BY <1>1, <1>9 DEF DriverInv

(* Every step keeps it on course.                                          *)
LEMMA StepOnCourse == DriverInv /\ [DriverNext]_driverVars => DriverInv'
PROOF
  <1> SUFFICES ASSUME DriverInv, [DriverNext]_driverVars PROVE DriverInv'
    OBVIOUS
  <1>1. config \in Configs /\ config' = config
    BY DEF DriverInv, DriverNext, Update, Restart, ModuleDies, driverVars
  <1>2. config' \in Configs /\ (Configured' => Configured) BY <1>1 DEF Configured
  <1>3. SUFFICES ASSUME Configured PROVE WorldInv(World)'
    <2>1. Configs' = Configs OBVIOUS
    <2> QED BY <1>2, <1>3 DEF DriverInv
  <1>4. WorldInv(World) /\ World \in Worlds BY <1>3 DEF DriverInv, WorldInv
  <1>5. /\ World.gps = gps /\ World.module = module /\ World.line = line
        /\ World.faults = faults /\ World.pending = pending /\ World.strays = strays
    BY DEF World
  <1>6. CASE Update
    <2>1. PICK w \in Updates(Ticked(World)) : Becomes(w) BY <1>6 DEF Update
    <2>2. Follows(World, Ticked(World)) BY <1>4, TickedFollows
    <2> DEFINE t == Ticked(World)
    <2>3. WorldInv(t) BY <2>2 DEF Follows
    <2> HIDE DEF t
    <2>4. Follows(t, w) BY <1>1, <1>3, <2>1, <2>3, UpdatesFollow DEF t
    <2>5. WorldInv(w) /\ w \in Worlds BY <2>4 DEF Follows, WorldInv
    <2>6. World' = w BY <2>1, <2>5 DEF Becomes, World, Worlds
    <2> QED BY <1>1, <2>5, <2>6, WorldNext
  <1>7. CASE Restart
    <2> DEFINE w == [gps |-> Started(config), module |-> module, line |-> <<>>,
                     faults |-> faults, pending |-> Plain("none"), strays |-> strays]
    <2>1. World' = w BY <1>7 DEF Restart, World
    <2>2. Started(config) \in Drivers /\ Started(config).state = "DETECT_BAUD"
      BY <1>1, StartedFacts
    <2>3. Plain("none") \in Cmds BY PlainFacts DEF Names
    <2>4. module \in Modules /\ faults \in Int /\ strays \in Nat
      BY <1>4, <1>5, WorldFields
    <2>5. w \in Worlds /\ w.gps.state = "DETECT_BAUD" /\ w.line = <<>>
      BY <2>2, <2>3, <2>4 DEF Worlds
    <2> HIDE DEF w
    <2>6. WorldInv(w) BY <2>5, FreshWorld
    <2> QED BY <1>1, <2>1, <2>6, WorldNext
  <1>8. CASE ModuleDies
    <2> DEFINE m == [module EXCEPT !.on = FALSE]
               w == [gps |-> gps, module |-> m, line |-> line, faults |-> faults - 1,
                     pending |-> pending, strays |-> strays]
    <2>1. World' = w BY <1>8 DEF ModuleDies, World
    <2>2. /\ gps \in Drivers /\ module \in Modules /\ line \in Seq(Frames) /\ faults \in Int
          /\ pending \in Cmds /\ strays \in Nat
      BY <1>4, <1>5, WorldFields
    <2>3. m \in Modules /\ m.kind = module.kind /\ m.done = module.done
      BY <2>2 DEF Modules
    <2> HIDE DEF m
    <2>4. /\ w \in Worlds /\ w.gps = gps /\ w.module = m /\ w.line = line
          /\ w.pending = pending /\ w.strays = strays
      BY <2>2, <2>3 DEF Worlds
    <2> HIDE DEF w
    <2>5. Alike(World, w) BY <1>5, <2>3, <2>4 DEF Alike
    <2>6. Follows(World, w) BY <1>4, <1>5, <2>4, <2>5, SameLineFollows
    <2>7. WorldInv(w) BY <2>6 DEF Follows
    <2> QED BY <1>1, <2>1, <2>7, WorldNext
  <1>9. CASE UNCHANGED driverVars
    <2>1. World' = World BY <1>9 DEF driverVars, World
    <2> QED BY <1>1, <1>4, <2>1, WorldNext
  <1> QED BY <1>6, <1>7, <1>8, <1>9 DEF DriverNext

(* The driver's set-up is on course in every state: what must have been    *)
(* told to the module before the driver's state has been, but for as many  *)
(* commands as answers were mistaken, and every answer that is still on    *)
(* the line is true.                                                       *)
THEOREM DriverInvariant == DriverSpec => []DriverInv
PROOF BY InitOnCourse, StepOnCourse, PTL DEF DriverSpec

(* What comes before RECEIVE is all that the module is required to be told.*)
LEMMA ToldIsRequired ==
  ASSUME NEW g
  PROVE  Required(g.version) = Told(g, "RECEIVE")
PROOF
  <1> DEFINE version == g.version
             legacy == version \in {"UNKNOWN", "M6", "M8"}
             Sbas == {Plain("sbas") : s \in {x \in {1} : config.sbas /\ version # "M6"}}
             Gnss == {Plain("gnss") : s \in {x \in {1} : version # "M6"}}
             Nmea == {Cmd("nmea", item) : item \in IF legacy THEN ItemsOf(NmeaOff) ELSE {"all"}}
             messages == LegacyMessages([version |-> version])
             Ubx == {Cmd("ubx", item) : item \in IF ~legacy THEN {"all"} ELSE ItemsOf(messages)}
  <1>1. Required(version) = {Plain("nav5"), Plain("rate")} \cup Sbas \cup Gnss \cup Nmea \cup Ubx
    BY DEF Required
  <1>2. Sbas = SbasTold(g) /\ Gnss = GnssTold(g) BY DEF SbasTold, GnssTold
  <1>3. \A name, items : {Cmd(name, item) : item \in ItemsOf(items)} = First(name, items, Len(items))
    BY DEF ItemsOf, First
  <1>4. legacy = IsLegacyProto(g) BY DEF IsLegacyProto
  <1>5. Nmea = NmeaTold(g) BY <1>3, <1>4 DEF NmeaTold
  <1>6. messages = LegacyMessages(g) BY DEF LegacyMessages
  <1>7. Ubx = UbxTold(g) BY <1>3, <1>4, <1>6 DEF UbxTold
  <1> HIDE DEF Sbas, Gnss, Nmea, Ubx
  <1>8. Told(g, "RECEIVE")
          = NmeaTold(g) \cup UbxTold(g) \cup {Plain("nav5")} \cup SbasTold(g)
              \cup GnssTold(g) \cup {Plain("rate")}
    BY DEF Told
  <1> QED BY <1>1, <1>2, <1>5, <1>7, <1>8

(* A driver that receives has set the module up: a setting is missing only *)
(* where the answer to one command was taken for the answer to another.    *)
THEOREM SettingsComplete == DriverSpec => []ConfigIsComplete
PROOF
  <1>1. DriverInv => ConfigIsComplete
    <2> SUFFICES ASSUME DriverInv, gps.state = "RECEIVE", Configured
                 PROVE  Cardinality(Required(gps.version) \ module.done) <= strays
      BY DEF ConfigIsComplete, Configured
    <2>1. World.gps = gps /\ World.module = module /\ World.strays = strays BY DEF World
    <2>2. OnCourse(World) BY DEF DriverInv, WorldInv
    <2>3. "RECEIVE" \in Setting BY DEF Setting
    <2>4. Reached(World, "RECEIVE", module.done) BY <2>1, <2>2, <2>3 DEF OnCourse
    <2>5. Few(Told(gps, "RECEIVE") \ module.done, strays) BY <2>1, <2>4 DEF Reached
    <2> QED BY <2>5, ToldIsRequired DEF Few
  <1> QED BY <1>1, DriverInvariant, PTL

=============================================================================
