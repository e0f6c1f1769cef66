------------------------- MODULE FlightModes_proofs -------------------------
(***************************************************************************)
(* Proofs about the flight-mode core, for every switch assignment, every   *)
(* failsafe setting and every clock.                                       *)
(***************************************************************************)
EXTENDS FlightModes, TLAPS

-----------------------------------------------------------------------------
(***************************************************************************)
(* Types.                                                                  *)
(***************************************************************************)

(* What the assumptions on the constants give every step. *)
LEMMA ConstantFacts ==
  /\ StageTwoDelay \in Nat /\ StageTwoDelay >= 2
  /\ ClockWrap \in Nat /\ ClockWrap > StageTwoDelay + 1
  /\ Thrust \in Channel
  /\ FrameCap \in Nat
PROOF BY DelayAssumption, WrapAssumption, FramesAssumption
      DEF StageTwoDelay, Channel, FrameCap

(* The initial state is well typed. *)
LEMMA InitTypeOK == Init => TypeOK
PROOF
  <1> SUFFICES ASSUME Init PROVE TypeOK OBVIOUS
  <1>1. ClockTypes BY DEF Init, ClockTypes
  <1>2. ChannelTypes
    <2>1. InitialChannels \in [Channel -> Position] /\ PwmCenter(Thrust) \in Position
      BY DEF InitialChannels, PwmCenter, Position
    <2> QED BY <2>1, ConstantFacts DEF Init, ChannelTypes
  <1>3. LinkTypes BY DEF Init, LinkTypes, Phase
  <1>4. ModeTypes BY DEF Init, ModeTypes, DisarmReason
  <1>5. ActuatorTypes BY DEF Init, ActuatorTypes, RescueMode
  <1>6. fault \subseteq Faults BY DEF Init
  <1> QED BY <1>1, <1>2, <1>3, <1>4, <1>5, <1>6 DEF TypeOK

(* Disarming keeps the mode types. *)
LEMMA DisarmTypes ==
  ASSUME ModeTypes, NEW r \in DisarmReason, Disarm(r)
  PROVE  ModeTypes'
PROOF BY DEF ModeTypes, Disarm

(* A failsafe value is the held position or the configured one. *)
LEMMA FailsafeValueType ==
  ASSUME ChannelTypes, NEW c \in Channel
  PROVE  GetFailsafeValue(c) \in Position
PROOF BY FailsafeValueAssumption DEF GetFailsafeValue, ChannelTypes

(* Whatever readInputs is given has a value in each channel. *)
AnyFrame == [Channel -> Position \cup {Invalid}]

LEMMA FramesAreTyped ==
  ASSUME ChannelTypes, NEW status
  PROVE  FramesWith(status) \subseteq AnyFrame
PROOF
  <1>1. {buffer} \subseteq AnyFrame BY DEF ChannelTypes, AnyFrame
  <1>2. Frames \subseteq AnyFrame BY FramesContent DEF AnyFrame
  <1> QED BY <1>1, <1>2 DEF FramesWith

(* What readInputs leaves behind. *)
LEMMA ReadInputsTypes ==
  ASSUME TypeOK, NEW status, NEW frame \in AnyFrame, ReadInputs(status, frame)
  PROVE  /\ age' \in 0..(ClockWrap - 1)
         /\ frameCount' \in 0..FrameCap
         /\ buffer' \in [Channel -> Position]
PROOF
  <1>1. age' \in 0..(ClockWrap - 1)
    BY ConstantFacts DEF ReadInputs, LossTime, TypeOK, ClockTypes
  <1>2. frameCount' \in 0..FrameCap
    BY ConstantFacts DEF ReadInputs, TypeOK, ChannelTypes
  <1>3. buffer' \in [Channel -> Position]
    <2>1. \A c \in Channel : GetFailsafeValue(c) \in Position
      BY FailsafeValueType DEF TypeOK
    <2>2. \A c \in Channel : frame[c] # Invalid => frame[c] \in Position
      BY DEF AnyFrame
    <2> DEFINE new == [c \in Channel |->
                         IF frame[c] = Invalid THEN GetFailsafeValue(c) ELSE frame[c]]
    <2>3. new \in [Channel -> Position] BY <2>1, <2>2
    <2>4. buffer' = buffer \/ buffer' = new
      BY DEF ReadInputs, ProcessInputs
    <2> QED BY <2>3, <2>4 DEF TypeOK, ChannelTypes
  <1> QED BY <1>1, <1>2, <1>3

(* Filtering a well-typed buffer gives well-typed channels. *)
LEMMA FilterTypes ==
  ASSUME ChannelTypes, buffer' \in [Channel -> Position], NEW status,
         FilterInputs(status)
  PROVE  smoothed' \in Position /\ us' \in [Channel -> Position]
PROOF BY DEF ChannelTypes, FilterInputs, Between

(* Each call of Input::update keeps the types. *)
LEMMA InputTypes ==
  ASSUME TypeOK, NEW status, NEW frame \in AnyFrame, InputUpdate(status, frame)
  PROVE  TypeOK'
PROOF
  <1>1. ReadInputs(status, frame) /\ Failsafe(status) BY DEF InputUpdate
  <1>2. /\ age' \in 0..(ClockWrap - 1)
        /\ frameCount' \in 0..FrameCap
        /\ buffer' \in [Channel -> Position]
    BY <1>1, ReadInputsTypes
  <1>3. ClockTypes' BY <1>2 DEF InputUpdate, TypeOK, ClockTypes
  <1>4. ActuatorTypes' /\ (fault \subseteq Faults)'
    BY DEF InputUpdate, TypeOK, ActuatorTypes, actuatorVars
  <1>5. RxFailSafe(status) \in BOOLEAN /\ RxLoss(status) \in BOOLEAN
    <2>1. rxFailSafe \in BOOLEAN /\ rxLoss \in BOOLEAN BY DEF TypeOK, LinkTypes
    <2>2. (status = "FAILSAFE") \in BOOLEAN /\ (status \in {"LOST", "FAILSAFE"}) \in BOOLEAN
      OBVIOUS
    <2>3. CASE status = "IDLE" BY <2>1, <2>3 DEF RxFailSafe, RxLoss
    <2>4. CASE status # "IDLE" BY <2>2, <2>4, Zenon DEF RxFailSafe, RxLoss
    <2> QED BY <2>3, <2>4
  <1>6. FilterInputs(status) => smoothed' \in Position /\ us' \in [Channel -> Position]
    BY <1>2, FilterTypes DEF TypeOK
  <1>7. FailsafeStage2 => ModeTypes' /\ LinkTypes'
    BY DisarmTypes DEF FailsafeStage2, TypeOK, ModeTypes, LinkTypes, Phase,
                       DisarmReason, modeVars
  <1>8. ModeTypes' /\ LinkTypes' /\ smoothed' \in Position /\ us' \in [Channel -> Position]
    <2>1. CASE SwitchedFailsafe(status)
      BY <2>1, <1>6, <1>7 DEF SwitchedFailsafe
    <2>2. CASE LinkGood(status)
      BY <2>2, <1>6 DEF LinkGood, LinkTypes, Phase, TypeOK, ModeTypes, modeVars
    <2>3. CASE LinkFailsafe(status)
      BY <2>3, <1>7 DEF LinkFailsafe, TypeOK, ChannelTypes
    <2>4. CASE FailsafeStage1(status)
      <3>1. us' \in [Channel -> Position] /\ smoothed' \in Position
        <4>1. \A c \in Channel : GetFailsafeValue(c) \in Position
          BY FailsafeValueType DEF TypeOK
        <4> QED BY <2>4, <4>1 DEF FailsafeStage1, ApplyFailsafeValues, TypeOK, ChannelTypes
      <3> QED
        BY <2>4, <3>1, <1>5
        DEF FailsafeStage1, LinkTypes, Phase, TypeOK, ModeTypes, modeVars
    <2>5. CASE LinkWaiting(status)
      BY <2>5, <1>5, <1>6 DEF LinkWaiting, LinkTypes, TypeOK, ModeTypes, modeVars
    <2> QED BY <1>1, <2>1, <2>2, <2>3, <2>4, <2>5 DEF Failsafe
  <1>9. ChannelTypes' BY <1>2, <1>8 DEF ChannelTypes
  <1> QED BY <1>3, <1>4, <1>8, <1>9 DEF TypeOK

(* The modes asked for and the flags raised are modes and flags. *)
LEMMA ActuatorFacts ==
  ASSUME TypeOK
  PROVE  /\ RequestedModes \subseteq Mode
         /\ GrantedModes \subseteq Mode
         /\ UpdatedFlags \subseteq Flag
PROOF
  <1>1. RequestedModes \subseteq Mode BY ConditionsAssumption DEF RequestedModes
  <1>2. GrantedModes \subseteq Mode BY <1>1 DEF GrantedModes, Mode
  <1>3. UpdateArmingDisabled \subseteq Flag
    BY DEF UpdateArmingDisabled, Monitored, TypeOK, ActuatorTypes, Flag
  <1>4. UpdatedFlags \subseteq Flag
    BY <1>3 DEF UpdatedFlags, ArmSwitchFlag, SetArmingDisabled, Flag
  <1> QED BY <1>1, <1>2, <1>4

(* Each call of Actuator::update keeps the types. *)
LEMMA ActuatorTypesKept ==
  ASSUME TypeOK, ActuatorUpdate
  PROVE  TypeOK'
PROOF
  <1>1. ClockTypes' BY DEF ActuatorUpdate, TypeOK, ClockTypes
  <1>2. ChannelTypes' BY DEF ActuatorUpdate, TypeOK, ChannelTypes, channelVars
  <1>3. LinkTypes' BY DEF ActuatorUpdate, TypeOK, LinkTypes, linkVars
  <1>4. ModeTypes'
    BY ActuatorFacts
    DEF ActuatorUpdate, UpdateModeMask, UpdateArmed, TypeOK, ModeTypes, DisarmReason
  <1>5. ActuatorTypes'
    <2>1. flags' \subseteq Flag /\ maskSwitch' \subseteq Mode
      BY ActuatorFacts DEF ActuatorUpdate, UpdateModeMask
    <2>2. airmodeAllowed' \in BOOLEAN
      BY DEF ActuatorUpdate, UpdateAirMode
    <2>3. rescue' \in RescueMode
      BY DEF ActuatorUpdate, UpdateRescueConfig, RescueMode, TypeOK, ActuatorTypes
    <2> QED BY <2>1, <2>2, <2>3 DEF ActuatorTypes
  <1>6. (fault \subseteq Faults)' BY DEF ActuatorUpdate, TypeOK
  <1> QED BY <1>1, <1>2, <1>3, <1>4, <1>5, <1>6 DEF TypeOK

(* Every step keeps the types. *)
LEMMA NextTypeOK == TypeOK /\ [Next]_vars => TypeOK'
PROOF
  <1> SUFFICES ASSUME TypeOK, [Next]_vars PROVE TypeOK' OBVIOUS
  <1>1. CASE InputStep
    <2>1. ChannelTypes BY DEF TypeOK
    <2> QED BY <1>1, <2>1, InputTypes, FramesAreTyped DEF InputStep
  <1> USE DEF TypeOK, ClockTypes, ChannelTypes, LinkTypes, ModeTypes, ActuatorTypes,
              clockVars, channelVars, linkVars, modeVars, actuatorVars
  <1>2. CASE ActuatorUpdate
    BY <1>2, ActuatorTypesKept
  <1>3. CASE Tick
    <2>1. (age + 1) % ClockWrap \in 0..(ClockWrap - 1) BY ConstantFacts
    <2> QED BY <1>3, <2>1, FaultsAssumption DEF Tick
  <1>4. CASE Radio
    BY <1>4 DEF Radio
  <1>5. CASE FaultChange
    BY <1>5 DEF FaultChange
  <1>6. CASE MspSetArmingDisabled
    BY <1>6 DEF MspSetArmingDisabled, SetArmingDisabled, Flag, Disarm, DisarmReason
  <1>7. CASE EnterCli
    BY <1>7 DEF EnterCli, SetArmingDisabled, Flag
  <1>8. CASE PosHoldBail
    BY <1>8 DEF PosHoldBail, ClearMode
  <1>9. CASE UNCHANGED vars
    BY <1>9 DEF vars
  <1> QED BY <1>1, <1>2, <1>3, <1>4, <1>5, <1>6, <1>7, <1>8, <1>9 DEF Next

(* Every variable stays within its type. *)
THEOREM TypeCorrect == Spec => []TypeOK
PROOF
  <1> QED BY InitTypeOK, NextTypeOK, PTL DEF Spec

-----------------------------------------------------------------------------
(***************************************************************************)
(* The inductive invariant.                                                *)
(***************************************************************************)
(* The initial state is safe: nothing is armed, heard or latched. *)
LEMMA InitSafety == Init => SafetyInvariant
PROOF
  <1> SUFFICES ASSUME Init PROVE SafetyInvariant OBVIOUS
  <1>1. TypeOK BY InitTypeOK
  <1> QED
    BY <1>1
    DEF Init, SafetyInvariant, FailsafeMeansDisarmed, LossDetected, LossDisarms,
        FlownIsLatched, ReasonIsFresh, ArmedIsSwitched, ArmedGaveUpRescue, IsModeActive

(* Disarming makes every "while armed" fact true. *)
LEMMA DisarmClearsArmed ==
  ASSUME NEW r, Disarm(r)
  PROVE  "ARMED" \notin mask'
PROOF BY DEF Disarm

(* A step of Input::update: it never arms, and it disarms on failsafe. *)
LEMMA InputSafety ==
  ASSUME SafetyInvariant, NEW status \in Status, NEW frame \in AnyFrame,
         InputUpdate(status, frame)
  PROVE  SafetyInvariant'
PROOF
  <1>1. TypeOK' BY InputTypes DEF SafetyInvariant
  <1>2. Failsafe(status) /\ age' = LossTime(status)
        /\ UNCHANGED <<flags, maskSwitch, airmodeAllowed, rescue>>
    BY DEF InputUpdate, ReadInputs, actuatorVars
  <1>3. FailsafeStage2 => /\ "ARMED" \notin mask'
                          /\ phase' # "IDLE"
    BY DisarmClearsArmed DEF FailsafeStage2, IsModeActive, modeVars
  <1>4. /\ "ARMED" \in mask' => "ARMED" \in mask /\ ~rxFailSafe' /\ disarmReason' = disarmReason
        /\ age' >= 2 => phase' # "IDLE"
        /\ age' > StageTwoDelay => "ARMED" \notin mask'
    <2>1. CASE SwitchedFailsafe(status)
      BY <2>1, <1>3 DEF SwitchedFailsafe
    <2>2. CASE LinkGood(status)
      BY <2>2, <1>2, ConstantFacts DEF LinkGood, LossTime, modeVars
    <2>3. CASE LinkFailsafe(status)
      BY <2>3, <1>3 DEF LinkFailsafe
    <2>4. CASE FailsafeStage1(status)
      <3>1. status = "IDLE" /\ rxFailSafe' = rxFailSafe /\ age' <= StageTwoDelay
        BY <2>4, <1>2, ConstantFacts
        DEF FailsafeStage1, LossTime, RxFailSafe, LinkFailed, SafetyInvariant,
            TypeOK, ClockTypes
      <3>2. ~(age' > StageTwoDelay)
        BY <3>1, <1>1, ConstantFacts DEF TypeOK, ClockTypes
      <3>3. mask' = mask /\ disarmReason' = disarmReason /\ phase' # "IDLE"
        BY <2>4 DEF FailsafeStage1, modeVars
      <3> QED
        BY <3>1, <3>2, <3>3 DEF SafetyInvariant, FailsafeMeansDisarmed, IsModeActive
    <2>5. CASE LinkWaiting(status)
      <3>1. age' < 2 /\ (rxFailSafe' => rxFailSafe)
        BY <2>5, <1>2 DEF LinkWaiting, LinkFailed, RxFailSafe
      <3> QED
        BY <2>5, <3>1, ConstantFacts, <1>1
        DEF LinkWaiting, modeVars, SafetyInvariant, FailsafeMeansDisarmed, IsModeActive,
            TypeOK, ClockTypes
    <2> QED BY <1>2, <2>1, <2>2, <2>3, <2>4, <2>5 DEF Failsafe
  <1> QED
    BY <1>1, <1>2, <1>4
    DEF SafetyInvariant, FailsafeMeansDisarmed, LossDetected, LossDisarms, FlownIsLatched,
        ReasonIsFresh, ArmedIsSwitched, ArmedGaveUpRescue, IsModeActive, IsSwitchActive

(***************************************************************************)
(* A step of Actuator::update that finds the craft armed afterwards either *)
(* found it armed, or met every condition of ArmsOnlyWhenSafe.             *)
(***************************************************************************)
LEMMA ArmingConditions ==
  ASSUME ActuatorUpdate, ~IsModeActive("ARMED"), "ARMED" \in mask'
  PROVE  /\ "ARMED" \in RequestedModes
         /\ UpdatedFlags = {} /\ flags' = {}
         /\ IsThrottleLow
PROOF BY DEF ActuatorUpdate, UpdateModeMask, GrantedModes, CanActivateMode, IsModeActive

(* With no flag raised, nothing that the flags watch is amiss. *)
LEMMA NoFlagMeansSafe ==
  ASSUME UpdatedFlags = {}
  PROVE  /\ phase = "IDLE" /\ ~rxLoss /\ ~rxFailSafe
         /\ fault \cap ArmingFault = {}
         /\ {"MSP", "CLI"} \cap flags = {}
         /\ rescue # "ACTIVE"
         /\ "FAILSAFE" \notin RequestedModes
PROOF
  <1>1. \A f \in Flag \ {"ARM_SWITCH", "BOXFAILSAFE"} : f \notin UpdateArmingDisabled
    BY DEF UpdatedFlags, ArmSwitchFlag, SetArmingDisabled
  <1>2. "FAILSAFE" \notin RequestedModes
    BY DEF UpdatedFlags, ArmSwitchFlag, SetArmingDisabled
  <1>3. \A f \in DOMAIN Monitored : ~Monitored[f]
    BY <1>1 DEF UpdateArmingDisabled, Monitored, Flag
  <1>4. {"MSP", "CLI"} \cap flags = {}
    BY <1>1 DEF UpdateArmingDisabled, Monitored, Flag
  <1> QED BY <1>2, <1>3, <1>4 DEF Monitored, ArmingFault

(* ARM_SWITCH stays raised while the switch is on. *)
LEMMA LatchHolds ==
  ASSUME "ARM_SWITCH" \in flags, "ARMED" \in RequestedModes
  PROVE  "ARM_SWITCH" \in UpdatedFlags
PROOF BY DEF UpdatedFlags, ArmSwitchFlag, SetArmingDisabled, UpdateArmingDisabled, Monitored

(* Thrust raised while the arm switch is on raises ARM_SWITCH. *)
LEMMA ThrottleLatches ==
  ASSUME us[Thrust] = 2, "ARMED" \in RequestedModes
  PROVE  "ARM_SWITCH" \in UpdatedFlags
PROOF
  <1>1. "THROTTLE" \in DOMAIN Monitored BY DEF Monitored
  <1>2. ~IsThrottleLow BY DEF IsThrottleLow
  <1>3. Monitored["THROTTLE"] BY <1>2 DEF Monitored
  <1>4. "THROTTLE" \in UpdateArmingDisabled BY <1>1, <1>3 DEF UpdateArmingDisabled
  <1> QED BY <1>4 DEF UpdatedFlags, ArmSwitchFlag, SetArmingDisabled

(* A step of Actuator::update. *)
LEMMA ActuatorSafety ==
  ASSUME SafetyInvariant, ActuatorUpdate
  PROVE  SafetyInvariant'
PROOF
  <1> USE DEF IsModeActive, IsSwitchActive
  <1>1. TypeOK' BY ActuatorTypesKept DEF SafetyInvariant
  <1>2. /\ UNCHANGED <<age, inputDue, us, rxFailSafe, phase>>
        /\ flags' = UpdatedFlags /\ maskSwitch' = RequestedModes
        /\ mask' = GrantedModes /\ maskPrev' = mask
    BY DEF ActuatorUpdate, UpdateModeMask, channelVars, linkVars
  <1>3. "ARMED" \in mask' => "ARMED" \in RequestedModes
    BY <1>2 DEF GrantedModes
  <1>4. "ARMED" \in mask' => "ARMED" \in mask \/ (phase = "IDLE" /\ ~rxFailSafe)
    BY ArmingConditions, NoFlagMeansSafe
  <1>5. FailsafeMeansDisarmed'
    BY <1>2, <1>4 DEF SafetyInvariant, FailsafeMeansDisarmed
  <1>6. LossDetected' /\ LossDisarms'
    <2>1. LossDetected' BY <1>2 DEF SafetyInvariant, LossDetected
    <2>2. ASSUME age > StageTwoDelay, ~inputDue PROVE "ARMED" \notin mask'
      <3>1. age >= 2 BY <2>2, ConstantFacts DEF SafetyInvariant, TypeOK, ClockTypes
      <3>2. phase # "IDLE" BY <3>1, <2>2 DEF SafetyInvariant, LossDetected
      <3> QED BY <2>2, <3>2, <1>4 DEF SafetyInvariant, LossDisarms
    <2> QED BY <1>2, <2>1, <2>2 DEF LossDisarms
  <1>7. FlownIsLatched'
    <2> SUFFICES ASSUME airmodeAllowed' PROVE "ARM_SWITCH" \in UpdatedFlags
      BY <1>2 DEF FlownIsLatched
    <2>1. "ARMED" \in mask' /\ (airmodeAllowed \/ us[Thrust] = 2)
      BY DEF ActuatorUpdate, UpdateAirMode
    <2>2. CASE us[Thrust] = 2 BY <2>1, <2>2, <1>3, ThrottleLatches
    <2>3. CASE airmodeAllowed
      BY <2>1, <2>3, <1>3, LatchHolds DEF SafetyInvariant, FlownIsLatched
    <2> QED BY <2>1, <2>2, <2>3
  <1>8. ReasonIsFresh' /\ ArmedGaveUpRescue'
    <2> SUFFICES ASSUME "ARMED" \in mask'
                 PROVE  disarmReason' = "SYSTEM" /\ rescue' = "DISABLED"
      BY DEF ReasonIsFresh, ArmedGaveUpRescue
    <2>1. CASE "ARMED" \in mask
      BY <2>1, <1>2
      DEF SafetyInvariant, ReasonIsFresh, ArmedGaveUpRescue, ActuatorUpdate,
          UpdateArmed, UpdateRescueConfig, ArmedChanged
    <2>2. CASE "ARMED" \notin mask
      BY <2>2, <1>2 DEF ActuatorUpdate, UpdateArmed, UpdateRescueConfig, ArmedChanged
    <2> QED BY <2>1, <2>2
  <1>9. ArmedIsSwitched' BY <1>2, <1>3 DEF ArmedIsSwitched
  <1> QED BY <1>1, <1>5, <1>6, <1>7, <1>8, <1>9 DEF SafetyInvariant

(* Every step keeps the invariant. *)
LEMMA NextSafety == SafetyInvariant /\ [Next]_vars => SafetyInvariant'
PROOF
  <1> SUFFICES ASSUME SafetyInvariant, [Next]_vars PROVE SafetyInvariant' OBVIOUS
  <1> USE DEF FailsafeMeansDisarmed, LossDetected, LossDisarms, FlownIsLatched,
              ReasonIsFresh, ArmedIsSwitched, ArmedGaveUpRescue, IsModeActive,
              IsSwitchActive, clockVars, channelVars, linkVars, modeVars, actuatorVars
  <1>1. TypeOK' BY NextTypeOK DEF SafetyInvariant
  <1>2. CASE InputStep
    BY <1>2, InputSafety, FramesAreTyped DEF InputStep, ReceiverStatus, Status, SafetyInvariant, TypeOK
  <1>3. CASE ActuatorUpdate
    BY <1>3, ActuatorSafety
  <1>4. CASE Tick
    BY <1>1, <1>4 DEF Tick, SafetyInvariant
  <1>5. CASE Radio
    BY <1>1, <1>5 DEF Radio, SafetyInvariant
  <1>6. CASE FaultChange
    BY <1>1, <1>6 DEF FaultChange, SafetyInvariant
  <1>7. CASE MspSetArmingDisabled
    <2>1. "ARMED" \notin mask'
      BY <1>7, DisarmClearsArmed DEF MspSetArmingDisabled
    <2>2. "ARM_SWITCH" \in flags => "ARM_SWITCH" \in flags'
      BY <1>7 DEF MspSetArmingDisabled, SetArmingDisabled
    <2> QED BY <1>1, <1>7, <2>1, <2>2 DEF MspSetArmingDisabled, SafetyInvariant
  <1>8. CASE EnterCli
    BY <1>1, <1>8 DEF EnterCli, SetArmingDisabled, SafetyInvariant
  <1>9. CASE PosHoldBail
    BY <1>1, <1>9 DEF PosHoldBail, ClearMode, SafetyInvariant
  <1>10. CASE UNCHANGED vars
    BY <1>1, <1>10 DEF vars, SafetyInvariant
  <1> QED BY <1>2, <1>3, <1>4, <1>5, <1>6, <1>7, <1>8, <1>9, <1>10 DEF Next

LEMMA SafetyHolds == Spec => []SafetyInvariant
PROOF BY InitSafety, NextSafety, PTL DEF Spec

-----------------------------------------------------------------------------
(***************************************************************************)
(* The properties.                                                         *)
(***************************************************************************)

(* Stage 2 disarms and nothing arms the craft while it lasts; a link that  *)
(* is silent for longer than the stage 2 timeout finds the craft disarmed. *)
THEOREM LinkLossDisarms == Spec => []FailedLinkDisarms
PROOF
  <1>1. SafetyInvariant => FailedLinkDisarms BY DEF SafetyInvariant, FailedLinkDisarms
  <1> QED BY <1>1, SafetyHolds, PTL

(* A craft that has flown carries the latch. *)
THEOREM FlownLatches == Spec => []FlownIsLatched
PROOF
  <1>1. SafetyInvariant => FlownIsLatched BY DEF SafetyInvariant
  <1> QED BY <1>1, SafetyHolds, PTL

(* The reason of the next disarm is never an older one. *)
THEOREM ReasonStaysFresh == Spec => []ReasonIsFresh
PROOF
  <1>1. SafetyInvariant => ReasonIsFresh BY DEF SafetyInvariant
  <1> QED BY <1>1, SafetyHolds, PTL

(* Of all steps only Actuator::update arms. *)
LEMMA OnlyActuatorArms ==
  ASSUME SafetyInvariant, [Next]_vars, ~IsModeActive("ARMED"), "ARMED" \in mask'
  PROVE  ActuatorUpdate
PROOF
  <1> USE DEF IsModeActive, modeVars, Disarm
  <1>1. CASE InputStep
    BY <1>1 DEF InputStep, InputUpdate, Failsafe, SwitchedFailsafe, LinkGood, LinkFailsafe,
                FailsafeStage1, LinkWaiting, FailsafeStage2
  <1>2. CASE Tick BY <1>2 DEF Tick
  <1>3. CASE Radio BY <1>3 DEF Radio
  <1>4. CASE FaultChange BY <1>4 DEF FaultChange
  <1>5. CASE MspSetArmingDisabled BY <1>5 DEF MspSetArmingDisabled
  <1>6. CASE EnterCli BY <1>6 DEF EnterCli
  <1>7. CASE PosHoldBail BY <1>7 DEF PosHoldBail, ClearMode
  <1>8. CASE UNCHANGED vars BY <1>8 DEF vars
  <1> QED BY <1>1, <1>2, <1>3, <1>4, <1>5, <1>6, <1>7, <1>8 DEF Next

(* Arming happens only when nothing the craft monitors is amiss. *)
THEOREM ArmingIsSafe == Spec => ArmsOnlyWhenSafe
PROOF
  <1> DEFINE Safe == /\ phase = "IDLE" /\ ~rxLoss /\ ~rxFailSafe
                     /\ IsThrottleLow
                     /\ fault \cap ArmingFault = {}
                     /\ {"MSP", "CLI"} \cap flags = {}
                     /\ "FAILSAFE" \notin maskSwitch'
                     /\ rescue # "ACTIVE"
  <1>1. SafetyInvariant /\ [Next]_vars
          => [(~IsModeActive("ARMED") /\ "ARMED" \in mask') => Safe]_vars
    <2> SUFFICES ASSUME SafetyInvariant, [Next]_vars, ~IsModeActive("ARMED"), "ARMED" \in mask'
                 PROVE  Safe
      OBVIOUS
    <2>1. ActuatorUpdate BY OnlyActuatorArms
    <2>2. UpdatedFlags = {} /\ IsThrottleLow BY <2>1, ArmingConditions
    <2>3. maskSwitch' = RequestedModes BY <2>1 DEF ActuatorUpdate, UpdateModeMask
    <2> QED BY <2>2, <2>3, NoFlagMeansSafe
  <1> QED BY <1>1, SafetyHolds, PTL DEF Spec, ArmsOnlyWhenSafe

(* The access point, once open, stays open on the ground. *)
THEOREM RescueStays == Spec => RescueIsFinal
PROOF
  <1> USE DEF IsModeActive
  <1> DEFINE Final == rescue = "ACTIVE" => rescue' = "ACTIVE" /\ "ARMED" \notin mask'
  <1>1. SafetyInvariant /\ [Next]_vars => [Final]_vars
    <2> SUFFICES ASSUME SafetyInvariant, [Next]_vars, rescue = "ACTIVE"
                 PROVE  rescue' = "ACTIVE" /\ "ARMED" \notin mask'
      OBVIOUS
    <2>1. ~IsModeActive("ARMED") BY DEF SafetyInvariant, ArmedGaveUpRescue
    <2>2. "ARMED" \notin mask'
      <3> SUFFICES ASSUME "ARMED" \in mask' PROVE FALSE OBVIOUS
      <3>1. ActuatorUpdate BY <2>1, OnlyActuatorArms
      <3>2. UpdatedFlags = {} /\ IsThrottleLow BY <2>1, <3>1, ArmingConditions
      <3> QED BY <3>2, NoFlagMeansSafe
    <2>3. CASE ActuatorUpdate
      BY <2>2, <2>3 DEF ActuatorUpdate, UpdateRescueConfig
    <2>4. CASE ~ActuatorUpdate
      <3>1. rescue' = rescue
        BY <2>4
        DEF Next, vars, actuatorVars, InputStep, InputUpdate, Tick, Radio, FaultChange,
            MspSetArmingDisabled, EnterCli, PosHoldBail
      <3> QED BY <2>2, <3>1
    <2> QED BY <2>2, <2>3, <2>4
  <1> QED BY <1>1, SafetyHolds, PTL DEF Spec, RescueIsFinal

(* The latch outlives every change but the arm switch itself. *)
THEOREM LatchNeedsSwitchOff == Spec => RearmNeedsSwitchOff
PROOF
  <1> DEFINE Held == ("ARM_SWITCH" \in flags /\ "ARMED" \in maskSwitch' /\ ~IsModeActive("ARMED"))
                       => ("ARMED" \notin mask' /\ "ARM_SWITCH" \in flags')
  <1>1. SafetyInvariant /\ [Next]_vars => [Held]_vars
    <2> SUFFICES ASSUME SafetyInvariant, [Next]_vars, "ARM_SWITCH" \in flags,
                        "ARMED" \in maskSwitch', ~IsModeActive("ARMED")
                 PROVE  "ARMED" \notin mask' /\ "ARM_SWITCH" \in flags'
      OBVIOUS
    <2>1. CASE ActuatorUpdate
      <3>1. flags' = UpdatedFlags /\ maskSwitch' = RequestedModes
        BY <2>1 DEF ActuatorUpdate, UpdateModeMask
      <3>2. "ARM_SWITCH" \in flags' BY <3>1, LatchHolds
      <3> QED BY <2>1, <3>1, <3>2, ArmingConditions
    <2>2. CASE ~ActuatorUpdate
      <3>1. "ARMED" \notin mask' BY <2>2, OnlyActuatorArms
      <3>2. "ARM_SWITCH" \in flags'
        BY <2>2
        DEF Next, vars, actuatorVars, InputStep, InputUpdate, Tick, Radio, FaultChange,
            MspSetArmingDisabled, EnterCli, PosHoldBail, SetArmingDisabled
      <3> QED BY <3>1, <3>2
    <2> QED BY <2>1, <2>2
  <1> QED BY <1>1, SafetyHolds, PTL DEF Spec, RearmNeedsSwitchOff

(* The log names the real cause of a disarm. *)
THEOREM ReasonIsTrue == Spec => DisarmReasonTruthful
PROOF
  <1> USE DEF IsModeActive, IsSwitchActive
  <1> DEFINE Truthful == (IsModeActive("ARMED") /\ "ARMED" \notin mask') =>
                           disarmReason' = IF rxFailSafe' THEN "FAILSAFE"
                                           ELSE IF "ARMED" \in maskSwitch' THEN "ARMING_DISABLED"
                                           ELSE "SWITCH"
  <1>1. SafetyInvariant /\ [Next]_vars => [Truthful]_vars
    <2> SUFFICES ASSUME SafetyInvariant, [Next]_vars, "ARMED" \in mask, "ARMED" \notin mask'
                 PROVE  disarmReason' = IF rxFailSafe' THEN "FAILSAFE"
                                        ELSE IF "ARMED" \in maskSwitch' THEN "ARMING_DISABLED"
                                        ELSE "SWITCH"
      BY DEF IsModeActive
    <2>1. ~rxFailSafe /\ disarmReason = "SYSTEM" /\ "ARMED" \in maskSwitch
      BY DEF SafetyInvariant, FailsafeMeansDisarmed, ReasonIsFresh, ArmedIsSwitched
    <2>2. CASE InputStep
      BY <2>2 DEF InputStep, InputUpdate, Failsafe, SwitchedFailsafe, LinkGood, LinkFailsafe,
                  FailsafeStage1, LinkWaiting, FailsafeStage2, Disarm, modeVars
    <2>3. CASE ActuatorUpdate
      <3>1. "ARMED" \notin maskSwitch'
        BY <2>3 DEF ActuatorUpdate, UpdateModeMask, GrantedModes
      <3> QED
        BY <2>1, <2>3, <3>1
        DEF ActuatorUpdate, UpdateArmed, ArmedChanged, UpdateModeMask, linkVars
    <2>4. CASE MspSetArmingDisabled
      BY <2>1, <2>4 DEF MspSetArmingDisabled, Disarm, linkVars
    <2> QED
      BY <2>2, <2>3, <2>4
      DEF Next, vars, modeVars, Tick, Radio, FaultChange, EnterCli, PosHoldBail, ClearMode
  <1> QED BY <1>1, SafetyHolds, PTL DEF Spec, DisarmReasonTruthful

-----------------------------------------------------------------------------
(***************************************************************************)
(* From boot to the receiver's first frames.                               *)
(***************************************************************************)

(* Until then every switch that holds its value stands at its centre.  An   *)
(* arm switch that reads as on there is latched by the first update that    *)
(* sees the boot calibration, and the calibration lasts until it is seen.    *)
FramesAwaited == frameCount < GarbageFrames /\ \A c \in Aux : FailsafeValue[c] = Hold

SwitchesCentred == \A c \in Aux : buffer[c] = PwmCenter(c) /\ us[c] = PwmCenter(c)

BootLatched ==
  \/ "CALIBRATING" \in fault /\ "CALIBRATING" \notin flags
  \/ "ARM_SWITCH" \in flags

BootInvariant ==
  FramesAwaited =>
    /\ SwitchesCentred
    /\ ~IsModeActive("ARMED")
    /\ "ARMED" \in RequestedModes => BootLatched

(* Nothing is armed at boot, and the gyro is being calibrated. *)
LEMMA InitBoot == Init => BootInvariant
PROOF
  BY BootAssumption
  DEF Init, BootInvariant, FramesAwaited, SwitchesCentred, BootLatched, InitialChannels,
      Channel, IsModeActive

(* What the switches ask for depends on their channels alone. *)
LEMMA RequestsFollowChannels ==
  ASSUME \A c \in Aux : us'[c] = us[c]
  PROVE  RequestedModes' = RequestedModes
PROOF
  <1>1. \A d \in Conditions : us'[d.ch] = us[d.ch] BY ConditionsAssumption
  <1> QED BY <1>1 DEF RequestedModes

(* A step of Input::update reads the switches where they stood. *)
LEMMA InputBoot ==
  ASSUME SafetyInvariant, BootInvariant, FramesAwaited', NEW status, NEW frame,
         InputUpdate(status, frame)
  PROVE  BootInvariant'
PROOF
  <1> USE DEF IsModeActive
  <1>1. FramesAwaited /\ buffer' = buffer
    <2>1. frameCount \in Nat BY ConstantFacts DEF SafetyInvariant, TypeOK, ChannelTypes
    <2> QED
      BY <2>1, FramesAssumption DEF InputUpdate, ReadInputs, ProcessInputs, FramesAwaited
  <1>2. SwitchesCentred /\ "ARMED" \notin mask BY <1>1 DEF BootInvariant
  <1>3. Thrust \notin Aux /\ Aux \subseteq Channel BY AuxAssumption DEF Channel
  <1>4. ASSUME NEW c \in Aux PROVE us'[c] = us[c]
    <2>1. FilterInputs(status) => us'[c] = us[c]
      BY <1>1, <1>2, <1>3 DEF FilterInputs, SwitchesCentred
    <2>2. ApplyFailsafeValues => us'[c] = us[c]
      BY <1>1, <1>2, <1>3 DEF ApplyFailsafeValues, GetFailsafeValue, SwitchesCentred, FramesAwaited
    <2> QED
      BY <2>1, <2>2
      DEF InputUpdate, Failsafe, SwitchedFailsafe, LinkGood, LinkFailsafe, FailsafeStage1,
          LinkWaiting
  <1>5. "ARMED" \notin mask'
    BY <1>2
    DEF InputUpdate, Failsafe, SwitchedFailsafe, LinkGood, LinkFailsafe, FailsafeStage1,
        LinkWaiting, FailsafeStage2, Disarm, modeVars
  <1>6. UNCHANGED <<fault, flags>> BY DEF InputUpdate, actuatorVars
  <1>7. RequestedModes' = RequestedModes BY <1>4, RequestsFollowChannels
  <1> QED
    BY <1>1, <1>2, <1>4, <1>5, <1>6, <1>7 DEF BootInvariant, SwitchesCentred, BootLatched

(* A step of Actuator::update latches what the boot calibration refuses. *)
LEMMA ActuatorBoot ==
  ASSUME BootInvariant, FramesAwaited', ActuatorUpdate
  PROVE  BootInvariant'
PROOF
  <1> USE DEF IsModeActive
  <1>1. /\ FramesAwaited /\ UNCHANGED <<buffer, us, fault>>
        /\ flags' = UpdatedFlags /\ mask' = GrantedModes
    BY DEF ActuatorUpdate, UpdateModeMask, channelVars, FramesAwaited
  <1>2. SwitchesCentred /\ "ARMED" \notin mask BY <1>1 DEF BootInvariant
  <1>3. RequestedModes' = RequestedModes BY <1>1, RequestsFollowChannels
  <1>4. ASSUME "ARMED" \in RequestedModes PROVE "ARM_SWITCH" \in UpdatedFlags
    <2>1. CASE "ARM_SWITCH" \in flags BY <1>4, <2>1, LatchHolds
    <2>2. CASE "CALIBRATING" \in fault
      <3>1. "CALIBRATING" \in UpdateArmingDisabled BY <2>2 DEF UpdateArmingDisabled, Monitored
      <3> QED BY <1>4, <3>1 DEF UpdatedFlags, ArmSwitchFlag, SetArmingDisabled
    <2> QED BY <1>1, <1>4, <2>1, <2>2 DEF BootInvariant, BootLatched
  <1>5. "ARMED" \notin mask'
    <2> SUFFICES ASSUME "ARMED" \in mask' PROVE FALSE OBVIOUS
    <2>1. "ARMED" \in RequestedModes /\ UpdatedFlags = {} BY <1>2, ArmingConditions
    <2> QED BY <1>4, <2>1
  <1> QED
    BY <1>1, <1>2, <1>3, <1>4, <1>5 DEF BootInvariant, SwitchesCentred, BootLatched

(* Every step keeps the boot invariant. *)
LEMMA NextBoot == SafetyInvariant /\ BootInvariant /\ [Next]_vars => BootInvariant'
PROOF
  <1> SUFFICES ASSUME SafetyInvariant, BootInvariant, [Next]_vars, FramesAwaited'
               PROVE  BootInvariant'
    BY DEF BootInvariant
  <1>1. CASE InputStep
    BY <1>1, InputBoot DEF InputStep
  <1>2. CASE ActuatorUpdate
    BY <1>2, ActuatorBoot
  <1>3. ASSUME UNCHANGED channelVars,
               "ARMED" \notin mask => "ARMED" \notin mask',
               BootLatched => BootLatched'
        PROVE  BootInvariant'
    <2>1. RequestedModes' = RequestedModes BY <1>3 DEF RequestedModes, channelVars
    <2> QED
      BY <1>3, <2>1 DEF BootInvariant, FramesAwaited, SwitchesCentred, IsModeActive, channelVars
  <1>4. CASE FaultChange
    <2>1. BootLatched => BootLatched'
      BY <1>4 DEF FaultChange, BootLatched, actuatorVars
    <2> QED BY <1>3, <1>4, <2>1 DEF FaultChange, modeVars
  <1>5. CASE Tick \/ Radio \/ UNCHANGED vars
    BY <1>3, <1>5 DEF Tick, Radio, vars, BootLatched, modeVars, actuatorVars
  <1>6. CASE MspSetArmingDisabled
    <2>1. BootLatched => BootLatched'
      BY <1>6 DEF MspSetArmingDisabled, BootLatched, SetArmingDisabled
    <2> QED BY <1>3, <1>6, <2>1 DEF MspSetArmingDisabled, Disarm, modeVars
  <1>7. CASE EnterCli
    <2>1. BootLatched => BootLatched'
      BY <1>7 DEF EnterCli, BootLatched, SetArmingDisabled
    <2> QED BY <1>3, <1>7, <2>1 DEF EnterCli, modeVars
  <1>8. CASE PosHoldBail
    BY <1>3, <1>8 DEF PosHoldBail, ClearMode, BootLatched, actuatorVars
  <1> QED BY <1>1, <1>2, <1>4, <1>5, <1>6, <1>7, <1>8 DEF Next

(* No switch arms the craft before the receiver's frames count: neither the *)
(* centre at which every channel boots (Input::begin) nor the end of the    *)
(* boot calibration does (Actuator::updateArmingDisabled).                  *)
THEOREM BootStaysDisarmed == Spec => []NoArmBeforeFrames
PROOF
  <1>1. BootInvariant => NoArmBeforeFrames
    BY DEF BootInvariant, FramesAwaited, NoArmBeforeFrames
  <1> QED BY <1>1, InitBoot, NextBoot, SafetyHolds, PTL DEF Spec

-----------------------------------------------------------------------------
(***************************************************************************)
(* The core implements the pilot's contract.                               *)
(***************************************************************************)

(* Every call of Input::update is a verdict on the link. *)
LEMMA InputJudges ==
  ASSUME SafetyInvariant, SafetyInvariant', InputStep
  PROVE  Contract!Judge
PROOF
  <1> USE DEF IsModeActive, IsSwitchActive
  <1>1. PICK status \in ReceiverStatus : \E frame \in FramesWith(status) : InputUpdate(status, frame)
    BY DEF InputStep
  <1>2. LinkVerdict' \in Contract!Verdict BY DEF LinkVerdict, Contract!Verdict
  <1>3. UNCHANGED <<flags, maskSwitch>> BY <1>1 DEF InputUpdate, actuatorVars
  <1>4. ("ARMED" \in mask') = ("ARMED" \in mask /\ LinkVerdict' # "failed")
    <2>1. CASE rxFailSafe'
      <3>1. "ARMED" \notin mask' BY <2>1 DEF SafetyInvariant, FailsafeMeansDisarmed
      <3> QED BY <2>1, <3>1 DEF LinkVerdict
    <2>2. CASE ~rxFailSafe'
      <3>1. LinkVerdict' # "failed" BY <2>2 DEF LinkVerdict
      <3>2. UNCHANGED modeVars
        BY <1>1, <2>2
        DEF InputUpdate, Failsafe, SwitchedFailsafe, LinkGood, LinkFailsafe,
            FailsafeStage1, LinkWaiting, FailsafeStage2
      <3> QED BY <3>1, <3>2 DEF modeVars
    <2> QED BY <2>1, <2>2
  <1> QED BY <1>2, <1>3, <1>4 DEF Contract!Judge

(* Every call of Actuator::update shows the craft its arm switch. *)
LEMMA ActuatorFollowsSwitch ==
  ASSUME SafetyInvariant, ActuatorUpdate
  PROVE  Contract!Arm \/ Contract!SwitchOn \/ Contract!SwitchOff
PROOF
  <1> USE DEF IsModeActive, IsSwitchActive
  <1>1. /\ flags' = UpdatedFlags /\ maskSwitch' = RequestedModes /\ mask' = GrantedModes
        /\ UNCHANGED LinkVerdict
    BY DEF ActuatorUpdate, UpdateModeMask, linkVars, LinkVerdict
  <1>2. CASE "ARMED" \notin RequestedModes
    <2>1. "ARMED" \notin mask' BY <1>1, <1>2 DEF GrantedModes
    <2>2. "ARM_SWITCH" \notin flags'
      BY <1>1, <1>2 DEF UpdatedFlags, ArmSwitchFlag, SetArmingDisabled
    <2> QED BY <1>1, <1>2, <2>1, <2>2 DEF Contract!SwitchOff
  <1>3. CASE "ARMED" \in RequestedModes /\ ~("ARMED" \notin mask /\ "ARMED" \in mask')
    <2>1. ("ARMED" \in mask') = ("ARMED" \in mask) BY <1>1, <1>3 DEF GrantedModes
    <2>2. "ARM_SWITCH" \in flags => "ARM_SWITCH" \in flags' BY <1>1, <1>3, LatchHolds
    <2> QED BY <1>1, <1>3, <2>1, <2>2 DEF Contract!SwitchOn
  <1>4. CASE "ARMED" \in RequestedModes /\ "ARMED" \notin mask /\ "ARMED" \in mask'
    <2>1. UpdatedFlags = {} /\ flags' = {} BY <1>4, ArmingConditions
    <2>2. "ARM_SWITCH" \notin flags BY <1>4, <2>1, LatchHolds
    <2>3. LinkVerdict = "good" BY <2>1, NoFlagMeansSafe DEF LinkVerdict
    <2> QED BY <1>1, <1>4, <2>1, <2>2, <2>3 DEF Contract!Arm
  <1> QED BY <1>2, <1>3, <1>4

(***************************************************************************)
(* Input and Actuator together implement ArmingContract: every update is a *)
(* verdict, an arming or a look at the switch, MSP's disarm is a refusal,  *)
(* and all else leaves the pilot's view of the craft alone.                *)
(***************************************************************************)
THEOREM CoreKeepsContract == Spec => KeepsContract
PROOF
  <1>1. Init => Contract!ContractInit
    BY DEF Init, Contract!ContractInit, LinkVerdict, IsModeActive, IsSwitchActive
  <1>2. SafetyInvariant /\ SafetyInvariant' /\ [Next]_vars
          => [Contract!ContractNext]_Contract!contractVars
    <2> SUFFICES ASSUME SafetyInvariant, SafetyInvariant', [Next]_vars
                 PROVE  Contract!ContractNext \/ UNCHANGED Contract!contractVars
      OBVIOUS
    <2> USE DEF IsModeActive, IsSwitchActive, Contract!contractVars, LinkVerdict,
                linkVars, actuatorVars, modeVars
    <2>1. CASE InputStep BY <2>1, InputJudges DEF Contract!ContractNext
    <2>2. CASE ActuatorUpdate BY <2>2, ActuatorFollowsSwitch DEF Contract!ContractNext
    <2>3. CASE MspSetArmingDisabled
      <3>1. ("ARM_SWITCH" \in flags') = ("ARM_SWITCH" \in flags)
        BY <2>3 DEF MspSetArmingDisabled, SetArmingDisabled
      <3>2. "ARMED" \notin mask' BY <2>3 DEF MspSetArmingDisabled, Disarm
      <3> QED BY <2>3, <3>1, <3>2 DEF MspSetArmingDisabled, Contract!ContractNext, Contract!Refuse
    <2>4. CASE EnterCli
      <3>1. ("ARM_SWITCH" \in flags') = ("ARM_SWITCH" \in flags)
        BY <2>4 DEF EnterCli, SetArmingDisabled
      <3> QED BY <2>4, <3>1 DEF EnterCli
    <2>5. CASE PosHoldBail
      <3>1. ("ARMED" \in mask') = ("ARMED" \in mask) BY <2>5 DEF PosHoldBail, ClearMode
      <3> QED BY <2>5, <3>1 DEF PosHoldBail
    <2>6. CASE Tick BY <2>6 DEF Tick
    <2>7. CASE Radio BY <2>7 DEF Radio
    <2>8. CASE FaultChange BY <2>8 DEF FaultChange
    <2>9. CASE UNCHANGED vars BY <2>9 DEF vars
    <2> QED BY <2>1, <2>2, <2>3, <2>4, <2>5, <2>6, <2>7, <2>8, <2>9 DEF Next
  <1> QED
    BY <1>1, <1>2, SafetyHolds, PTL DEF Spec, KeepsContract, Contract!ContractSpec

=============================================================================
