------------------------------- MODULE Input -------------------------------
(***************************************************************************)
(* Input.cpp: one call of Input::update, run by the gyro task whenever     *)
(* input.timer fires.  It reads the receiver, then decides whether the     *)
(* link is good, lost (stage 1) or failed (stage 2).                       *)
(***************************************************************************)
EXTENDS FlightState

Status == {"IDLE", "RECEIVED", "LOST", "FAILSAFE"}

(***************************************************************************)
(* What the receiver may report.  Without a transmitter its frames, if it  *)
(* sends any, are flagged: as lost, for as long as it likes, or failsafe.  *)
(* One that goes on with frames that look good hides that it is off.       *)
(***************************************************************************)
ReceiverStatus == IF radio = "on" THEN Status ELSE Status \ {"RECEIVED"}

(***************************************************************************)
(* readInputs, with updateFrameRate and processInputs: any status but IDLE *)
(* is a frame.  It restarts the age of the link even when the receiver     *)
(* flags the frame as lost.                                                *)
(***************************************************************************)
(* Mutant: the frame time is refreshed on every call, frame or not. *)
LossTime_EveryCall(status) == 0

LossTime(status) == IF status = "IDLE" THEN age ELSE 0

RxLoss(status) == IF status = "IDLE" THEN rxLoss ELSE status \in {"LOST", "FAILSAFE"}

RxFailSafe(status) == IF status = "IDLE" THEN rxFailSafe ELSE status = "FAILSAFE"

GetFailsafeValue(c) ==
  IF FailsafeValue[c] = Hold THEN buffer[c] ELSE FailsafeValue[c]

ProcessInputs(frame) ==
  IF frameCount' < GarbageFrames
  THEN UNCHANGED buffer
  ELSE buffer' = [c \in Channel |->
                    IF frame[c] = Invalid THEN GetFailsafeValue(c) ELSE frame[c]]

(* Both thresholds on frameCount lie below the cap, so counting stops there. *)
FrameCap == GarbageFrames + RescueFrames + 1

ReadInputs(status, frame) ==
  /\ age' = LossTime(status)
  /\ IF status = "IDLE"
     THEN UNCHANGED <<frameCount, buffer>>
     ELSE /\ frameCount' = IF frameCount < FrameCap THEN frameCount + 1 ELSE frameCount
          /\ ProcessInputs(frame)

(***************************************************************************)
(* filterInputs: thrust moves from where its filter stands towards the     *)
(* last frame, as far as interpolation and filter take it in this call;    *)
(* the switches follow at once, but only with a new frame.                 *)
(***************************************************************************)
Between(a, b) == {v \in Position : (a <= v /\ v <= b) \/ (b <= v /\ v <= a)}

FilterInputs(status) ==
  /\ smoothed' \in Between(smoothed, buffer'[Thrust])
  /\ us' = [c \in Channel |->
              IF c = Thrust THEN smoothed'
              ELSE IF status # "IDLE" THEN buffer'[c] ELSE us[c]]

(* Stage 1 bypasses the filter, which keeps the thrust it had. *)
ApplyFailsafeValues ==
  /\ us' = [c \in Channel |-> GetFailsafeValue(c)]
  /\ UNCHANGED smoothed

(***************************************************************************)
(* failsafe(status): the four outcomes, in the order the code tests them.  *)
(***************************************************************************)
(* Mutant: only the receiver declares failsafe, not the timer. *)
LinkFailed_NoTimer(status) == status = "FAILSAFE"

LinkFailed(status) ==
  status = "FAILSAFE" \/ (status # "RECEIVED" /\ LossTime(status) > StageTwoDelay)

FailsafeStage2 ==
  /\ rxLoss' = TRUE
  /\ rxFailSafe' = TRUE
  /\ IF IsModeActive("ARMED")
     THEN phase' = "LANDED" /\ Disarm("FAILSAFE")
     ELSE phase' = "RX_LOSS_DETECTED" /\ UNCHANGED modeVars

(* The failsafe switch: stage 2, although the link itself is still served. *)
SwitchedFailsafe(status) ==
  /\ IsSwitchActive("FAILSAFE")
  /\ FailsafeStage2
  /\ FilterInputs(status)

LinkGood(status) ==
  /\ ~IsSwitchActive("FAILSAFE")
  /\ status = "RECEIVED"
  /\ phase' = "IDLE"
  /\ rxLoss' = FALSE /\ rxFailSafe' = FALSE
  /\ FilterInputs(status)
  /\ UNCHANGED modeVars

LinkFailsafe(status) ==
  /\ ~IsSwitchActive("FAILSAFE")
  /\ LinkFailed(status)
  /\ FailsafeStage2
  /\ UNCHANGED <<smoothed, us>>

FailsafeStage1(status) ==
  /\ ~IsSwitchActive("FAILSAFE")
  /\ status # "RECEIVED" /\ ~LinkFailed(status)
  /\ LossTime(status) >= 2
  /\ phase' = "RX_LOSS_DETECTED"
  /\ rxLoss' = TRUE /\ rxFailSafe' = RxFailSafe(status)
  /\ ApplyFailsafeValues
  /\ UNCHANGED modeVars

(* No verdict yet: the frame is flagged lost, or none came for < 200 ms. *)
LinkWaiting(status) ==
  /\ ~IsSwitchActive("FAILSAFE")
  /\ status # "RECEIVED" /\ ~LinkFailed(status)
  /\ LossTime(status) < 2
  /\ rxLoss' = RxLoss(status) /\ rxFailSafe' = RxFailSafe(status)
  /\ FilterInputs(status)
  /\ UNCHANGED <<phase, modeVars>>

Failsafe(status) ==
  \/ SwitchedFailsafe(status)
  \/ LinkGood(status)
  \/ LinkFailsafe(status)
  \/ FailsafeStage1(status)
  \/ LinkWaiting(status)

InputUpdate(status, frame) ==
  /\ inputDue' = FALSE
  /\ ReadInputs(status, frame)
  /\ Failsafe(status)
  /\ UNCHANGED <<radio, actuatorDue, rescueDue, fault, actuatorVars>>

=============================================================================
