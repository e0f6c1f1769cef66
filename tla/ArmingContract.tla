--------------------------- MODULE ArmingContract ---------------------------
(***************************************************************************)
(* What the flight-mode core promises its pilot, without receivers, flags  *)
(* or timers: who may arm the craft and when, and what disarms it.         *)
(***************************************************************************)

Verdict == {"good", "lost", "failed"}

VARIABLES
  armed,      \* the motors may turn
  link,       \* the verdict on the radio link
  switch,     \* the arm switch, as the craft last saw it
  latched     \* the switch must be seen off before the next arming

contractVars == <<armed, link, switch, latched>>

ContractInit == ~armed /\ link = "good" /\ ~switch /\ ~latched

(* Arming takes a good link, an arm switch seen on and no latch. *)
Arm ==
  /\ ~armed /\ ~latched /\ link = "good"
  /\ armed' /\ switch' /\ ~latched'
  /\ UNCHANGED link

(* The switch is seen off: the only way out of the latch. *)
SwitchOff ==
  /\ ~switch' /\ ~latched' /\ ~armed'
  /\ UNCHANGED link

(* The switch is on: the craft stays as it is, and may latch. *)
SwitchOn ==
  /\ switch'
  /\ armed' = armed
  /\ latched => latched'
  /\ latched' \in BOOLEAN
  /\ UNCHANGED link

(* A new verdict on the link never arms, and a failed link disarms. *)
Judge ==
  /\ link' \in Verdict
  /\ armed' = (armed /\ link' # "failed")
  /\ UNCHANGED <<switch, latched>>

(* A configurator refuses arming. *)
Refuse ==
  /\ ~armed'
  /\ UNCHANGED <<link, switch, latched>>

ContractNext == Arm \/ SwitchOff \/ SwitchOn \/ Judge \/ Refuse

ContractSpec == ContractInit /\ [][ContractNext]_contractVars

=============================================================================
