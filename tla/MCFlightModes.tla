--------------------------- MODULE MCFlightModes ---------------------------
(***************************************************************************)
(* Instances of FlightModes for TLC: the switch assignments and the frames *)
(* a receiver delivers.                                                    *)
(***************************************************************************)
EXTENDS FlightModes

(* One three-position switch: off, flying and holding position, failsafe.   *)
FlightSwitch ==
  {[id |-> "ARMED", ch |-> "AUX1", range |-> {1, 2}],
   [id |-> "POSHOLD", ch |-> "AUX1", range |-> {1}],
   [id |-> "FAILSAFE", ch |-> "AUX1", range |-> {2}]}

(* An arm switch alone. *)
ArmSwitch == {[id |-> "ARMED", ch |-> "AUX1", range |-> {1, 2}]}

(* The defaults of ModelConfig: thrust AUTO (low), switches HOLD. *)
DefaultFailsafe == [c \in Channel |-> IF c = Thrust THEN 0 ELSE Hold]

(* The stick low with the switch anywhere, or high in flight. *)
FlightFrames ==
  {f \in [Channel -> Position] : f[Thrust] = 0 \/ (f[Thrust] = 2 /\ f["AUX1"] = 1)}

(* The stick down, the switch at its ends, or every channel out of range. *)
NoisyFrames ==
  {f \in [Channel -> {0, 2}] : f[Thrust] = 0} \cup {[c \in Channel |-> Invalid]}

=============================================================================
