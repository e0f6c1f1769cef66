----------------------------- MODULE MCPosHold ------------------------------
(* PosHold with two time stamps, which is enough for a message to be new or  *)
(* already used.                                                             *)
EXTENDS PosHold

(* The switches off, or armed by rates, to hold a position or to fly level. *)
HoldPositions == {{}, {"ARMED"}, {"ARMED", "POSHOLD"}, {"ARMED", "ANGLE"}}

=============================================================================
