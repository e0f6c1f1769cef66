---------------------------- MODULE MCGpsSensor ----------------------------
(* Two baud rates to try and one the port may have besides, two NMEA       *)
(* messages, the two lists of UBX messages; a command is waited for during *)
(* two updates.                                                            *)
EXTENDS GpsSensor

TwoBauds == <<9600, 115200>>
TwoNmea == <<"GGA", "RMC">>
Pvt == <<"PVT", "SAT">>
Legacy == <<"POSLLH", "VELNED", "SOL">>
=============================================================================
