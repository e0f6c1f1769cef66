--------------------------- MODULE MCSerialPorts ---------------------------
(***************************************************************************)
(* Four things about what comes into the flight controller: a line of      *)
(* bytes and its parser (SerialParsers), MSP requests cut into CRSF frames *)
(* (CrsfMsp), what whole MSP messages do to the settings (MspSettings),    *)
(* and what the ESCs are told through it (EscPassthrough).  They share no  *)
(* state, and one of them is watched at a time.                            *)
(***************************************************************************)
EXTENDS CrsfMsp, EscPassthrough

CONSTANTS Protocols, Contents, Damages, Sizes, SizeMax, Sticks
CONSTANTS Pages, Conditions, Channels, Outputs, PidItems, GyroRate, Ports, SoftSerial

VARIABLES watched, protocol, content, next, merged, parser, damages, broken, missed

VARIABLES phase, page, settings, before, meant, known, bytes, accepted

lineVars == <<protocol, content, next, merged, parser, damages, broken, missed>>

pageVars == <<phase, page, settings, before, meant, known, bytes, accepted>>

Line == INSTANCE SerialParsers

Settings == INSTANCE MspSettings WITH wire <- bytes

(* Two UARTs, the port over USB and one made by software.                  *)
BoardPorts == <<0, 1, 20, 30>>

(* None, one, two and three chunks, one of a version the code does not     *)
(* know, and one that is longer than the buffer.                           *)
MixedRequests ==
  {[cmd |-> "ping", size |-> 0, known |-> TRUE],
   [cmd |-> "get", size |-> 1, known |-> TRUE],
   [cmd |-> "set", size |-> 2, known |-> TRUE],
   [cmd |-> "put", size |-> 4, known |-> TRUE],
   [cmd |-> "new", size |-> 4, known |-> FALSE],
   [cmd |-> "big", size |-> 7, known |-> TRUE]}

(* Each family, with a neighbour of another; one that is not known. *)
EscPairs == {<<"SIL", "ATM">>, <<"ARM", "SK">>, <<"odd">>}

(* Of 256 bytes and of fewer. *)
PieceData == {[len |-> 0, text |-> "x"], [len |-> 4, text |-> "y"]}

EitherInit ==
  /\ watched \in {"line", "requests", "pages", "escs"}
  /\ Init /\ Line!Init /\ Settings!Init /\ EscInit
  /\ watched # "escs" => DOMAIN escs = {1}
  /\ watched # "line" => protocol = "SBUS" /\ content = "plain" /\ next = 1
  /\ watched # "requests" => request.cmd = "ping"

EitherNext ==
  \/ watched = "line" /\ Line!Next /\ UNCHANGED <<watched, vars, pageVars, escVars>>
  \/ watched = "requests" /\ Next /\ UNCHANGED <<watched, lineVars, pageVars, escVars>>
  \/ watched = "pages" /\ Settings!Next /\ UNCHANGED <<watched, vars, lineVars, escVars>>
  \/ watched = "escs" /\ EscNext /\ UNCHANGED <<watched, vars, lineVars, pageVars>>

EitherSpec == EitherInit /\ [][EitherNext]_<<watched, vars, lineVars, pageVars, escVars>>

(* The property of the parsers, see SerialParsers. *)
DamageIsBounded == Line!DamageIsBounded

(* The property of the pages, see MspSettings. *)
PageIsKept == Settings!PageIsKept

=============================================================================
