--------------------------- MODULE SerialParsers ---------------------------
(***************************************************************************)
(* The byte parsers of the receivers (Device/InputSBUS, InputIBUS,         *)
(* InputCRSF, InputPPM) and of MSP (Connect/MspParser), each against a     *)
(* line that loses and alters bytes, or edges for PPM.                     *)
(*                                                                         *)
(* A byte is what the parsers tell apart of its value, and its place in    *)
(* the frame it was sent in, 0 when it is not what was sent.  A checksum   *)
(* is right exactly when every byte since the start of the frame lies in   *)
(* its place: no damage is taken to leave it right by accident.            *)
(***************************************************************************)
EXTENDS Naturals, Sequences

CONSTANTS
  Protocols,
  Contents,    \* what the data bytes look like: subset of {"plain", "sync"}
  Damages,     \* bound: bytes lost or altered, fewer than a frame has
  Sizes,       \* what a size byte may be altered to
  SizeMax,     \* the largest size that CRSF and MSP accept
  Sticks       \* PPM channels after which a frame counts as received (4)

VARIABLES
  protocol, content,
  next,      \* place of the next byte the sender sends
  merged,    \* PPM: what the interval grows to when its first edge is lost
  parser,
  damages,   \* bytes lost or altered; power-up within a frame is one
  broken,    \* frames applied that nobody sent, up to one more than Damages
  missed     \* frames that ended since the last damage or applied frame

vars == <<protocol, content, next, merged, parser, damages, broken, missed>>

(* The frames of the sender, shortened to one or two bytes of data. *)
Frame(p, data) ==
  CASE p = "SBUS" -> <<"sync", data, data, "end">>
    [] p = "IBUS" -> <<"sync", "cmd", data, data, "crc", "crc">>
    [] p = "CRSF" -> <<"sync", "size", "type", data, "crc">>
    [] p = "MSP" -> <<"sync", "M", "<", "size", "cmd", data, "crc">>
    [] p = "PPM" -> <<"pulse", "pulse", "pulse", "pulse", "gap">>

Values == {"sync", "cmd", "type", "M", "<", ">", "plain"}

Length(p) == Len(Frame(p, "plain"))

(* The size byte of CRSF counts type, data and CRC, that of MSP the data.  *)
(* Any other byte reads as the largest size, only CRSF's mark as too large. *)
SizeOf(p, is) ==
  CASE is = "size" -> IF p = "CRSF" THEN 3 ELSE 1
    [] is = "sync" /\ p = "CRSF" -> SizeMax + 1
    [] OTHER -> SizeMax

Byte(is, n, pos) == [is |-> is, n |-> n, pos |-> pos]

Sent ==
  LET is == Frame(protocol, content)[next] IN Byte(is, SizeOf(protocol, is), next)

Altered ==
  {Byte(is, SizeOf(protocol, is), 0) : is \in Values \ {Sent.is}}
    \union {Byte("size", n, 0) : n \in Sizes \ {Sent.n}}

-----------------------------------------------------------------------------
(***************************************************************************)
(* A parser: its state, the place of the next byte in its buffer, the size *)
(* it has read, whether what it holds is the beginning of one frame, and   *)
(* what became of the last byte.                                           *)
(***************************************************************************)
Begin == [SBUS |-> "START", IBUS |-> "LENGTH", CRSF |-> "ADDR", MSP |-> "IDLE", PPM |-> "PULSE"]

Fresh(p) ==
  [state |-> Begin[p], idx |-> 0, size |-> 0, reply |-> FALSE, whole |-> TRUE,
   out |-> "none"]

Goto(q, state) == [q EXCEPT !.state = state]

Keep(q, b) ==
  [q EXCEPT !.idx = @ + 1, !.whole = (q.idx = 0 \/ @) /\ b.pos = q.idx + 1]

Apply(p, q) == [Fresh(p) EXCEPT !.out = IF q.whole THEN "whole" ELSE "broken"]

(* The end byte is not looked at: it may carry telemetry. *)
Sbus(q, b) ==
  CASE q.state = "START" -> IF b.is = "sync" THEN Goto(Keep(q, b), "DATA") ELSE q
    [] q.state = "DATA" ->
         Goto(Keep(q, b), IF q.idx + 1 >= Length("SBUS") - 1 THEN "END" ELSE "DATA")
    [] q.state = "END" -> Apply("SBUS", Keep(q, b))

(* Mutant: the index is not put back after a frame. *)
Ibus_KeepsIndex(q, b) ==
  CASE q.state = "LENGTH" -> IF b.is = "sync" THEN Goto(Keep(q, b), "CMD") ELSE q
    [] q.state = "CMD" ->
         IF b.is = "cmd" THEN Goto(Keep(q, b), "DATA") ELSE Goto(q, "LENGTH")
    [] q.state = "DATA" ->
         Goto(Keep(q, b), IF q.idx + 1 >= Length("IBUS") - 2 THEN "CRC_LO" ELSE "DATA")
    [] q.state = "CRC_LO" -> Goto(Keep(q, b), "CRC_HI")
    [] q.state = "CRC_HI" ->
         IF Keep(q, b).whole THEN Apply("IBUS", Keep(q, b))
         ELSE Goto(Keep(q, b), "LENGTH")

(* A wrong command leaves the index where it is. *)
Ibus(q, b) ==
  CASE q.state = "LENGTH" -> IF b.is = "sync" THEN Goto(Keep(q, b), "CMD") ELSE q
    [] q.state = "CMD" ->
         IF b.is = "cmd" THEN Goto(Keep(q, b), "DATA") ELSE Goto(q, "LENGTH")
    [] q.state = "DATA" ->
         Goto(Keep(q, b), IF q.idx + 1 >= Length("IBUS") - 2 THEN "CRC_LO" ELSE "DATA")
    [] q.state = "CRC_LO" -> Goto(Keep(q, b), "CRC_HI")
    [] q.state = "CRC_HI" ->
         IF Keep(q, b).whole THEN Apply("IBUS", Keep(q, b)) ELSE Fresh("IBUS")

Crsf(q, b) ==
  CASE q.state = "ADDR" -> IF b.is = "sync" THEN Goto(Keep(q, b), "SIZE") ELSE q
    [] q.state = "SIZE" ->
         IF b.n \in 2..SizeMax
         THEN [Goto(Keep(q, b), "TYPE") EXCEPT !.size = b.n] ELSE Fresh("CRSF")
    [] q.state = "TYPE" ->
         IF b.is = "type" THEN Goto(Keep(q, b), IF q.size > 2 THEN "DATA" ELSE "CRC")
         ELSE Fresh("CRSF")
    [] q.state = "DATA" ->
         Goto(Keep(q, b), IF q.idx + 1 > q.size THEN "CRC" ELSE "DATA")
    [] q.state = "CRC" ->
         IF Keep(q, b).whole THEN Apply("CRSF", Keep(q, b)) ELSE Fresh("CRSF")

(***************************************************************************)
(* MSP: idx counts the three marks too, which no checksum covers.  A reply *)
(* is received as a request is, but nobody takes it, and RECEIVED is not   *)
(* left by itself.                                                         *)
(***************************************************************************)
Mark(q, state) == [q EXCEPT !.idx = @ + 1, !.state = state]

Msp(q, b) ==
  CASE q.state = "IDLE" -> IF b.is = "sync" THEN Mark(q, "HEADER_START") ELSE q
    [] q.state = "HEADER_START" ->
         IF b.is = "M" THEN Mark(q, "HEADER_M") ELSE Fresh("MSP")
    [] q.state = "HEADER_M" ->
         IF b.is \in {"<", ">"}
         THEN [Mark(q, "HEADER_V1") EXCEPT !.reply = (b.is = ">")] ELSE Fresh("MSP")
    [] q.state = "HEADER_V1" /\ q.idx = 3 -> [Keep(q, b) EXCEPT !.size = b.n]
    [] q.state = "HEADER_V1" /\ q.size > SizeMax -> Fresh("MSP")
    [] q.state = "HEADER_V1" ->
         Goto(Keep(q, b), IF q.size > 0 THEN "PAYLOAD_V1" ELSE "CHECKSUM_V1")
    [] q.state = "PAYLOAD_V1" ->
         Goto(Keep(q, b), IF q.idx - 4 = q.size THEN "CHECKSUM_V1" ELSE "PAYLOAD_V1")
    [] q.state = "CHECKSUM_V1" ->
         IF ~Keep(q, b).whole THEN Fresh("MSP")
         ELSE IF q.reply THEN Goto(q, "RECEIVED")
         ELSE Apply("MSP", Keep(q, b))
    [] OTHER -> q

(* PPM: idx is the channel; a long interval is the gap between frames. *)
Ppm(q, b) ==
  CASE b.is = "gap" -> Fresh("PPM")
    [] q.idx + 1 = Sticks ->
         [Keep(q, b) EXCEPT !.out = IF Keep(q, b).whole THEN "whole" ELSE "broken"]
    [] OTHER -> Keep(q, b)

Parse(q, b) ==
  CASE protocol = "SBUS" -> Sbus(q, b)
    [] protocol = "IBUS" -> Ibus(q, b)
    [] protocol = "CRSF" -> Crsf(q, b)
    [] protocol = "MSP" -> Msp(q, b)
    [] protocol = "PPM" -> Ppm(q, b)

-----------------------------------------------------------------------------
(***************************************************************************)
(* The line, a byte at a time.                                             *)
(***************************************************************************)
Init ==
  /\ protocol \in Protocols /\ content \in Contents
  /\ next \in 1..Length(protocol) /\ merged = "no"
  /\ parser = Fresh(protocol)
  /\ damages = IF next = 1 THEN 0 ELSE 1
  /\ broken = 0 /\ missed = 0

(* The frames a damage may cost. *)
Longest(p) == IF p \in {"CRSF", "MSP"} THEN 2 + (SizeMax \div Length(p)) ELSE 2

(* More than any damage should cost: a bound on the count. *)
MissedCap == 2 + Longest(protocol)

Advance ==
  /\ next' = (next % Length(protocol)) + 1
  /\ UNCHANGED <<protocol, content>>

Receive(b) ==
  /\ parser' = Parse([parser EXCEPT !.out = "none"], b)
  /\ broken' = IF parser'.out = "broken" /\ broken <= Damages
                THEN broken + 1 ELSE broken

Deliver ==
  /\ merged = "no"
  /\ Receive(Sent) /\ Advance
  /\ missed' = CASE parser'.out = "whole" -> 0
                 [] next = Length(protocol) /\ missed < MissedCap -> missed + 1
                 [] OTHER -> missed
  /\ UNCHANGED <<merged, damages>>

(* PPM: an interval with an edge missing is the sum of two. *)
DeliverMerged ==
  /\ merged # "no"
  /\ \E is \in IF "gap" \in {merged, Sent.is} THEN {"gap"} ELSE {"gap", "pulse"} :
       Receive(Byte(is, 0, 0))
  /\ Advance
  /\ merged' = "no"
  /\ UNCHANGED <<damages, missed>>

Damage ==
  /\ damages < Damages /\ merged = "no"
  /\ damages' = damages + 1 /\ missed' = 0
  /\ Advance

Lose ==
  /\ Damage
  /\ merged' = IF protocol = "PPM" THEN Sent.is ELSE "no"
  /\ parser' = [parser EXCEPT !.out = "none"] /\ UNCHANGED broken

Alter ==
  /\ protocol # "PPM"
  /\ Damage
  /\ \E b \in Altered : Receive(b)
  /\ UNCHANGED merged

Next == Deliver \/ DeliverMerged \/ Lose \/ Alter

Spec == Init /\ [][Next]_vars

-----------------------------------------------------------------------------
TypeOK ==
  /\ next \in 1..Length(protocol) /\ merged \in {"no", "pulse", "gap"}
  /\ damages \in 0..Damages /\ broken \in Nat /\ missed \in 0..MissedCap
  /\ parser.whole \in BOOLEAN /\ parser.out \in {"none", "whole", "broken"}

(***************************************************************************)
(* A damage is soon over.  It makes a receiver apply one frame at most     *)
(* that nobody sent: SBUS and PPM have no checksum, and a parser that has  *)
(* lost its place finds it again with the next frame.  And it costs few    *)
(* frames: the damaged one, the next, and those that fit into the largest  *)
(* size a damaged size byte may ask for.  Excepted are data of a receiver  *)
(* that look like its mark, and an MSP request whose damage made it a      *)
(* reply.                                                                  *)
(***************************************************************************)
Plain == content = "plain" \/ protocol \in {"MSP", "PPM"}
Deaf == parser.state = "RECEIVED"

DamageIsBounded ==
  Plain => /\ broken <= damages
           /\ ~Deaf => missed <= Longest(protocol)

=============================================================================
