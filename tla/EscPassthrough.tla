--------------------------- MODULE EscPassthrough ---------------------------
(***************************************************************************)
(* Programming the ESCs through the flight controller: betaflight's        *)
(* serial_4way.c between a host and the boot loaders, which it speaks to   *)
(* over each motor's one wire in two dialects, serial_4way_avrootloader.c  *)
(* (BL) and serial_4way_stk500v2.c (Stk).                                  *)
(*                                                                         *)
(* A step is a request and its answer, with all that passes on the wire    *)
(* meanwhile; one message of it may be damaged, either way, so that it is  *)
(* not what it was but none of those below either.  Memory is cut into     *)
(* pieces, each what one request writes, addressed by the high byte.       *)
(***************************************************************************)
EXTENDS Naturals, Sequences

CONSTANTS
  Boards,      \* sequences: the kinds of boot loader behind the motors
  HighBytes,   \* values of the high byte of an address (256)
  Data,        \* to be written: records with a byte len, where 0 means 256
  Highs,       \* high bytes of the addresses that are asked for
  Messages,    \* which messages of a request may be damaged
  Rounds       \* bound: requests

(* An address has two bytes, and so has a length: it goes without its high *)
(* byte, and 256 as 0.  The pages of all families fit into the memory.     *)
ASSUME EscAssumption ==
  /\ Boards \subseteq Seq({"SIL", "ATM", "ARM", "SK", "odd"}) \ {<<>>}
  /\ HighBytes \in Nat \ {0} /\ HighBytes % 4 = 0
  /\ \A data \in Data : data.len \in 0..255
  /\ Highs \subseteq 0..HighBytes - 1
  /\ Messages \subseteq Nat

VARIABLES
  escs,        \* what is behind each wire
  selected,    \* selected_esc
  mode,        \* CurrentInterfaceMode
  connected,   \* isMcuConnected: DeviceInfo is not zero
  open,        \* the interface has the serial port
  answer,      \* the last answer, with its request
  pointer,     \* where the host thinks that the boot loader goes on
  rounds       \* requests so far

escVars == <<escs, selected, mode, connected, open, answer, pointer, rounds>>

(* Address 0xFFFF: go on after what was read or written last. *)
Onward == HighBytes

Unknown == HighBytes + 1

-----------------------------------------------------------------------------
(***************************************************************************)
(* The ESCs.                                                               *)
(***************************************************************************)
Erased == [len |-> 0, text |-> "erased"]

Mixed == [len |-> 0, text |-> "mixed"]

Blank == [h \in 0..HighBytes - 1 |-> Erased]

NewEsc(kind) ==
  [kind |-> kind, boots |-> TRUE, speaks |-> FALSE, address |-> 0, awaits |-> 0,
   buffer |-> Erased, flash |-> Blank, eeprom |-> Blank]

(* Flash is programmed once, until it is erased. *)
Programmed(old, data) == IF old \in {Erased, data} THEN data ELSE Mixed

Program(e, memory, data) ==
  LET onward == [e EXCEPT !.address = (@ + 1) % HighBytes]
  IN IF memory = "flash" THEN [onward EXCEPT !.flash[e.address] = Programmed(@, data)]
     ELSE [onward EXCEPT !.eeprom[e.address] = data]

PageSize(kind) == IF kind = "ARM" THEN 4 ELSE 2

ErasePage(e) ==
  [e EXCEPT !.flash = [h \in 0..HighBytes - 1 |->
     IF h \in e.address .. e.address + PageSize(e.kind) - 1 THEN Erased ELSE @[h]]]

Reply(e, is) == [esc |-> e, reply |-> [is |-> is, data |-> Erased]]

Content(e, memory) == IF memory = "flash" THEN e.flash ELSE e.eeprom

ReplyPiece(e, memory) ==
  [esc |-> [e EXCEPT !.address = (@ + 1) % HighBytes],
   reply |-> [is |-> "data", data |-> Content(e, memory)[e.address]]]

Length(len) == IF len = 0 THEN 256 ELSE len

BlDoes(e, m) ==
  CASE m.is = "init" -> Reply([e EXCEPT !.speaks = TRUE], "info")
    [] m.is = "address" -> Reply([e EXCEPT !.address = m.h], "success")
    [] m.is = "buffer" -> Reply([e EXCEPT !.awaits = 256 * m.high + m.low], "none")
    [] m.is = "program" -> Reply(Program(e, m.memory, e.buffer), "success")
    [] m.is = "erase" -> Reply(ErasePage(e), "success")
    [] m.is = "read" /\ (m.atmel = (e.kind = "ATM")) -> ReplyPiece(e, m.memory)
    [] m.is = "verify" /\ e.kind = "ARM" ->
         Reply(e, IF e.flash[e.address] = e.buffer THEN "success" ELSE "error_verify")
    [] m.is = "run" -> Reply([e EXCEPT !.boots = FALSE, !.speaks = FALSE], "none")
    [] OTHER -> Reply(e, "error_command")

(* In BL messages have a checksum once the loader was greeted, and data *)
(* come after their length.  A damaged message gets an error.           *)
BlHears(e, m, crc, arrives) ==
  LET ready == [e EXCEPT !.awaits = 0]
  IN CASE ~e.boots \/ e.kind = "SK" \/ (~e.speaks /\ m.is # "init") -> Reply(e, "none")
       [] OTHER ->
            IF ~arrives \/ (m.is # "init" /\ ~crc) THEN Reply(ready, "error_crc")
            ELSE IF m.is = "data" /\ e.awaits = m.length
            THEN Reply([ready EXCEPT !.buffer = m.data], "success")
            ELSE IF m.is # "data" /\ e.awaits = 0 THEN BlDoes(e, m)
            ELSE Reply(ready, "error_crc")

(* In Stk every message has a checksum, and a damaged one gets no answer. *)
StkHears(e, m, arrives) ==
  CASE ~arrives \/ ~e.boots \/ e.kind # "SK" \/ (~e.speaks /\ m.is # "sign_on") -> Reply(e, "none")
    [] OTHER ->
         CASE m.is = "sign_on" -> Reply([e EXCEPT !.speaks = TRUE], "success")
           [] m.is = "address" -> Reply([e EXCEPT !.address = m.h], "success")
           [] m.is = "program" -> Reply(Program(e, m.memory, m.data), "success")
           [] m.is = "read" -> ReplyPiece(e, m.memory)
           [] m.is = "erase_all" -> Reply([e EXCEPT !.flash = Blank], "success")
           [] m.is = "signature" -> Reply(e, "success")

-----------------------------------------------------------------------------
(***************************************************************************)
(* A talk: the ESC, the number of messages so far, which of them is        *)
(* damaged, whether BL messages carry a checksum, and what came of it.     *)
(***************************************************************************)
Talk(esc, damaged) ==
  [esc |-> escs[esc], n |-> 0, damaged |-> damaged, crc |-> connected,
   reply |-> [is |-> "none", data |-> Erased], ok |-> TRUE]

(* What a damaged answer says is taken for no answer. *)
Exchange(t, heard) ==
  LET n == t.n + (IF heard.reply.is = "none" THEN 1 ELSE 2)
      lost == heard.reply.is # "none" /\ n = t.damaged
  IN [t EXCEPT !.esc = heard.esc, !.n = n,
               !.reply = IF lost THEN [is |-> "none", data |-> Erased] ELSE heard.reply]

BL_SendBuf(t, m) ==
  Exchange(t, BlHears(t.esc, m, t.crc, t.n + 1 # t.damaged))

Answered(t, is) == [t EXCEPT !.ok = t.reply.is = is]

BL_ConnectEx(t) ==
  LET u == Answered(BL_SendBuf(t, [is |-> "init"]), "info") IN [u EXCEPT !.crc = @ \/ u.ok]

BL_SendCMDKeepAlive(t) == Answered(BL_SendBuf(t, [is |-> "keep_alive"]), "error_command")

BL_SendCMDRunRestartBootloader(t) == BL_SendBuf([t EXCEPT !.crc = TRUE], [is |-> "run"])

BL_SendCMDSetAddress(t, h) ==
  IF h = Onward THEN t ELSE Answered(BL_SendBuf(t, [is |-> "address", h |-> h]), "success")

(* The length is not answered. *)
BL_SendCMDSetBuffer(t, data) ==
  LET u == Answered(BL_SendBuf(t, [is |-> "buffer", high |-> IF data.len = 0 THEN 1 ELSE 0,
                                   low |-> data.len]), "none")
  IN IF u.ok
     THEN Answered(BL_SendBuf(u, [is |-> "data", data |-> data, length |-> Length(data.len)]), "success")
     ELSE u

BL_ReadA(t, memory, h) ==
  LET u == BL_SendCMDSetAddress(t, h)
  IN IF u.ok
     THEN Answered(BL_SendBuf(u, [is |-> "read", memory |-> memory,
                                  atmel |-> mode = "ATM" \/ memory = "eeprom"]), "data")
     ELSE u

(* Address, data, and what to do with them. *)
BL_Send(t, h, data) ==
  LET u == BL_SendCMDSetAddress(t, h) IN IF u.ok THEN BL_SendCMDSetBuffer(u, data) ELSE u

(* Mutant: an address that was not taken is not noticed. *)
BL_WriteA_Anywhere(t, memory, h, data) ==
  LET u == BL_SendCMDSetBuffer(BL_SendCMDSetAddress(t, h), data)
  IN IF u.ok THEN Answered(BL_SendBuf(u, [is |-> "program", memory |-> memory]), "success") ELSE u

BL_WriteA(t, memory, h, data) ==
  LET u == BL_Send(t, h, data)
  IN IF u.ok THEN Answered(BL_SendBuf(u, [is |-> "program", memory |-> memory]), "success") ELSE u

BL_PageErase(t, h) ==
  LET u == BL_SendCMDSetAddress(t, h)
  IN IF u.ok THEN Answered(BL_SendBuf(u, [is |-> "erase"]), "success") ELSE u

BL_VerifyFlash(t, h, data) ==
  LET u == BL_Send(t, h, data)
  IN IF u.ok THEN Answered(BL_SendBuf(u, [is |-> "verify"]), "success") ELSE u

StkRcvPacket(t, m, is) ==
  Answered(Exchange(t, StkHears(t.esc, m, t.n + 1 # t.damaged)), is)

Stk_SignOn(t) == StkRcvPacket(t, [is |-> "sign_on"], "success")

Signature(t) == IF t.ok THEN StkRcvPacket(t, [is |-> "signature"], "success") ELSE t

Stk_ConnectEx(t) == Signature(Signature(Stk_SignOn(t)))

CMD_LOAD_ADDRESS(t, h) ==
  IF h = Onward THEN t ELSE StkRcvPacket(t, [is |-> "address", h |-> h], "success")

Stk_Read(t, memory, h) ==
  LET u == CMD_LOAD_ADDRESS(t, h)
  IN IF u.ok THEN StkRcvPacket(u, [is |-> "read", memory |-> memory], "data") ELSE u

Stk_Write(t, memory, h, data) ==
  LET u == CMD_LOAD_ADDRESS(t, h)
  IN IF u.ok
     THEN StkRcvPacket(u, [is |-> "program", memory |-> memory, data |-> data], "success") ELSE u

Stk_Chip_Erase(t) == StkRcvPacket(t, [is |-> "erase_all"], "success")

-----------------------------------------------------------------------------
(***************************************************************************)
(* The requests.  What each makes of the interface: the talk, and the      *)
(* acknowledgement.                                                        *)
(***************************************************************************)
BlModes == {"SIL", "ATM", "ARM"}

(* The kind of boot loader that answers, by its signature; "odd" has one *)
(* that is not known.                                                    *)
Matches(t) == t.ok /\ t.esc.kind # "odd"

TryConnect(t) ==
  LET stk == IF mode # "ARM" THEN Stk_ConnectEx(t) ELSE [t EXCEPT !.ok = FALSE]
  IN IF stk.ok THEN stk ELSE BL_ConnectEx(stk)

Connect(t) ==
  LET first == TryConnect(t)
      second == IF Matches(first) THEN first ELSE TryConnect(first)
  IN IF Matches(second) THEN second ELSE TryConnect(second)

Acknowledged(t) == IF t.ok THEN "OK" ELSE "GENERAL_ERROR"

After(t, ack) == [talk |-> t, ack |-> ack, mode |-> mode, connected |-> connected, selected |-> selected]

Does(t) == After(t, Acknowledged(t))

TestAlive(t) ==
  LET u == IF mode \in BlModes THEN BL_SendCMDKeepAlive(t) ELSE Stk_SignOn(t)
  IN IF ~connected THEN After(t, "OK") ELSE [Does(u) EXCEPT !.connected = u.ok]

SetMode(t, m) ==
  IF m \in BlModes \union {"SK"} THEN [After(t, "OK") EXCEPT !.mode = m] ELSE After(t, "INVALID_PARAM")

(* The ESC that is asked for is selected in any case, if there is one. *)
DeviceReset(t, esc) ==
  LET u == IF mode \in BlModes THEN BL_SendCMDRunRestartBootloader(t) ELSE t
  IN IF esc \in DOMAIN escs
     THEN [After(u, "OK") EXCEPT !.connected = FALSE, !.selected = esc]
     ELSE After(t, "INVALID_CHANNEL")

InitFlash(t, esc) ==
  LET u == Connect([t EXCEPT !.crc = FALSE])
  IN IF esc \in DOMAIN escs
     THEN [After(u, IF Matches(u) THEN "OK" ELSE "GENERAL_ERROR")
             EXCEPT !.connected = Matches(u), !.selected = esc,
                    !.mode = IF Matches(u) THEN u.esc.kind ELSE mode]
     ELSE [After(t, "INVALID_CHANNEL") EXCEPT !.connected = FALSE]

EraseAll(t) == IF mode = "SK" THEN Does(Stk_Chip_Erase(t)) ELSE After(t, "INVALID_CMD")

PageErase(t, page) ==
  IF mode \in {"SIL", "ARM"} THEN Does(BL_PageErase(t, (page * PageSize(mode)) % HighBytes))
  ELSE After(t, "INVALID_CMD")

Read(t, h) ==
  CASE mode \in BlModes -> Does(BL_ReadA(t, "flash", h))
    [] mode = "SK" -> Does(Stk_Read(t, "flash", h))
    [] mode = "C2" -> After(t, "INVALID_CMD")

ReadEEprom(t, h) ==
  CASE mode = "ATM" -> Does(BL_ReadA(t, "eeprom", h))
    [] mode = "SK" -> Does(Stk_Read(t, "eeprom", h))
    [] OTHER -> After(t, "INVALID_CMD")

(* Before any boot loader was found nothing is written, and that is OK. *)
Write(t, h, data) ==
  CASE mode \in BlModes -> Does(BL_WriteA(t, "flash", h, data))
    [] mode = "SK" -> Does(Stk_Write(t, "flash", h, data))
    [] mode = "C2" -> After(t, "OK")

WriteEEprom(t, h, data) ==
  CASE mode = "ATM" -> Does(BL_WriteA(t, "eeprom", h, data))
    [] mode = "SK" -> Does(Stk_Write(t, "eeprom", h, data))
    [] mode = "SIL" -> After(t, "INVALID_CMD")
    [] OTHER -> After(t, "GENERAL_ERROR")

Verify(t, h, data) ==
  LET u == BL_VerifyFlash(t, h, data)
  IN IF mode # "ARM" THEN After(t, "INVALID_CMD")
     ELSE After(u, IF u.reply.is = "error_verify" THEN "VERIFY_ERROR" ELSE Acknowledged(u))

-----------------------------------------------------------------------------
(***************************************************************************)
(* A request, which serves the ESC it names or the selected one.           *)
(***************************************************************************)
Places == Highs \union {Onward}

Requested ==
  {[cmd |-> c] : c \in {"TestAlive", "GetVersion", "EraseAll", "C2CK_LOW"}}
    \union [cmd : {"SetMode"}, mode : BlModes \union {"SK", "C2"}]
    \union [cmd : {"Reset", "InitFlash"}, esc : 1..Len(escs) + 1]
    \union [cmd : {"PageErase"}, page : {0, 1, HighBytes \div 2}]
    \union [cmd : {"Read", "ReadEEprom"}, h : Places]
    \union [cmd : {"Write", "WriteEEprom", "Verify"}, h : Places, data : Data]

Named(r) == IF r.cmd \in {"Reset", "InitFlash"} /\ r.esc \in DOMAIN escs THEN r.esc ELSE selected

Served(r, t) ==
  CASE r.cmd = "TestAlive" -> TestAlive(t)
    [] r.cmd = "GetVersion" -> After(t, "OK")
    [] r.cmd = "SetMode" -> SetMode(t, r.mode)
    [] r.cmd = "Reset" -> DeviceReset(t, r.esc)
    [] r.cmd = "InitFlash" -> InitFlash(t, r.esc)
    [] r.cmd = "EraseAll" -> EraseAll(t)
    [] r.cmd = "PageErase" -> PageErase(t, r.page)
    [] r.cmd = "Read" -> Read(t, r.h)
    [] r.cmd = "ReadEEprom" -> ReadEEprom(t, r.h)
    [] r.cmd = "Write" -> Write(t, r.h, r.data)
    [] r.cmd = "WriteEEprom" -> WriteEEprom(t, r.h, r.data)
    [] r.cmd = "Verify" -> Verify(t, r.h, r.data)
    [] OTHER -> After(t, "INVALID_CMD")

(* The host goes by the answers: what was read or written is behind. *)
PointerAfter(r, ack) ==
  CASE r.cmd \in {"GetVersion", "SetMode"} \/ ack \in {"INVALID_CMD", "INVALID_PARAM"} -> pointer
    [] r.cmd \in {"Read", "ReadEEprom", "Write", "WriteEEprom"} /\ ack = "OK" ->
         IF r.h # Onward THEN (r.h + 1) % HighBytes
         ELSE IF pointer # Unknown THEN (pointer + 1) % HighBytes ELSE Unknown
    [] OTHER -> Unknown

EscInit ==
  /\ \E board \in Boards : escs = [k \in DOMAIN board |-> NewEsc(board[k])]
  /\ selected = 1 /\ mode = "C2" /\ connected = FALSE /\ open = FALSE
  /\ answer = [ack |-> "none"] /\ pointer = Unknown /\ rounds = 0

(* MSP_SET_PASSTHROUGH: the motors stop and the port is the interface's. *)
Enter ==
  /\ ~open /\ rounds < Rounds /\ open' = TRUE
  /\ UNCHANGED <<escs, selected, mode, connected, answer, pointer, rounds>>

(* The interface gives the wires back and the flight controller restarts. *)
Exit ==
  /\ open /\ rounds < Rounds
  /\ rounds' = rounds + 1
  /\ open' = FALSE /\ selected' = 1 /\ mode' = "C2" /\ connected' = FALSE
  /\ answer' = [ack |-> "OK"]
  /\ UNCHANGED <<escs, pointer>>

Request(r, damaged) ==
  /\ open /\ rounds < Rounds
  /\ rounds' = rounds + 1
  /\ \E did \in {Served(r, Talk(Named(r), damaged))} :
       /\ damaged <= did.talk.n
       /\ escs' = [escs EXCEPT ![Named(r)] = did.talk.esc]
       /\ selected' = did.selected /\ mode' = did.mode /\ connected' = did.connected
       /\ answer' = [ack |-> did.ack, to |-> r, damaged |-> damaged, data |-> did.talk.reply.data]
       /\ pointer' = PointerAfter(r, did.ack)
  /\ UNCHANGED open

(* Nothing is done, but all the same there is an answer. *)
DamagedRequest ==
  /\ open /\ rounds < Rounds
  /\ rounds' = rounds + 1
  /\ answer' = [ack |-> "INVALID_CRC"]
  /\ UNCHANGED <<escs, selected, mode, connected, open, pointer>>

(* An ESC loses power for a moment. *)
Restart ==
  /\ rounds < Rounds
  /\ \E k \in DOMAIN escs :
       /\ escs[k].speaks \/ ~escs[k].boots
       /\ escs' = [escs EXCEPT ![k] = [@ EXCEPT !.boots = TRUE, !.speaks = FALSE, !.address = 0,
                                                !.awaits = 0, !.buffer = Erased]]
  /\ UNCHANGED <<selected, mode, connected, open, answer, pointer, rounds>>

Ended == rounds = Rounds /\ UNCHANGED escVars

EscNext ==
  \/ Enter \/ Exit \/ DamagedRequest \/ Restart \/ Ended
  \/ \E r \in Requested, damaged \in Messages : Request(r, damaged)

EscSpec == EscInit /\ [][EscNext]_escVars

-----------------------------------------------------------------------------
(* Where the host means a request to be served, as far as it knows. *)
Meant(r) == IF r.h = Onward THEN pointer ELSE r.h

Page(r, kind) ==
  LET from == (r.page * PageSize(kind)) % HighBytes IN from .. from + PageSize(kind) - 1

Only(memory, new, places) == \A h \in 0..HighBytes - 1 : h \in places \/ new[h] = memory[h]

(* What an OK says about the ESC that it is from. *)
OkIsTrue(r, e, new) ==
  CASE r.cmd = "Write" /\ Meant(r) # Unknown ->
         /\ new.flash[Meant(r)] = Programmed(e.flash[Meant(r)], r.data)
         /\ Only(e.flash, new.flash, {Meant(r)}) /\ new.eeprom = e.eeprom
    [] r.cmd = "WriteEEprom" /\ Meant(r) # Unknown ->
         /\ new.eeprom[Meant(r)] = r.data
         /\ Only(e.eeprom, new.eeprom, {Meant(r)}) /\ new.flash = e.flash
    [] r.cmd = "Read" /\ Meant(r) # Unknown -> answer'.data = e.flash[Meant(r)]
    [] r.cmd = "ReadEEprom" /\ Meant(r) # Unknown -> answer'.data = e.eeprom[Meant(r)]
    [] r.cmd = "Verify" /\ Meant(r) # Unknown -> e.flash[Meant(r)] = r.data
    [] r.cmd = "PageErase" ->
         /\ \A h \in Page(r, e.kind) : new.flash[h] = Erased
         /\ Only(e.flash, new.flash, Page(r, e.kind))
    [] r.cmd = "EraseAll" -> new.flash = Blank
    [] r.cmd = "InitFlash" -> new.boots /\ new.speaks /\ mode' = e.kind
    [] OTHER -> TRUE

(* What boot loaders of a kind can do. *)
Serves(kind) ==
  {"TestAlive", "Read", "Write"}
    \union (IF kind \in {"SIL", "ARM"} THEN {"PageErase"} ELSE {})
    \union (IF kind = "ARM" THEN {"Verify"} ELSE {})
    \union (IF kind \in {"ATM", "SK"} THEN {"ReadEEprom", "WriteEEprom"} ELSE {})
    \union (IF kind = "SK" THEN {"EraseAll"} ELSE {})

Changing == {"Write", "WriteEEprom", "PageErase", "EraseAll"}

TrueAnswer ==
  rounds' # rounds /\ "to" \in DOMAIN answer' =>
     LET r == answer'.to
         e == escs[selected']
         new == escs'[selected']
     IN /\ \A k \in DOMAIN escs : k # selected' => escs'[k] = escs[k]
        /\ answer'.ack \in {"INVALID_CMD", "INVALID_PARAM", "INVALID_CHANNEL"} => escs' = escs
        /\ r.cmd \notin Changing => new.flash = e.flash /\ new.eeprom = e.eeprom
        /\ answer'.ack = "OK" /\ (r.cmd = "InitFlash" \/ (connected /\ mode = e.kind))
             => OkIsTrue(r, e, new)
        /\ answer'.ack = "VERIFY_ERROR" /\ Meant(r) # Unknown => e.flash[Meant(r)] # r.data
        /\ r.cmd = "InitFlash" /\ answer'.damaged = 0 /\ answer'.ack # "INVALID_CHANNEL"
             /\ e.boots /\ e.kind # "odd" /\ ~(mode = "ARM" /\ e.kind = "SK") => answer'.ack = "OK"
        /\ r.cmd \in Serves(mode) /\ answer'.damaged = 0 /\ connected /\ mode = e.kind /\ e.speaks
             => answer'.ack \in {"OK", "VERIFY_ERROR"}

(***************************************************************************)
(* The answer is true, whichever message of a request is damaged, after    *)
(* whatever requests, resets and power losses: what is acknowledged was    *)
(* done, by the ESC that is selected, at the place that was meant; what is *)
(* refused was not done; no other ESC and no memory changes in passing.    *)
(* And what is undamaged is served: a connection to a boot loader that     *)
(* runs, unless the interface is still set for another family, and then    *)
(* what its kind can do (serial_4way.c:480-880).  Before a boot loader is   *)
(* found a write is acknowledged and nothing is done.                      *)
(***************************************************************************)
AnswerIsTrue == [][TrueAnswer]_escVars

=============================================================================
