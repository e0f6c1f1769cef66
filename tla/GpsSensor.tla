----------------------------- MODULE GpsSensor -----------------------------
(***************************************************************************)
(* Sensor/GpsSensor.cpp: finding the baud rate of a GPS module, setting it *)
(* up command by command, and listening to it.  The module and the line to *)
(* it are the environment: commands and answers may be lost, damaged or    *)
(* late, at the cost of a fault, and the craft may restart under a module  *)
(* that keeps its settings.                                                *)
(*                                                                         *)
(* A step is one GpsSensor::update; times are counted in updates.  What    *)
(* Gps/src/GpsParser.hpp makes of a frame is modelled frame by frame.      *)
(***************************************************************************)
EXTENDS Naturals, Sequences, FiniteSets

CONSTANTS
  Bauds,          \* BAUDS, in the order they are tried
  Targets,        \* baud rates of the serial port's configuration
  Timeout,        \* TIMEOUT
  DetectTimeout,  \* DETECT_TIMEOUT
  NmeaOff,        \* NMEA_MSG_OFF
  PvtOn,          \* UBX_LEGACY_MODERN_MSG_ON
  LegacyOn,       \* UBX_LEGACY_MSG_ON
  Kinds,          \* the modules: subset of {"M6", "M8", "M10"}
  Faults,         \* bound: commands and answers lost, damaged or late
  Restarts        \* bound: restarts of the craft

ASSUME DriverAssumption ==
  /\ {Timeout, DetectTimeout, Faults, Restarts} \subseteq Nat
  /\ Bauds \in Seq(Nat) /\ Targets \subseteq Nat
  /\ {NmeaOff, PvtOn, LegacyOn} \subseteq Seq(STRING) \ {<<>>}
  /\ Kinds \subseteq {"M6", "M8", "M10"}

VARIABLES
  gps,        \* the members of GpsSensor and state.gps
  config,     \* config.gps and the port's baud rate
  module,     \* the GPS module
  line,       \* answers on their way to the craft
  faults, restarts,   \* how many are left
  pending, strays     \* history: the last command, and the answers to other
                      \* commands that were taken for answers to it

driverVars == <<gps, config, module, line, faults, restarts, pending, strays>>

ItemsOf(seq) == {seq[k] : k \in 1..Len(seq)}

(* A command is named by what it sets. *)
Cmd(name, item) == [name |-> name, item |-> item]
Plain(name) == Cmd(name, "")

NoFrame == [type |-> "none", to |-> Plain("none")]
Answer(type, cmd) == [type |-> type, to |-> cmd]

(* All that a step works on. *)
World ==
  [gps |-> gps, module |-> module, line |-> line, faults |-> faults,
   pending |-> pending, strays |-> strays]

Started(c) ==
  [state |-> "DETECT_BAUD", ackState |-> "WAIT", timeoutState |-> "DETECT_BAUD",
   counter |-> 0, left |-> DetectTimeout, baud |-> c.target, present |-> FALSE,
   version |-> "UNKNOWN", written |-> 0, deaf |-> FALSE, updated |-> FALSE]

IsLegacyProto(g) == g.version \in {"UNKNOWN", "M6", "M8"}

SetState(w, state) == [w EXCEPT !.gps.state = state, !.gps.left = Timeout]

-----------------------------------------------------------------------------
(***************************************************************************)
(* The module: it carries out what it hears and answers.  An M6 does not   *)
(* know the messages of PvtOn, an older one than M10 no CFG-VALGET; which  *)
(* satellites are tracked together may be refused, and M10 stands for      *)
(* modules with L5 and without.  A value comes before its acknowledgement. *)
(***************************************************************************)
Replies(kind, cmd) ==
  CASE cmd.name = "version" -> {<<Answer("version", cmd)>>}
    [] cmd.name = "l5" /\ kind = "M10" ->
         {<<Answer("value", cmd), Answer("ack", cmd)>>, <<Answer("nak", cmd)>>}
    [] \/ cmd.name = "l5" /\ kind # "M10"
       \/ cmd.name = "ubx" /\ kind = "M6" /\ cmd.item \in ItemsOf(PvtOn) ->
         {<<Answer("nak", cmd)>>}
    [] cmd.name = "baud" -> {<<>>, <<Answer("ack", cmd)>>}
    [] OTHER -> {<<Answer("ack", cmd)>>}

Refusals(cmd) == IF cmd.name = "gnss" THEN {<<Answer("nak", cmd)>>} ELSE {}

CarriesOut(w, cmd, answers) ==
  LET refused == \E k \in 1..Len(answers) : answers[k].type = "nak"
  IN [w EXCEPT !.line = @ \o answers,
               !.module.done = IF refused THEN @ ELSE @ \union {cmd},
               !.module.baud = IF cmd.name = "baud" THEN config.target ELSE @]

Hears(w) == w.module.on /\ w.module.baud = w.gps.baud

(* The command is heard and answered; or, at the cost of a fault, it or    *)
(* its answer is lost, or it is refused.                                   *)
Transmit(w, cmd) ==
  LET faulty == [w EXCEPT !.faults = @ - 1]
  IN IF ~Hears(w) THEN {w}
     ELSE {CarriesOut(w, cmd, answers) : answers \in Replies(w.module.kind, cmd)}
            \union IF w.faults = 0 THEN {}
                   ELSE {faulty, CarriesOut(faulty, cmd, <<>>)} \union
                        {CarriesOut(faulty, cmd, a) : a \in Refusals(cmd)}

(* send: for 300 ms the answer decides between two states. *)
Send(w, cmd, ackState, timeoutState) ==
  {[SetState(v, "WAIT") EXCEPT !.gps.ackState = ackState,
                               !.gps.timeoutState = timeoutState,
                               !.pending = cmd] : v \in Transmit(w, cmd)}

-----------------------------------------------------------------------------
(* The states of handle(). *)
DetectBaud(w) ==
  IF w.gps.left > 0 THEN {w}
  ELSE IF w.gps.counter < Len(Bauds)
       THEN {[w EXCEPT !.gps.baud = Bauds[w.gps.counter + 1],
                       !.gps.counter = @ + 1, !.gps.left = DetectTimeout]}
  ELSE {[w EXCEPT !.gps.state = "ERROR", !.gps.counter = 0,
                  !.gps.baud = config.target, !.gps.left = DetectTimeout]}

ReadVersion(w) ==
  {[v EXCEPT !.gps.left = 3 * Timeout] :
     v \in Send(w, Plain("version"),
                IF config.autoConfig THEN "CONFIGURE_BAUD" ELSE "RECEIVE",
                "ERROR")}

(* Mutant: the craft keeps its own baud rate. *)
ConfigureBaud_OneSided(w) ==
  IF ~config.autoBaud THEN {SetState(w, "DISABLE_NMEA")}
  ELSE Send(w, Plain("baud"), "DISABLE_NMEA", "DISABLE_NMEA")

ConfigureBaud(w) ==
  IF ~config.autoBaud THEN {SetState(w, "DISABLE_NMEA")}
  ELSE {[v EXCEPT !.gps.baud = config.target] :
          v \in Send(w, Plain("baud"), "DISABLE_NMEA", "DISABLE_NMEA")}

(* One command for each item, counted by _counter. *)
SendItems(w, name, items, next) ==
  LET n == w.gps.counter + 1
      cmd == Cmd(name, items[n])
  IN IF n < Len(items)
     THEN Send([w EXCEPT !.gps.counter = n], cmd, w.gps.state, "ERROR")
     ELSE Send([w EXCEPT !.gps.counter = 0], cmd, next, "ERROR")

DisableNmea(w) ==
  IF IsLegacyProto(w.gps) THEN SendItems(w, "nmea", NmeaOff, "ENABLE_UBX")
  ELSE Send(w, Cmd("nmea", "all"), "ENABLE_UBX", "ERROR")

LegacyMessages(g) == IF g.version \in {"M6", "UNKNOWN"} THEN PvtOn ELSE LegacyOn

EnableUbx(w) ==
  IF ~IsLegacyProto(w.gps) THEN Send(w, Cmd("ubx", "all"), "ENABLE_NAV5", "ERROR")
  ELSE {IF v.gps.ackState = "ENABLE_NAV5"
        THEN [v EXCEPT !.gps.left = 10 * Timeout] ELSE v :
          v \in SendItems(w, "ubx", LegacyMessages(w.gps), "ENABLE_NAV5")}

EnableNav5(w) == Send(w, Plain("nav5"), "ENABLE_SBAS", "ERROR")

EnableSbas(w) ==
  IF config.sbas /\ w.gps.version # "M6"
  THEN Send(w, Plain("sbas"), "DETECT_GPS_L5", "ERROR")
  ELSE {SetState(w, "DETECT_GPS_L5")}

DetectGpsL5(w) ==
  IF w.gps.version = "M6" THEN {SetState(w, "CONFIGURE_GNSS")}
  ELSE Send(w, Plain("l5"), "CONFIGURE_GNSS", "CONFIGURE_GNSS")

(* An M6 names no satellite system it supports. *)
ConfigureGnss(w) ==
  IF w.gps.version = "M6" THEN {SetState(w, "CONFIGURE_NAV_RATE")}
  ELSE Send(w, Plain("gnss"), "CONFIGURE_NAV_RATE", "ERROR")

(* Mutant: silence is taken for an acknowledgement. *)
ConfigureRate_GoesOn(w) == Send(w, Plain("rate"), "RECEIVE", "RECEIVE")

ConfigureRate(w) == Send(w, Plain("rate"), "RECEIVE", "ERROR")

HandleError(w) ==
  {[w EXCEPT !.gps.counter = IF @ = 0 THEN 1 ELSE @, !.gps.present = FALSE]}

-----------------------------------------------------------------------------
(* handleReceive, with the message that is ready or NoFrame. *)
Taken(w, msg) ==
  LET g == w.gps
      next ==
        CASE msg.type = "ack" -> [g EXCEPT !.state = g.ackState]
          [] msg.type = "nak" -> [g EXCEPT !.state = g.timeoutState]
          [] msg.type = "value" -> [g EXCEPT !.state = g.ackState, !.counter = 0]
          [] msg.type = "version" ->
               [g EXCEPT !.state = g.ackState, !.counter = 0,
                         !.version = w.module.kind]
          [] OTHER ->
               IF g.state = "WAIT" /\ g.left = 0
               THEN [g EXCEPT !.state = g.timeoutState, !.present = FALSE] ELSE g
      stray == g.state = "WAIT" /\ msg # NoFrame /\ msg.to # w.pending
  IN [w EXCEPT !.gps = next, !.strays = IF stray THEN @ + 1 ELSE @]

Stamped(w) ==
  IF w.gps.state = "RECEIVE" THEN [w EXCEPT !.gps.present = TRUE] ELSE w

(* Mutant: no command is given up. *)
HandleReceive_WaitsForever(w, msg) ==
  {IF msg = NoFrame THEN Stamped(w) ELSE Taken(Stamped(w), msg)}

HandleReceive(w, msg) == {Taken(Stamped(w), msg)}

Handle(w, msg) ==
  CASE w.gps.state = "DETECT_BAUD" -> DetectBaud(w)
    [] w.gps.state = "GET_VERSION" -> ReadVersion(w)
    [] w.gps.state = "CONFIGURE_BAUD" -> ConfigureBaud(w)
    [] w.gps.state = "DISABLE_NMEA" -> DisableNmea(w)
    [] w.gps.state = "ENABLE_UBX" -> EnableUbx(w)
    [] w.gps.state = "ENABLE_NAV5" -> EnableNav5(w)
    [] w.gps.state = "ENABLE_SBAS" -> EnableSbas(w)
    [] w.gps.state = "DETECT_GPS_L5" -> DetectGpsL5(w)
    [] w.gps.state = "CONFIGURE_GNSS" -> ConfigureGnss(w)
    [] w.gps.state = "CONFIGURE_NAV_RATE" -> ConfigureRate(w)
    [] w.gps.state = "ERROR" -> HandleError(w)
    [] OTHER -> HandleReceive(w, msg)

OnMessage(w) ==
  IF w.gps.state # "DETECT_BAUD" THEN w
  ELSE [w EXCEPT !.gps.state = IF config.provider = 0 THEN "RECEIVE" ELSE "GET_VERSION"]

-----------------------------------------------------------------------------
(***************************************************************************)
(* The parser.  `written` is cleared with a message that is complete: after*)
(* a damaged frame the next one is lost when it is longer, and otherwise   *)
(* never ends, nor does anything after it.                                 *)
(***************************************************************************)
FrameLength(frame) ==
  CASE frame.type \in {"ack", "nak"} -> 2
    [] frame.type = "value" -> 9
    [] frame.type = "version" -> 160

Parse(w, frame) ==
  LET length == FrameLength(frame)
      mute(v) == [world |-> v, msg |-> NoFrame]
  IN IF w.gps.deaf \/ w.gps.written >= length
     THEN {mute([w EXCEPT !.gps.deaf = TRUE])}
     ELSE IF w.gps.written > 0 THEN {mute([w EXCEPT !.gps.written = length])}
     ELSE {[world |-> w, msg |-> frame]} \union
          {mute([w EXCEPT !.gps.written = length, !.faults = @ - 1]) :
             damaged \in IF w.faults > 0 THEN {TRUE} ELSE {}}

(* processUbx: `updated` says that a message was ready. *)
ProcessUbx(w, frame) ==
  UNION {IF p.msg = NoFrame THEN {p.world}
         ELSE {[v EXCEPT !.gps.updated = TRUE] :
                 v \in Handle(OnMessage(p.world), p.msg)} : p \in Parse(w, frame)}

ReadMany(w, n) ==
  LET after[k \in 0..n] ==
        IF k = 0 THEN {[w EXCEPT !.line = SubSeq(@, n + 1, Len(@))]}
        ELSE UNION {ProcessUbx(v, w.line[k]) : v \in after[k - 1]}
  IN after[n]

(* What the module sends by itself: NMEA until it is switched off, UBX     *)
(* navigation messages once they are on.  Only its first frame matters.    *)
NmeaIsOff(m) ==
  \/ Cmd("nmea", "all") \in m.done
  \/ \A item \in ItemsOf(NmeaOff) : Cmd("nmea", item) \in m.done
Talks(m) == m.on /\ (~NmeaIsOff(m) \/ \E c \in m.done : c.name = "ubx")

(* In 2.2 s at its baud rate a module is heard. *)
Detections(w) ==
  IF w.gps.state = "DETECT_BAUD" /\ Hears(w) /\ Talks(w.module)
  THEN IF w.gps.left = 0 THEN {TRUE} ELSE BOOLEAN
  ELSE {FALSE}

Ticked(w) ==
  [w EXCEPT !.gps.left = IF @ = 0 THEN 0 ELSE @ - 1, !.gps.updated = FALSE]

(* An answer that is on the line is read in time, or a fault is spent. *)
Reads(w) ==
  {n \in 0..Len(w.line) :
     n = 0 /\ w.line # <<>> /\ w.gps.state = "WAIT" /\ w.gps.left = 0 => w.faults > 0}

Late(w, n) ==
  IF n = 0 /\ w.line # <<>> /\ w.gps.state = "WAIT" /\ w.gps.left = 0
  THEN [w EXCEPT !.faults = @ - 1] ELSE w

Updates(w) ==
  UNION {UNION {UNION {IF v.gps.updated THEN {v} ELSE Handle(v, NoFrame) :
                         v \in ReadMany(IF heard THEN OnMessage(Late(w, n))
                                        ELSE Late(w, n), n)} :
                  heard \in Detections(w)} : n \in Reads(w)}

Becomes(w) ==
  /\ gps' = w.gps /\ module' = w.module /\ line' = w.line
  /\ faults' = w.faults /\ pending' = w.pending /\ strays' = w.strays

Update ==
  /\ \E w \in Updates(Ticked(World)) : Becomes(w)
  /\ UNCHANGED <<config, restarts>>

(* The craft restarts; the module keeps its baud rate and messages. *)
Restart ==
  /\ restarts > 0
  /\ restarts' = restarts - 1
  /\ gps' = Started(config)
  /\ line' = <<>> /\ pending' = Plain("none")
  /\ UNCHANGED <<config, module, faults, strays>>

ModuleDies ==
  /\ faults > 0 /\ module.on
  /\ faults' = faults - 1
  /\ module' = [module EXCEPT !.on = FALSE]
  /\ UNCHANGED <<gps, config, line, restarts, pending, strays>>

DriverInit ==
  /\ config \in [provider : {0, 1}, autoConfig : BOOLEAN, autoBaud : BOOLEAN,
                 sbas : BOOLEAN, target : Targets]
  /\ module \in [kind : Kinds, on : {TRUE}, baud : ItemsOf(Bauds) \union Targets,
                 done : {{}}]
  /\ gps = Started(config)
  /\ line = <<>> /\ pending = Plain("none") /\ strays = 0
  /\ faults = Faults /\ restarts = Restarts

DriverNext == Update \/ Restart \/ ModuleDies

DriverSpec == DriverInit /\ [][DriverNext]_driverVars
(* The GPS task runs every 20 ms. *)
FairDriverSpec == DriverSpec /\ WF_driverVars(Update)

-----------------------------------------------------------------------------
(* What a module of a version is to be told; its baud rate and L5 are tried. *)
Required(version) ==
  LET legacy == version \in {"UNKNOWN", "M6", "M8"}
  IN {Plain("nav5"), Plain("rate")}
       \union {Plain("sbas") : s \in {x \in {1} : config.sbas /\ version # "M6"}}
       \union {Plain("gnss") : s \in {x \in {1} : version # "M6"}}
       \union {Cmd("nmea", item) : item \in IF legacy THEN ItemsOf(NmeaOff) ELSE {"all"}}
       \union {Cmd("ubx", item) : item \in
                 IF ~legacy THEN {"all"}
                 ELSE ItemsOf(LegacyMessages([version |-> version]))}

(* A driver that receives has set the module up: a setting is missing only *)
(* where the answer to one command was taken for the answer to another.    *)
ConfigIsComplete ==
  gps.state = "RECEIVE" /\ config.provider = 1 /\ config.autoConfig
    => Cardinality(Required(gps.version) \ module.done) <= strays

(* Whatever is lost, damaged or late, the driver ends up receiving or in   *)
(* its error state: it waits for nothing forever.                          *)
Settles == <>[](gps.state = "RECEIVE") \/ <>[](gps.state = "ERROR")

(* With a module that works at a baud rate the driver tries, that can be   *)
(* heard when the driver looks for it, and nothing lost on the line, the   *)
(* driver comes to receive and stays so.                                   *)
WorkingModuleIsReceived ==
  /\ module.kind # "M6" \/ config.provider = 0 \/ ~config.autoConfig
  /\ module.baud \in ItemsOf(Bauds) \union {config.target}
  /\ [](faults = Faults)
  /\ [](gps.state = "DETECT_BAUD" => Talks(module))
  => <>[](gps.state = "RECEIVE" /\ gps.present)

(* docs/GPS_CONFIGURATION.md: "NEO-6M is supported through its legacy UBX  *)
(* messages": such a module is told to send only those.                    *)
SixUsesItsMessages ==
  module.kind = "M6" /\ pending.name = "ubx" => pending.item \in ItemsOf(LegacyOn)
=============================================================================
