-------------------------------- MODULE Cli --------------------------------
(***************************************************************************)
(* The command line on a serial port (Connect/Cli.cpp): characters become  *)
(* lines, lines become commands, and a dump of one craft is played back,   *)
(* line after line, into another one or into the same one later, while a   *)
(* calibration may end and the power may fail.                             *)
(***************************************************************************)
EXTENDS CliParams, FiniteSets

CONSTANTS
  Backups,      \* pairs of sample numbers: settings dumped, settings found
  Notes,        \* where the user keeps comments: "none", "above", "beside"
  EventLines    \* bound: lines of the dump between which a calibration ends

VARIABLES
  backup,      \* the sample of settings that was dumped
  found,       \* the sample that was in force before the playback
  notes, ends, \* comments in the text, and how its lines end
  line,        \* the next line of the text
  config,      \* Model::config
  stored,      \* the copy in the EEPROM
  bias,        \* calibration in Model::state, by place
  active,      \* Cli::_active
  ignore,      \* Cli::_ignore
  phase,       \* "playing", "restored", "unsaved", "lost"
  calibrated   \* a calibration has ended during the playback

cliVars == <<backup, found, notes, ends, line, config, stored, bias, active, ignore, phase,
          calibrated>>

-----------------------------------------------------------------------------
(* Samples of settings: extremes, values with a name and without one,      *)
(* strings of no word, one, two and one with a comment sign in it.         *)
Extreme(kind, k) ==
  CASE kind = "BOOL" -> <<0, 1, 1, 0>>[k]
    [] kind = "BYTE" -> <<0, 127, -128, 5>>[k]
    [] kind = "BYTE_U" -> <<0, 255, 128, 5>>[k]
    [] kind = "SHORT" -> <<0, 32767, -32768, 5>>[k]
    [] kind = "INT" -> <<0, 1000000, 65536, 5>>[k]
    [] kind = "BITMASK" -> <<{}, 0..29, {3, 22}, {0, 5}>>[k]
    [] kind = "STRING" -> <<<<>>, <<"quad">>, <<"my", "quad">>, <<"quad", "#", "2">>>>[k]

SampleStructure(kind, k) ==
  LET short == Extreme("SHORT", k)  byte == Extreme("BYTE", k)  int == Extreme("INT", k)
  IN CASE kind = "OUTPUT_CHANNEL" ->
            [servo |-> k = 2, reverse |-> k \in {2, 3}, min |-> 900 + k, neutral |-> short,
             max |-> 2000 + k]
       [] kind = "INPUT_CHANNEL" ->
            [map |-> byte, min |-> 900 + k, neutral |-> 1500 + k, max |-> short,
             fsMode |-> k % 3, fsValue |-> 1000 + k]
       [] kind = "SCALER" ->
            [dimension |-> int, channel |-> byte, minScale |-> short, maxScale |-> 400 + k]
       [] kind = "MODE" ->
            [id |-> k, ch |-> 4 + k, min |-> 900 + k, max |-> 2000 + k,
             logicMode |-> Extreme("BYTE_U", k), linkId |-> 10 + k]
       [] kind = "MIXER" -> [src |-> <<0, 11, 1, 4>>[k], dst |-> k % OutputCount,
                             rate |-> <<0, 1000, -1000, 50>>[k]]
       [] kind = "SERIAL" ->
            [functionMask |-> int, baud |-> 115200 + k, gpsBaud |-> 9600 + k,
             telemetryBaud |-> 19200 + k, blackboxBaud |-> 57600 + k]

Structures == {"OUTPUT_CHANNEL", "INPUT_CHANNEL", "SCALER", "MODE", "MIXER", "SERIAL"}

(* A setting with named values takes the last one and one without a name. *)
Sample(p, k) ==
  CASE p.kind \in Structures -> SampleStructure(p.kind, k)
    [] p.choices # <<>> -> <<0, Len(p.choices) - 1, Len(p.choices), 1>>[k]
    [] OTHER -> Extreme(p.kind, k)

ParamOf ==
  [place \in Places \ Unnamed |->
     Params[CHOOSE i \in DOMAIN Params : Params[i].place = place]]

SampleSettings ==
  [k \in 1..4 |-> [place \in Places |->
     IF place \in Unnamed THEN k ELSE Sample(ParamOf[place], k)]]

ParamNamed == [name \in {Params[i].name : i \in DOMAIN Params} |->
                 CHOOSE i \in DOMAIN Params : Params[i].name = name]

(* The defaults differ from every other sample; which they are does not    *)
(* matter to a dump.                                                       *)
Defaults == SampleSettings[1]

-----------------------------------------------------------------------------
(* What save() takes from the state of the craft. *)
Calibration(sensor) ==
  CASE sensor = "gyro" -> {"gyro.bias0", "gyro.bias1", "gyro.bias2"}
    [] sensor = "accel" -> {"accel.bias0", "accel.bias1", "accel.bias2"}
    [] sensor = "mag" -> {"mag.offset0", "mag.offset1", "mag.offset2",
                          "mag.scale0", "mag.scale1", "mag.scale2"}

Calibrated == UNION {Calibration(s) : s \in {"gyro", "accel", "mag"}}

Saved(c, b) == [place \in Places |-> IF place \in Calibrated THEN b[place] ELSE c[place]]

-----------------------------------------------------------------------------
(* The text of a dump. *)
Comment == <<Token("#"), Token("note")>>
SaveLine == Len(Params) + 1

DumpLine(n) ==
  CASE n = 0 -> <<Token("defaults")>>
    [] n = SaveLine -> <<Token("save")>>
    [] OTHER -> PrintParam(Params[n], SampleSettings[backup])

(* A user's comments, each above a line or behind it. *)
TextLine(n) == DumpLine(n) \o (IF notes = "beside" THEN Comment ELSE <<>>)

-----------------------------------------------------------------------------
(* process(), for the characters of a word: the first # enters, a later    *)
(* one starts a comment.                                                   *)
Typed(t, word) ==
  CASE word.text = "#" /\ ~t.active -> [active |-> TRUE, ignore |-> t.ignore, heard |-> <<>>]
    [] word.text = "#" -> [t EXCEPT !.ignore = TRUE]
    [] t.ignore -> t
    [] OTHER -> [t EXCEPT !.heard = Append(@, word)]

Heard(t, words) == FoldLeft(Typed, t, words)

(* A line with a command in it does not end its comment: that takes        *)
(* another character of a line's end.                                      *)
Ended(t) == [t EXCEPT !.ignore = t.heard # <<>> /\ ends = "LF" /\ t.ignore]

(* execute(), what it does to the configuration *)
Is(words, command) == words # <<>> /\ words[1].text = command
IsSet(words) == Is(words, "set") /\ Len(words) > 1 /\ words[2].text \in DOMAIN ParamNamed

AfterSet(words) ==
  LET p == Params[ParamNamed[words[2].text]]
  IN [config EXCEPT ![p.place] = Update(p, SubSeq(words, 3, Len(words)), @)]

Execute(words) ==
  \/ /\ IsSet(words)
     /\ config' = AfterSet(words)
     /\ UNCHANGED <<stored, phase>>
  \/ /\ Is(words, "defaults")
     /\ config' = Defaults
     /\ UNCHANGED <<stored, phase>>
  \/ /\ Is(words, "save")
     /\ config' = Saved(config, bias)
     /\ \/ stored' = config' /\ phase' = "restored"
        \/ stored' = stored /\ phase' = "unsaved"
  \/ /\ ~(IsSet(words) \/ Is(words, "defaults") \/ Is(words, "save"))
     /\ UNCHANGED <<config, stored, phase>>

(* A line of the text, with the comment above it if there is one. *)
PlayLine ==
  /\ phase = "playing" /\ line <= SaveLine
  /\ \E fresh \in {[active |-> active, ignore |-> ignore, heard |-> <<>>]} :
     \E above \in {IF notes = "above" THEN Ended(Heard(fresh, Comment)) ELSE fresh} :
     \E t \in {Ended(Heard([above EXCEPT !.heard = <<>>], TextLine(line)))} :
       /\ Execute(t.heard)
       /\ active' = t.active /\ ignore' = t.ignore
  /\ line' = line + 1
  /\ UNCHANGED <<backup, found, notes, ends, bias, calibrated>>

(* finishCalibration(): accelerometer and magnetometer save.               *)
CalibrationEnds(sensor) ==
  /\ phase = "playing" /\ line \in EventLines /\ ~calibrated
  /\ calibrated' = TRUE
  /\ bias' = [p \in Calibrated |-> IF p \in Calibration(sensor) THEN 77 ELSE bias[p]]
  /\ IF sensor = "gyro" THEN UNCHANGED <<config, stored>>
     ELSE config' = Saved(config, bias') /\ stored' = config'
  /\ UNCHANGED <<backup, found, notes, ends, line, active, ignore, phase>>

(* The craft restarts with what is stored. *)
PowerLost ==
  /\ phase = "playing"
  /\ phase' = "lost" /\ config' = stored
  /\ bias' = [p \in Calibrated |-> stored[p]]
  /\ active' = FALSE /\ ignore' = FALSE
  /\ UNCHANGED <<backup, found, notes, ends, line, stored, calibrated>>

CliInit ==
  /\ \E b \in Backups : backup = b[1] /\ found = b[2]
  /\ notes \in Notes /\ ends \in {"LF", "CRLF"}
  /\ line = 0
  /\ config = SampleSettings[found] /\ stored = config
  /\ bias = [p \in Calibrated |-> config[p]]
  /\ active \in BOOLEAN /\ ignore = FALSE
  /\ phase = "playing" /\ calibrated = FALSE

CliNext ==
  \/ PlayLine
  \/ \E s \in {"gyro", "accel", "mag"} : CalibrationEnds(s)
  \/ PowerLost

CliSpec == CliInit /\ [][CliNext]_cliVars

-----------------------------------------------------------------------------
(* Is the string one word, and without a comment sign?                     *)
Plain(text) == Len(text) < 2
Hashed(text) == Contains(text, "#")

(* A line is swallowed when the one before it had a comment behind it and  *)
(* ended in a line feed alone.                                             *)
Swallowed(i) ==
  /\ ends = "LF"
  /\ \/ notes = "beside"
     \/ i > 1 /\ Params[i - 1].kind = "STRING"
        /\ Hashed(SampleSettings[backup][Params[i - 1].place])

Restorable(i) ==
  /\ Params[i].place \notin Calibrated
  /\ ~Swallowed(i)
  /\ Params[i].kind = "STRING" => Plain(SampleSettings[backup][Params[i].place])

(* After a dump was played back, every setting that the table names is     *)
(* what it was, whatever was in force before and whatever comments the     *)
(* text has got, and the EEPROM holds it.  Left out are the calibration,   *)
(* which save() takes from the craft, and what README says cannot be told  *)
(* by a line.  A craft that loses power before the last line has what it   *)
(* had before, unless a calibration has saved.                             *)
DumpRestores ==
  /\ phase \in {"restored", "unsaved"} =>
       \A i \in DOMAIN Params : Restorable(i) =>
         PrintParam(Params[i], config) = PrintParam(Params[i], SampleSettings[backup])
         /\ (Params[i].kind # "BITMASK" =>
               config[Params[i].place] = SampleSettings[backup][Params[i].place])
  /\ phase = "restored" => stored = config
  /\ phase = "lost" => calibrated \/ stored = SampleSettings[found]
=============================================================================
