----------------------------- MODULE Blackbox ------------------------------
(***************************************************************************)
(* The recorder: Blackbox/Blackbox.cpp, which tells it of arming and       *)
(* switches, and the state machine of betaflight's blackbox.c with the     *)
(* flash device of blackbox_io.c, over the store of Flashfs.               *)
(*                                                                         *)
(* One step is one Blackbox::update, which the PID loop calls once a       *)
(* cycle; delays are counted in updates.  A frame is one cell: "B" is the  *)
(* first line of the header and "H" more of it, "I" and "P" are main       *)
(* frames, "R" is the event of a resume, "X" any other event or frame.     *)
(***************************************************************************)
EXTENDS Flashfs

CONSTANTS
  HeaderLengths,   \* cells a section of the header may take
  HeaderDelay,     \* 100 ms before the header
  StopDelay,       \* 500 ms from the disarming to the end of the log
  ShutdownDelay,   \* BLACKBOX_SHUTDOWN_TIMEOUT_MILLIS
  IInterval, PInterval,
  Modes,           \* blackbox_mode: subset of {"NORMAL", "MOTOR_TEST", "ALWAYS_ON"}
  EraseStates      \* bound: states in which the configurator asks for an erase

Byte == {"B", "H", "I", "P", "R", "X"}

(* Before the header and after the end nothing waits in the buffer. *)
BetweenLogs ==
  {"DISABLED", "STOPPED", "PREPARE_LOG_FILE", "SEND_HEADER", "START_ERASE",
   "ERASING", "ERASED"}

ASSUME IntervalAssumption == PInterval \in 1..IInterval

(***************************************************************************)
(* A frame does not read as an erased cell.  The configurator is assumed   *)
(* to ask for an erase between logs: in the middle of one the rest of it,  *)
(* still in the buffer, would become the head of the next.                 *)
(***************************************************************************)
ASSUME RecorderAssumption ==
  /\ Erased \notin Byte
  /\ HeaderLengths \subseteq Nat
  /\ {HeaderDelay, StopDelay} \subseteq Nat /\ ShutdownDelay \in Nat \ {0}
  /\ EraseStates \subseteq BetweenLogs

VARIABLES
  rec,       \* the recorder's memory
  fs,        \* the store
  armed,     \* MODE_ARMED of the model
  switches,  \* of BLACKBOX and BLACKBOX_ERASE, those that are on
  mode,      \* blackbox_mode
  pausable   \* a switch is assigned to BLACKBOX

vars == <<rec, fs, armed, switches, mode, pausable>>

Recorder ==
  [state |-> "STOPPED",
   next |-> "RUNNING",     \* cacheFlushNextState
   left |-> 0,             \* cells of this section of the header still to send
   wait |-> 0,             \* what is left of the delay counted from startTime
   stop |-> 0,             \* what is left until blackboxFinish, 0: not asked for
   armed |-> FALSE,        \* ARMING_FLAG(ARMED)
   testing |-> FALSE,      \* startedLoggingInTestMode
   loopIndex |-> 0, pFrameIndex |-> 0]

(***************************************************************************)
(* A step works on the recorder and the store together.                    *)
(***************************************************************************)
Record(s, data) == [s EXCEPT !.fs = Write(@, data)]

SetState(s, state) ==
  [s EXCEPT !.rec.state = state,
            !.rec.wait = CASE state = "SEND_HEADER" -> HeaderDelay
                           [] state = "SHUTTING_DOWN" -> ShutdownDelay
                           [] OTHER -> 0]

ResetIterationTimers(s) ==
  [s EXCEPT !.rec.loopIndex = 0, !.rec.pFrameIndex = 0]

Start(s) ==
  IF IsEOF(s.fs) THEN SetState(s, "DISABLED")
  ELSE SetState(ResetIterationTimers(s), "PREPARE_LOG_FILE")

IsRecording(s) == s.rec.state \in {"RUNNING", "PAUSED"}

LogEvent(s, event) == IF IsRecording(s) THEN Record(s, <<event>>) ELSE s

Finish(s) ==
  IF s.rec.state \in {"DISABLED", "STOPPED", "SHUTTING_DOWN"} THEN s
  ELSE SetState(LogEvent(s, "X"), "SHUTTING_DOWN")

-----------------------------------------------------------------------------
(***************************************************************************)
(* updateArmed: the end of the log asked for at an earlier disarm, then    *)
(* the change of the arming.  Arming does not take the request back.       *)
(***************************************************************************)
StopLogging(s) ==
  CASE s.rec.stop = 0 -> s
    [] s.rec.stop = 1 -> [Finish(s) EXCEPT !.rec.stop = 0]
    [] OTHER -> [s EXCEPT !.rec.stop = @ - 1]

UpdateArmed(s) ==
  LET t == StopLogging(s)
  IN CASE armed = t.rec.armed -> t
       [] armed /\ ~t.rec.armed -> [t EXCEPT !.rec.armed = TRUE]
       [] OTHER -> [LogEvent([t EXCEPT !.rec.armed = FALSE], "X")
                      EXCEPT !.rec.stop = StopDelay + 1]

-----------------------------------------------------------------------------
(***************************************************************************)
(* blackboxUpdate: each state gives the set of its outcomes.               *)
(***************************************************************************)

ShouldLogIFrame(s) == s.rec.loopIndex = 0
ShouldLogPFrame(s) == s.rec.pFrameIndex = 0

AdvanceIterationTimers(s) ==
  IF s.rec.loopIndex + 1 >= IInterval THEN ResetIterationTimers(s)
  ELSE IF s.rec.pFrameIndex + 1 >= PInterval
       THEN [s EXCEPT !.rec.loopIndex = @ + 1, !.rec.pFrameIndex = 0]
  ELSE [s EXCEPT !.rec.loopIndex = @ + 1, !.rec.pFrameIndex = @ + 1]

(* The fields of a frame are left out; what follows an I frame is coded *)
(* as the difference from it.                                           *)
IFrame == <<"I">>
PFrame == <<"P">>
SlowOrGpsFrame == <<"X">>

Frames(s) ==
  IF ShouldLogIFrame(s) THEN {IFrame}
  ELSE LET main == IF ShouldLogPFrame(s) THEN PFrame ELSE <<>>
       IN {main, SlowOrGpsFrame \o main}

LogIteration(s) ==
  {[s EXCEPT !.fs = FlushAsync(Write(@, frames))] : frames \in Frames(s)}

Stopped(s) ==
  LET t == IF s.rec.armed THEN Start(s) ELSE s
  IN {IF "ERASE" \in switches THEN SetState(t, "START_ERASE") ELSE t}

EnterSection(s, state) ==
  {[SetState(s, state) EXCEPT !.rec.left = n] : n \in HeaderLengths}

FlushThen(s, next) == {SetState([s EXCEPT !.rec.next = next], "CACHE_FLUSH")}

(* A section of the header goes out in pieces of a chunk. *)
SendPiece(s, next) ==
  LET n == IF s.rec.left < Chunk THEN s.rec.left ELSE Chunk
      sent == [Record(s, [k \in 1..n |-> "H"]) EXCEPT !.rec.left = @ - n]
  IN IF n = s.rec.left THEN FlushThen(sent, next) ELSE {sent}

SendHeader(s) ==
  IF s.rec.wait > 0 THEN {[s EXCEPT !.rec.wait = @ - 1]}
  ELSE EnterSection(Record(s, <<"B">>), "SEND_FIELD_HEADERS")

SendFieldHeaders(s) == SendPiece(s, "SEND_SYSINFO")

SendSysinfo(s) == SendPiece(s, "RUNNING")

(* A flush that finds nothing to write reports failure: wait for ever. *)
CacheFlush(s) ==
  LET flushed == [s EXCEPT !.fs = FlushAsync(@)]
  IN IF ~Flushed(s.fs) THEN {flushed}
     ELSE IF s.rec.next = "RUNNING" THEN {SetState(flushed, "RUNNING")}
     ELSE EnterSection(flushed, s.rec.next)

(* Mutant: a pause ends at any iteration. *)
Paused_AnyTime(s) ==
  {AdvanceIterationTimers(t) :
     t \in IF "BLACKBOX" \in switches
           THEN LogIteration(SetState(LogEvent(s, "R"), "RUNNING"))
           ELSE {s}}

Paused(s) ==
  {AdvanceIterationTimers(t) :
     t \in IF "BLACKBOX" \in switches /\ ShouldLogIFrame(s)
           THEN LogIteration(SetState(LogEvent(s, "R"), "RUNNING"))
           ELSE {s}}

Running(s) ==
  {AdvanceIterationTimers(t) :
     t \in IF pausable /\ "BLACKBOX" \notin switches /\ ~s.rec.testing
           THEN {SetState(s, "PAUSED")}
           ELSE LogIteration(s)}

(* Mutant: no time limit. *)
ShuttingDown_NoTimeout(s) ==
  LET flushed == [s EXCEPT !.fs = FlushAsync(@)]
  IN {IF Flushed(s.fs) THEN SetState([flushed EXCEPT !.fs = Close(@)], "STOPPED")
      ELSE flushed}

(* The time limit is looked at before the flush. *)
ShuttingDown(s) ==
  LET flushed == [s EXCEPT !.fs = FlushAsync(@)]
  IN {IF s.rec.wait = 0 THEN SetState([s EXCEPT !.fs = Close(@)], "STOPPED")
      ELSE IF Flushed(s.fs) THEN SetState([flushed EXCEPT !.fs = Close(@)], "STOPPED")
      ELSE [flushed EXCEPT !.rec.wait = @ - 1]}

(* blackboxInit, then the partition. *)
EraseAll(s) ==
  [SetState(ResetIterationTimers(s), "STOPPED") EXCEPT !.fs = EraseCompletely(@)]

Machine(s) ==
  CASE s.rec.state = "STOPPED" -> Stopped(s)
    [] s.rec.state = "PREPARE_LOG_FILE" -> {SetState(s, "SEND_HEADER")}
    [] s.rec.state = "SEND_HEADER" -> SendHeader(s)
    [] s.rec.state = "SEND_FIELD_HEADERS" -> SendFieldHeaders(s)
    [] s.rec.state = "SEND_SYSINFO" -> SendSysinfo(s)
    [] s.rec.state = "CACHE_FLUSH" -> CacheFlush(s)
    [] s.rec.state = "PAUSED" -> Paused(s)
    [] s.rec.state = "RUNNING" -> Running(s)
    [] s.rec.state = "SHUTTING_DOWN" -> ShuttingDown(s)
    [] s.rec.state = "START_ERASE" -> {SetState(EraseAll(s), "ERASING")}
    [] s.rec.state = "ERASING" -> {SetState(s, "ERASED")}
    [] s.rec.state = "ERASED" ->
         {IF "ERASE" \in switches THEN s ELSE SetState(s, "STOPPED")}
    [] OTHER -> {s}

StartInTestMode(s) ==
  IF s.rec.testing THEN s ELSE [Start(s) EXCEPT !.rec.testing = TRUE]

StopInTestMode(s) ==
  IF s.rec.testing THEN [Finish(s) EXCEPT !.rec.testing = FALSE] ELSE s

(* A full store stops the recorder; else the mode may start or stop it. *)
FullOrTestMode(s, inMotorTest) ==
  IF IsEOF(s.fs)
  THEN IF s.rec.state \in {"START_ERASE", "ERASING", "ERASED"} THEN s
       ELSE SetState([s EXCEPT !.rec.testing = FALSE], "STOPPED")
  ELSE CASE mode = "MOTOR_TEST" /\ inMotorTest ->
              IF s.rec.state = "STOPPED" THEN StartInTestMode(s) ELSE s
         [] mode = "MOTOR_TEST" /\ ~inMotorTest ->
              IF s.rec.state # "STOPPED" THEN StopInTestMode(s) ELSE s
         [] mode = "ALWAYS_ON" /\ s.rec.state = "STOPPED" -> StartInTestMode(s)
         [] OTHER -> s

(* inMotorTestMode holds while motors run disarmed, and 5 s longer. *)
MotorTests == IF mode = "MOTOR_TEST" THEN BOOLEAN ELSE {FALSE}

Updates ==
  UNION {{FullOrTestMode(s, test) : s \in Machine(t), test \in MotorTests} :
           t \in {UpdateArmed([rec |-> rec, fs |-> fs])}}

-----------------------------------------------------------------------------
Init ==
  /\ rec = Recorder /\ fs = Blank
  /\ armed = FALSE /\ switches = {}
  /\ mode \in Modes /\ pausable \in BOOLEAN

Update ==
  /\ \E s \in Updates : rec' = s.rec /\ fs' = s.fs
  /\ UNCHANGED <<armed, switches, mode, pausable>>

ArmOrDisarm ==
  /\ armed' = ~armed
  /\ UNCHANGED <<rec, fs, switches, mode, pausable>>

Switch ==
  /\ \E sw \in {"ERASE"} \union IF pausable THEN {"BLACKBOX"} ELSE {} :
       switches' = IF sw \in switches THEN switches \ {sw}
                   ELSE switches \union {sw}
  /\ UNCHANGED <<rec, fs, armed, mode, pausable>>

(* MSP_DATAFLASH_ERASE runs between two updates, armed or not. *)
DataflashErase ==
  /\ rec.state \in EraseStates
  /\ LET s == EraseAll([rec |-> rec, fs |-> fs])
     IN rec' = s.rec /\ fs' = s.fs
  /\ UNCHANGED <<armed, switches, mode, pausable>>

(* Power is lost in the middle of an update, and returns.  Not modelled are *)
(* the losses whose log the repair misses, and an erase that is cut short.  *)
PowerLoss ==
  /\ rec.state # "START_ERASE"
  /\ \E s \in Updates : \E torn \in Torn(fs, s.fs) :
       /\ ~EndIsMissed(torn)
       /\ fs' = Restart(torn)
  /\ rec' = Recorder /\ armed' = FALSE
  /\ UNCHANGED <<switches, mode, pausable>>

Next == Update \/ ArmOrDisarm \/ Switch \/ DataflashErase \/ PowerLoss

Spec == Init /\ [][Next]_vars

(* The PID loop calls the recorder in every cycle. *)
FairSpec == Spec /\ WF_vars(Update)

-----------------------------------------------------------------------------
States ==
  {"DISABLED", "STOPPED", "PREPARE_LOG_FILE", "SEND_HEADER",
   "SEND_FIELD_HEADERS", "SEND_SYSINFO", "CACHE_FLUSH", "PAUSED", "RUNNING",
   "SHUTTING_DOWN", "START_ERASE", "ERASING", "ERASED"}

Idle == {"DISABLED", "STOPPED", "ERASED"}

(***************************************************************************)
(* Every variable keeps its type; the store's index never passes the end   *)
(* of the journal and its buffer never holds a whole chunk between calls.  *)
(***************************************************************************)
TypeOK ==
  /\ rec \in [state : States, next : {"SEND_SYSINFO", "RUNNING"},
              left : HeaderLengths \union {0},
              wait : 0..(HeaderDelay + ShutdownDelay), stop : 0..(StopDelay + 1),
              armed : BOOLEAN, testing : BOOLEAN,
              loopIndex : 0..(IInterval - 1), pFrameIndex : 0..(PInterval - 1)]
  /\ fs.cell \in [Cell -> Byte \union {Erased, Mixed}]
  /\ fs.begin \in [Item -> Address \union {None}]
  /\ fs.end \in [Item -> Address \union {None}]
  /\ fs.address \in Address /\ fs.journalIdx \in 0..Items
  /\ fs.buffer \in Seq(Byte) /\ Len(fs.buffer) < Chunk
  /\ armed \in BOOLEAN /\ switches \subseteq {"BLACKBOX", "ERASE"}
  /\ mode \in Modes /\ pausable \in BOOLEAN

(***************************************************************************)
(* What a decoder needs of a log: it begins with its header, has one, and  *)
(* every delta frame comes after an I frame with no pause between them.    *)
(***************************************************************************)
IsDecodable(log) ==
  \A k \in 1..Len(log) :
    /\ log[k] \in Byte
    /\ log[k] = "B" <=> k = 1
    /\ log[k] = "H" => \A j \in 1..(k - 1) : log[j] \in {"B", "H"}
    /\ log[k] = "P" =>
         \E i \in 1..(k - 1) : /\ log[i] = "I"
                               /\ \A j \in i..k : log[j] # "R"

(***************************************************************************)
(* Every log the journal has an end for can be decoded up to where power   *)
(* was lost or the store was full, whatever arming, switches, modes,       *)
(* erases and losses of power came between.                                *)
(***************************************************************************)
LogsDecodable ==
  \A i \in 1..fs.journalIdx : LET log == Logs(fs)[i] IN
      \E n \in 0..Len(log) :
        /\ \A k \in (n + 1)..Len(log) : log[k] = Erased
        /\ IsDecodable(SubSeq(log, 1, n))

(***************************************************************************)
(* The store keeps its promise: closed logs stay as they were written,     *)
(* through crashes and repairs, until they are erased.                     *)
(***************************************************************************)
Store == INSTANCE LogStore WITH
  logs <- Logs(fs), open <- OpenLog(fs), Gap <- Stride - 1

IsLogStore == Store!Spec

(***************************************************************************)
(* In the normal mode, a craft that stays disarmed has its log closed in   *)
(* the end, whatever state of the recording the disarming came in.         *)
(***************************************************************************)
LogCloses ==
  mode = "NORMAL" /\ <>[](~armed /\ "ERASE" \notin switches) =>
    <>[](rec.state \in Idle)

(***************************************************************************)
(* "Returns true if all data has been written to the device": a craft that *)
(* stays armed is recorded in the end, unless the store is full.           *)
(***************************************************************************)
FlightIsRecorded ==
  <>[](armed /\ "ERASE" \notin switches) =>
    <>(IsRecording([rec |-> rec]) \/ IsEOF(fs))

=============================================================================
