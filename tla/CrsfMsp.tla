------------------------------ MODULE CrsfMsp ------------------------------
(***************************************************************************)
(* MSP requests that reach the craft over the CRSF radio link: the         *)
(* transmitter cuts a request into chunks with a cyclic sequence number,   *)
(* Rc/Crsf.cpp puts them together again and Device/InputCRSF.cpp hands the *)
(* request to the MSP processor.  The CRC of a CRSF frame keeps damaged    *)
(* chunks away, so the link delivers, loses or repeats whole chunks.       *)
(*                                                                         *)
(* A payload byte is the pair of its command and its place; what fills a   *)
(* chunk beyond the end of the request is Pad.                             *)
(***************************************************************************)
EXTENDS Integers, FiniteSets

CONSTANTS
  Requests,     \* records [cmd, size, known]: known is an MSP version 1 or 2
  FirstLen,     \* payload bytes that fit the first chunk, after the header
  NextLen,      \* payload bytes of a later chunk
  BufSize,      \* MSP_BUF_SIZE
  SeqMod,       \* CRSF_MSP_STATUS_SEQ_MASK + 1
  Repeats,      \* whether the link may deliver a chunk twice
  MaxGap        \* bound: chunks lost in a row

(* InputCRSF::_msg has static storage: before its first request it is one *)
(* without a payload, of command zero (MSP_TYPE_CMD is zero as well).     *)
NoCmd == "none"
Pad == <<NoCmd, 0>>
Cmds == {r.cmd : r \in Requests} \cup {NoCmd}

ASSUME RequestsAssumption == Requests \subseteq [cmd : STRING, size : Nat, known : BOOLEAN]
ASSUME LengthAssumption == FirstLen \in Nat /\ NextLen \in Nat \ {0} /\ BufSize \in Nat
ASSUME RepeatsAssumption == Repeats \in BOOLEAN
ASSUME SequenceAssumption == SeqMod \in Nat \ {0, 1} /\ MaxGap \in 0..(SeqMod - 1)

VARIABLES
  request,      \* what the transmitter is sending
  chunk,        \* the chunk it sent last: [start, at, len, seq]
  wire,         \* that chunk is "fresh" on the link, "repeated", or gone
  state, cmd, expected, received, buffer, sequence,     \* InputCRSF::_msg
  executed,     \* history: what processCommand was given last
  intact,       \* history: nothing of the request was lost or repeated
  gap           \* history: chunks lost since the last that arrived

sender == <<request, chunk, wire>>
message == <<state, cmd, expected, received, buffer, sequence>>
vars == <<sender, message, executed, intact, gap>>

(* A request as processCommand should see it. *)
Whole(r) == [cmd |-> r.cmd, payload |-> [k \in 1..r.size |-> <<r.cmd, k>>]]
Nothing == [cmd |-> NoCmd, payload |-> [k \in 1..0 |-> Pad]]

Init ==
  /\ request \in Requests
  /\ chunk = [start |-> TRUE, at |-> 0, len |-> request.size, seq |-> SeqMod - 1]
  /\ wire = "free"
  /\ state = "IDLE" /\ cmd = NoCmd /\ expected = 0 /\ received = 0
  /\ buffer = [k \in 1..BufSize |-> Pad] /\ sequence = 0
  /\ executed = Nothing /\ intact = FALSE /\ gap = 0

-----------------------------------------------------------------------------
(***************************************************************************)
(* The transmitter and the link.  A request may be given up for another.   *)
(***************************************************************************)
NextSeq(n) == (n + 1) % SeqMod

SentAll == chunk.at + chunk.len >= request.size

StartRequest ==
  /\ wire = "free" /\ wire' = "fresh"
  /\ request' \in Requests
  /\ chunk' = [start |-> TRUE, at |-> 0, len |-> FirstLen, seq |-> NextSeq(chunk.seq)]
  /\ intact' = TRUE
  /\ UNCHANGED <<message, executed, gap>>

NextChunk ==
  /\ wire = "free" /\ wire' = "fresh"
  /\ ~SentAll
  /\ chunk' = [start |-> FALSE, at |-> chunk.at + chunk.len, len |-> NextLen,
               seq |-> NextSeq(chunk.seq)]
  /\ UNCHANGED <<request, message, executed, intact, gap>>

LoseChunk ==
  /\ wire = "fresh" /\ wire' = "free"
  /\ gap < MaxGap /\ gap' = gap + 1
  /\ intact' = FALSE
  /\ UNCHANGED <<request, chunk, message, executed>>

(* The byte at place k of the chunk. *)
Byte(k) == IF chunk.at + k <= request.size THEN <<request.cmd, chunk.at + k>> ELSE Pad

-----------------------------------------------------------------------------
(***************************************************************************)
(* Crsf::decodeMsp.                                                        *)
(***************************************************************************)
AtMost(a, b) == IF a <= b THEN a ELSE b

(* MspMessage::append of n bytes behind the first ones. *)
AppendBytes(first, n) ==
  /\ received' = AtMost(first + n, BufSize)
  /\ buffer' = [k \in 1..BufSize |->
                  IF first < k /\ k <= first + n THEN Byte(k - first) ELSE buffer[k]]

(* Mutant: a request that starts keeps the verdict on the one before. *)
DecodeStart_KeepsState ==
  /\ chunk.start
  /\ IF request.known
     THEN /\ cmd' = request.cmd /\ expected' = request.size
          /\ AppendBytes(0, AtMost(chunk.len, request.size))
          /\ state' = IF received' = expected' THEN "RECEIVED" ELSE state
     ELSE state' = "IDLE" /\ received' = 0 /\ expected' = 0 /\ UNCHANGED <<cmd, buffer>>

(* A start resets the message; fillMessage takes a version it knows. *)
DecodeStart ==
  /\ chunk.start
  /\ IF request.known
     THEN /\ cmd' = request.cmd /\ expected' = request.size
          /\ AppendBytes(0, AtMost(chunk.len, request.size))
          /\ state' = IF received' = expected' THEN "RECEIVED" ELSE "IDLE"
     ELSE state' = "IDLE" /\ received' = 0 /\ expected' = 0 /\ UNCHANGED <<cmd, buffer>>

(* Mutant: any later chunk continues the message. *)
Follows_Any == TRUE

Follows == chunk.seq = NextSeq(sequence)

Wanted == AtMost(chunk.len, expected - received)

DecodeNext ==
  /\ ~chunk.start /\ Follows
  /\ IF received + Wanted <= BufSize
     THEN /\ AppendBytes(received, Wanted)
          /\ state' = IF received' = expected THEN "RECEIVED" ELSE state
     ELSE UNCHANGED <<state, received, buffer>>
  /\ UNCHANGED <<cmd, expected>>

DecodeMismatch ==
  /\ ~chunk.start /\ ~Follows
  /\ state' = "IDLE" /\ received' = 0 /\ expected' = 0
  /\ UNCHANGED <<cmd, buffer>>

DecodeMsp ==
  /\ DecodeStart \/ DecodeNext \/ DecodeMismatch
  /\ sequence' = chunk.seq

(* InputCRSF::applyMspReq: a chunk after which the message is complete runs a *)
(* copy of it.                                                                *)
Receive ==
  /\ wire # "free" /\ wire' \in IF Repeats THEN {"free", "repeated"} ELSE {"free"}
  /\ DecodeMsp
  /\ executed' = IF state' = "RECEIVED"
                 THEN [cmd |-> cmd', payload |-> [k \in 1..received' |-> buffer'[k]]]
                 ELSE executed
  /\ intact' = (intact /\ (wire = "fresh" \/ chunk.start))
  /\ gap' = 0
  /\ UNCHANGED <<request, chunk>>

Next ==
  \/ StartRequest
  \/ NextChunk
  \/ LoseChunk
  \/ Receive

Spec == Init /\ [][Next]_vars

-----------------------------------------------------------------------------
Lengths == {FirstLen, NextLen} \cup {r.size : r \in Requests}

TypeOK ==
  /\ request \in Requests
  /\ chunk \in [start : BOOLEAN, at : Nat, len : Lengths, seq : 0..(SeqMod - 1)]
  /\ wire \in {"free", "fresh", "repeated"}
  /\ state \in {"IDLE", "RECEIVED"} /\ cmd \in Cmds
  /\ expected \in Nat /\ received \in 0..BufSize
  /\ buffer \in [1..BufSize -> Cmds \X Nat] /\ sequence \in 0..(SeqMod - 1)
  /\ intact \in BOOLEAN /\ gap \in 0..MaxGap

(***************************************************************************)
(* What makes it right.  A message in the making is a prefix of a request; *)
(* the sequence number tells how many chunks the link is ahead of it; and  *)
(* while it is ahead by none but the one on the link, that chunk continues *)
(* the message, or the buffer is too small for the rest.                   *)
(***************************************************************************)
MessageIsPrefix ==
  /\ received <= expected
  /\ state = "RECEIVED" => received = expected
  /\ expected > 0 =>
       \E r \in Requests :
          /\ cmd = r.cmd /\ expected = r.size
          /\ \A k \in 1..received : buffer[k] = <<r.cmd, k>>

ChunksAhead == IF wire = "fresh" THEN gap + 1 ELSE gap

SequenceCounts ==
  /\ wire = "repeated" => gap = 0
  /\ expected > 0 => chunk.seq \in {sequence + ChunksAhead, sequence + ChunksAhead - SeqMod}

BufferTooSmall == received + AtMost(NextLen, expected - received) > BufSize

Continues(at) ==
  /\ cmd = request.cmd /\ expected = request.size
  /\ received = AtMost(at, expected) \/ BufferTooSmall

ChunkContinues ==
  /\ IF chunk.start THEN chunk.at = 0 ELSE chunk.len = NextLen
  /\ (expected > 0 /\ gap = 0) =>
       IF wire = "fresh" THEN chunk.start \/ Continues(chunk.at)
                         ELSE Continues(chunk.at + chunk.len)

(***************************************************************************)
(* Whatever runs with a payload is a request that was sent, from its first *)
(* byte to its last, and not the head of one with the tail of another: the *)
(* sequence number sees every gap shorter than its period, and what fills  *)
(* the last chunk is cut off.                                              *)
(***************************************************************************)
PayloadIsWhole ==
  DOMAIN executed.payload # {} => \E r \in Requests : executed = Whole(r)

(* The inductive invariant behind it. *)
Inv ==
  /\ TypeOK
  /\ MessageIsPrefix
  /\ SequenceCounts
  /\ ChunkContinues
  /\ PayloadIsWhole

(* Whatever was lost before, a request of which every chunk has arrived *)
(* once has run, unless the buffer cannot hold it.                      *)
CleanRequestRuns ==
  (intact /\ wire # "fresh" /\ SentAll /\ request.known /\ request.size <= BufSize)
    => executed = Whole(request)

(***************************************************************************)
(* Recovery: damage to one request does not reach the next.  That one runs *)
(* once it has arrived, and nothing else runs in its stead (Crsf.cpp:188). *)
(***************************************************************************)
DamageIsConfined ==
  /\ []CleanRequestRuns
  /\ [][(intact' /\ request.known /\ executed' # executed)
          => executed' = Whole(request)]_vars

(***************************************************************************)
(* Not so: that nothing runs but what was sent whole.  The reset after a   *)
(* mismatch keeps the command and leaves an empty message, which the next  *)
(* chunk in sequence completes.                                            *)
(***************************************************************************)
RunsOnlyRequests == executed # Nothing => \E r \in Requests : executed = Whole(r)

=============================================================================
