------------------------ MODULE SerialPorts_proofs -------------------------
(***************************************************************************)
(* Two of the things that come into the flight controller.  Over the radio *)
(* link (CrsfMsp): whatever runs with a payload is a whole request, for    *)
(* all requests, chunk lengths, buffer sizes and sequence periods, and all *)
(* losses short of a period.  And through to the ESCs (EscPassthrough):    *)
(* the answer to every request is true, for all boards, memories, data and *)
(* damages.                                                                *)
(***************************************************************************)
EXTENDS CrsfMsp, EscPassthrough, TLAPS

(* A sequence number is followed by its successor, the last one by zero. *)
LEMMA NextSeqWraps ==
  ASSUME NEW n \in 0..(SeqMod - 1)
  PROVE  NextSeq(n) = IF n = SeqMod - 1 THEN 0 ELSE n + 1
<1>1. SeqMod \in Nat /\ SeqMod > 1
  BY SequenceAssumption
<1>2. CASE n = SeqMod - 1
  BY <1>1, <1>2, Z3 DEF NextSeq
<1>3. CASE n # SeqMod - 1
  BY <1>1, <1>3, Z3 DEF NextSeq
<1> QED BY <1>2, <1>3

(* The lengths a request and a chunk may have. *)
LEMMA LengthsAreNat ==
  /\ Lengths \subseteq Nat
  /\ FirstLen \in Lengths /\ NextLen \in Lengths
  /\ \A r \in Requests : r.size \in Lengths /\ r.size \in Nat /\ r.cmd \in Cmds /\ r.known \in BOOLEAN
BY RequestsAssumption, LengthAssumption DEF Lengths, Cmds

LEMMA AtMostIsLess ==
  ASSUME NEW a \in Int, NEW b \in Int
  PROVE  AtMost(a, b) \in {a, b} /\ AtMost(a, b) <= a /\ AtMost(a, b) <= b
BY DEF AtMost

(* The invariant holds before the first request. *)
LEMMA InitInv == Init => Inv
<1> SUFFICES ASSUME Init PROVE Inv
  OBVIOUS
<1> USE DEF Init
<1>1. TypeOK
  <2>1. request.size \in Lengths
    BY LengthsAreNat
  <2>2. SeqMod - 1 \in 0..(SeqMod - 1) /\ 0 \in 0..(SeqMod - 1) /\ 0 \in 0..MaxGap /\ 0 \in 0..BufSize
    BY SequenceAssumption, LengthAssumption
  <2>3. buffer \in [1..BufSize -> Cmds \X Nat]
    BY DEF Pad, Cmds
  <2> QED BY <2>1, <2>2, <2>3 DEF TypeOK, Cmds
<1>2. MessageIsPrefix /\ SequenceCounts /\ ChunkContinues
  BY DEF MessageIsPrefix, SequenceCounts, ChunkContinues
<1>3. PayloadIsWhole
  BY DEF PayloadIsWhole, Nothing
<1> QED BY <1>1, <1>2, <1>3 DEF Inv

(* What the transmitter and the link do keeps the invariant. *)
LEMMA SenderKeepsInv ==
  ASSUME Inv, StartRequest \/ NextChunk \/ LoseChunk
  PROVE  Inv'
<1> USE DEF Inv
<1>t. TypeOK'
  <2>s. NextSeq(chunk.seq) \in 0..(SeqMod - 1)
    <3>1. chunk.seq \in 0..(SeqMod - 1)
      BY DEF TypeOK
    <3> QED BY <3>1, NextSeqWraps, SequenceAssumption
  <2>l. chunk.at \in Nat /\ chunk.at + chunk.len \in Nat
    <3>1. chunk.at \in Nat /\ chunk.len \in Lengths
      BY DEF TypeOK
    <3>2. chunk.len \in Nat
      BY <3>1, LengthsAreNat
    <3> QED BY <3>1, <3>2
  <2>1. CASE StartRequest
    <3>1. chunk' \in [start : BOOLEAN, at : Nat, len : Lengths, seq : 0..(SeqMod - 1)]
      BY <2>1, <2>s, LengthsAreNat DEF StartRequest
    <3> QED BY <2>1, <3>1 DEF StartRequest, TypeOK, message
  <2>2. CASE NextChunk
    <3>1. chunk' \in [start : BOOLEAN, at : Nat, len : Lengths, seq : 0..(SeqMod - 1)]
      BY <2>2, <2>s, <2>l, LengthsAreNat DEF NextChunk
    <3> QED BY <2>2, <3>1 DEF NextChunk, TypeOK, message
  <2>3. CASE LoseChunk
    <3>1. gap' \in 0..MaxGap
      <4>1. gap \in 0..MaxGap /\ gap < MaxGap /\ gap' = gap + 1 /\ MaxGap \in Nat
        BY <2>3, SequenceAssumption DEF LoseChunk, TypeOK
      <4> QED BY <4>1
    <3> QED BY <2>3, <3>1 DEF LoseChunk, TypeOK, message
  <2> QED BY <2>1, <2>2, <2>3
<1>m. MessageIsPrefix' /\ PayloadIsWhole'
  BY DEF StartRequest, NextChunk, LoseChunk, message, MessageIsPrefix, PayloadIsWhole
<1>s. SequenceCounts'
  <2> SUFFICES ASSUME expected > 0
               PROVE  chunk'.seq \in {sequence + ChunksAhead', sequence + ChunksAhead' - SeqMod}
    BY DEF StartRequest, NextChunk, LoseChunk, message, SequenceCounts
  <2>1. /\ chunk.seq \in 0..(SeqMod - 1) /\ sequence \in 0..(SeqMod - 1) /\ gap \in 0..MaxGap
        /\ SeqMod \in Nat /\ SeqMod > 1 /\ MaxGap \in 0..(SeqMod - 1)
        /\ chunk.seq \in {sequence + ChunksAhead, sequence + ChunksAhead - SeqMod}
        /\ sequence' = sequence
    BY SequenceAssumption DEF TypeOK, SequenceCounts, StartRequest, NextChunk, LoseChunk, message
  <2>2. CASE StartRequest \/ NextChunk
    <3>1. ChunksAhead = gap /\ ChunksAhead' = gap + 1 /\ chunk'.seq = NextSeq(chunk.seq)
      BY <2>2 DEF StartRequest, NextChunk, ChunksAhead
    <3> QED BY <2>1, <3>1, NextSeqWraps
  <2>3. CASE LoseChunk
    BY <2>1, <2>3 DEF LoseChunk, ChunksAhead
  <2> QED BY <2>2, <2>3
<1>c. ChunkContinues'
  <2>1. CASE StartRequest
    BY <2>1 DEF StartRequest, ChunkContinues, message
  <2>2. CASE NextChunk
    BY <2>2 DEF NextChunk, ChunkContinues, Continues, BufferTooSmall, message
  <2>3. CASE LoseChunk
    BY <2>3 DEF LoseChunk, ChunkContinues, TypeOK, message
  <2> QED BY <2>1, <2>2, <2>3
<1> QED BY <1>t, <1>m, <1>s, <1>c

-----------------------------------------------------------------------------
(***************************************************************************)
(* A chunk that arrives: first what it does to the message.                *)
(***************************************************************************)

(* A chunk that follows in the sequence is the one the message lacks. *)
LEMMA FollowsIsNext ==
  ASSUME Inv, wire # "free", Follows, ~chunk.start, expected > 0
  PROVE  gap = 0 /\ wire = "fresh" /\ Continues(chunk.at) /\ chunk.len = NextLen
<1>1. /\ chunk.seq \in 0..(SeqMod - 1) /\ sequence \in 0..(SeqMod - 1) /\ gap \in 0..MaxGap
      /\ SeqMod \in Nat /\ SeqMod > 1 /\ MaxGap \in 0..(SeqMod - 1)
      /\ chunk.seq \in {sequence + ChunksAhead, sequence + ChunksAhead - SeqMod}
      /\ wire \in {"fresh", "repeated"} /\ (wire = "repeated" => gap = 0)
  BY SequenceAssumption DEF Inv, TypeOK, SequenceCounts
<1>2. chunk.seq = IF sequence = SeqMod - 1 THEN 0 ELSE sequence + 1
  BY <1>1, NextSeqWraps DEF Follows
<1>3. wire = "fresh" /\ gap = 0
  BY <1>1, <1>2 DEF ChunksAhead
<1> QED BY <1>3 DEF Inv, ChunkContinues

(* The types after a chunk, and the message a prefix of a request. *)
LEMMA DecodeKeepsMessage ==
  ASSUME Inv, Receive
  PROVE  /\ TypeOK' /\ MessageIsPrefix' /\ ChunkContinues'
         /\ state' = "RECEIVED" => received' = expected'
<1> DEFINE r == request
<1>r. /\ r \in Requests /\ r.size \in Nat /\ r.cmd \in Cmds /\ r.known \in BOOLEAN
      /\ request' = request /\ chunk' = chunk /\ sequence' = chunk.seq /\ gap' = 0
      /\ wire \in {"fresh", "repeated"} /\ wire' \in {"free", "repeated"}
      /\ BufSize \in Nat /\ NextLen \in Nat /\ NextLen > 0
  BY LengthsAreNat, LengthAssumption DEF Inv, TypeOK, Receive, DecodeMsp
<1>k. /\ chunk \in [start : BOOLEAN, at : Nat, len : Lengths, seq : 0..(SeqMod - 1)]
      /\ chunk.start \in BOOLEAN /\ chunk.at \in Nat /\ chunk.len \in Nat /\ chunk.seq \in 0..(SeqMod - 1)
  <2>1. chunk \in [start : BOOLEAN, at : Nat, len : Lengths, seq : 0..(SeqMod - 1)]
    BY DEF Inv, TypeOK
  <2> QED BY <2>1, LengthsAreNat
<1>v. /\ expected \in Nat /\ received \in 0..BufSize /\ received <= expected
      /\ buffer \in [1..BufSize -> Cmds \X Nat] /\ cmd \in Cmds
      /\ state \in {"IDLE", "RECEIVED"}
  BY DEF Inv, TypeOK, MessageIsPrefix
<1>t. SUFFICES /\ state' \in {"IDLE", "RECEIVED"} /\ cmd' \in Cmds
               /\ expected' \in Nat /\ received' \in 0..BufSize
               /\ buffer' \in [1..BufSize -> Cmds \X Nat]
               /\ MessageIsPrefix'
               /\ expected' > 0 => Continues(chunk.at + chunk.len)'
  <2>1. intact' \in BOOLEAN
    BY DEF Receive
  <2>2. gap' \in 0..MaxGap
    BY <1>r, SequenceAssumption
  <2> QED BY <1>r, <1>k, <2>1, <2>2 DEF TypeOK, MessageIsPrefix, ChunkContinues, Continues, Inv
<1>b. ASSUME NEW k \in 1..BufSize, NEW first \in Nat, first < k
      PROVE  Byte(k - first) \in Cmds \X Nat
  <2>1. chunk.at + (k - first) \in Nat
    <3>1. chunk.at \in Nat /\ k \in Nat /\ k - first \in Nat
      BY <1>k, <1>r, <1>b
    <3> QED BY <3>1
  <2> QED BY <1>r, <2>1 DEF Byte, Pad, Cmds
<1>a. ASSUME NEW first \in Nat, NEW n \in Nat, AppendBytes(first, n)
      PROVE  /\ buffer' \in [1..BufSize -> Cmds \X Nat]
             /\ received' \in 0..BufSize
             /\ received' \in {first + n, BufSize} /\ received' <= first + n
  <2>1. buffer' \in [1..BufSize -> Cmds \X Nat]
    BY <1>a, <1>b, <1>v DEF AppendBytes
  <2>2. received' = AtMost(first + n, BufSize)
    BY <1>a DEF AppendBytes
  <2> QED BY <2>1, <2>2, <1>r DEF AtMost
<1>1. CASE DecodeMismatch \/ (DecodeStart /\ ~r.known)
  <2>1. /\ state' = "IDLE" /\ received' = 0 /\ expected' = 0
        /\ cmd' = cmd /\ buffer' = buffer
    BY <1>1 DEF DecodeMismatch, DecodeStart
  <2>2. MessageIsPrefix'
    BY <2>1 DEF MessageIsPrefix
  <2>3. 0 \in 0..BufSize /\ ~(expected' > 0)
    BY <2>1, <1>r
  <2> QED BY <2>1, <2>2, <2>3, <1>v
<1>2. CASE DecodeStart /\ r.known
  <2> DEFINE n == AtMost(chunk.len, r.size)
  <2>1. /\ cmd' = r.cmd /\ expected' = r.size /\ AppendBytes(0, n)
        /\ state' = IF received' = expected' THEN "RECEIVED" ELSE "IDLE"
        /\ chunk.at = 0
    BY <1>2 DEF DecodeStart, Inv, ChunkContinues
  <2>2. n \in Nat /\ n <= r.size /\ n <= chunk.len /\ n \in {chunk.len, r.size}
    BY <1>r, <1>k DEF AtMost
  <2>3. /\ buffer' \in [1..BufSize -> Cmds \X Nat] /\ received' \in 0..BufSize
        /\ received' \in {n, BufSize} /\ received' <= n
    BY <1>a, <2>1, <2>2, <1>r
  <2>4. ASSUME NEW k \in 1..received' PROVE buffer'[k] = <<r.cmd, k>>
    <3>1. k \in 1..BufSize /\ 0 < k /\ k <= 0 + n /\ chunk.at + k = k /\ k - 0 = k /\ k <= r.size
      BY <2>1, <2>2, <2>3, <1>r
    <3>2. buffer'[k] = Byte(k)
      BY <2>1, <3>1 DEF AppendBytes
    <3> QED BY <3>1, <3>2 DEF Byte
  <2>5. MessageIsPrefix'
    <3>1. received' <= expected' /\ (state' = "RECEIVED" => received' = expected')
      BY <2>1, <2>2, <2>3, <1>r
    <3> QED BY <3>1, <2>1, <2>4, <1>r DEF MessageIsPrefix
  <2>6. Continues(chunk.at + chunk.len)'
    <3>1. received' = AtMost(chunk.at + chunk.len, expected') \/ received' + AtMost(NextLen, expected' - received') > BufSize
      <4>1. chunk.at + chunk.len = chunk.len
        BY <2>1, <1>k
      <4>2. CASE received' = n
        BY <4>1, <4>2, <2>1
      <4>3. CASE received' # n
        <5>1. received' = BufSize /\ BufSize < r.size /\ r.size - BufSize > 0
          BY <4>3, <2>2, <2>3, <1>r, <1>k
        <5> QED BY <5>1, <2>1, <1>r DEF AtMost
      <4> QED BY <4>2, <4>3
    <3> QED BY <3>1, <2>1, <1>r DEF Continues, BufferTooSmall
  <2> QED BY <2>1, <2>3, <2>5, <2>6, <1>r
<1>3. CASE DecodeNext
  <2>1. Follows /\ ~chunk.start /\ cmd' = cmd /\ expected' = expected
    BY <1>3 DEF DecodeNext
  <2>w. Wanted \in Nat /\ Wanted <= expected - received /\ Wanted <= chunk.len /\ Wanted \in {chunk.len, expected - received}
    BY <1>v, <1>k, <1>r DEF Wanted, AtMost
  <2>n. expected > 0 => Continues(chunk.at) /\ chunk.len = NextLen
    BY <2>1, <1>r, FollowsIsNext
  <2>2. CASE received + Wanted <= BufSize
    <3>1. AppendBytes(received, Wanted) /\ state' = IF received' = expected THEN "RECEIVED" ELSE state
      BY <1>3, <2>2 DEF DecodeNext
    <3>2. buffer' \in [1..BufSize -> Cmds \X Nat] /\ received' \in 0..BufSize /\ received' = received + Wanted
      <4>1. received \in Nat
        BY <1>v, <1>r
      <4>2. buffer' \in [1..BufSize -> Cmds \X Nat] /\ received' \in 0..BufSize
        BY <1>a, <4>1, <2>w, <3>1
      <4>3. received' = received + Wanted
        BY <3>1, <2>2, <2>w, <4>1, <1>r DEF AppendBytes, AtMost
      <4> QED BY <4>2, <4>3
    <3>3. received' <= expected' /\ (state' = "RECEIVED" => received' = expected')
      <4>1. state = "RECEIVED" => received = expected
        BY DEF Inv, MessageIsPrefix
      <4>2. received' <= expected /\ (received = expected => received' = expected)
        BY <3>2, <2>w, <1>v
      <4> QED BY <3>1, <4>1, <4>2, <2>1
    <3>4. ASSUME expected > 0 PROVE ~BufferTooSmall /\ received = AtMost(chunk.at, expected) /\ cmd = r.cmd /\ expected = r.size
      <4>1. ~BufferTooSmall
        <5>1. Wanted = AtMost(NextLen, expected - received)
          BY <3>4, <2>n DEF Wanted
        <5>2. received + Wanted \in Nat /\ ~(received + Wanted > BufSize)
          BY <2>2, <2>w, <1>v, <1>r
        <5> QED BY <5>1, <5>2 DEF BufferTooSmall
      <4> QED BY <4>1, <3>4, <2>n DEF Continues
    <3>5. ASSUME expected > 0, NEW k \in 1..received' PROVE buffer'[k] = <<r.cmd, k>>
      <4>1. k \in 1..BufSize /\ (k <= received \/ (received < k /\ k <= received + Wanted))
        BY <3>2, <1>v, <1>r
      <4>2. CASE k <= received
        <5>1. buffer'[k] = buffer[k]
          BY <4>1, <4>2, <3>1, <1>v DEF AppendBytes
        <5>2. buffer[k] = <<cmd, k>>
          BY <3>5, <4>1, <4>2, <1>v DEF Inv, MessageIsPrefix
        <5> QED BY <5>1, <5>2, <3>4, <3>5
      <4>3. CASE received < k /\ k <= received + Wanted
        <5>1. buffer'[k] = Byte(k - received)
          BY <4>1, <4>3, <3>1 DEF AppendBytes
        <5>2. chunk.at = received
          BY <3>4, <3>5, <4>3, <2>w, <1>v, <1>k DEF AtMost
        <5>3. chunk.at + (k - received) = k /\ k <= r.size
          BY <5>2, <3>4, <3>5, <4>1, <4>3, <2>w, <1>v, <1>k
        <5> QED BY <5>1, <5>3 DEF Byte
      <4> QED BY <4>1, <4>2, <4>3
    <3>6. MessageIsPrefix'
      BY <3>3, <3>4, <3>5, <2>1, <1>r DEF MessageIsPrefix
    <3>7. expected' > 0 => Continues(chunk.at + chunk.len)'
      <4> SUFFICES ASSUME expected > 0 PROVE Continues(chunk.at + chunk.len)'
        BY <2>1
      <4>1. received' = AtMost(chunk.at + chunk.len, expected)
        BY <3>2, <3>4, <2>w, <1>v, <1>k DEF AtMost
      <4> QED BY <4>1, <3>4, <2>1, <1>r DEF Continues
    <3> QED BY <3>1, <3>2, <3>6, <3>7, <2>1, <1>v
  <2>3. CASE ~(received + Wanted <= BufSize)
    <3>1. state' = state /\ received' = received /\ buffer' = buffer
      BY <1>3, <2>3 DEF DecodeNext
    <3>2. MessageIsPrefix'
      BY <3>1, <2>1 DEF Inv, MessageIsPrefix
    <3>3. expected' > 0 => Continues(chunk.at + chunk.len)'
      BY <3>1, <2>1, <2>3, <2>n, <2>w, <1>r, <1>v DEF Continues, BufferTooSmall, Wanted
    <3> QED BY <3>1, <3>2, <3>3, <2>1, <1>v
  <2> QED BY <2>2, <2>3
<1> QED BY <1>1, <1>2, <1>3 DEF Receive, DecodeMsp

(* A chunk that arrives keeps the invariant, and runs only whole requests. *)
LEMMA ReceiveKeepsInv ==
  ASSUME Inv, Receive
  PROVE  Inv'
<1>1. TypeOK' /\ MessageIsPrefix' /\ ChunkContinues'
  BY DecodeKeepsMessage
<1>2. SequenceCounts'
  <2>1. gap' = 0 /\ wire' # "fresh" /\ chunk' = chunk /\ sequence' = chunk.seq
    BY DEF Receive, DecodeMsp
  <2>2. chunk.seq \in Int
    BY DEF Inv, TypeOK
  <2> QED BY <2>1, <2>2 DEF SequenceCounts, ChunksAhead
<1>3. PayloadIsWhole'
  <2>1. CASE executed' = executed
    BY <2>1 DEF Inv, PayloadIsWhole
  <2>2. CASE executed' # executed
    <3>1. /\ state' = "RECEIVED"
          /\ executed' = [cmd |-> cmd', payload |-> [k \in 1..received' |-> buffer'[k]]]
      BY <2>2 DEF Receive
    <3>2. received' = expected' /\ received' \in Nat
      BY <3>1, <1>1, LengthAssumption DEF MessageIsPrefix, TypeOK
    <3> SUFFICES ASSUME DOMAIN executed'.payload # {}
                 PROVE  \E r \in Requests : executed' = Whole(r)
      BY DEF PayloadIsWhole, Whole
    <3>3. received' > 0
      BY <3>1, <3>2
    <3>4. PICK r \in Requests : /\ cmd' = r.cmd /\ expected' = r.size
                                /\ \A k \in 1..received' : buffer'[k] = <<r.cmd, k>>
      BY <3>2, <3>3, <1>1 DEF MessageIsPrefix
    <3>5. executed' = Whole(r)
      BY <3>1, <3>2, <3>4 DEF Whole
    <3> QED BY <3>5
  <2> QED BY <2>1, <2>2
<1> QED BY <1>1, <1>2, <1>3 DEF Inv

(* The invariant holds for ever. *)
THEOREM MessagesArePrefixes == Spec => []Inv
<1>1. Inv /\ [Next]_vars => Inv'
  <2>1. ASSUME Inv, UNCHANGED vars PROVE Inv'
    BY <2>1 DEF vars, sender, message, Inv, TypeOK, MessageIsPrefix, SequenceCounts, ChunksAhead,
       ChunkContinues, Continues, BufferTooSmall, PayloadIsWhole
  <2> QED BY <2>1, SenderKeepsInv, ReceiveKeepsInv DEF Next
<1> QED BY InitInv, <1>1, PTL DEF Spec

(* What runs with a payload is a whole request, for every set of requests, *)
(* chunk length, buffer and sequence period of at least two.               *)
THEOREM PayloadsAreWhole == Spec => []PayloadIsWhole
<1>1. Inv => PayloadIsWhole
  BY DEF Inv
<1> QED BY MessagesArePrefixes, <1>1, PTL

-----------------------------------------------------------------------------
(***************************************************************************)
(* Recovery: a request whose chunks arrive once each is put together       *)
(* whatever was lost before it.                                            *)
(***************************************************************************)

(* While nothing of the request was lost or repeated and its start has      *)
(* arrived, the message is its own, as far as the chunks before the one on  *)
(* the link go, and that one is next in the sequence.                       *)
Started == intact /\ request.known /\ ~(wire = "fresh" /\ chunk.start)

Arrived == IF wire = "fresh" THEN chunk.at ELSE chunk.at + chunk.len

MessageIsOwn ==
  /\ cmd = request.cmd /\ expected = request.size
  /\ IF wire = "fresh" THEN Follows ELSE sequence = chunk.seq
  /\ request.size <= BufSize => received = AtMost(Arrived, request.size)

StartedIsOwn == Started => MessageIsOwn

IntactInv == StartedIsOwn /\ CleanRequestRuns

(* The numbers and the record a step works with. *)
LEMMA ReceiveFacts ==
  ASSUME Inv
  PROVE  /\ request \in Requests /\ request.size \in Nat /\ request.known \in BOOLEAN
         /\ chunk \in [start : BOOLEAN, at : Nat, len : Lengths, seq : 0..(SeqMod - 1)]
         /\ chunk.start \in BOOLEAN /\ chunk.at \in Nat /\ chunk.len \in Nat
         /\ IF chunk.start THEN chunk.at = 0 ELSE chunk.len = NextLen
         /\ NextLen \in Nat /\ NextLen > 0 /\ BufSize \in Nat
         /\ wire \in {"free", "fresh", "repeated"} /\ intact \in BOOLEAN
         /\ received \in Nat /\ expected \in Nat
<1>1. /\ request \in Requests
      /\ chunk \in [start : BOOLEAN, at : Nat, len : Lengths, seq : 0..(SeqMod - 1)]
      /\ wire \in {"free", "fresh", "repeated"} /\ intact \in BOOLEAN
      /\ received \in 0..BufSize /\ expected \in Nat
  BY DEF Inv, TypeOK
<1>2. IF chunk.start THEN chunk.at = 0 ELSE chunk.len = NextLen
  BY DEF Inv, ChunkContinues
<1>3. chunk.start \in BOOLEAN /\ chunk.at \in Nat /\ chunk.len \in Nat
  BY <1>1, LengthsAreNat
<1>4. request.size \in Nat /\ request.known \in BOOLEAN
  BY <1>1, LengthsAreNat
<1>5. NextLen \in Nat /\ NextLen > 0 /\ BufSize \in Nat /\ received \in Nat
  BY <1>1, LengthAssumption
<1> QED
  BY <1>1, <1>2, <1>3, <1>4, <1>5

(* A complete message with the head of a request is that request. *)
LEMMA CompleteIsWhole ==
  ASSUME Inv', Receive, state' = "RECEIVED", cmd' = request.cmd, expected' = request.size,
         request \in Requests
  PROVE  executed' = Whole(request)
<1>1. received' = expected'
  BY DEF Inv, MessageIsPrefix
<1>2. executed' = [cmd |-> cmd', payload |-> [k \in 1..received' |-> buffer'[k]]]
  BY DEF Receive
<1>3. ASSUME NEW k \in 1..received' PROVE buffer'[k] = <<request.cmd, k>>
  <2>1. expected' > 0
    BY <1>1, <1>3 DEF Inv, TypeOK
  <2> QED
    BY <1>3, <2>1 DEF Inv, MessageIsPrefix
<1> QED
  BY <1>1, <1>2, <1>3 DEF Whole

(* The start of a known request makes the message its own, and completes    *)
(* it when it is all of it.                                                  *)
LEMMA StartIsOwn ==
  ASSUME Inv, Receive, chunk.start, request.known
  PROVE  /\ cmd' = request.cmd /\ expected' = request.size
         /\ request.size <= BufSize => received' = AtMost(chunk.at + chunk.len, request.size)
         /\ request.size <= BufSize /\ SentAll => state' = "RECEIVED"
<1>1. /\ cmd' = request.cmd /\ expected' = request.size
      /\ AppendBytes(0, AtMost(chunk.len, request.size))
      /\ state' = IF received' = expected' THEN "RECEIVED" ELSE "IDLE"
  BY DEF Receive, DecodeMsp, DecodeStart, DecodeNext, DecodeMismatch
<1>2. received' = AtMost(0 + AtMost(chunk.len, request.size), BufSize) /\ chunk.at = 0
  BY <1>1, ReceiveFacts DEF AppendBytes
<1>3. request.size <= BufSize => received' = AtMost(chunk.at + chunk.len, request.size)
  BY <1>2, ReceiveFacts DEF AtMost
<1>4. request.size <= BufSize /\ SentAll => received' = expected'
  BY <1>1, <1>3, ReceiveFacts DEF AtMost, SentAll
<1> QED
  BY <1>1, <1>3, <1>4

(* So does a later chunk, when everything before it has arrived. *)
LEMMA NextIsOwn ==
  ASSUME Inv, StartedIsOwn, Receive, ~chunk.start, wire = "fresh", intact, request.known
  PROVE  /\ cmd' = request.cmd /\ expected' = request.size
         /\ request.size <= BufSize => received' = AtMost(chunk.at + chunk.len, request.size)
         /\ request.size <= BufSize /\ SentAll => state' = "RECEIVED"
<1>1. MessageIsOwn /\ Follows
  BY DEF StartedIsOwn, Started, MessageIsOwn
<1>2. DecodeNext
  BY <1>1 DEF Receive, DecodeMsp, DecodeStart, DecodeMismatch
<1>3. cmd' = request.cmd /\ expected' = request.size /\ expected = request.size
  BY <1>1, <1>2 DEF DecodeNext, MessageIsOwn
<1>4. ASSUME request.size <= BufSize
      PROVE  /\ received' = AtMost(chunk.at + chunk.len, request.size)
             /\ state' = IF received' = expected THEN "RECEIVED" ELSE state
  <2>1. received = AtMost(chunk.at, request.size) /\ chunk.len = NextLen
    BY <1>1, <1>4, ReceiveFacts DEF MessageIsOwn, Arrived
  <2>2. Wanted = AtMost(NextLen, request.size - received)
    BY <1>3, <2>1 DEF Wanted
  <2>3. received + Wanted = AtMost(chunk.at + chunk.len, request.size)
    BY <2>1, <2>2, ReceiveFacts DEF AtMost
  <2>4. received + Wanted <= BufSize /\ AtMost(received + Wanted, BufSize) = received + Wanted
    BY <1>4, <2>3, ReceiveFacts DEF AtMost
  <2> QED
    BY <1>2, <2>3, <2>4 DEF DecodeNext, AppendBytes
<1>5. request.size <= BufSize /\ SentAll => received' = expected
  BY <1>3, <1>4, ReceiveFacts DEF AtMost, SentAll
<1> QED
  BY <1>3, <1>4, <1>5

(* A chunk that arrives and leaves the request intact is one of these two. *)
LEMMA ArrivalIsOwn ==
  ASSUME Inv, StartedIsOwn, Receive, intact', request.known
  PROVE  /\ cmd' = request.cmd /\ expected' = request.size
         /\ request.size <= BufSize => received' = AtMost(chunk.at + chunk.len, request.size)
         /\ request.size <= BufSize /\ SentAll => state' = "RECEIVED"
<1>1. intact /\ (wire = "fresh" \/ chunk.start)
  BY DEF Receive
<1>2. CASE chunk.start
  BY <1>2, StartIsOwn
<1>3. CASE ~chunk.start
  BY <1>1, <1>3, NextIsOwn
<1> QED
  BY <1>2, <1>3

(* No request is intact before the first. *)
LEMMA InitIntact == Init => IntactInv
BY DEF Init, IntactInv, StartedIsOwn, Started, CleanRequestRuns

(* Every step keeps what is intact together. *)
LEMMA StepIntact == Inv /\ Inv' /\ IntactInv /\ [Next]_vars => IntactInv'
<1> SUFFICES ASSUME Inv, Inv', IntactInv, [Next]_vars PROVE IntactInv'
  OBVIOUS
<1>1. CASE StartRequest
  BY <1>1 DEF StartRequest, IntactInv, StartedIsOwn, Started, CleanRequestRuns
<1>2. CASE NextChunk
  <2>1. wire = "free" /\ wire' = "fresh" /\ chunk'.at = chunk.at + chunk.len
    BY <1>2 DEF NextChunk
  <2>2. CleanRequestRuns'
    BY <2>1 DEF CleanRequestRuns
  <2>3. Started' => MessageIsOwn
    BY <1>2, <2>1 DEF NextChunk, IntactInv, StartedIsOwn, Started
  <2>4. MessageIsOwn => MessageIsOwn'
    <3>1. chunk'.seq = NextSeq(chunk.seq) /\ UNCHANGED <<request, message>>
      BY <1>2 DEF NextChunk
    <3> QED
      BY <2>1, <3>1 DEF MessageIsOwn, Arrived, Follows, message
  <2> QED
    BY <2>2, <2>3, <2>4 DEF IntactInv, StartedIsOwn
<1>3. CASE LoseChunk
  BY <1>3 DEF LoseChunk, IntactInv, StartedIsOwn, Started, CleanRequestRuns
<1>4. CASE Receive
  <2>1. /\ wire' # "fresh" /\ sequence' = chunk.seq
        /\ request' = request /\ chunk' = chunk
    BY <1>4 DEF Receive, DecodeMsp
  <2>2. Started' => MessageIsOwn'
    BY <1>4, <2>1, ArrivalIsOwn DEF IntactInv, Started, MessageIsOwn, Arrived
  <2>3. CleanRequestRuns'
    <3> SUFFICES ASSUME intact', SentAll, request.known, request.size <= BufSize
                 PROVE  executed' = Whole(request)
      BY <2>1 DEF CleanRequestRuns, SentAll, Whole
    <3>1. cmd' = request.cmd /\ expected' = request.size /\ state' = "RECEIVED"
      BY <1>4, ArrivalIsOwn DEF IntactInv
    <3> QED
      BY <1>4, <3>1, CompleteIsWhole, ReceiveFacts
  <2> QED
    BY <2>2, <2>3 DEF IntactInv, StartedIsOwn
<1>5. CASE UNCHANGED vars
  BY <1>5
  DEF vars, sender, message, IntactInv, StartedIsOwn, Started, MessageIsOwn, Arrived, Follows,
      CleanRequestRuns, SentAll
<1> QED
  BY <1>1, <1>2, <1>3, <1>4, <1>5 DEF Next

LEMMA IntactHolds == Spec => []IntactInv
BY InitIntact, StepIntact, MessagesArePrefixes, PTL DEF Spec

(* Damage to one request does not reach the next (Crsf.cpp: decodeMsp starts *)
(* afresh with every first chunk): the next one, once it has arrived, has    *)
(* run, and while it arrives nothing runs but it.                            *)
THEOREM DamageStaysConfined == Spec => DamageIsConfined
<1>1. IntactInv => CleanRequestRuns
  BY DEF IntactInv
<1>2. Inv /\ Inv' /\ IntactInv /\ [Next]_vars
        => [(intact' /\ request.known /\ executed' # executed)
              => executed' = Whole(request)]_vars
  <2> SUFFICES ASSUME Inv, Inv', IntactInv, [Next]_vars, intact', request.known,
                      executed' # executed
               PROVE  executed' = Whole(request)
    OBVIOUS
  <2>1. Receive
    BY DEF Next, StartRequest, NextChunk, LoseChunk, vars
  <2>2. state' = "RECEIVED"
    BY <2>1 DEF Receive
  <2>3. cmd' = request.cmd /\ expected' = request.size
    BY <2>1, ArrivalIsOwn DEF IntactInv
  <2> QED
    BY <2>1, <2>2, <2>3, CompleteIsWhole, ReceiveFacts
<1> QED
  BY <1>1, <1>2, MessagesArePrefixes, IntactHolds, PTL DEF Spec, DamageIsConfined

-----------------------------------------------------------------------------
(***************************************************************************)
(* Programming the ESCs (EscPassthrough): what passes between the flight   *)
(* controller and a boot loader.                                           *)
(***************************************************************************)
(* What an ESC, its answers and a talk with it are. *)
Kinds == {"SIL", "ATM", "ARM", "SK", "odd"}

Pieces == Data \union {Erased, Mixed}

Memories == [0..HighBytes - 1 -> Pieces]

Esc ==
  [kind : Kinds, boots : BOOLEAN, speaks : BOOLEAN, address : 0..HighBytes - 1, awaits : Nat,
   buffer : Pieces, flash : Memories, eeprom : Memories]

Saying == {"none", "info", "success", "data", "error_command", "error_crc", "error_verify"}

Heard == [esc : Esc, reply : [is : Saying, data : Pieces]]

Talks ==
  [esc : Esc, n : Nat, damaged : Nat, crc : BOOLEAN, reply : [is : Saying, data : Pieces],
   ok : BOOLEAN]

(* A talk between two messages: no data are on the way. *)
Ready(t) == t \in Talks /\ t.esc.awaits = 0

(* What a message cannot change in an ESC, unless it writes. *)
Keeps(e, f) ==
  f.kind = e.kind /\ f.flash = e.flash /\ f.eeprom = e.eeprom

(* What a talk does not change of itself. *)
Goes(t, u) == u.damaged = t.damaged /\ u.crc = t.crc

(* The boot loader takes a message of its dialect, if it is not damaged. *)
Hears(t, m) ==
  t.esc.boots /\ t.esc.kind # "SK" /\ (m.is = "init" \/ (t.esc.speaks /\ t.crc))

Listens(t) == t.esc.boots /\ t.esc.speaks /\ t.esc.kind # "SK" /\ t.crc

StkListens(t) == t.esc.boots /\ t.esc.speaks /\ t.esc.kind = "SK"

(* An address stays below the bound. *)
LEMMA AddressInRange ==
  /\ HighBytes \in Nat \ {0}
  /\ \A a \in 0..HighBytes - 1 : (a + 1) % HighBytes \in 0..HighBytes - 1
  /\ \A h \in Highs : h \in 0..HighBytes - 1
  /\ Onward \notin 0..HighBytes - 1 /\ Unknown \notin 0..HighBytes - 1 /\ Onward # Unknown
<1>1. HighBytes \in Nat \ {0} /\ Highs \subseteq 0..HighBytes - 1
  BY EscAssumption
<1>2. ASSUME NEW a \in 0..HighBytes - 1 PROVE (a + 1) % HighBytes \in 0..HighBytes - 1
  BY <1>1, SMTT(30)
<1> QED BY <1>1, <1>2 DEF Onward, Unknown

(* What an exchange makes of a talk: the ESC is as it heard the message,  *)
(* and its answer comes or is lost, which an undamaged one is not         *)
(* (BL_SendBuf, BL_ReadBuf).                                              *)
LEMMA ExchangeGoes ==
  ASSUME NEW t \in Talks, NEW heard \in Heard, NEW u, u = Exchange(t, heard)
  PROVE  /\ u \in Talks /\ u.esc = heard.esc /\ Goes(t, u) /\ u.ok = t.ok
         /\ u.reply = heard.reply \/ u.reply.is = "none"
         /\ t.damaged = 0 => u.reply = heard.reply
<1> DEFINE n == t.n + (IF heard.reply.is = "none" THEN 1 ELSE 2)
           lost == heard.reply.is # "none" /\ n = t.damaged
           reply == IF lost THEN [is |-> "none", data |-> Erased] ELSE heard.reply
<1>1. n \in Nat /\ n # 0 /\ t.damaged \in Nat
  BY DEF Talks
<1>2. reply \in [is : Saying, data : Pieces] /\ heard.esc \in Esc
  BY DEF Heard, Saying, Pieces
<1>3. u = [t EXCEPT !.esc = heard.esc, !.n = n, !.reply = reply]
  BY DEF Exchange
<1>4. /\ u.esc = heard.esc /\ u.n = n /\ u.reply = reply /\ u.damaged = t.damaged
      /\ u.crc = t.crc /\ u.ok = t.ok
  BY <1>3 DEF Talks
<1>5. u \in Talks
  <2> HIDE DEF n, reply
  <2> QED BY <1>1, <1>2, <1>3 DEF Talks
<1>6. t.damaged = 0 => ~lost
  BY <1>1
<1> QED BY <1>4, <1>5, <1>6 DEF Goes

(* To look at an answer changes nothing but the verdict (BL_GetACK).      *)
LEMMA AnsweredGoes ==
  ASSUME NEW t \in Talks, NEW is, NEW u, u = Answered(t, is)
  PROVE  /\ u \in Talks /\ u.esc = t.esc /\ Goes(t, u) /\ u.reply = t.reply
         /\ u.ok <=> t.reply.is = is
BY DEF Answered, Talks, Goes

(* Any message but data, to a boot loader that awaits none: it is ignored *)
(* or refused, and all is as it was, or the loader does what the message  *)
(* says.                                                                  *)
LEMMA BlTakes ==
  ASSUME NEW t, Ready(t), NEW m, m.is # "data", NEW d \in Heard, d = BlDoes(t.esc, m),
         NEW u, u = BL_SendBuf(t, m)
  PROVE  /\ u \in Talks /\ Goes(t, u)
         /\ \/ u.esc = t.esc /\ u.reply.is \in {"none", "error_crc"}
            \/ Hears(t, m) /\ u.esc = d.esc /\ (u.reply = d.reply \/ u.reply.is = "none")
         /\ t.damaged = 0 /\ Hears(t, m) => u.esc = d.esc /\ u.reply = d.reply
<1> DEFINE e == t.esc
           arrives == t.n + 1 # t.damaged
           ready == [e EXCEPT !.awaits = 0]
           heard == BlHears(e, m, t.crc, arrives)
           none == Reply(e, "none")
           error == Reply(ready, "error_crc")
<1>1. e \in Esc /\ e.awaits = 0 /\ t.n \in Nat /\ t.damaged \in Nat /\ t \in Talks
  BY DEF Ready, Talks
<1>2. ready = e
  BY <1>1 DEF Esc
<1>3. none \in Heard /\ error \in Heard
  BY <1>1, <1>2 DEF Reply, Heard, Saying, Pieces
<1>4. heard = IF Hears(t, m) THEN IF arrives THEN d ELSE error
              ELSE IF ~e.boots \/ e.kind = "SK" \/ (~e.speaks /\ m.is # "init") THEN none ELSE error
  <2>1. CASE ~e.boots \/ e.kind = "SK" \/ (~e.speaks /\ m.is # "init")
    BY <2>1 DEF BlHears, Hears
  <2>2. CASE ~(~e.boots \/ e.kind = "SK" \/ (~e.speaks /\ m.is # "init"))
    BY <2>2, <1>1 DEF BlHears, Hears
  <2> QED BY <2>1, <2>2
<1>5. heard \in Heard
  BY <1>3, <1>4
<1>6. u = Exchange(t, heard)
  BY DEF BL_SendBuf
<1>7. t.damaged = 0 => arrives
  BY <1>1
<1>8. /\ none.esc = e /\ none.reply.is = "none" /\ error.esc = e /\ error.reply.is = "error_crc"
  BY <1>2 DEF Reply
<1> HIDE DEF heard, none, error, ready, arrives
<1>9. /\ u \in Talks /\ u.esc = heard.esc /\ Goes(t, u)
      /\ u.reply = heard.reply \/ u.reply.is = "none"
      /\ t.damaged = 0 => u.reply = heard.reply
  BY <1>1, <1>5, <1>6, ExchangeGoes
<1> QED BY <1>4, <1>7, <1>8, <1>9

(* A talk went on and nothing that matters changed, the address apart. *)
Passes(t, u) ==
  /\ Ready(u) /\ Goes(t, u) /\ Keeps(t.esc, u.esc)
  /\ u.esc.boots = t.esc.boots /\ u.esc.speaks = t.esc.speaks

At(e, h) == IF h = Onward THEN e.address ELSE h

(* An address that is acknowledged is where the loader goes on            *)
(* (BL_SendCMDSetAddress).                                                *)
LEMMA BlPlace ==
  ASSUME NEW t, Ready(t), t.ok, t.reply.is # "error_verify", NEW h \in 0..HighBytes,
         NEW u, u = BL_SendCMDSetAddress(t, h)
  PROVE  /\ Passes(t, u) /\ u.reply.is # "error_verify"
         /\ u.ok => u.esc.address = At(t.esc, h)
         /\ t.damaged = 0 /\ Listens(t) => u.ok
<1>1. CASE h = Onward
  BY <1>1 DEF BL_SendCMDSetAddress, Passes, Goes, Keeps, At
<1>2. CASE h # Onward
  <2> DEFINE m == [is |-> "address", h |-> h]
             d == BlDoes(t.esc, m)
             v == BL_SendBuf(t, m)
  <2>1. h \in 0..HighBytes - 1 /\ t \in Talks /\ t.esc \in Esc /\ t.esc.awaits = 0
    BY <1>2, AddressInRange DEF Onward, Ready, Talks
  <2>2. d = [esc |-> [t.esc EXCEPT !.address = h], reply |-> [is |-> "success", data |-> Erased]]
    BY DEF BlDoes, Reply
  <2>3. /\ d \in Heard /\ d.reply.is = "success"
        /\ Keeps(t.esc, d.esc) /\ d.esc.boots = t.esc.boots /\ d.esc.speaks = t.esc.speaks
        /\ d.esc.awaits = 0 /\ d.esc.address = h
    BY <2>1, <2>2 DEF Heard, Esc, Saying, Pieces, Keeps
  <2>4. m.is = "address"
    OBVIOUS
  <2>5. u = Answered(v, "success")
    BY <1>2 DEF BL_SendCMDSetAddress
  <2> HIDE DEF d, v, m
  <2>6. /\ v \in Talks /\ Goes(t, v)
        /\ \/ v.esc = t.esc /\ v.reply.is \in {"none", "error_crc"}
           \/ Hears(t, m) /\ v.esc = d.esc /\ (v.reply = d.reply \/ v.reply.is = "none")
        /\ t.damaged = 0 /\ Hears(t, m) => v.esc = d.esc /\ v.reply = d.reply
    BY <2>3, <2>4, BlTakes DEF d, v
  <2>7. /\ u \in Talks /\ u.esc = v.esc /\ Goes(v, u) /\ u.reply = v.reply
        /\ u.ok <=> v.reply.is = "success"
    BY <2>5, <2>6, AnsweredGoes
  <2> QED
    BY <1>2, <2>1, <2>3, <2>4, <2>6, <2>7 DEF Passes, Goes, Keeps, Ready, Hears, Listens, At
<1> QED BY <1>1, <1>2

(* The loader no longer waits for data, which came or did not. *)
Idle(e) == [e EXCEPT !.awaits = 0]

Filled(e, data) == [Idle(e) EXCEPT !.buffer = data]

(* With or without its data the loader is otherwise as it was.            *)
LEMMA IdleEsc ==
  ASSUME NEW e \in Esc, NEW data \in Pieces
  PROVE  /\ Idle(e) \in Esc /\ (e.awaits = 0 => Idle(e) = e)
         /\ Filled(e, data) \in Esc /\ Filled(e, data).buffer = data
         /\ \A f \in {Idle(e), Filled(e, data)} :
              /\ Keeps(e, f) /\ f.boots = e.boots /\ f.speaks = e.speaks /\ f.awaits = 0
              /\ f.address = e.address
BY DEF Idle, Filled, Esc, Keeps

(* Data are taken when their length was announced, and nothing else is. *)
LEMMA BlTakesData ==
  ASSUME NEW t \in Talks, NEW p, p.is = "data", p.data \in Pieces, p.length # 0,
         NEW u, u = BL_SendBuf(t, p)
  PROVE  /\ u \in Talks /\ Goes(t, u) /\ u.reply.is \in {"none", "error_crc", "success"}
         /\ t.esc.awaits = 0 => u.esc = t.esc /\ u.reply.is # "success"
         /\ Hears(t, p) /\ t.esc.awaits = p.length
              => /\ \/ u.esc = Idle(t.esc) /\ u.reply.is # "success"
                    \/ u.esc = Filled(t.esc, p.data)
                 /\ t.damaged = 0 => u.reply.is = "success"
<1> DEFINE e == t.esc
           arrives == t.n + 1 # t.damaged
           ready == Idle(e)
           taken == Filled(e, p.data)
           heard == BlHears(e, p, t.crc, arrives)
           none == Reply(e, "none")
           error == Reply(ready, "error_crc")
           success == Reply(taken, "success")
<1>1. e \in Esc /\ t.n \in Nat /\ t.damaged \in Nat
  BY DEF Talks
<1>2. ready \in Esc /\ (e.awaits = 0 => ready = e)
  BY <1>1, IdleEsc
<1>3. taken \in Esc
  BY <1>1, IdleEsc
<1>4. none \in Heard /\ error \in Heard /\ success \in Heard
  BY <1>1, <1>2, <1>3 DEF Reply, Heard, Saying, Pieces
<1>5. heard = IF ~e.boots \/ e.kind = "SK" \/ ~e.speaks THEN none
              ELSE IF arrives /\ t.crc /\ e.awaits = p.length THEN success ELSE error
  <2>1. CASE ~e.boots \/ e.kind = "SK" \/ ~e.speaks
    BY <2>1 DEF BlHears
  <2>2. CASE ~(~e.boots \/ e.kind = "SK" \/ ~e.speaks)
    BY <2>2, <1>1 DEF BlHears, Idle, Filled
  <2> QED BY <2>1, <2>2
<1>6. u = Exchange(t, heard)
  BY DEF BL_SendBuf
<1>7. t.damaged = 0 => arrives
  BY <1>1
<1>8. /\ none.esc = e /\ none.reply.is = "none" /\ error.esc = ready /\ error.reply.is = "error_crc"
      /\ success.esc = taken /\ success.reply.is = "success"
  BY DEF Reply
<1>9. Hears(t, p) <=> ~(~e.boots \/ e.kind = "SK" \/ ~e.speaks) /\ t.crc
  BY <1>1 DEF Hears
<1> HIDE DEF heard, none, error, success, ready, taken, arrives, e
<1>10. /\ u \in Talks /\ u.esc = heard.esc /\ Goes(t, u)
       /\ u.reply = heard.reply \/ u.reply.is = "none"
       /\ t.damaged = 0 => u.reply = heard.reply
  BY <1>4, <1>5, <1>6, ExchangeGoes
<1>11. e = t.esc /\ ready = Idle(t.esc) /\ taken = Filled(t.esc, p.data)
  BY DEF e, ready, taken
<1> HIDE DEF e
<1>12. u.reply.is \in {"none", "error_crc", "success"}
  BY <1>5, <1>8, <1>10
<1>13. e.awaits = 0 => u.esc = e /\ u.reply.is # "success"
  BY <1>2, <1>5, <1>8, <1>10
<1>14. ASSUME Hears(t, p), e.awaits = p.length
       PROVE  /\ \/ u.esc = ready /\ u.reply.is # "success"
                 \/ u.esc = taken
              /\ t.damaged = 0 => u.reply.is = "success"
  BY <1>5, <1>7, <1>8, <1>9, <1>10, <1>14
<1> QED BY <1>10, <1>11, <1>12, <1>13, <1>14

(* The places that are asked for are addresses, or the mark for going on. *)
LEMMA PlacesInRange == Places \subseteq 0..HighBytes
BY AddressInRange DEF Places, Onward

(* What is sent to be written is in the buffer when it is acknowledged,     *)
(* though its length gets no answer; and nothing stays on the way.          *)
LEMMA BlSetBuffer ==
  ASSUME NEW t, Ready(t), NEW data \in Data, NEW u, u = BL_SendCMDSetBuffer(t, data)
  PROVE  /\ Passes(t, u) /\ u.reply.is # "error_verify" /\ u.esc.address = t.esc.address
         /\ u.ok => Listens(t) /\ u.esc.buffer = data
         /\ t.damaged = 0 /\ Listens(t) => u.ok
<1> DEFINE e == t.esc
           len == Length(data.len)
           m == [is |-> "buffer", high |-> IF data.len = 0 THEN 1 ELSE 0, low |-> data.len]
           d == BlDoes(e, m)
           v == BL_SendBuf(t, m)
           w == Answered(v, "none")
           p == [is |-> "data", data |-> data, length |-> len]
           x == BL_SendBuf(w, p)
<1>1. t \in Talks /\ e \in Esc /\ e.awaits = 0 /\ data.len \in 0..255 /\ data \in Pieces
  BY EscAssumption DEF Ready, Talks, Pieces
<1>2. len \in Nat /\ len = 256 * m.high + m.low /\ len # 0
  BY <1>1 DEF Length
<1>3. d = [esc |-> [e EXCEPT !.awaits = len], reply |-> [is |-> "none", data |-> Erased]]
  BY <1>2 DEF BlDoes, Reply
<1>4. /\ d \in Heard /\ d.reply.is = "none" /\ Keeps(e, d.esc) /\ d.esc.boots = e.boots
      /\ d.esc.speaks = e.speaks /\ d.esc.awaits = len /\ d.esc.address = e.address
  <2> HIDE DEF len
  <2> QED BY <1>1, <1>2, <1>3 DEF Heard, Esc, Saying, Pieces, Keeps
<1>5. m.is = "buffer" /\ p.is = "data" /\ p.length = len /\ p.data = data
  OBVIOUS
<1>6. u = IF w.ok THEN Answered(x, "success") ELSE w
  BY DEF BL_SendCMDSetBuffer
<1> HIDE DEF e, len, m, d, v, w, p, x
<1>7. /\ v \in Talks /\ Goes(t, v)
      /\ \/ v.esc = e /\ v.reply.is \in {"none", "error_crc"}
         \/ Hears(t, m) /\ v.esc = d.esc /\ v.reply.is = "none"
      /\ t.damaged = 0 /\ Hears(t, m) => v.esc = d.esc /\ v.reply = d.reply
  BY <1>4, <1>5, BlTakes DEF d, v, e
<1>8. /\ w \in Talks /\ w.esc = v.esc /\ Goes(v, w) /\ w.reply = v.reply
      /\ w.ok <=> v.reply.is = "none"
  BY <1>7, AnsweredGoes DEF w
<1>9. CASE ~w.ok
  <2>1. u = w /\ v.esc = e /\ v.reply.is = "error_crc"
    BY <1>6, <1>7, <1>8, <1>9
  <2> QED
    BY <1>1, <1>4, <1>5, <1>7, <1>8, <1>9, <2>1 DEF Passes, Goes, Keeps, Ready, Listens, Hears, e
<1>10. /\ x \in Talks /\ Goes(w, x) /\ x.reply.is \in {"none", "error_crc", "success"}
       /\ w.esc.awaits = 0 => x.esc = w.esc /\ x.reply.is # "success"
       /\ Hears(w, p) /\ w.esc.awaits = p.length
            => /\ \/ x.esc = Idle(w.esc) /\ x.reply.is # "success"
                  \/ x.esc = Filled(w.esc, p.data)
               /\ t.damaged = 0 => x.reply.is = "success"
  <2>1. p.data \in Pieces /\ p.length # 0 /\ w.damaged = t.damaged
    BY <1>1, <1>2, <1>5, <1>7, <1>8 DEF Goes
  <2>2. x = BL_SendBuf(w, p)
    BY DEF x
  <2> QED BY <1>5, <1>8, <2>1, <2>2, BlTakesData
<1>11. ASSUME w.ok
       PROVE  /\ u \in Talks /\ u.esc = x.esc /\ Goes(x, u) /\ u.reply = x.reply
              /\ u.ok <=> x.reply.is = "success"
  BY <1>6, <1>10, <1>11, AnsweredGoes
<1>12. CASE w.ok /\ w.esc = e
  <2>1. x.esc = e /\ u.esc = e /\ ~u.ok /\ u.reply.is # "error_verify"
    BY <1>1, <1>10, <1>11, <1>12
  <2>2. ~(t.damaged = 0 /\ Listens(t))
    BY <1>1, <1>2, <1>4, <1>5, <1>7, <1>8, <1>12 DEF Listens, Hears, e
  <2> QED
    BY <1>1, <1>7, <1>8, <1>10, <1>11, <1>12, <2>1, <2>2 DEF Passes, Goes, Keeps, Ready, e
<1>13. CASE w.ok /\ Hears(t, m) /\ w.esc = d.esc
  <2>1. Listens(t) /\ Hears(w, p)
    BY <1>4, <1>5, <1>7, <1>8, <1>13 DEF Listens, Hears, Goes, Keeps, e
  <2>2. /\ Filled(d.esc, data).buffer = data
        /\ \A f \in {Idle(d.esc), Filled(d.esc, data)} :
             /\ Keeps(d.esc, f) /\ f.boots = d.esc.boots /\ f.speaks = d.esc.speaks
             /\ f.awaits = 0 /\ f.address = d.esc.address
    BY <1>1, <1>4, IdleEsc DEF Heard
  <2>3. /\ Keeps(e, x.esc) /\ x.esc.boots = e.boots /\ x.esc.speaks = e.speaks
        /\ x.esc.awaits = 0 /\ x.esc.address = e.address
        /\ x.reply.is = "success" => x.esc.buffer = data
        /\ t.damaged = 0 => x.reply.is = "success"
    BY <1>1, <1>4, <1>5, <1>10, <1>13, <2>1, <2>2 DEF Keeps
  <2> QED
    BY <1>1, <1>7, <1>8, <1>10, <1>11, <1>13, <2>1, <2>3 DEF Passes, Goes, Keeps, Ready, e
<1> QED BY <1>7, <1>8, <1>9, <1>12, <1>13

(* One message and its answer: either the loader is as it was and the       *)
(* answer tells so, or it did what it was told.                             *)
LEMMA BlAsks ==
  ASSUME NEW t, Ready(t), NEW m, m.is # "data",
         NEW d \in Heard, d = BlDoes(t.esc, m), d.esc.awaits = 0,
         NEW is, is \notin {"none", "error_crc"}, NEW u, u = Answered(BL_SendBuf(t, m), is)
  PROVE  /\ Ready(u) /\ Goes(t, u)
         /\ \/ u.esc = t.esc /\ ~u.ok /\ u.reply.is \in {"none", "error_crc"}
            \/ Hears(t, m) /\ u.esc = d.esc /\ (u.reply = d.reply \/ u.reply.is = "none")
         /\ t.damaged = 0 /\ Hears(t, m) => u.esc = d.esc /\ u.reply = d.reply
         /\ u.ok <=> u.reply.is = is
         /\ u.ok => Hears(t, m) /\ u.esc = d.esc /\ u.reply = d.reply
<1> DEFINE v == BL_SendBuf(t, m)
<1>1. /\ v \in Talks /\ Goes(t, v)
      /\ \/ v.esc = t.esc /\ v.reply.is \in {"none", "error_crc"}
         \/ Hears(t, m) /\ v.esc = d.esc /\ (v.reply = d.reply \/ v.reply.is = "none")
      /\ t.damaged = 0 /\ Hears(t, m) => v.esc = d.esc /\ v.reply = d.reply
  BY BlTakes
<1> HIDE DEF v
<1>2. u = Answered(v, is)
  BY DEF v
<1>3. /\ u \in Talks /\ u.esc = v.esc /\ Goes(v, u) /\ u.reply = v.reply
      /\ u.ok <=> v.reply.is = is
  BY <1>1, <1>2, AnsweredGoes
<1>4. Ready(u) /\ Goes(t, u)
  BY <1>1, <1>3 DEF Ready, Goes
<1> QED BY <1>1, <1>3, <1>4

(* Data are programmed where the loader is, which then goes on. *)
Written(e, f, memory, a, data) ==
  \/ /\ memory = "flash" /\ f.flash[a] = Programmed(e.flash[a], data)
     /\ Only(e.flash, f.flash, {a}) /\ f.eeprom = e.eeprom
  \/ /\ memory = "eeprom" /\ f.eeprom[a] = data
     /\ Only(e.eeprom, f.eeprom, {a}) /\ f.flash = e.flash

(* What programming does to an ESC, in flash and in EEPROM.               *)
LEMMA ProgramEsc ==
  ASSUME NEW e \in Esc, NEW memory \in {"flash", "eeprom"}, NEW data \in Pieces,
         NEW f, f = Program(e, memory, data)
  PROVE  /\ f \in Esc /\ f.kind = e.kind /\ f.boots = e.boots /\ f.speaks = e.speaks
         /\ f.awaits = e.awaits /\ f.address = (e.address + 1) % HighBytes
         /\ Written(e, f, memory, e.address, data)
<1> DEFINE next == (e.address + 1) % HighBytes
           a == e.address
           onward == [e EXCEPT !.address = next]
           piece == Programmed(e.flash[a], data)
<1>1. a \in 0..HighBytes - 1 /\ next \in 0..HighBytes - 1
  BY AddressInRange DEF Esc
<1>2. piece \in Pieces
  BY DEF Programmed, Pieces
<1>3. /\ onward \in Esc /\ onward.flash = e.flash /\ onward.eeprom = e.eeprom
      /\ onward.kind = e.kind /\ onward.boots = e.boots /\ onward.speaks = e.speaks
      /\ onward.awaits = e.awaits /\ onward.address = next
  BY <1>1 DEF Esc
<1>4. CASE memory = "flash"
  <2>1. f = [onward EXCEPT !.flash = [@ EXCEPT ![a] = piece]]
    BY <1>3, <1>4 DEF Program
  <2>2. [e.flash EXCEPT ![a] = piece] \in Memories
    BY <1>1, <1>2 DEF Esc, Memories
  <2> HIDE DEF next, onward, piece
  <2>3. /\ f \in Esc /\ f.flash = [e.flash EXCEPT ![a] = piece] /\ f.eeprom = e.eeprom
        /\ f.kind = e.kind /\ f.boots = e.boots /\ f.speaks = e.speaks
        /\ f.awaits = e.awaits /\ f.address = next
    BY <1>3, <2>1, <2>2 DEF Esc
  <2>4. f.flash[a] = piece /\ Only(e.flash, f.flash, {a})
    BY <1>1, <2>3 DEF Esc, Memories, Only
  <2> QED BY <1>4, <2>3, <2>4 DEF Written, piece, next
<1>5. CASE memory = "eeprom"
  <2>1. f = [onward EXCEPT !.eeprom = [@ EXCEPT ![a] = data]]
    BY <1>3, <1>5 DEF Program
  <2>2. [e.eeprom EXCEPT ![a] = data] \in Memories
    BY <1>1 DEF Esc, Memories
  <2> HIDE DEF next, onward, piece
  <2>3. /\ f \in Esc /\ f.eeprom = [e.eeprom EXCEPT ![a] = data] /\ f.flash = e.flash
        /\ f.kind = e.kind /\ f.boots = e.boots /\ f.speaks = e.speaks
        /\ f.awaits = e.awaits /\ f.address = next
    BY <1>3, <2>1, <2>2 DEF Esc
  <2>4. f.eeprom[a] = data /\ Only(e.eeprom, f.eeprom, {a})
    BY <1>1, <2>3 DEF Esc, Memories, Only
  <2> QED BY <1>5, <2>3, <2>4 DEF Written, next
<1> QED BY <1>4, <1>5

(* A page is erased where the loader is. *)
Span(a, kind) == a .. a + PageSize(kind) - 1

Wiped(e, f, a) ==
  /\ \A h \in Span(a, e.kind) : h \in 0..HighBytes - 1 => f.flash[h] = Erased
  /\ Only(e.flash, f.flash, Span(a, e.kind))

(* What erasing a page does to an ESC.                                    *)
LEMMA EraseEsc ==
  ASSUME NEW e \in Esc, NEW f, f = ErasePage(e)
  PROVE  /\ f \in Esc /\ f.kind = e.kind /\ f.boots = e.boots /\ f.speaks = e.speaks
         /\ f.awaits = e.awaits /\ Wiped(e, f, e.address)
<1> DEFINE wiped == [h \in 0..HighBytes - 1 |->
                       IF h \in Span(e.address, e.kind) THEN Erased ELSE e.flash[h]]
<1>1. wiped \in Memories
  BY DEF Esc, Memories, Pieces
<1>2. f = [e EXCEPT !.flash = wiped]
  BY DEF ErasePage, Span
<1>3. Only(e.flash, wiped, Span(e.address, e.kind))
  BY DEF Only
<1>4. \A h \in Span(e.address, e.kind) : h \in 0..HighBytes - 1 => wiped[h] = Erased
  OBVIOUS
<1> HIDE DEF wiped
<1>5. /\ f \in Esc /\ f.kind = e.kind /\ f.boots = e.boots /\ f.speaks = e.speaks
      /\ f.awaits = e.awaits /\ f.flash = wiped
  BY <1>1, <1>2 DEF Esc
<1> QED BY <1>3, <1>4, <1>5 DEF Wiped

(* What reading does: the piece is the one at the address, which moves    *)
(* on.                                                                    *)
LEMMA PieceEsc ==
  ASSUME NEW e \in Esc, NEW memory \in {"flash", "eeprom"}, NEW d, d = ReplyPiece(e, memory)
  PROVE  /\ d \in Heard /\ Keeps(e, d.esc) /\ d.esc.boots = e.boots
         /\ d.esc.speaks = e.speaks /\ d.esc.awaits = e.awaits
         /\ d.esc.address = (e.address + 1) % HighBytes
         /\ d.reply.is = "data" /\ d.reply.data = Content(e, memory)[e.address]
<1> DEFINE next == (e.address + 1) % HighBytes
           onward == [e EXCEPT !.address = next]
           piece == Content(e, memory)[e.address]
<1>1. e.address \in 0..HighBytes - 1 /\ next \in 0..HighBytes - 1
  BY AddressInRange DEF Esc
<1>2. piece \in Pieces
  BY <1>1 DEF Content, Esc, Memories
<1>3. /\ onward \in Esc /\ Keeps(e, onward) /\ onward.boots = e.boots
      /\ onward.speaks = e.speaks /\ onward.awaits = e.awaits /\ onward.address = next
  BY <1>1 DEF Esc, Keeps
<1>4. d = [esc |-> onward, reply |-> [is |-> "data", data |-> piece]]
  BY DEF ReplyPiece
<1> HIDE DEF onward, piece, next
<1>5. d.esc = onward /\ d.reply = [is |-> "data", data |-> piece] /\ d \in Heard
  BY <1>2, <1>3, <1>4 DEF Heard, Saying
<1> QED BY <1>3, <1>5 DEF next, piece

(* A talk went on with the same ESC, whose memory may have changed. *)
Stays(t, u) ==
  /\ Ready(u) /\ Goes(t, u) /\ u.esc.kind = t.esc.kind
  /\ u.esc.boots = t.esc.boots /\ u.esc.speaks = t.esc.speaks

(* What passes without a change can be followed by more.                  *)
LEMMA PassesOn ==
  ASSUME NEW t, NEW u, NEW v, Passes(t, u)
  PROVE  /\ Stays(t, u) /\ Ready(u) /\ (Listens(u) <=> Listens(t))
         /\ (StkListens(u) <=> StkListens(t)) /\ u.damaged = t.damaged
         /\ Passes(u, v) => Passes(t, v)
         /\ Stays(u, v) => Stays(t, v)
BY DEF Passes, Stays, Goes, Keeps, Listens, StkListens

(* The beginning of a request. *)
Fresh(t) == Ready(t) /\ t.ok /\ t.reply.is = "none"

(* Address and data have arrived when both are acknowledged. *)
LEMMA BlSend ==
  ASSUME NEW t, Fresh(t), NEW h \in Places, NEW data \in Data, NEW u, u = BL_Send(t, h, data)
  PROVE  /\ Passes(t, u) /\ u.reply.is # "error_verify"
         /\ u.ok => Listens(t) /\ u.esc.address = At(t.esc, h) /\ u.esc.buffer = data
         /\ t.damaged = 0 /\ Listens(t) => u.ok
<1> DEFINE v == BL_SendCMDSetAddress(t, h)
           w == BL_SendCMDSetBuffer(v, data)
<1>1. /\ Passes(t, v) /\ v.reply.is # "error_verify"
      /\ v.ok => v.esc.address = At(t.esc, h)
      /\ t.damaged = 0 /\ Listens(t) => v.ok
  BY BlPlace, PlacesInRange DEF Fresh
<1>2. u = IF v.ok THEN w ELSE v
  BY DEF BL_Send
<1> HIDE DEF v
<1>3. Ready(v) /\ (Listens(v) <=> Listens(t)) /\ v.damaged = t.damaged
  BY <1>1, PassesOn
<1>4. /\ Passes(v, w) /\ w.reply.is # "error_verify" /\ w.esc.address = v.esc.address
      /\ w.ok => Listens(v) /\ w.esc.buffer = data
      /\ v.damaged = 0 /\ Listens(v) => w.ok
  BY <1>3, BlSetBuffer
<1> HIDE DEF w
<1>5. Passes(t, w)
  BY <1>1, <1>4, PassesOn
<1> QED BY <1>1, <1>2, <1>3, <1>4, <1>5

(* An acknowledged write was done where the loader was, or at the address *)
(* it was given, and moves on; without damage it is acknowledged          *)
(* (BL_WriteA).                                                           *)
LEMMA BlWrite ==
  ASSUME NEW t, Fresh(t), NEW memory \in {"flash", "eeprom"}, NEW h \in Places,
         NEW data \in Data, NEW u, u = BL_WriteA(t, memory, h, data)
  PROVE  /\ Stays(t, u)
         /\ u.ok => /\ Listens(t) /\ u.esc.address = (At(t.esc, h) + 1) % HighBytes
                    /\ Written(t.esc, u.esc, memory, At(t.esc, h), data)
         /\ t.damaged = 0 /\ Listens(t) => u.ok
<1> DEFINE v == BL_Send(t, h, data)
           m == [is |-> "program", memory |-> memory]
           d == BlDoes(v.esc, m)
           f == Program(v.esc, memory, v.esc.buffer)
           w == Answered(BL_SendBuf(v, m), "success")
<1>1. /\ Passes(t, v)
      /\ v.ok => Listens(t) /\ v.esc.address = At(t.esc, h) /\ v.esc.buffer = data
      /\ t.damaged = 0 /\ Listens(t) => v.ok
  BY BlSend
<1>2. u = IF v.ok THEN w ELSE v
  BY DEF BL_WriteA
<1> HIDE DEF v
<1>3. /\ Stays(t, v) /\ Ready(v) /\ (Listens(v) <=> Listens(t)) /\ v.damaged = t.damaged
  BY <1>1, PassesOn
<1>4. v.esc \in Esc /\ v.esc.awaits = 0 /\ v.esc.buffer \in Pieces
  BY <1>3 DEF Ready, Talks, Esc
<1>5. /\ f \in Esc /\ f.kind = v.esc.kind /\ f.boots = v.esc.boots /\ f.speaks = v.esc.speaks
      /\ f.awaits = v.esc.awaits /\ f.address = (v.esc.address + 1) % HighBytes
      /\ Written(v.esc, f, memory, v.esc.address, v.esc.buffer)
  BY <1>4, ProgramEsc
<1>6. d = [esc |-> f, reply |-> [is |-> "success", data |-> Erased]]
  BY DEF BlDoes, Reply
<1> HIDE DEF f
<1>7. d \in Heard /\ d.esc = f /\ d.reply.is = "success"
  BY <1>5, <1>6 DEF Heard, Saying, Pieces
<1>8. m.is = "program"
  OBVIOUS
<1> HIDE DEF d, m
<1>9. /\ Ready(w) /\ Goes(v, w)
      /\ \/ w.esc = v.esc /\ ~w.ok /\ w.reply.is \in {"none", "error_crc"}
         \/ Hears(v, m) /\ w.esc = d.esc /\ (w.reply = d.reply \/ w.reply.is = "none")
      /\ v.damaged = 0 /\ Hears(v, m) => w.esc = d.esc /\ w.reply = d.reply
      /\ w.ok <=> w.reply.is = "success"
      /\ w.ok => Hears(v, m) /\ w.esc = d.esc /\ w.reply = d.reply
  BY <1>3, <1>4, <1>5, <1>7, <1>8, BlAsks DEF d
<1> HIDE DEF w
<1>10. Hears(v, m) <=> Listens(v)
  BY <1>8 DEF Hears, Listens
<1>11. Stays(v, w)
  BY <1>3, <1>5, <1>7, <1>9 DEF Stays
<1>12. CASE ~v.ok
  BY <1>1, <1>2, <1>3, <1>12
<1>13. CASE v.ok
  <2>1. u = w /\ Stays(t, w)
    BY <1>1, <1>2, <1>11, <1>13, PassesOn
  <2>2. v.esc.flash = t.esc.flash /\ v.esc.eeprom = t.esc.eeprom
    BY <1>1 DEF Passes, Keeps
  <2>3. Written(t.esc, f, memory, At(t.esc, h), data)
    BY <1>1, <1>5, <1>13, <2>2 DEF Written
  <2> QED BY <1>1, <1>3, <1>5, <1>7, <1>9, <1>10, <1>13, <2>1, <2>3
<1> QED BY <1>12, <1>13

(* What is acknowledged as read was read there, and reading changes       *)
(* nothing (BL_ReadA).                                                    *)
LEMMA BlRead ==
  ASSUME NEW t, Fresh(t), NEW memory \in {"flash", "eeprom"}, NEW h \in Places,
         NEW u, u = BL_ReadA(t, memory, h)
  PROVE  /\ Passes(t, u)
         /\ u.ok => /\ Listens(t) /\ u.esc.address = (At(t.esc, h) + 1) % HighBytes
                    /\ u.reply.data = Content(t.esc, memory)[At(t.esc, h)]
         /\ t.damaged = 0 /\ Listens(t) /\ ((mode = "ATM" \/ memory = "eeprom") <=> t.esc.kind = "ATM")
              => u.ok
<1> DEFINE v == BL_SendCMDSetAddress(t, h)
           m == [is |-> "read", memory |-> memory, atmel |-> mode = "ATM" \/ memory = "eeprom"]
           d == BlDoes(v.esc, m)
           p == ReplyPiece(v.esc, memory)
           n == Reply(v.esc, "error_command")
           w == Answered(BL_SendBuf(v, m), "data")
<1>1. /\ Passes(t, v)
      /\ v.ok => v.esc.address = At(t.esc, h)
      /\ t.damaged = 0 /\ Listens(t) => v.ok
  BY BlPlace, PlacesInRange DEF Fresh
<1>2. u = IF v.ok THEN w ELSE v
  BY DEF BL_ReadA
<1> HIDE DEF v
<1>3. /\ Stays(t, v) /\ Ready(v) /\ (Listens(v) <=> Listens(t)) /\ v.damaged = t.damaged
  BY <1>1, PassesOn
<1>4. v.esc \in Esc /\ v.esc.awaits = 0
  BY <1>3 DEF Ready, Talks, Esc
<1>5. /\ p \in Heard /\ Keeps(v.esc, p.esc) /\ p.esc.boots = v.esc.boots
      /\ p.esc.speaks = v.esc.speaks /\ p.esc.awaits = v.esc.awaits
      /\ p.esc.address = (v.esc.address + 1) % HighBytes
      /\ p.reply.is = "data" /\ p.reply.data = Content(v.esc, memory)[v.esc.address]
  BY <1>4, PieceEsc
<1>6. n \in Heard /\ n.esc = v.esc /\ n.reply.is = "error_command"
  BY <1>4 DEF Reply, Heard, Saying, Pieces
<1>7. d = IF m.atmel = (v.esc.kind = "ATM") THEN p ELSE n
  BY DEF BlDoes
<1>8. m.is = "read" /\ (m.atmel <=> (mode = "ATM" \/ memory = "eeprom")) /\ m.atmel \in BOOLEAN
  OBVIOUS
<1> HIDE DEF d, m, p, n
<1>9. /\ Ready(w) /\ Goes(v, w)
      /\ \/ w.esc = v.esc /\ ~w.ok /\ w.reply.is \in {"none", "error_crc"}
         \/ Hears(v, m) /\ w.esc = d.esc /\ (w.reply = d.reply \/ w.reply.is = "none")
      /\ v.damaged = 0 /\ Hears(v, m) => w.esc = d.esc /\ w.reply = d.reply
      /\ w.ok <=> w.reply.is = "data"
      /\ w.ok => Hears(v, m) /\ w.esc = d.esc /\ w.reply = d.reply
  <2>1. d \in Heard /\ d.esc.awaits = 0
    BY <1>4, <1>5, <1>6, <1>7
  <2> QED BY <1>3, <1>8, <2>1, BlAsks DEF d
<1> HIDE DEF w
<1>10. Hears(v, m) <=> Listens(v)
  BY <1>8 DEF Hears, Listens
<1>11. Passes(v, w)
  BY <1>5, <1>6, <1>7, <1>9 DEF Passes, Keeps
<1>12. CASE ~v.ok
  BY <1>1, <1>2, <1>12
<1>13. CASE v.ok
  <2>1. u = w /\ Passes(t, w)
    BY <1>1, <1>2, <1>11, <1>13, PassesOn
  <2>2. w.ok => d = p
    BY <1>6, <1>7, <1>9
  <2>3. Content(v.esc, memory) = Content(t.esc, memory)
    BY <1>1 DEF Passes, Keeps, Content
  <2>4. ((mode = "ATM" \/ memory = "eeprom") <=> t.esc.kind = "ATM") => d = p
    BY <1>1, <1>7, <1>8 DEF Passes, Keeps
  <2> QED BY <1>1, <1>3, <1>5, <1>9, <1>10, <1>13, <2>1, <2>2, <2>3, <2>4
<1> QED BY <1>12, <1>13

(* An acknowledged erasure was done at the address (BL_PageErase).        *)
LEMMA BlErase ==
  ASSUME NEW t, Fresh(t), NEW h \in 0..HighBytes - 1, NEW u, u = BL_PageErase(t, h)
  PROVE  /\ Stays(t, u)
         /\ u.ok => Wiped(t.esc, u.esc, h)
         /\ t.damaged = 0 /\ Listens(t) => u.ok
<1> DEFINE v == BL_SendCMDSetAddress(t, h)
           m == [is |-> "erase"]
           d == BlDoes(v.esc, m)
           f == ErasePage(v.esc)
           w == Answered(BL_SendBuf(v, m), "success")
<1>1. /\ Passes(t, v)
      /\ v.ok => v.esc.address = At(t.esc, h)
      /\ t.damaged = 0 /\ Listens(t) => v.ok
  BY BlPlace, AddressInRange DEF Fresh
<1>2. u = IF v.ok THEN w ELSE v
  BY DEF BL_PageErase
<1> HIDE DEF v
<1>3. /\ Stays(t, v) /\ Ready(v) /\ (Listens(v) <=> Listens(t)) /\ v.damaged = t.damaged
  BY <1>1, PassesOn
<1>4. v.esc \in Esc /\ v.esc.awaits = 0
  BY <1>3 DEF Ready, Talks
<1>5. /\ f \in Esc /\ f.kind = v.esc.kind /\ f.boots = v.esc.boots /\ f.speaks = v.esc.speaks
      /\ f.awaits = v.esc.awaits /\ Wiped(v.esc, f, v.esc.address)
  BY <1>4, EraseEsc
<1>6. d = [esc |-> f, reply |-> [is |-> "success", data |-> Erased]]
  BY DEF BlDoes, Reply
<1> HIDE DEF f
<1>7. d \in Heard /\ d.esc = f /\ d.reply.is = "success"
  BY <1>5, <1>6 DEF Heard, Saying, Pieces
<1>8. m.is = "erase"
  OBVIOUS
<1> HIDE DEF d, m
<1>9. /\ Ready(w) /\ Goes(v, w)
      /\ \/ w.esc = v.esc /\ ~w.ok /\ w.reply.is \in {"none", "error_crc"}
         \/ Hears(v, m) /\ w.esc = d.esc /\ (w.reply = d.reply \/ w.reply.is = "none")
      /\ v.damaged = 0 /\ Hears(v, m) => w.esc = d.esc /\ w.reply = d.reply
      /\ w.ok <=> w.reply.is = "success"
      /\ w.ok => Hears(v, m) /\ w.esc = d.esc /\ w.reply = d.reply
  BY <1>3, <1>4, <1>5, <1>7, <1>8, BlAsks DEF d
<1> HIDE DEF w
<1>10. Hears(v, m) <=> Listens(v)
  BY <1>8 DEF Hears, Listens
<1>11. Stays(v, w)
  BY <1>3, <1>5, <1>7, <1>9 DEF Stays
<1>12. CASE ~v.ok
  BY <1>1, <1>2, <1>3, <1>12
<1>13. CASE v.ok
  <2>1. u = w /\ Stays(t, w)
    BY <1>1, <1>2, <1>11, <1>13, PassesOn
  <2>2. v.esc.flash = t.esc.flash /\ v.esc.kind = t.esc.kind
    BY <1>1 DEF Passes, Keeps
  <2>3. Wiped(t.esc, f, h)
    <3>1. At(t.esc, h) = h
      BY AddressInRange DEF At
    <3> QED BY <3>1, <1>1, <1>5, <1>13, <2>2 DEF Wiped
  <2> QED BY <1>1, <1>3, <1>5, <1>7, <1>9, <1>10, <1>13, <2>1, <2>3
<1> QED BY <1>12, <1>13

(* A comparison changes nothing, and what it says is so (BL_VerifyFlash). *)
LEMMA BlVerify ==
  ASSUME NEW t, Fresh(t), NEW h \in Places, NEW data \in Data, NEW u, u = BL_VerifyFlash(t, h, data)
  PROVE  /\ Passes(t, u)
         /\ u.ok => Listens(t) /\ t.esc.flash[At(t.esc, h)] = data
         /\ u.reply.is = "error_verify" => Listens(t) /\ t.esc.flash[At(t.esc, h)] # data
         /\ t.damaged = 0 /\ Listens(t) /\ t.esc.kind = "ARM"
              => u.ok \/ u.reply.is = "error_verify"
<1> DEFINE v == BL_Send(t, h, data)
           m == [is |-> "verify"]
           d == BlDoes(v.esc, m)
           alike == v.esc.flash[v.esc.address] = v.esc.buffer
           says == IF v.esc.kind = "ARM" THEN IF alike THEN "success" ELSE "error_verify"
                   ELSE "error_command"
           w == Answered(BL_SendBuf(v, m), "success")
<1>1. /\ Passes(t, v) /\ v.reply.is # "error_verify"
      /\ v.ok => Listens(t) /\ v.esc.address = At(t.esc, h) /\ v.esc.buffer = data
      /\ t.damaged = 0 /\ Listens(t) => v.ok
  BY BlSend
<1>2. u = IF v.ok THEN w ELSE v
  BY DEF BL_VerifyFlash
<1> HIDE DEF v
<1>3. /\ Stays(t, v) /\ Ready(v) /\ (Listens(v) <=> Listens(t)) /\ v.damaged = t.damaged
  BY <1>1, PassesOn
<1>4. v.esc \in Esc /\ v.esc.awaits = 0
  BY <1>3 DEF Ready, Talks
<1>5. d = [esc |-> v.esc, reply |-> [is |-> says, data |-> Erased]]
  BY DEF BlDoes, Reply
<1>6. says \in Saying
  BY DEF Saying
<1>7. /\ says = "success" <=> v.esc.kind = "ARM" /\ alike
      /\ says = "error_verify" <=> v.esc.kind = "ARM" /\ ~alike
      /\ says # "none" /\ says # "error_crc"
  OBVIOUS
<1> HIDE DEF says
<1>8. d \in Heard /\ d.esc = v.esc /\ d.reply.is = says
  BY <1>4, <1>5, <1>6 DEF Heard, Pieces
<1>9. m.is = "verify"
  OBVIOUS
<1> HIDE DEF d, m
<1>10. /\ Ready(w) /\ Goes(v, w)
       /\ \/ w.esc = v.esc /\ ~w.ok /\ w.reply.is \in {"none", "error_crc"}
          \/ Hears(v, m) /\ w.esc = d.esc /\ (w.reply = d.reply \/ w.reply.is = "none")
       /\ v.damaged = 0 /\ Hears(v, m) => w.esc = d.esc /\ w.reply = d.reply
       /\ w.ok <=> w.reply.is = "success"
       /\ w.ok => Hears(v, m) /\ w.esc = d.esc /\ w.reply = d.reply
  BY <1>3, <1>4, <1>8, <1>9, BlAsks DEF d
<1> HIDE DEF w
<1>11. Hears(v, m) <=> Listens(v)
  BY <1>9 DEF Hears, Listens
<1>12. Passes(v, w)
  BY <1>3, <1>8, <1>10 DEF Passes, Keeps
<1>13. CASE ~v.ok
  BY <1>1, <1>2, <1>3, <1>13
<1>14. CASE v.ok
  <2>1. u = w /\ Passes(t, w)
    BY <1>1, <1>2, <1>12, <1>14, PassesOn
  <2>2. v.esc.flash = t.esc.flash /\ v.esc.kind = t.esc.kind
    BY <1>1 DEF Passes, Keeps
  <2>3. alike <=> t.esc.flash[At(t.esc, h)] = data
    BY <1>1, <1>14, <2>2
  <2> HIDE DEF alike
  <2> QED BY <1>1, <1>3, <1>7, <1>8, <1>10, <1>11, <1>14, <2>1, <2>2, <2>3
<1> QED BY <1>13, <1>14

(* To keep the loader alive changes nothing (BL_SendCMDKeepAlive).        *)
LEMMA BlKeepAlive ==
  ASSUME NEW t, Fresh(t), NEW u, u = BL_SendCMDKeepAlive(t)
  PROVE  Passes(t, u) /\ (t.damaged = 0 /\ Listens(t) => u.ok)
<1> DEFINE m == [is |-> "keep_alive"]
           d == BlDoes(t.esc, m)
<1>1. t.esc \in Esc /\ t.esc.awaits = 0 /\ Ready(t)
  BY DEF Fresh, Ready, Talks
<1>2. d = [esc |-> t.esc, reply |-> [is |-> "error_command", data |-> Erased]]
  BY DEF BlDoes, Reply
<1>3. d \in Heard /\ d.esc = t.esc /\ d.reply.is = "error_command"
  BY <1>1, <1>2 DEF Heard, Saying, Pieces
<1>4. m.is = "keep_alive" /\ u = Answered(BL_SendBuf(t, m), "error_command")
  BY DEF BL_SendCMDKeepAlive
<1> HIDE DEF d, m
<1>5. /\ Ready(u) /\ Goes(t, u)
      /\ \/ u.esc = t.esc /\ ~u.ok /\ u.reply.is \in {"none", "error_crc"}
         \/ Hears(t, m) /\ u.esc = d.esc /\ (u.reply = d.reply \/ u.reply.is = "none")
      /\ t.damaged = 0 /\ Hears(t, m) => u.esc = d.esc /\ u.reply = d.reply
      /\ u.ok <=> u.reply.is = "error_command"
      /\ u.ok => Hears(t, m) /\ u.esc = d.esc /\ u.reply = d.reply
  BY <1>1, <1>3, <1>4, BlAsks DEF d
<1> QED
  BY <1>3, <1>4, <1>5 DEF Passes, Keeps, Hears, Listens

(* After it was told to run, an ESC is no boot loader, if it heard. *)
LEMMA BlRun ==
  ASSUME NEW t, Fresh(t), NEW u, u = BL_SendCMDRunRestartBootloader(t)
  PROVE  /\ Ready(u) /\ Keeps(t.esc, u.esc)
         /\ (t.esc.speaks => t.esc.boots) => (u.esc.speaks => u.esc.boots)
<1> DEFINE s == [t EXCEPT !.crc = TRUE]
           m == [is |-> "run"]
           d == BlDoes(s.esc, m)
           f == [t.esc EXCEPT !.boots = FALSE, !.speaks = FALSE]
<1>1. s \in Talks /\ s.esc = t.esc /\ t.esc \in Esc /\ t.esc.awaits = 0
  BY DEF Fresh, Ready, Talks
<1>2. Ready(s)
  BY <1>1 DEF Ready
<1>3. f \in Esc /\ Keeps(t.esc, f) /\ ~f.speaks /\ f.awaits = 0
  BY <1>1 DEF Esc, Keeps
<1>4. d = [esc |-> f, reply |-> [is |-> "none", data |-> Erased]]
  BY <1>1 DEF BlDoes, Reply
<1> HIDE DEF f
<1>5. d \in Heard /\ d.esc = f
  BY <1>3, <1>4 DEF Heard, Saying, Pieces
<1>6. m.is = "run" /\ u = BL_SendBuf(s, m)
  BY DEF BL_SendCMDRunRestartBootloader
<1> HIDE DEF d, m, s
<1>7. u \in Talks /\ (u.esc = s.esc \/ u.esc = d.esc)
  BY <1>2, <1>5, <1>6, BlTakes DEF d
<1> QED BY <1>1, <1>3, <1>5, <1>7 DEF Ready, Keeps

(* An ESC was greeted, or was not. *)
Greets(t, u) ==
  /\ Ready(u) /\ Keeps(t.esc, u.esc) /\ u.damaged = t.damaged
  /\ u.esc.boots = t.esc.boots
  /\ (t.esc.speaks => t.esc.boots) => (u.esc.speaks => u.esc.boots)
  /\ u.ok => u.esc.boots /\ u.esc.speaks

(* A greeting that is answered leaves a loader that speaks                *)
(* (BL_ConnectEx).                                                        *)
LEMMA BlConnect ==
  ASSUME NEW t, Ready(t), NEW u, u = BL_ConnectEx(t)
  PROVE  Greets(t, u) /\ (t.damaged = 0 /\ t.esc.boots /\ t.esc.kind # "SK" => u.ok)
<1> DEFINE m == [is |-> "init"]
           d == BlDoes(t.esc, m)
           f == [t.esc EXCEPT !.speaks = TRUE]
           v == Answered(BL_SendBuf(t, m), "info")
<1>1. t.esc \in Esc /\ t.esc.awaits = 0
  BY DEF Ready, Talks
<1>2. f \in Esc /\ Keeps(t.esc, f) /\ f.speaks /\ f.boots = t.esc.boots /\ f.awaits = 0
  BY <1>1 DEF Esc, Keeps
<1>3. d = [esc |-> f, reply |-> [is |-> "info", data |-> Erased]]
  BY DEF BlDoes, Reply
<1> HIDE DEF f
<1>4. d \in Heard /\ d.esc = f /\ d.reply.is = "info"
  BY <1>2, <1>3 DEF Heard, Saying, Pieces
<1>5. m.is = "init" /\ u = [v EXCEPT !.crc = @ \/ v.ok]
  BY DEF BL_ConnectEx
<1> HIDE DEF d, m
<1>6. /\ Ready(v) /\ Goes(t, v)
      /\ \/ v.esc = t.esc /\ ~v.ok /\ v.reply.is \in {"none", "error_crc"}
         \/ Hears(t, m) /\ v.esc = d.esc /\ (v.reply = d.reply \/ v.reply.is = "none")
      /\ t.damaged = 0 /\ Hears(t, m) => v.esc = d.esc /\ v.reply = d.reply
      /\ v.ok <=> v.reply.is = "info"
      /\ v.ok => Hears(t, m) /\ v.esc = d.esc /\ v.reply = d.reply
  BY <1>2, <1>4, <1>5, BlAsks DEF d
<1> HIDE DEF v
<1>7. /\ u \in Talks /\ u.esc = v.esc /\ u.damaged = v.damaged /\ u.ok = v.ok
  BY <1>5, <1>6 DEF Ready, Talks
<1>8. Hears(t, m) <=> t.esc.boots /\ t.esc.kind # "SK"
  BY <1>5 DEF Hears
<1>9. u.ok <=> v.reply.is = "info"
  BY <1>6, <1>7
<1> QED
  BY <1>1, <1>2, <1>4, <1>6, <1>7, <1>8, <1>9 DEF Greets, Ready, Goes, Keeps

(* What the other dialect's loader does with a message that arrives. *)
StkDoes(e, m) == StkHears(e, m, TRUE)

(* One message in the other dialect: damaged it changes nothing and gets  *)
(* no answer.                                                             *)
LEMMA StkAsks ==
  ASSUME NEW t, Ready(t), NEW m,
         NEW d \in Heard, d = StkDoes(t.esc, m), d.esc.awaits = 0,
         NEW is, is # "none", NEW u, u = StkRcvPacket(t, m, is)
  PROVE  /\ Ready(u) /\ Goes(t, u)
         /\ \/ u.esc = t.esc /\ ~u.ok
            \/ u.esc = d.esc /\ (u.reply = d.reply \/ u.reply.is = "none")
         /\ t.damaged = 0 => u.esc = d.esc /\ u.reply = d.reply
         /\ u.ok <=> u.reply.is = is
         /\ u.ok => u.esc = d.esc /\ u.reply = d.reply
<1> DEFINE arrives == t.n + 1 # t.damaged
           heard == StkHears(t.esc, m, arrives)
           none == Reply(t.esc, "none")
           v == Exchange(t, heard)
<1>1. t \in Talks /\ t.esc \in Esc /\ t.esc.awaits = 0 /\ t.n \in Nat /\ t.damaged \in Nat
  BY DEF Ready, Talks
<1>2. none \in Heard /\ none.esc = t.esc /\ none.reply.is = "none"
  BY <1>1 DEF Reply, Heard, Saying, Pieces
<1>3. arrives \in BOOLEAN /\ (t.damaged = 0 => arrives)
  BY <1>1
<1>4. heard = IF arrives THEN d ELSE none
  <2>1. CASE arrives
    <3>1. arrives = TRUE
      BY <2>1
    <3> HIDE DEF arrives
    <3> QED BY <3>1 DEF StkDoes
  <2>2. CASE ~arrives
    BY <2>2 DEF StkHears
  <2> QED BY <2>1, <2>2
<1>5. u = Answered(v, is)
  BY DEF StkRcvPacket
<1> HIDE DEF heard, none, arrives
<1>6. /\ v \in Talks /\ v.esc = heard.esc /\ Goes(t, v)
      /\ v.reply = heard.reply \/ v.reply.is = "none"
      /\ t.damaged = 0 => v.reply = heard.reply
  BY <1>1, <1>2, <1>4, ExchangeGoes
<1> HIDE DEF v
<1>7. /\ u \in Talks /\ u.esc = v.esc /\ Goes(v, u) /\ u.reply = v.reply
      /\ u.ok <=> v.reply.is = is
  BY <1>5, <1>6, AnsweredGoes
<1>8. Ready(u) /\ Goes(t, u)
  BY <1>1, <1>2, <1>4, <1>6, <1>7 DEF Ready, Goes
<1> QED BY <1>2, <1>3, <1>4, <1>6, <1>7, <1>8

(* The messages that it takes. *)
StkTakes(e, m) == e.boots /\ e.kind = "SK" /\ (m.is = "sign_on" \/ e.speaks)

(* A message that is not for this loader changes nothing.                 *)
LEMMA StkIgnores ==
  ASSUME NEW e \in Esc, NEW m, ~StkTakes(e, m), NEW d, d = StkDoes(e, m)
  PROVE  d \in Heard /\ d.esc = e /\ d.reply.is = "none"
<1>1. d = [esc |-> e, reply |-> [is |-> "none", data |-> Erased]]
  BY DEF StkTakes, StkDoes, StkHears, Reply
<1> QED BY <1>1 DEF Heard, Saying, Pieces

(* Signing on is answered by the one family that has this dialect         *)
(* (Stk_SignOn).                                                          *)
LEMMA StkSignOn ==
  ASSUME NEW t, Ready(t), NEW u, u = Stk_SignOn(t)
  PROVE  /\ Greets(t, u) /\ Goes(t, u)
         /\ u.ok => t.esc.kind = "SK"
         /\ t.esc.kind # "SK" => u.esc = t.esc
         /\ t.damaged = 0 /\ t.esc.boots /\ t.esc.kind = "SK" => u.ok
<1> DEFINE m == [is |-> "sign_on"]
           e == t.esc
           d == StkDoes(e, m)
           f == [e EXCEPT !.speaks = TRUE]
<1>1. e \in Esc /\ e.awaits = 0
  BY DEF Ready, Talks
<1>2. f \in Esc /\ Keeps(e, f) /\ f.speaks /\ f.boots = e.boots /\ f.awaits = 0
  BY <1>1 DEF Esc, Keeps
<1>3. m.is = "sign_on" /\ u = StkRcvPacket(t, m, "success")
  BY DEF Stk_SignOn
<1>4. StkTakes(e, m) => d = [esc |-> f, reply |-> [is |-> "success", data |-> Erased]]
  BY <1>1 DEF StkDoes, StkHears, StkTakes, Reply
<1> HIDE DEF f, m, e
<1>5. StkTakes(e, m) => d \in Heard /\ d.esc = f /\ d.reply.is = "success"
  BY <1>2, <1>4 DEF Heard, Saying, Pieces
<1> HIDE DEF d
<1>6. ~StkTakes(e, m) => d \in Heard /\ d.esc = e /\ d.reply.is = "none"
  BY <1>1, StkIgnores DEF d
<1>7. /\ Ready(u) /\ Goes(t, u)
      /\ \/ u.esc = e /\ ~u.ok
         \/ u.esc = d.esc /\ (u.reply = d.reply \/ u.reply.is = "none")
      /\ t.damaged = 0 => u.esc = d.esc /\ u.reply = d.reply
      /\ u.ok <=> u.reply.is = "success"
      /\ u.ok => u.esc = d.esc /\ u.reply = d.reply
  <2>1. d \in Heard /\ d.esc.awaits = 0
    BY <1>1, <1>2, <1>5, <1>6
  <2> QED BY <1>3, <2>1, StkAsks DEF d, e
<1>8. StkTakes(e, m) <=> e.boots /\ e.kind = "SK"
  BY <1>3 DEF StkTakes
<1>9. e = t.esc
  BY DEF e
<1>10. CASE StkTakes(e, m)
  BY <1>2, <1>5, <1>7, <1>8, <1>9, <1>10 DEF Greets, Goes, Keeps
<1>11. CASE ~StkTakes(e, m)
  BY <1>1, <1>6, <1>7, <1>8, <1>9, <1>11 DEF Greets, Goes, Keeps
<1> QED BY <1>10, <1>11

(* Asking for the signature changes nothing (_CMD_SPI_MULTI_EX).          *)
LEMMA StkSignature ==
  ASSUME NEW t, Ready(t), t.ok => StkListens(t), NEW u, u = Signature(t)
  PROVE  /\ Ready(u) /\ Goes(t, u) /\ u.esc = t.esc /\ (u.ok => t.ok)
         /\ t.damaged = 0 /\ t.ok => u.ok
<1> DEFINE m == [is |-> "signature"]
           e == t.esc
           d == StkDoes(e, m)
           v == StkRcvPacket(t, m, "success")
<1>1. e \in Esc /\ e.awaits = 0
  BY DEF Ready, Talks
<1>2. u = IF t.ok THEN v ELSE t
  BY DEF Signature
<1>3. CASE ~t.ok
  BY <1>2, <1>3 DEF Goes
<1>4. CASE t.ok
  <2>1. d = [esc |-> e, reply |-> [is |-> "success", data |-> Erased]]
    BY <1>4 DEF StkDoes, StkHears, StkListens, Reply
  <2>2. d \in Heard /\ d.esc = e /\ d.reply.is = "success"
    BY <1>1, <2>1 DEF Heard, Saying, Pieces
  <2> HIDE DEF m, d, v
  <2>3. /\ Ready(v) /\ Goes(t, v)
        /\ \/ v.esc = e /\ ~v.ok
           \/ v.esc = d.esc /\ (v.reply = d.reply \/ v.reply.is = "none")
        /\ t.damaged = 0 => v.esc = d.esc /\ v.reply = d.reply
        /\ v.ok <=> v.reply.is = "success"
        /\ v.ok => v.esc = d.esc /\ v.reply = d.reply
    BY <1>1, <2>2, StkAsks DEF d, v
  <2> QED BY <1>2, <1>4, <2>2, <2>3
<1> QED BY <1>3, <1>4

(* A connection in the other dialect leaves a loader that speaks          *)
(* (Stk_ConnectEx).                                                       *)
LEMMA StkConnect ==
  ASSUME NEW t, Ready(t), NEW u, u = Stk_ConnectEx(t)
  PROVE  /\ Greets(t, u)
         /\ t.damaged = 0 /\ t.esc.boots /\ t.esc.kind = "SK" => u.ok
<1> DEFINE v == Stk_SignOn(t)
           w == Signature(v)
<1>1. /\ Greets(t, v) /\ Goes(t, v)
      /\ v.ok => t.esc.kind = "SK"
      /\ t.damaged = 0 /\ t.esc.boots /\ t.esc.kind = "SK" => v.ok
  BY StkSignOn
<1>2. u = Signature(w)
  BY DEF Stk_ConnectEx
<1> HIDE DEF v
<1>3. Ready(v) /\ (v.ok => StkListens(v))
  BY <1>1 DEF Greets, Keeps, StkListens
<1>4. /\ Ready(w) /\ Goes(v, w) /\ w.esc = v.esc /\ (w.ok => v.ok)
      /\ v.damaged = 0 /\ v.ok => w.ok
  BY <1>3, StkSignature
<1> HIDE DEF w
<1>5. Ready(w) /\ (w.ok => StkListens(w))
  BY <1>3, <1>4 DEF StkListens
<1>6. /\ Ready(u) /\ Goes(w, u) /\ u.esc = w.esc /\ (u.ok => w.ok)
      /\ w.damaged = 0 /\ w.ok => u.ok
  BY <1>2, <1>5, StkSignature
<1> QED BY <1>1, <1>4, <1>6 DEF Greets, Goes

(* One attempt may follow another.                                        *)
LEMMA GreetsOn ==
  ASSUME NEW t, NEW u, NEW v, Greets(t, u), Greets(u, v)
  PROVE  Greets(t, v)
BY DEF Greets, Keeps

(* Reachable: an ESC whose family the interface tries. *)
Tried(e) == e.boots /\ ~(mode = "ARM" /\ e.kind = "SK")

(* An attempt in one dialect and then in the other reaches every family   *)
(* but the one that the interface leaves out (Connect, its switch).       *)
LEMMA TryConnects ==
  ASSUME NEW t, Ready(t), NEW u, u = TryConnect(t)
  PROVE  Greets(t, u) /\ (t.damaged = 0 /\ Tried(t.esc) => u.ok)
<1> DEFINE s == IF mode # "ARM" THEN Stk_ConnectEx(t) ELSE [t EXCEPT !.ok = FALSE]
           v == BL_ConnectEx(s)
<1>1. /\ Greets(t, s)
      /\ t.damaged = 0 /\ t.esc.boots /\ t.esc.kind = "SK" /\ mode # "ARM" => s.ok
  <2>1. CASE mode # "ARM"
    BY <2>1, StkConnect
  <2>2. CASE mode = "ARM"
    <3>1. s = [t EXCEPT !.ok = FALSE]
      BY <2>2
    <3> HIDE DEF s
    <3>2. s \in Talks /\ s.esc = t.esc /\ ~s.ok /\ s.damaged = t.damaged
      BY <3>1 DEF Ready, Talks
    <3> QED BY <2>2, <3>2 DEF Greets, Ready, Keeps
  <2> QED BY <2>1, <2>2
<1>2. u = IF s.ok THEN s ELSE v
  BY DEF TryConnect
<1> HIDE DEF s
<1>3. Ready(s)
  BY <1>1 DEF Greets
<1>4. Greets(s, v) /\ (s.damaged = 0 /\ s.esc.boots /\ s.esc.kind # "SK" => v.ok)
  BY <1>3, BlConnect
<1> HIDE DEF v
<1>5. Greets(t, v)
  BY <1>1, <1>4, GreetsOn
<1>6. s.damaged = t.damaged /\ s.esc.boots = t.esc.boots /\ s.esc.kind = t.esc.kind
  BY <1>1 DEF Greets, Keeps
<1> QED BY <1>1, <1>2, <1>4, <1>5, <1>6 DEF Tried

(* Up to three attempts, of which the last one counts (Connect).          *)
LEMMA Connects ==
  ASSUME NEW t, Ready(t), NEW u, u = Connect(t)
  PROVE  Greets(t, u) /\ (t.damaged = 0 /\ Tried(t.esc) /\ t.esc.kind # "odd" => Matches(u))
<1> DEFINE first == TryConnect(t)
           again == TryConnect(first)
           second == IF Matches(first) THEN first ELSE again
           last == TryConnect(second)
<1>1. Greets(t, first) /\ (t.damaged = 0 /\ Tried(t.esc) => first.ok)
  BY TryConnects
<1>2. u = IF Matches(second) THEN second ELSE last
  BY DEF Connect
<1> HIDE DEF first
<1>3. Greets(first, again)
  BY <1>1, TryConnects DEF Greets
<1>4. Greets(t, second)
  BY <1>1, <1>3, GreetsOn
<1>5. t.damaged = 0 /\ Tried(t.esc) /\ t.esc.kind # "odd" => Matches(first)
  BY <1>1 DEF Matches, Greets, Keeps
<1>6. Matches(first) => second = first
  OBVIOUS
<1> HIDE DEF second
<1>7. Greets(second, last)
  BY <1>4, TryConnects DEF Greets
<1> HIDE DEF last
<1>8. Greets(t, last)
  BY <1>4, <1>7, GreetsOn
<1> QED BY <1>2, <1>4, <1>5, <1>6, <1>8

(* One message after the greeting: either the loader is as it was and the   *)
(* answer is none of its own, or it did what it was told.                   *)
LEMMA StkTells ==
  ASSUME NEW t, Ready(t), NEW m, m.is # "sign_on",
         NEW d \in Heard, StkTakes(t.esc, m) => StkDoes(t.esc, m) = d, d.esc.awaits = 0,
         NEW is, is # "none", d.reply.is = is, NEW u, u = StkRcvPacket(t, m, is)
  PROVE  /\ Ready(u) /\ Goes(t, u) /\ u.esc \in {t.esc, d.esc}
         /\ u.ok => StkListens(t) /\ u.esc = d.esc /\ u.reply = d.reply
         /\ t.damaged = 0 /\ StkListens(t) => u.ok
<1> DEFINE e == t.esc
           does == StkDoes(e, m)
<1>1. e \in Esc /\ e.awaits = 0
  BY DEF Ready, Talks
<1>2. StkTakes(e, m) <=> StkListens(t)
  BY DEF StkTakes, StkListens
<1>3. StkTakes(e, m) => does = d
  OBVIOUS
<1> HIDE DEF does
<1>4. ~StkTakes(e, m) => does \in Heard /\ does.esc = e /\ does.reply.is = "none"
  BY <1>1, StkIgnores DEF does
<1>5. does \in Heard /\ does.esc.awaits = 0
  BY <1>1, <1>3, <1>4
<1>6. /\ Ready(u) /\ Goes(t, u)
      /\ \/ u.esc = e /\ ~u.ok
         \/ u.esc = does.esc /\ (u.reply = does.reply \/ u.reply.is = "none")
      /\ t.damaged = 0 => u.esc = does.esc /\ u.reply = does.reply
      /\ u.ok <=> u.reply.is = is
      /\ u.ok => u.esc = does.esc /\ u.reply = does.reply
  BY <1>5, StkAsks DEF does
<1> QED BY <1>2, <1>3, <1>4, <1>6

(* An address that is acknowledged is where the loader goes on            *)
(* (_CMD_LOAD_ADDRESS).                                                   *)
LEMMA StkPlace ==
  ASSUME NEW t, Fresh(t), NEW h \in Places, NEW u, u = CMD_LOAD_ADDRESS(t, h)
  PROVE  /\ Passes(t, u)
         /\ u.ok => u.esc.address = At(t.esc, h)
         /\ t.damaged = 0 /\ StkListens(t) => u.ok
<1> DEFINE m == [is |-> "address", h |-> h]
           f == [t.esc EXCEPT !.address = h]
           d == [esc |-> f, reply |-> [is |-> "success", data |-> Erased]]
<1>1. t.esc \in Esc /\ t.esc.awaits = 0 /\ Ready(t) /\ t.ok
  BY DEF Fresh, Ready, Talks
<1>2. CASE h = Onward
  BY <1>1, <1>2 DEF CMD_LOAD_ADDRESS, Passes, Goes, Keeps, At
<1>3. CASE h # Onward
  <2>1. h \in 0..HighBytes - 1
    BY <1>3, AddressInRange DEF Places
  <2>2. /\ f \in Esc /\ Keeps(t.esc, f) /\ f.speaks = t.esc.speaks /\ f.boots = t.esc.boots
        /\ f.awaits = 0 /\ f.address = h
    BY <1>1, <2>1 DEF Esc, Keeps
  <2>3. m.is = "address" /\ u = StkRcvPacket(t, m, "success")
    BY <1>3 DEF CMD_LOAD_ADDRESS
  <2>4. StkTakes(t.esc, m) => StkDoes(t.esc, m) = d
    BY DEF StkDoes, StkHears, StkTakes, Reply
  <2> HIDE DEF f, m
  <2>5. d \in Heard /\ d.esc = f /\ d.reply.is = "success"
    BY <2>2 DEF Heard, Saying, Pieces
  <2> HIDE DEF d
  <2>6. /\ Ready(u) /\ Goes(t, u) /\ u.esc \in {t.esc, d.esc}
        /\ u.ok => StkListens(t) /\ u.esc = d.esc /\ u.reply = d.reply
        /\ t.damaged = 0 /\ StkListens(t) => u.ok
    BY <1>1, <2>2, <2>3, <2>4, <2>5, StkTells
  <2> QED BY <1>3, <2>2, <2>5, <2>6 DEF Passes, Keeps, At
<1> QED BY <1>2, <1>3

(* An acknowledged write was done there and moves on                      *)
(* (_CMD_PROGRAM_MEM_ISP).                                                *)
LEMMA StkWrite ==
  ASSUME NEW t, Fresh(t), NEW memory \in {"flash", "eeprom"}, NEW h \in Places,
         NEW data \in Data, NEW u, u = Stk_Write(t, memory, h, data)
  PROVE  /\ Stays(t, u)
         /\ u.ok => /\ StkListens(t) /\ u.esc.address = (At(t.esc, h) + 1) % HighBytes
                    /\ Written(t.esc, u.esc, memory, At(t.esc, h), data)
         /\ t.damaged = 0 /\ StkListens(t) => u.ok
<1> DEFINE v == CMD_LOAD_ADDRESS(t, h)
           m == [is |-> "program", memory |-> memory, data |-> data]
           f == Program(v.esc, memory, data)
           d == [esc |-> f, reply |-> [is |-> "success", data |-> Erased]]
           w == StkRcvPacket(v, m, "success")
<1>1. /\ Passes(t, v)
      /\ v.ok => v.esc.address = At(t.esc, h)
      /\ t.damaged = 0 /\ StkListens(t) => v.ok
  BY StkPlace
<1>2. u = IF v.ok THEN w ELSE v
  BY DEF Stk_Write
<1> HIDE DEF v
<1>3. /\ Stays(t, v) /\ Ready(v) /\ (StkListens(v) <=> StkListens(t)) /\ v.damaged = t.damaged
  BY <1>1, PassesOn
<1>4. v.esc \in Esc /\ v.esc.awaits = 0 /\ data \in Pieces
  BY <1>3 DEF Ready, Talks, Pieces
<1>5. /\ f \in Esc /\ f.kind = v.esc.kind /\ f.boots = v.esc.boots /\ f.speaks = v.esc.speaks
      /\ f.awaits = v.esc.awaits /\ f.address = (v.esc.address + 1) % HighBytes
      /\ Written(v.esc, f, memory, v.esc.address, data)
  BY <1>4, ProgramEsc
<1>6. m.is = "program" /\ (StkTakes(v.esc, m) => StkDoes(v.esc, m) = d)
  BY DEF StkDoes, StkHears, StkTakes, Reply
<1> HIDE DEF f, m
<1>7. d \in Heard /\ d.esc = f /\ d.reply.is = "success"
  BY <1>5 DEF Heard, Saying, Pieces
<1> HIDE DEF d
<1>8. /\ Ready(w) /\ Goes(v, w) /\ w.esc \in {v.esc, d.esc}
      /\ w.ok => StkListens(v) /\ w.esc = d.esc /\ w.reply = d.reply
      /\ v.damaged = 0 /\ StkListens(v) => w.ok
  BY <1>3, <1>4, <1>5, <1>6, <1>7, StkTells
<1> HIDE DEF w
<1>9. Stays(v, w)
  BY <1>3, <1>5, <1>7, <1>8 DEF Stays
<1>10. CASE ~v.ok
  BY <1>1, <1>2, <1>3, <1>10
<1>11. CASE v.ok
  <2>1. u = w /\ Stays(t, w)
    BY <1>1, <1>2, <1>9, <1>11, PassesOn
  <2>2. v.esc.flash = t.esc.flash /\ v.esc.eeprom = t.esc.eeprom
    BY <1>1 DEF Passes, Keeps
  <2>3. Written(t.esc, f, memory, At(t.esc, h), data)
    BY <1>1, <1>5, <1>11, <2>2 DEF Written
  <2> QED BY <1>1, <1>3, <1>5, <1>7, <1>8, <1>11, <2>1, <2>3
<1> QED BY <1>10, <1>11

(* What is acknowledged as read was read there (_CMD_READ_MEM_ISP).       *)
LEMMA StkRead ==
  ASSUME NEW t, Fresh(t), NEW memory \in {"flash", "eeprom"}, NEW h \in Places,
         NEW u, u = Stk_Read(t, memory, h)
  PROVE  /\ Passes(t, u)
         /\ u.ok => /\ StkListens(t) /\ u.esc.address = (At(t.esc, h) + 1) % HighBytes
                    /\ u.reply.data = Content(t.esc, memory)[At(t.esc, h)]
         /\ t.damaged = 0 /\ StkListens(t) => u.ok
<1> DEFINE v == CMD_LOAD_ADDRESS(t, h)
           m == [is |-> "read", memory |-> memory]
           d == ReplyPiece(v.esc, memory)
           w == StkRcvPacket(v, m, "data")
<1>1. /\ Passes(t, v)
      /\ v.ok => v.esc.address = At(t.esc, h)
      /\ t.damaged = 0 /\ StkListens(t) => v.ok
  BY StkPlace
<1>2. u = IF v.ok THEN w ELSE v
  BY DEF Stk_Read
<1> HIDE DEF v
<1>3. /\ Stays(t, v) /\ Ready(v) /\ (StkListens(v) <=> StkListens(t)) /\ v.damaged = t.damaged
  BY <1>1, PassesOn
<1>4. v.esc \in Esc /\ v.esc.awaits = 0
  BY <1>3 DEF Ready, Talks
<1>5. /\ d \in Heard /\ Keeps(v.esc, d.esc) /\ d.esc.boots = v.esc.boots
      /\ d.esc.speaks = v.esc.speaks /\ d.esc.awaits = v.esc.awaits
      /\ d.esc.address = (v.esc.address + 1) % HighBytes
      /\ d.reply.is = "data" /\ d.reply.data = Content(v.esc, memory)[v.esc.address]
  BY <1>4, PieceEsc
<1>6. m.is = "read" /\ (StkTakes(v.esc, m) => StkDoes(v.esc, m) = d)
  BY DEF StkDoes, StkHears, StkTakes
<1> HIDE DEF d, m
<1>7. /\ Ready(w) /\ Goes(v, w) /\ w.esc \in {v.esc, d.esc}
      /\ w.ok => StkListens(v) /\ w.esc = d.esc /\ w.reply = d.reply
      /\ v.damaged = 0 /\ StkListens(v) => w.ok
  BY <1>3, <1>4, <1>5, <1>6, StkTells
<1> HIDE DEF w
<1>8. Passes(v, w)
  BY <1>3, <1>5, <1>7 DEF Passes, Keeps
<1>9. CASE ~v.ok
  BY <1>1, <1>2, <1>9
<1>10. CASE v.ok
  <2>1. u = w /\ Passes(t, w)
    BY <1>1, <1>2, <1>8, <1>10, PassesOn
  <2>2. Content(v.esc, memory) = Content(t.esc, memory)
    BY <1>1 DEF Passes, Keeps, Content
  <2> QED BY <1>1, <1>3, <1>5, <1>7, <1>10, <2>1, <2>2
<1> QED BY <1>9, <1>10

(* After an acknowledged erasure all of the flash is blank                *)
(* (Stk_Chip_Erase).                                                      *)
LEMMA StkErase ==
  ASSUME NEW t, Fresh(t), NEW u, u = Stk_Chip_Erase(t)
  PROVE  /\ Stays(t, u)
         /\ u.ok => u.esc.flash = Blank
         /\ t.damaged = 0 /\ StkListens(t) => u.ok
<1> DEFINE m == [is |-> "erase_all"]
           f == [t.esc EXCEPT !.flash = Blank]
           d == [esc |-> f, reply |-> [is |-> "success", data |-> Erased]]
<1>1. t.esc \in Esc /\ t.esc.awaits = 0 /\ Ready(t)
  BY DEF Fresh, Ready, Talks
<1>2. Blank \in Memories
  BY DEF Blank, Memories, Pieces
<1>3. /\ f \in Esc /\ f.kind = t.esc.kind /\ f.boots = t.esc.boots /\ f.speaks = t.esc.speaks
      /\ f.awaits = 0 /\ f.flash = Blank
  BY <1>1, <1>2 DEF Esc
<1>4. m.is = "erase_all" /\ u = StkRcvPacket(t, m, "success")
  BY DEF Stk_Chip_Erase
<1>5. StkTakes(t.esc, m) => StkDoes(t.esc, m) = d
  BY DEF StkDoes, StkHears, StkTakes, Reply
<1> HIDE DEF f, m
<1>6. d \in Heard /\ d.esc = f /\ d.reply.is = "success"
  BY <1>3 DEF Heard, Saying, Pieces
<1> HIDE DEF d
<1>7. /\ Ready(u) /\ Goes(t, u) /\ u.esc \in {t.esc, d.esc}
      /\ u.ok => StkListens(t) /\ u.esc = d.esc /\ u.reply = d.reply
      /\ t.damaged = 0 /\ StkListens(t) => u.ok
  BY <1>1, <1>3, <1>4, <1>5, <1>6, StkTells
<1> QED BY <1>3, <1>6, <1>7 DEF Stays

-----------------------------------------------------------------------------
(***************************************************************************)
(* Programming the ESCs: the requests.                                     *)
(***************************************************************************)
Modes == {"SIL", "ATM", "ARM", "SK", "C2"}

Pointers == 0..HighBytes - 1 \union {Unknown}

EscTypeOK ==
  /\ escs \in [DOMAIN escs -> Esc] /\ 1 \in DOMAIN escs /\ selected \in DOMAIN escs
  /\ mode \in Modes /\ connected \in BOOLEAN /\ pointer \in Pointers

(* Between requests no ESC waits for data, and where the host thinks that   *)
(* the selected one goes on is where it goes on.                            *)
EscInv ==
  /\ EscTypeOK
  /\ \A k \in DOMAIN escs : escs[k].awaits = 0 /\ (escs[k].speaks => escs[k].boots)
  /\ connected => mode # "C2"
  /\ connected /\ pointer # Unknown /\ escs[selected].speaks => escs[selected].address = pointer

Invalid == {"INVALID_CMD", "INVALID_PARAM", "INVALID_CHANNEL"}

(* What a request leaves behind. *)
Sound(r, t, did) ==
  /\ did.talk.esc \in Esc /\ did.talk.esc.awaits = 0
  /\ did.talk.esc.speaks => did.talk.esc.boots
  /\ did.selected = Named(r) /\ did.mode \in Modes /\ did.connected \in BOOLEAN
  /\ did.connected => did.mode # "C2"
  /\ PointerAfter(r, did.ack) \in Pointers
  /\ did.connected /\ PointerAfter(r, did.ack) # Unknown /\ did.talk.esc.speaks
       => did.talk.esc.address = PointerAfter(r, did.ack)

(* What its answer says. *)
Right(r, t, did) ==
  /\ did.ack \in Invalid => did.talk.esc = t.esc
  /\ r.cmd \notin Changing
       => did.talk.esc.flash = t.esc.flash /\ did.talk.esc.eeprom = t.esc.eeprom
  /\ did.ack = "OK" /\ (r.cmd = "InitFlash" \/ (connected /\ mode = t.esc.kind))
       => OkIsTrue(r, t.esc, did.talk.esc)
  /\ did.ack = "VERIFY_ERROR" /\ Meant(r) # Unknown => t.esc.flash[Meant(r)] # r.data
  /\ r.cmd = "InitFlash" /\ t.damaged = 0 /\ did.ack # "INVALID_CHANNEL" /\ Tried(t.esc)
       /\ t.esc.kind # "odd" => did.ack = "OK"
  /\ r.cmd \in Serves(mode) /\ t.damaged = 0 /\ connected /\ mode = t.esc.kind /\ t.esc.speaks
       => did.ack \in {"OK", "VERIFY_ERROR"}

(* A request is served by a fresh talk to the ESC that it names. *)
Serving(r, t, did) ==
  /\ EscInv /\ Fresh(t) /\ Named(r) \in DOMAIN escs /\ t.esc = escs[Named(r)]
  /\ t.crc = connected /\ (t.esc.speaks => t.esc.boots)
  /\ did = Served(r, t)
  /\ answer'.data = did.talk.reply.data /\ mode' = did.mode

(* A request begins with a fresh talk to one of the ESCs.                 *)
LEMMA TalkIsFresh ==
  ASSUME EscInv, NEW k \in DOMAIN escs, NEW damaged \in Messages, NEW t, t = Talk(k, damaged)
  PROVE  /\ Fresh(t) /\ t.esc = escs[k] /\ t.crc = connected /\ t.damaged = damaged
         /\ (t.esc.speaks => t.esc.boots)
<1>1. escs[k] \in Esc /\ connected \in BOOLEAN /\ damaged \in Nat
  BY EscAssumption DEF EscInv, EscTypeOK
<1>2. [is |-> "none", data |-> Erased] \in [is : Saying, data : Pieces]
  BY DEF Saying, Pieces
<1>3. t = [esc |-> escs[k], n |-> 0, damaged |-> damaged, crc |-> connected,
           reply |-> [is |-> "none", data |-> Erased], ok |-> TRUE]
  BY DEF Talk
<1>4. t \in Talks
  BY <1>1, <1>2, <1>3 DEF Talks
<1>5. /\ t.esc = escs[k] /\ t.crc = connected /\ t.damaged = damaged /\ t.ok
      /\ t.reply.is = "none"
  BY <1>3
<1> QED BY <1>4, <1>5 DEF Fresh, Ready, EscInv

(* The ESC that serves a request is there.                                *)
LEMMA NamedIsThere ==
  ASSUME EscInv, NEW r
  PROVE  Named(r) \in DOMAIN escs
BY DEF EscInv, EscTypeOK, Named

(* Where the boot loader goes on is where the host means. *)
LEMMA MeantIsThere ==
  ASSUME EscInv, NEW r, r.h \in Places
  PROVE  /\ Meant(r) \in Pointers
         /\ connected /\ escs[selected].speaks /\ Meant(r) # Unknown
              => At(escs[selected], r.h) = Meant(r)
         /\ Meant(r) # Unknown => Meant(r) \in 0..HighBytes - 1
<1>1. r.h # Onward => r.h \in 0..HighBytes - 1
  BY AddressInRange DEF Places
<1> QED BY <1>1 DEF EscInv, EscTypeOK, Meant, At, Pointers

(* After a read or a write the host still knows where the loader goes on. *)
LEMMA PointerFollows ==
  ASSUME EscInv, NEW r, r.h \in Places, r.cmd \in {"Read", "ReadEEprom", "Write", "WriteEEprom"},
         NEW ack, ack \notin Invalid, NEW f,
         ack = "OK" /\ connected
           => escs[selected].speaks /\ f.address = (At(escs[selected], r.h) + 1) % HighBytes
  PROVE  /\ PointerAfter(r, ack) \in Pointers
         /\ connected /\ PointerAfter(r, ack) # Unknown => f.address = PointerAfter(r, ack)
<1>1. PointerAfter(r, ack) = IF ack = "OK" /\ Meant(r) # Unknown
                             THEN (Meant(r) + 1) % HighBytes ELSE Unknown
  <2>1. r.h # Onward => r.h # Unknown
    BY AddressInRange DEF Places
  <2> QED BY <2>1 DEF PointerAfter, Meant, Invalid
<1>2. Meant(r) # Unknown
        => Meant(r) \in 0..HighBytes - 1 /\ (Meant(r) + 1) % HighBytes \in 0..HighBytes - 1
  BY MeantIsThere, AddressInRange
<1>3. connected /\ escs[selected].speaks /\ Meant(r) # Unknown => At(escs[selected], r.h) = Meant(r)
  BY MeantIsThere
<1> QED BY <1>1, <1>2, <1>3 DEF Pointers

(* The requests and what comes with them.                                 *)
LEMMA WhatIsRequested ==
  ASSUME NEW r \in Requested
  PROVE  \/ r.cmd \in {"TestAlive", "GetVersion", "EraseAll", "C2CK_LOW"}
         \/ r.cmd = "SetMode" /\ r.mode \in Modes
         \/ r.cmd \in {"Reset", "InitFlash"}
         \/ r.cmd = "PageErase" /\ r.page \in {0, 1, HighBytes \div 2}
         \/ r.cmd \in {"Read", "ReadEEprom"} /\ r.h \in Places
         \/ r.cmd \in {"Write", "WriteEEprom", "Verify"} /\ r.h \in Places /\ r.data \in Data
BY DEF Requested, BlModes, Modes

(* The ESC as it was when it is asked. *)
LEMMA ServingFacts ==
  ASSUME NEW r, NEW t, NEW did, Serving(r, t, did)
  PROVE  /\ t.esc \in Esc /\ t.esc.awaits = 0 /\ (t.esc.speaks => t.esc.boots)
         /\ mode \in Modes /\ connected \in BOOLEAN /\ pointer \in Pointers
         /\ connected => mode # "C2"
         /\ Named(r) = selected /\ connected /\ pointer # Unknown /\ t.esc.speaks
              => t.esc.address = pointer
BY DEF Serving, Fresh, Ready, Talks, EscInv, EscTypeOK

(* What is left when the talk is over.                                    *)
LEMMA AfterFacts ==
  ASSUME NEW t, NEW ack, NEW did, did = After(t, ack)
  PROVE  /\ did.talk = t /\ did.ack = ack /\ did.mode = mode /\ did.connected = connected
         /\ did.selected = selected
BY DEF After

(* A refused request leaves all as it was.                                *)
LEMMA RefusedIsRight ==
  ASSUME NEW r \in Requested, NEW t, NEW did, Serving(r, t, did), Named(r) = selected,
         NEW ack \in Invalid \union {"GENERAL_ERROR"}, did = After(t, ack),
         connected => r.cmd \notin Serves(mode), r.cmd # "InitFlash"
  PROVE  Sound(r, t, did) /\ Right(r, t, did)
<1>1. /\ did.talk = t /\ did.ack = ack /\ did.mode = mode /\ did.connected = connected
      /\ did.selected = selected
  BY AfterFacts
<1>2. /\ t.esc \in Esc /\ t.esc.awaits = 0 /\ (t.esc.speaks => t.esc.boots)
      /\ mode \in Modes /\ connected \in BOOLEAN /\ pointer \in Pointers
      /\ connected => mode # "C2"
      /\ connected /\ pointer # Unknown /\ t.esc.speaks => t.esc.address = pointer
  BY ServingFacts
<1>3. PointerAfter(r, ack) \in {pointer, Unknown} /\ Unknown \in Pointers
  BY DEF PointerAfter, Invalid, Pointers
<1>4. Sound(r, t, did)
  BY <1>1, <1>2, <1>3 DEF Sound
<1>5. Right(r, t, did)
  BY <1>1 DEF Right, Invalid
<1> QED BY <1>4, <1>5

(* Nothing is done, and that is all right. *)
LEMMA NothingIsRight ==
  ASSUME NEW r \in Requested, NEW t, NEW did, Serving(r, t, did), Named(r) = selected,
         did.talk = t, did.ack = "OK", did.connected = connected, did.selected = selected,
         did.mode \in Modes, connected => did.mode # "C2",
         \/ r.cmd \in {"GetVersion", "SetMode"}
         \/ r.cmd \in {"TestAlive", "Write"} /\ ~connected /\ PointerAfter(r, "OK") \in Pointers
  PROVE  Sound(r, t, did) /\ Right(r, t, did)
<1>1. /\ t.esc \in Esc /\ t.esc.awaits = 0 /\ (t.esc.speaks => t.esc.boots)
      /\ mode \in Modes /\ connected \in BOOLEAN /\ pointer \in Pointers
      /\ connected /\ pointer # Unknown /\ t.esc.speaks => t.esc.address = pointer
  BY ServingFacts
<1>2. /\ PointerAfter(r, "OK") \in Pointers
      /\ connected => PointerAfter(r, "OK") = pointer
  BY <1>1 DEF PointerAfter, Pointers
<1>3. Sound(r, t, did)
  BY <1>1, <1>2 DEF Sound
<1>4. connected => OkIsTrue(r, t.esc, t.esc)
  BY DEF OkIsTrue
<1>5. Right(r, t, did)
  BY <1>4 DEF Right, Invalid, Changing
<1> QED BY <1>3, <1>5

(* The acknowledgement is the verdict of the talk.                        *)
LEMMA DoesFacts ==
  ASSUME NEW u, NEW did, did = Does(u), u.ok \in BOOLEAN
  PROVE  /\ did.talk = u /\ did.mode = mode /\ did.connected = connected
         /\ did.selected = selected /\ did.ack \in {"OK", "GENERAL_ERROR"}
         /\ did.ack = "OK" <=> u.ok
BY AfterFacts DEF Does, Acknowledged

(* Reads of flash and EEPROM, in either dialect or refused.               *)
LEMMA ReadIsRight ==
  ASSUME NEW r \in Requested, NEW t, NEW did, Serving(r, t, did),
         r.cmd \in {"Read", "ReadEEprom"}
  PROVE  Sound(r, t, did) /\ Right(r, t, did)
<1> DEFINE memory == IF r.cmd = "Read" THEN "flash" ELSE "eeprom"
           u == IF mode = "SK" THEN Stk_Read(t, memory, r.h) ELSE BL_ReadA(t, memory, r.h)
           served == IF r.cmd = "Read" THEN mode # "C2" ELSE mode \in {"ATM", "SK"}
           there == At(t.esc, r.h)
<1>1. r.h \in Places /\ memory \in {"flash", "eeprom"} /\ Named(r) = selected
  BY WhatIsRequested DEF Named
<1>2. /\ t.esc \in Esc /\ t.esc.awaits = 0 /\ (t.esc.speaks => t.esc.boots)
      /\ mode \in Modes /\ connected \in BOOLEAN /\ pointer \in Pointers
      /\ connected => mode # "C2"
  BY ServingFacts
<1>3. did = IF served THEN Does(u) ELSE After(t, "INVALID_CMD")
  <2>1. CASE r.cmd = "Read"
    <3>1. did = Read(t, r.h)
      BY <2>1 DEF Serving, Served
    <3> QED BY <1>2, <2>1, <3>1 DEF Read, BlModes, Modes
  <2>2. CASE r.cmd = "ReadEEprom"
    <3>1. did = ReadEEprom(t, r.h)
      BY <2>2 DEF Serving, Served
    <3> QED BY <1>2, <2>2, <3>1 DEF ReadEEprom, Modes
  <2> QED BY <2>1, <2>2
<1>4. CASE ~served
  <2>1. connected => r.cmd \notin Serves(mode)
    BY <1>2, <1>4 DEF Serves, Modes
  <2> QED BY <1>1, <1>3, <1>4, <2>1, RefusedIsRight DEF Invalid
<1>5. CASE served
  <2>1. /\ Passes(t, u)
        /\ u.ok => /\ t.esc.speaks /\ u.esc.address = (there + 1) % HighBytes
                   /\ u.reply.data = Content(t.esc, memory)[there]
        /\ t.damaged = 0 /\ connected /\ mode = t.esc.kind /\ t.esc.speaks => u.ok
    <3>1. Fresh(t) /\ t.crc = connected
      BY DEF Serving
    <3>2. CASE mode = "SK"
      <4>1. u = Stk_Read(t, memory, r.h)
        BY <3>2
      <4> HIDE DEF u, memory
      <4> QED BY <1>1, <1>2, <3>1, <3>2, <4>1, StkRead DEF StkListens
    <3>3. CASE mode # "SK"
      <4>1. u = BL_ReadA(t, memory, r.h)
        BY <3>3
      <4>2. mode = t.esc.kind => ((mode = "ATM" \/ memory = "eeprom") <=> t.esc.kind = "ATM")
        BY <1>2, <1>5, <3>3 DEF Modes
      <4> HIDE DEF u, memory
      <4> QED BY <1>1, <1>2, <3>1, <3>3, <4>1, <4>2, BlRead DEF Listens
    <3> QED BY <3>2, <3>3
  <2>2. did = Does(u)
    BY <1>3, <1>5
  <2>3. Content(t.esc, memory) = IF r.cmd = "Read" THEN t.esc.flash ELSE t.esc.eeprom
    BY DEF Content
  <2> HIDE DEF u, memory
  <2>4. u.ok \in BOOLEAN /\ u.esc \in Esc
    BY <2>1 DEF Passes, Ready, Talks
  <2>5. /\ did.talk = u /\ did.mode = mode /\ did.connected = connected
        /\ did.selected = selected /\ did.ack \in {"OK", "GENERAL_ERROR"}
        /\ did.ack = "OK" <=> u.ok
    BY <2>2, <2>4, DoesFacts
  <2>6. t.esc = escs[selected]
    BY <1>1 DEF Serving
  <2>7. /\ PointerAfter(r, did.ack) \in Pointers
        /\ connected /\ PointerAfter(r, did.ack) # Unknown
             => u.esc.address = PointerAfter(r, did.ack)
    <3>1. did.ack \notin Invalid /\ EscInv
      BY <2>5 DEF Invalid, Serving
    <3>2. did.ack = "OK" /\ connected
           => escs[selected].speaks /\ u.esc.address = (At(escs[selected], r.h) + 1) % HighBytes
      BY <2>1, <2>5, <2>6
    <3> QED BY <1>1, <3>1, <3>2, PointerFollows
  <2>8. Sound(r, t, did)
    BY <1>1, <1>2, <2>1, <2>4, <2>5, <2>7 DEF Sound, Passes, Ready
  <2>9. did.ack = "OK" /\ connected => OkIsTrue(r, t.esc, u.esc)
    <3>1. connected /\ t.esc.speaks /\ Meant(r) # Unknown => there = Meant(r)
      BY <1>1, <2>6, MeantIsThere DEF Serving
    <3>2. answer'.data = u.reply.data
      BY <2>5 DEF Serving
    <3> QED BY <2>1, <2>3, <2>5, <3>1, <3>2 DEF OkIsTrue
  <2>10. Right(r, t, did)
    BY <2>1, <2>5, <2>9 DEF Right, Invalid, Passes, Keeps
  <2> QED BY <2>8, <2>10
<1> QED BY <1>4, <1>5

(* Writes to flash and EEPROM, in either dialect, refused or ignored.     *)
LEMMA WriteIsRight ==
  ASSUME NEW r \in Requested, NEW t, NEW did, Serving(r, t, did),
         r.cmd \in {"Write", "WriteEEprom"}
  PROVE  Sound(r, t, did) /\ Right(r, t, did)
<1> DEFINE memory == IF r.cmd = "Write" THEN "flash" ELSE "eeprom"
           u == IF mode = "SK" THEN Stk_Write(t, memory, r.h, r.data)
                ELSE BL_WriteA(t, memory, r.h, r.data)
           served == IF r.cmd = "Write" THEN mode # "C2" ELSE mode \in {"ATM", "SK"}
           there == At(t.esc, r.h)
<1>1. r.h \in Places /\ r.data \in Data /\ memory \in {"flash", "eeprom"} /\ Named(r) = selected
  BY WhatIsRequested DEF Named
<1>2. /\ t.esc \in Esc /\ t.esc.awaits = 0 /\ (t.esc.speaks => t.esc.boots)
      /\ mode \in Modes /\ connected \in BOOLEAN /\ pointer \in Pointers
      /\ connected => mode # "C2"
  BY ServingFacts
<1>3. /\ served => did = Does(u)
      /\ ~served => did = After(t, IF r.cmd = "Write" THEN "OK"
                                   ELSE IF mode = "SIL" THEN "INVALID_CMD" ELSE "GENERAL_ERROR")
  <2>1. CASE r.cmd = "Write"
    <3>1. did = Write(t, r.h, r.data)
      BY <2>1 DEF Serving, Served
    <3> QED BY <1>2, <2>1, <3>1 DEF Write, BlModes, Modes
  <2>2. CASE r.cmd = "WriteEEprom"
    <3>1. did = WriteEEprom(t, r.h, r.data)
      BY <2>2 DEF Serving, Served
    <3> QED BY <1>2, <2>2, <3>1 DEF WriteEEprom, Modes
  <2> QED BY <2>1, <2>2
<1>4. CASE ~served /\ r.cmd = "Write"
  <2>1. /\ did.talk = t /\ did.ack = "OK" /\ did.mode = mode /\ did.connected = connected
        /\ did.selected = selected
    BY <1>3, <1>4, AfterFacts
  <2>2. ~connected
    BY <1>2, <1>4
  <2>3. PointerAfter(r, "OK") \in Pointers
    <3>1. EscInv
      BY DEF Serving
    <3> QED BY <1>1, <2>2, <3>1, PointerFollows DEF Invalid
  <2> QED BY <1>1, <1>2, <1>4, <2>1, <2>2, <2>3, NothingIsRight
<1>5. CASE ~served /\ r.cmd = "WriteEEprom"
  <2>1. r.cmd \notin Serves(mode)
    BY <1>2, <1>5 DEF Serves, Modes
  <2> QED BY <1>1, <1>3, <1>5, <2>1, RefusedIsRight DEF Invalid
<1>6. CASE served
  <2>1. /\ Stays(t, u)
        /\ u.ok => /\ t.esc.speaks /\ u.esc.address = (there + 1) % HighBytes
                   /\ Written(t.esc, u.esc, memory, there, r.data)
        /\ t.damaged = 0 /\ connected /\ mode = t.esc.kind /\ t.esc.speaks => u.ok
    <3>1. Fresh(t) /\ t.crc = connected
      BY DEF Serving
    <3>2. CASE mode = "SK"
      <4>1. u = Stk_Write(t, memory, r.h, r.data)
        BY <3>2
      <4> HIDE DEF u, memory
      <4> QED BY <1>1, <1>2, <3>1, <3>2, <4>1, StkWrite DEF StkListens
    <3>3. CASE mode # "SK"
      <4>1. u = BL_WriteA(t, memory, r.h, r.data)
        BY <3>3
      <4> HIDE DEF u, memory
      <4> QED BY <1>1, <1>2, <3>1, <3>3, <4>1, BlWrite DEF Listens
    <3> QED BY <3>2, <3>3
  <2>2. did = Does(u)
    BY <1>3, <1>6
  <2>3. memory = IF r.cmd = "Write" THEN "flash" ELSE "eeprom"
    OBVIOUS
  <2> HIDE DEF u, memory
  <2>4. u.ok \in BOOLEAN /\ u.esc \in Esc
    BY <2>1 DEF Stays, Ready, Talks
  <2>5. /\ did.talk = u /\ did.mode = mode /\ did.connected = connected
        /\ did.selected = selected /\ did.ack \in {"OK", "GENERAL_ERROR"}
        /\ did.ack = "OK" <=> u.ok
    BY <2>2, <2>4, DoesFacts
  <2>6. t.esc = escs[selected]
    BY <1>1 DEF Serving
  <2>7. /\ PointerAfter(r, did.ack) \in Pointers
        /\ connected /\ PointerAfter(r, did.ack) # Unknown
             => u.esc.address = PointerAfter(r, did.ack)
    <3>1. did.ack \notin Invalid /\ EscInv
      BY <2>5 DEF Invalid, Serving
    <3>2. did.ack = "OK" /\ connected
           => escs[selected].speaks /\ u.esc.address = (At(escs[selected], r.h) + 1) % HighBytes
      BY <2>1, <2>5, <2>6
    <3> QED BY <1>1, <3>1, <3>2, PointerFollows
  <2>8. Sound(r, t, did)
    BY <1>1, <1>2, <2>1, <2>4, <2>5, <2>7 DEF Sound, Stays, Ready
  <2>9. did.ack = "OK" /\ connected => OkIsTrue(r, t.esc, u.esc)
    <3>1. connected /\ t.esc.speaks /\ Meant(r) # Unknown => there = Meant(r)
      BY <1>1, <2>6, MeantIsThere DEF Serving
    <3> HIDE DEF there
    <3> QED BY <2>1, <2>3, <2>5, <3>1 DEF OkIsTrue, Written
  <2>10. Right(r, t, did)
    BY <2>1, <2>5, <2>9 DEF Right, Invalid, Changing
  <2> QED BY <2>8, <2>10
<1> QED BY <1>4, <1>5, <1>6

(* A page lies within the memory. *)
LEMMA PageFits ==
  ASSUME NEW page \in {0, 1, HighBytes \div 2}, NEW kind \in {"SIL", "ARM"},
         NEW from, from = (page * PageSize(kind)) % HighBytes
  PROVE  from \in 0..HighBytes - 1 /\ Span(from, kind) \subseteq 0..HighBytes - 1
<1>1. HighBytes \in Nat \ {0} /\ HighBytes % 4 = 0
  BY EscAssumption
<1>2. PICK k \in Nat \ {0} : HighBytes = 4 * k
  <2> DEFINE k == HighBytes \div 4
  <2>1. k \in Nat \ {0} /\ HighBytes = 4 * k
    BY <1>1, SMTT(30)
  <2> QED BY <2>1
<1>3. HighBytes \div 2 = 2 * k
  BY <1>2, SMTT(30)
<1>4. PageSize(kind) = IF kind = "ARM" THEN 4 ELSE 2
  BY DEF PageSize
<1>5. from \in Nat /\ from + PageSize(kind) <= HighBytes
  <2>1. CASE page = 0
    <3>1. page * PageSize(kind) = 0
      BY <1>4, <2>1
    <3>2. 0 % HighBytes = 0
      BY <1>1
    <3> QED BY <1>2, <1>4, <3>1, <3>2
  <2>2. CASE page = 1
    <3>1. page * PageSize(kind) = PageSize(kind)
      BY <1>4, <2>2
    <3>2. HighBytes > 4 => 4 % HighBytes = 4 /\ 2 % HighBytes = 2
      BY <1>1
    <3>3. HighBytes >= 8 \/ HighBytes = 4
      BY <1>2
    <3> QED BY <1>1, <1>4, <3>1, <3>2, <3>3
  <2>3. CASE page = HighBytes \div 2
    <3>1. page * PageSize(kind) = 4 * k \/ page * PageSize(kind) = 8 * k
      BY <1>2, <1>3, <1>4, <2>3
    <3>2. (4 * k) % (4 * k) = 0 /\ (8 * k) % (4 * k) = 0
      BY <1>2, SMTT(30)
    <3> QED BY <1>2, <1>4, <3>1, <3>2
  <2> QED BY <2>1, <2>2, <2>3
<1>6. from <= HighBytes - 1
  BY <1>1, <1>4, <1>5
<1>7. ASSUME NEW h \in Span(from, kind) PROVE h \in 0..HighBytes - 1
  BY <1>1, <1>4, <1>5 DEF Span
<1> QED BY <1>1, <1>5, <1>6, <1>7

(* The erasure of a page, by the families that have pages.                *)
LEMMA PageEraseIsRight ==
  ASSUME NEW r \in Requested, NEW t, NEW did, Serving(r, t, did), r.cmd = "PageErase"
  PROVE  Sound(r, t, did) /\ Right(r, t, did)
<1> DEFINE from == (r.page * PageSize(mode)) % HighBytes
           u == BL_PageErase(t, from)
<1>1. r.page \in {0, 1, HighBytes \div 2} /\ Named(r) = selected
  BY WhatIsRequested DEF Named
<1>2. /\ t.esc \in Esc /\ t.esc.awaits = 0 /\ (t.esc.speaks => t.esc.boots)
      /\ mode \in Modes /\ connected \in BOOLEAN /\ pointer \in Pointers
      /\ connected => mode # "C2"
  BY ServingFacts
<1>3. did = IF mode \in {"SIL", "ARM"} THEN Does(u) ELSE After(t, "INVALID_CMD")
  BY DEF Serving, Served, PageErase
<1>4. CASE mode \notin {"SIL", "ARM"}
  <2>1. r.cmd \notin Serves(mode)
    BY <1>4 DEF Serves
  <2> QED BY <1>1, <1>3, <1>4, <2>1, RefusedIsRight DEF Invalid
<1>5. CASE mode \in {"SIL", "ARM"}
  <2>1. did = Does(u)
    BY <1>3, <1>5
  <2>2. from \in 0..HighBytes - 1 /\ Span(from, mode) \subseteq 0..HighBytes - 1
    BY <1>1, <1>5, PageFits
  <2>3. Page(r, mode) = Span(from, mode)
    BY DEF Page, Span
  <2> HIDE DEF from
  <2>4. /\ Stays(t, u)
        /\ u.ok => Wiped(t.esc, u.esc, from)
        /\ t.damaged = 0 /\ connected /\ mode = t.esc.kind /\ t.esc.speaks => u.ok
    <3>1. Fresh(t) /\ t.crc = connected
      BY DEF Serving
    <3> QED BY <1>2, <1>5, <2>2, <3>1, BlErase DEF Listens
  <2> HIDE DEF u
  <2>5. u.ok \in BOOLEAN /\ u.esc \in Esc
    BY <2>4 DEF Stays, Ready, Talks
  <2>6. /\ did.talk = u /\ did.mode = mode /\ did.connected = connected
        /\ did.selected = selected /\ did.ack \in {"OK", "GENERAL_ERROR"}
        /\ did.ack = "OK" <=> u.ok
    BY <2>1, <2>5, DoesFacts
  <2>7. PointerAfter(r, did.ack) = Unknown /\ Unknown \in Pointers
    BY <2>6 DEF PointerAfter, Pointers
  <2>8. Sound(r, t, did)
    BY <1>1, <1>2, <2>4, <2>5, <2>6, <2>7 DEF Sound, Stays, Ready
  <2>9. did.ack = "OK" /\ mode = t.esc.kind => OkIsTrue(r, t.esc, u.esc)
    BY <2>2, <2>3, <2>4, <2>6 DEF OkIsTrue, Wiped
  <2>10. Right(r, t, did)
    BY <2>4, <2>6, <2>9 DEF Right, Invalid, Changing
  <2> QED BY <2>8, <2>10
<1> QED BY <1>4, <1>5

(* The comparison, by the one family that can compare.                    *)
LEMMA VerifyIsRight ==
  ASSUME NEW r \in Requested, NEW t, NEW did, Serving(r, t, did), r.cmd = "Verify"
  PROVE  Sound(r, t, did) /\ Right(r, t, did)
<1> DEFINE u == BL_VerifyFlash(t, r.h, r.data)
           ack == IF u.reply.is = "error_verify" THEN "VERIFY_ERROR" ELSE Acknowledged(u)
           there == At(t.esc, r.h)
<1>1. r.h \in Places /\ r.data \in Data /\ Named(r) = selected
  BY WhatIsRequested DEF Named
<1>2. /\ t.esc \in Esc /\ t.esc.awaits = 0 /\ (t.esc.speaks => t.esc.boots)
      /\ mode \in Modes /\ connected \in BOOLEAN /\ pointer \in Pointers
      /\ connected => mode # "C2"
  BY ServingFacts
<1>3. did = IF mode # "ARM" THEN After(t, "INVALID_CMD") ELSE After(u, ack)
  BY DEF Serving, Served, Verify
<1>4. CASE mode # "ARM"
  <2>1. r.cmd \notin Serves(mode)
    BY <1>4 DEF Serves
  <2> QED BY <1>1, <1>3, <1>4, <2>1, RefusedIsRight DEF Invalid
<1>5. CASE mode = "ARM"
  <2>1. did = After(u, ack)
    BY <1>3, <1>5
  <2>2. /\ Passes(t, u)
        /\ u.ok => Listens(t) /\ t.esc.flash[there] = r.data
        /\ u.reply.is = "error_verify" => Listens(t) /\ t.esc.flash[there] # r.data
        /\ t.damaged = 0 /\ Listens(t) /\ t.esc.kind = "ARM"
             => u.ok \/ u.reply.is = "error_verify"
    BY <1>1, BlVerify DEF Serving
  <2> HIDE DEF u
  <2>3. /\ ack \in {"OK", "GENERAL_ERROR", "VERIFY_ERROR"} /\ (ack = "OK" => u.ok)
        /\ ack = "VERIFY_ERROR" => u.reply.is = "error_verify"
        /\ u.ok \/ u.reply.is = "error_verify" => ack \in {"OK", "VERIFY_ERROR"}
    BY DEF Acknowledged
  <2>4. /\ did.talk = u /\ did.ack = ack /\ did.mode = mode /\ did.connected = connected
        /\ did.selected = selected
    BY <2>1, AfterFacts
  <2> HIDE DEF ack
  <2>5. PointerAfter(r, ack) = Unknown /\ Unknown \in Pointers
    BY <2>3 DEF PointerAfter, Pointers
  <2>6. Sound(r, t, did)
    <3>1. u.esc \in Esc
      BY <2>2 DEF Passes, Ready, Talks
    <3> QED BY <1>1, <1>2, <2>2, <2>4, <2>5, <3>1 DEF Sound, Passes, Ready
  <2>7. Listens(t) => connected /\ t.esc.speaks /\ EscInv /\ t.esc = escs[selected]
    BY <1>1 DEF Listens, Serving
  <2>8. Listens(t) /\ Meant(r) # Unknown => there = Meant(r)
    BY <1>1, <2>7, MeantIsThere
  <2> HIDE DEF there
  <2>9. ack = "OK" => OkIsTrue(r, t.esc, u.esc)
    BY <2>2, <2>3, <2>8 DEF OkIsTrue
  <2>10. ack = "VERIFY_ERROR" /\ Meant(r) # Unknown => t.esc.flash[Meant(r)] # r.data
    BY <2>2, <2>3, <2>8
  <2>11. t.damaged = 0 /\ connected /\ mode = t.esc.kind /\ t.esc.speaks
          => ack \in {"OK", "VERIFY_ERROR"}
    <3>1. t.crc = connected
      BY DEF Serving
    <3> QED BY <1>2, <1>5, <2>2, <2>3, <3>1 DEF Listens
  <2>12. Right(r, t, did)
    BY <2>2, <2>3, <2>4, <2>9, <2>10, <2>11 DEF Right, Invalid, Passes, Keeps
  <2> QED BY <2>6, <2>12
<1> QED BY <1>4, <1>5

(* The erasure of the flash, by the one family that can.                  *)
LEMMA EraseAllIsRight ==
  ASSUME NEW r \in Requested, NEW t, NEW did, Serving(r, t, did), r.cmd = "EraseAll"
  PROVE  Sound(r, t, did) /\ Right(r, t, did)
<1> DEFINE u == Stk_Chip_Erase(t)
<1>1. Named(r) = selected
  BY DEF Named
<1>2. /\ t.esc \in Esc /\ t.esc.awaits = 0 /\ (t.esc.speaks => t.esc.boots)
      /\ mode \in Modes /\ connected \in BOOLEAN /\ pointer \in Pointers
      /\ connected => mode # "C2"
  BY ServingFacts
<1>3. did = IF mode = "SK" THEN Does(u) ELSE After(t, "INVALID_CMD")
  BY DEF Serving, Served, EraseAll
<1>4. CASE mode # "SK"
  <2>1. r.cmd \notin Serves(mode)
    BY <1>4 DEF Serves
  <2> QED BY <1>1, <1>3, <1>4, <2>1, RefusedIsRight DEF Invalid
<1>5. CASE mode = "SK"
  <2>1. did = Does(u)
    BY <1>3, <1>5
  <2>2. /\ Stays(t, u) /\ (u.ok => u.esc.flash = Blank)
        /\ t.damaged = 0 /\ StkListens(t) => u.ok
    BY StkErase DEF Serving
  <2> HIDE DEF u
  <2>3. u.ok \in BOOLEAN /\ u.esc \in Esc
    BY <2>2 DEF Stays, Ready, Talks
  <2>4. /\ did.talk = u /\ did.mode = mode /\ did.connected = connected
        /\ did.selected = selected /\ did.ack \in {"OK", "GENERAL_ERROR"}
        /\ did.ack = "OK" <=> u.ok
    BY <2>1, <2>3, DoesFacts
  <2>5. PointerAfter(r, did.ack) = Unknown /\ Unknown \in Pointers
    BY <2>4 DEF PointerAfter, Pointers
  <2>6. Sound(r, t, did)
    BY <1>1, <1>2, <2>2, <2>3, <2>4, <2>5 DEF Sound, Stays, Ready
  <2>7. did.ack = "OK" => OkIsTrue(r, t.esc, u.esc)
    BY <2>2, <2>4 DEF OkIsTrue
  <2>8. Right(r, t, did)
    BY <1>2, <1>5, <2>2, <2>4, <2>7 DEF Right, Invalid, Changing, StkListens
  <2> QED BY <2>6, <2>8
<1> QED BY <1>4, <1>5

(* The test of the connection, which keeps the loader alive or greets it. *)
LEMMA TestAliveIsRight ==
  ASSUME NEW r \in Requested, NEW t, NEW did, Serving(r, t, did), r.cmd = "TestAlive"
  PROVE  Sound(r, t, did) /\ Right(r, t, did)
<1> DEFINE u == IF mode \in BlModes THEN BL_SendCMDKeepAlive(t) ELSE Stk_SignOn(t)
<1>1. Named(r) = selected
  BY DEF Named
<1>2. /\ t.esc \in Esc /\ t.esc.awaits = 0 /\ (t.esc.speaks => t.esc.boots)
      /\ mode \in Modes /\ connected \in BOOLEAN /\ pointer \in Pointers
      /\ connected => mode # "C2"
  BY ServingFacts
<1>3. did = IF ~connected THEN After(t, "OK") ELSE [Does(u) EXCEPT !.connected = u.ok]
  BY DEF Serving, Served, TestAlive
<1>4. /\ PointerAfter(r, "OK") = Unknown /\ PointerAfter(r, "GENERAL_ERROR") = Unknown
      /\ Unknown \in Pointers
  BY DEF PointerAfter, Pointers
<1>5. CASE ~connected
  <2>1. /\ did.talk = t /\ did.ack = "OK" /\ did.mode = mode /\ did.connected = connected
        /\ did.selected = selected
    BY <1>3, <1>5, AfterFacts
  <2> QED BY <1>1, <1>2, <1>4, <1>5, <2>1, NothingIsRight
<1>6. CASE connected
  <2>1. did = [Does(u) EXCEPT !.connected = u.ok]
    BY <1>3, <1>6
  <2>2. /\ Ready(u) /\ Keeps(t.esc, u.esc) /\ (u.esc.speaks => u.esc.boots)
        /\ t.damaged = 0 /\ mode = t.esc.kind /\ t.esc.speaks => u.ok
    <3>1. Fresh(t) /\ Ready(t) /\ t.crc = connected
      BY DEF Serving, Fresh
    <3>2. CASE mode \in BlModes
      <4>1. u = BL_SendCMDKeepAlive(t)
        BY <3>2
      <4> HIDE DEF u
      <4>2. Passes(t, u) /\ (t.damaged = 0 /\ Listens(t) => u.ok)
        BY <3>1, <4>1, BlKeepAlive
      <4> QED BY <1>2, <1>6, <3>1, <3>2, <4>2 DEF Passes, Listens, BlModes
    <3>3. CASE mode \notin BlModes
      <4>1. u = Stk_SignOn(t)
        BY <3>3
      <4> HIDE DEF u
      <4>2. /\ Greets(t, u)
            /\ t.damaged = 0 /\ t.esc.boots /\ t.esc.kind = "SK" => u.ok
        BY <3>1, <4>1, StkSignOn
      <4>3. mode = "SK"
        BY <1>2, <1>6, <3>3 DEF Modes, BlModes
      <4> QED BY <1>2, <4>2, <4>3 DEF Greets
    <3> QED BY <3>2, <3>3
  <2> HIDE DEF u
  <2>3. u.ok \in BOOLEAN /\ u.esc \in Esc
    BY <2>2 DEF Ready, Talks
  <2>4. /\ did.talk = u /\ did.mode = mode /\ did.connected = u.ok
        /\ did.selected = selected /\ did.ack \in {"OK", "GENERAL_ERROR"}
        /\ did.ack = "OK" <=> u.ok
    BY <2>1, <2>3 DEF Does, After, Acknowledged
  <2>5. PointerAfter(r, did.ack) = Unknown
    BY <1>4, <2>4
  <2>6. Sound(r, t, did)
    BY <1>1, <1>2, <1>4, <1>6, <2>2, <2>3, <2>4, <2>5 DEF Sound, Ready
  <2>7. OkIsTrue(r, t.esc, u.esc)
    BY DEF OkIsTrue
  <2>8. Right(r, t, did)
    BY <2>2, <2>4, <2>7 DEF Right, Invalid, Keeps
  <2> QED BY <2>6, <2>8
<1> QED BY <1>5, <1>6

(* The reset, which selects the ESC and ends the connection.              *)
LEMMA ResetIsRight ==
  ASSUME NEW r \in Requested, NEW t, NEW did, Serving(r, t, did), r.cmd = "Reset"
  PROVE  Sound(r, t, did) /\ Right(r, t, did)
<1> DEFINE u == IF mode \in BlModes THEN BL_SendCMDRunRestartBootloader(t) ELSE t
<1>1. /\ t.esc \in Esc /\ t.esc.awaits = 0 /\ (t.esc.speaks => t.esc.boots)
      /\ mode \in Modes /\ connected \in BOOLEAN /\ pointer \in Pointers
      /\ connected => mode # "C2"
  BY ServingFacts
<1>2. did = IF r.esc \in DOMAIN escs
            THEN [After(u, "OK") EXCEPT !.connected = FALSE, !.selected = r.esc]
            ELSE After(t, "INVALID_CHANNEL")
  BY DEF Serving, Served, DeviceReset
<1>3. r.cmd \notin Serves(mode)
  BY DEF Serves
<1>4. CASE r.esc \notin DOMAIN escs
  <2>1. Named(r) = selected
    BY <1>4 DEF Named
  <2> QED BY <1>2, <1>3, <1>4, <2>1, RefusedIsRight DEF Invalid
<1>5. CASE r.esc \in DOMAIN escs
  <2>1. Named(r) = r.esc
    BY <1>5 DEF Named
  <2>2. Ready(u) /\ Keeps(t.esc, u.esc) /\ (u.esc.speaks => u.esc.boots)
    <3>1. Fresh(t)
      BY DEF Serving
    <3>2. CASE mode \in BlModes
      <4>1. u = BL_SendCMDRunRestartBootloader(t)
        BY <3>2
      <4> HIDE DEF u
      <4> QED BY <1>1, <3>1, <4>1, BlRun
    <3>3. CASE mode \notin BlModes
      BY <1>1, <3>1, <3>3 DEF Fresh, Keeps
    <3> QED BY <3>2, <3>3
  <2> HIDE DEF u
  <2>3. /\ did.talk = u /\ did.ack = "OK" /\ did.mode = mode /\ did.connected = FALSE
        /\ did.selected = r.esc
    BY <1>2, <1>5 DEF After
  <2>4. PointerAfter(r, "OK") = Unknown /\ Unknown \in Pointers
    BY DEF PointerAfter, Pointers
  <2>5. Sound(r, t, did)
    <3>1. u.esc \in Esc
      BY <2>2 DEF Ready, Talks
    <3> QED BY <1>1, <2>1, <2>2, <2>3, <2>4, <3>1 DEF Sound, Ready
  <2>6. OkIsTrue(r, t.esc, u.esc)
    BY DEF OkIsTrue
  <2>7. Right(r, t, did)
    BY <1>3, <2>2, <2>3, <2>6 DEF Right, Invalid, Keeps
  <2> QED BY <2>5, <2>7
<1> QED BY <1>4, <1>5

(* The connection to an ESC, which selects it.                            *)
LEMMA InitFlashIsRight ==
  ASSUME NEW r \in Requested, NEW t, NEW did, Serving(r, t, did), r.cmd = "InitFlash"
  PROVE  Sound(r, t, did) /\ Right(r, t, did)
<1> DEFINE s == [t EXCEPT !.crc = FALSE]
           u == Connect(s)
           found == Matches(u)
<1>1. /\ t.esc \in Esc /\ t.esc.awaits = 0 /\ (t.esc.speaks => t.esc.boots)
      /\ mode \in Modes /\ connected \in BOOLEAN /\ pointer \in Pointers
      /\ connected => mode # "C2"
  BY ServingFacts
<1>2. did = IF r.esc \in DOMAIN escs
            THEN [After(u, IF found THEN "OK" ELSE "GENERAL_ERROR")
                    EXCEPT !.connected = found, !.selected = r.esc,
                           !.mode = IF found THEN u.esc.kind ELSE mode]
            ELSE [After(t, "INVALID_CHANNEL") EXCEPT !.connected = FALSE]
  BY DEF Serving, Served, InitFlash
<1>3. r.cmd \notin Serves(mode) /\ r.cmd \notin Changing
  BY DEF Serves, Changing
<1>4. /\ PointerAfter(r, "OK") = Unknown /\ PointerAfter(r, "GENERAL_ERROR") = Unknown
      /\ PointerAfter(r, "INVALID_CHANNEL") = Unknown /\ Unknown \in Pointers
  BY DEF PointerAfter, Pointers
<1>5. CASE r.esc \notin DOMAIN escs
  <2>1. Named(r) = selected
    BY <1>5 DEF Named
  <2>2. /\ did.talk = t /\ did.ack = "INVALID_CHANNEL" /\ did.mode = mode
        /\ did.connected = FALSE /\ did.selected = selected
    BY <1>2, <1>5 DEF After
  <2>3. Sound(r, t, did)
    BY <1>1, <1>4, <2>1, <2>2 DEF Sound
  <2>4. Right(r, t, did)
    BY <1>3, <2>2 DEF Right
  <2> QED BY <2>3, <2>4
<1>6. CASE r.esc \in DOMAIN escs
  <2>1. Named(r) = r.esc
    BY <1>6 DEF Named
  <2>2. Ready(s) /\ s.esc = t.esc /\ s.damaged = t.damaged
    BY DEF Serving, Fresh, Ready, Talks
  <2> HIDE DEF s
  <2>3. Greets(s, u) /\ (s.damaged = 0 /\ Tried(s.esc) /\ s.esc.kind # "odd" => found)
    BY <2>2, Connects
  <2> HIDE DEF u
  <2>4. /\ u.esc \in Esc /\ u.esc.awaits = 0 /\ Keeps(t.esc, u.esc)
        /\ u.esc.speaks => u.esc.boots
        /\ found => u.esc.boots /\ u.esc.speaks /\ u.esc.kind # "odd"
    BY <1>1, <2>2, <2>3 DEF Greets, Ready, Talks, Matches
  <2>5. found \in BOOLEAN
    BY DEF Matches
  <2>6. u.esc.kind \in Kinds
    BY <2>4 DEF Esc
  <2> HIDE DEF found
  <2>7. /\ did.talk = u /\ did.ack = (IF found THEN "OK" ELSE "GENERAL_ERROR")
        /\ did.mode = (IF found THEN u.esc.kind ELSE mode)
        /\ did.connected = found /\ did.selected = r.esc
    BY <1>2, <1>6 DEF After
  <2>8. did.mode \in Modes /\ (found => did.mode # "C2")
    BY <1>1, <2>4, <2>6, <2>7 DEF Modes, Kinds
  <2>9. Sound(r, t, did)
    BY <1>4, <2>1, <2>4, <2>5, <2>7, <2>8 DEF Sound
  <2>10. found => OkIsTrue(r, t.esc, u.esc)
    <3>1. mode' = did.mode
      BY DEF Serving
    <3> QED BY <2>4, <2>7, <3>1 DEF OkIsTrue, Keeps
  <2>11. Right(r, t, did)
    BY <1>3, <2>2, <2>3, <2>4, <2>7, <2>10 DEF Right, Invalid, Keeps
  <2> QED BY <2>9, <2>11
<1> QED BY <1>5, <1>6

(* The requests that no ESC hears of.                                     *)
LEMMA OthersAreRight ==
  ASSUME NEW r \in Requested, NEW t, NEW did, Serving(r, t, did),
         r.cmd \in {"GetVersion", "SetMode", "C2CK_LOW"}
  PROVE  Sound(r, t, did) /\ Right(r, t, did)
<1>1. Named(r) = selected
  BY DEF Named
<1>2. /\ mode \in Modes /\ connected \in BOOLEAN /\ (connected => mode # "C2")
  BY ServingFacts
<1>3. r.cmd \notin Serves(mode)
  BY DEF Serves
<1>4. CASE r.cmd = "GetVersion"
  <2>1. did = After(t, "OK")
    BY <1>4 DEF Serving, Served
  <2>2. /\ did.talk = t /\ did.ack = "OK" /\ did.mode = mode /\ did.connected = connected
        /\ did.selected = selected
    BY <2>1, AfterFacts
  <2> QED BY <1>1, <1>2, <1>4, <2>2, NothingIsRight
<1>5. CASE r.cmd = "SetMode"
  <2>1. did = SetMode(t, r.mode)
    BY <1>5 DEF Serving, Served
  <2>2. CASE r.mode \in BlModes \union {"SK"}
    <3>1. did = [After(t, "OK") EXCEPT !.mode = r.mode]
      BY <2>1, <2>2 DEF SetMode
    <3>2. /\ did.talk = t /\ did.ack = "OK" /\ did.mode = r.mode /\ did.connected = connected
          /\ did.selected = selected
      BY <3>1 DEF After
    <3>3. r.mode \in Modes /\ r.mode # "C2"
      BY <2>2 DEF BlModes, Modes
    <3> QED BY <1>1, <1>5, <3>2, <3>3, NothingIsRight
  <2>3. CASE r.mode \notin BlModes \union {"SK"}
    <3>1. did = After(t, "INVALID_PARAM")
      BY <2>1, <2>3 DEF SetMode
    <3> QED BY <1>1, <1>3, <1>5, <3>1, RefusedIsRight DEF Invalid
  <2> QED BY <2>2, <2>3
<1>6. CASE r.cmd = "C2CK_LOW"
  <2>1. did = After(t, "INVALID_CMD")
    BY <1>6 DEF Serving, Served
  <2> QED BY <1>1, <1>3, <1>6, <2>1, RefusedIsRight DEF Invalid
<1> QED BY <1>4, <1>5, <1>6

(* Every request leaves behind, and answers, what it should.              *)
LEMMA EveryRequestIsRight ==
  ASSUME NEW r \in Requested, NEW t, NEW did, Serving(r, t, did)
  PROVE  Sound(r, t, did) /\ Right(r, t, did)
<1>1. \/ r.cmd \in {"Read", "ReadEEprom"} \/ r.cmd \in {"Write", "WriteEEprom"}
      \/ r.cmd = "Verify" \/ r.cmd = "PageErase" \/ r.cmd = "EraseAll" \/ r.cmd = "TestAlive"
      \/ r.cmd = "Reset" \/ r.cmd = "InitFlash"
      \/ r.cmd \in {"GetVersion", "SetMode", "C2CK_LOW"}
  BY WhatIsRequested
<1> QED
  BY <1>1, ReadIsRight, WriteIsRight, VerifyIsRight, PageEraseIsRight, EraseAllIsRight,
     TestAliveIsRight, ResetIsRight, InitFlashIsRight, OthersAreRight

(* A request keeps the invariant, and its answer is true.                 *)
LEMMA RequestKeeps ==
  ASSUME EscInv, NEW r \in Requested, NEW damaged \in Messages, Request(r, damaged)
  PROVE  EscInv' /\ TrueAnswer
<1> DEFINE n == Named(r)
           t == Talk(n, damaged)
           did == Served(r, t)
<1>1. /\ escs' = [escs EXCEPT ![n] = did.talk.esc]
      /\ selected' = did.selected /\ mode' = did.mode /\ connected' = did.connected
      /\ answer' = [ack |-> did.ack, to |-> r, damaged |-> damaged, data |-> did.talk.reply.data]
      /\ pointer' = PointerAfter(r, did.ack)
  BY DEF Request
<1>2. n \in DOMAIN escs
  BY NamedIsThere
<1>3. /\ Fresh(t) /\ t.esc = escs[n] /\ t.crc = connected /\ t.damaged = damaged
      /\ (t.esc.speaks => t.esc.boots)
  <2> HIDE DEF n
  <2> QED BY <1>2, TalkIsFresh
<1> HIDE DEF t
<1>4. did = Served(r, t)
  OBVIOUS
<1> HIDE DEF did
<1>5. /\ answer'.data = did.talk.reply.data /\ answer'.ack = did.ack /\ answer'.to = r
      /\ answer'.damaged = damaged
  BY <1>1
<1>6. Serving(r, t, did)
  BY <1>1, <1>2, <1>3, <1>4, <1>5 DEF Serving
<1>7. Sound(r, t, did) /\ Right(r, t, did)
  BY <1>6, EveryRequestIsRight
<1>8. escs \in [DOMAIN escs -> Esc] /\ 1 \in DOMAIN escs
  BY DEF EscInv, EscTypeOK
<1>9. did.talk.esc \in Esc /\ selected' = n
  BY <1>1, <1>7 DEF Sound
<1> HIDE DEF n
<1>10. /\ escs' \in [DOMAIN escs -> Esc] /\ DOMAIN escs' = DOMAIN escs
       /\ escs'[n] = did.talk.esc
       /\ \A k \in DOMAIN escs : k # n => escs'[k] = escs[k]
  BY <1>1, <1>2, <1>8, <1>9
<1>11. EscInv'
  <2>1. EscTypeOK'
    BY <1>1, <1>2, <1>7, <1>8, <1>9, <1>10 DEF EscTypeOK, Sound, Pointers
  <2>2. \A k \in DOMAIN escs' : escs'[k].awaits = 0 /\ (escs'[k].speaks => escs'[k].boots)
    BY <1>7, <1>10 DEF EscInv, Sound
  <2>3. connected' => mode' # "C2"
    BY <1>1, <1>7 DEF Sound
  <2>4. connected' /\ pointer' # Unknown /\ escs'[selected'].speaks
         => escs'[selected'].address = pointer'
    BY <1>1, <1>7, <1>9, <1>10 DEF Sound
  <2> QED BY <2>1, <2>2, <2>3, <2>4 DEF EscInv, Unknown
<1>12. TrueAnswer
  <2>1. /\ escs[selected'] = t.esc /\ escs'[selected'] = did.talk.esc /\ t.damaged = damaged
    BY <1>3, <1>9, <1>10
  <2>2. did.talk.esc = t.esc => escs' = escs
    BY <1>1, <1>2, <1>3, <1>8
  <2>3. \A k \in DOMAIN escs : k # selected' => escs'[k] = escs[k]
    BY <1>9, <1>10
  <2> QED BY <1>5, <1>7, <2>1, <2>2, <2>3 DEF TrueAnswer, Right, Tried, Invalid
<1> QED BY <1>11, <1>12

(* What is not a request gives no answer of an ESC. *)
LEMMA RestKeeps ==
  ASSUME EscInv, Enter \/ Exit \/ DamagedRequest \/ Restart \/ UNCHANGED escVars
  PROVE  EscInv' /\ TrueAnswer
<1>1. CASE Enter \/ UNCHANGED escVars
  <2>1. /\ escs' = escs /\ selected' = selected /\ mode' = mode /\ connected' = connected
        /\ pointer' = pointer /\ rounds' = rounds
    BY <1>1 DEF Enter, escVars
  <2> QED BY <2>1 DEF EscInv, EscTypeOK, TrueAnswer, Unknown, Pointers
<1>2. CASE Exit
  <2>1. /\ escs' = escs /\ selected' = 1 /\ mode' = "C2" /\ connected' = FALSE
        /\ pointer' = pointer /\ "to" \notin DOMAIN answer'
    BY <1>2 DEF Exit
  <2> QED BY <2>1 DEF EscInv, EscTypeOK, TrueAnswer, Pointers, Unknown, Modes
<1>3. CASE DamagedRequest
  <2>1. /\ escs' = escs /\ selected' = selected /\ mode' = mode /\ connected' = connected
        /\ pointer' = pointer /\ "to" \notin DOMAIN answer'
    BY <1>3 DEF DamagedRequest
  <2> QED BY <2>1 DEF EscInv, EscTypeOK, TrueAnswer, Unknown, Pointers
<1>4. CASE Restart
  <2>1. PICK k \in DOMAIN escs :
          escs' = [escs EXCEPT ![k] = [@ EXCEPT !.boots = TRUE, !.speaks = FALSE, !.address = 0,
                                                !.awaits = 0, !.buffer = Erased]]
    BY <1>4 DEF Restart
  <2> DEFINE f == [escs[k] EXCEPT !.boots = TRUE, !.speaks = FALSE, !.address = 0,
                                  !.awaits = 0, !.buffer = Erased]
  <2>2. escs[k] \in Esc /\ escs \in [DOMAIN escs -> Esc]
    BY DEF EscInv, EscTypeOK
  <2>3. 0 \in 0..HighBytes - 1 /\ Erased \in Pieces
    BY AddressInRange DEF Pieces
  <2>4. f \in Esc /\ f.awaits = 0 /\ ~f.speaks
    BY <2>2, <2>3 DEF Esc
  <2>5. escs' = [escs EXCEPT ![k] = f]
    BY <2>1
  <2> HIDE DEF f
  <2>6. /\ escs' \in [DOMAIN escs -> Esc] /\ DOMAIN escs' = DOMAIN escs
        /\ \A j \in DOMAIN escs : escs'[j] = IF j = k THEN f ELSE escs[j]
    BY <2>2, <2>4, <2>5
  <2>7. /\ selected' = selected /\ mode' = mode /\ connected' = connected
        /\ pointer' = pointer /\ rounds' = rounds
    BY <1>4 DEF Restart
  <2>8. EscTypeOK'
    BY <2>6, <2>7 DEF EscInv, EscTypeOK, Pointers, Unknown
  <2>9. \A j \in DOMAIN escs' : escs'[j].awaits = 0 /\ (escs'[j].speaks => escs'[j].boots)
    BY <2>4, <2>6 DEF EscInv
  <2>10. connected' /\ pointer' # Unknown /\ escs'[selected'].speaks
          => escs'[selected'].address = pointer'
    BY <2>4, <2>6, <2>7 DEF EscInv, EscTypeOK
  <2> QED BY <2>7, <2>8, <2>9, <2>10 DEF EscInv, TrueAnswer, Unknown
<1> QED BY <1>1, <1>2, <1>3, <1>4

(* An ESC that was just powered awaits nothing.                           *)
LEMMA NewEscIsIdle ==
  ASSUME NEW kind \in Kinds, NEW e, e = NewEsc(kind)
  PROVE  e \in Esc /\ e.awaits = 0 /\ ~e.speaks
<1>1. 0 \in 0..HighBytes - 1 /\ Erased \in Pieces /\ Blank \in Memories
  BY AddressInRange DEF Pieces, Blank, Memories
<1> HIDE DEF Pieces, Memories
<1> QED BY <1>1 DEF NewEsc, Esc

(* The invariant holds before the interface is entered.                   *)
LEMMA EscInitInv == EscInit => EscInv
<1> SUFFICES ASSUME EscInit PROVE EscInv
  OBVIOUS
<1>1. PICK board \in Boards : escs = [k \in DOMAIN board |-> NewEsc(board[k])]
  BY DEF EscInit
<1>2. board \in Seq(Kinds) /\ board # <<>>
  BY EscAssumption DEF Kinds
<1>3. 1 \in DOMAIN board /\ \A k \in DOMAIN board : board[k] \in Kinds
  BY <1>2
<1>4. \A k \in DOMAIN board :
        NewEsc(board[k]) \in Esc /\ NewEsc(board[k]).awaits = 0 /\ ~NewEsc(board[k]).speaks
  BY <1>3, NewEscIsIdle
<1>5. /\ escs \in [DOMAIN escs -> Esc] /\ 1 \in DOMAIN escs
      /\ \A k \in DOMAIN escs : escs[k].awaits = 0 /\ ~escs[k].speaks
  BY <1>1, <1>3, <1>4
<1>6. EscTypeOK
  BY <1>5 DEF EscInit, EscTypeOK, Modes, Pointers
<1> QED BY <1>5, <1>6 DEF EscInit, EscInv

(* No step breaks the invariant, and none gives an untrue answer.         *)
LEMMA EscStep ==
  ASSUME EscInv, [EscNext]_escVars
  PROVE  EscInv' /\ TrueAnswer
<1>1. CASE \E r \in Requested, damaged \in Messages : Request(r, damaged)
  BY <1>1, RequestKeeps
<1>2. CASE Enter \/ Exit \/ DamagedRequest \/ Restart \/ UNCHANGED escVars
  BY <1>2, RestKeeps
<1> QED BY <1>1, <1>2 DEF EscNext, Ended

(* Between requests no boot loader waits for data, whatever was lost on   *)
(* the way, and while there is a connection the host knows where the      *)
(* selected one goes on, for all boards, addresses, data, damages and     *)
(* sequences of requests, resets and power losses.                        *)
THEOREM EscInvariant == EscSpec => []EscInv
<1>1. EscInv /\ [EscNext]_escVars => EscInv'
  BY EscStep
<1> QED BY <1>1, EscInitInv, PTL DEF EscSpec

(* The answer to every request is true (esc4wayProcess): what is          *)
(* acknowledged was done by the selected ESC at the place that was meant, *)
(* what is refused was not done, no other ESC and no memory changes in    *)
(* passing, and what is not damaged is served.                            *)
THEOREM AnswersAreTrue == EscSpec => AnswerIsTrue
<1>1. EscInv /\ [EscNext]_escVars => TrueAnswer
  BY EscStep
<1>2. EscInv /\ [EscNext]_escVars => [TrueAnswer]_escVars
  BY <1>1
<1> QED BY <1>2, EscInvariant, PTL DEF EscSpec, AnswerIsTrue

=============================================================================
