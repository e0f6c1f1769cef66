--------------------------- MODULE SampleHandoff ---------------------------
(***************************************************************************)
(* How an accelerometer sample reaches the attitude filter on two cores:   *)
(* the gyro task stores it under the sequence lock and then announces it   *)
(* through the ring; the PID task takes the event and fetches the sample.  *)
(* The two structures are QueueAtomic and SeqLock, one access a step; this *)
(* module is the order in which the two tasks use them.                    *)
(*                                                                         *)
(* The code's event is its type alone.  Here an ACCEL_READ also names the  *)
(* store it announces, so that a property can compare it with the fetch.   *)
(***************************************************************************)
EXTENDS Naturals, Sequences, RingSize

CONSTANTS Word, Stores

VARIABLES
  head, tail, array, sender, item, tailSeen, receiver, headSeen, slotCopy, received,
  counter, data, writing, storing, reader, seqBefore, seqAfter, reading, copy,
  producer,   \* where SensorManager::read is: "gyro", "accel" or "announce"
  consumer    \* where updateOther is: "receive", "serve" or "fetch"

ringVars == <<head, tail, array, sender, item, tailSeen, receiver, headSeen, slotCopy, received>>
lockVars == <<counter, data, writing, storing, reader, seqBefore, seqAfter, reading, copy>>
vars == <<ringVars, lockVars, producer, consumer>>

Gyro == <<"GYRO_READ", 0>>
Accel(n) == <<"ACCEL_READ", n>>
Nothing == <<"IDLE", 0>>
Event == {Nothing, Gyro} \cup {Accel(n) : n \in 1..Stores}

Ring == INSTANCE QueueAtomic WITH Payload <- Event, Idle <- Nothing, copy <- slotCopy
Lock == INSTANCE SeqLock

Init ==
  /\ Ring!Init /\ Lock!Init
  /\ producer = "gyro" /\ consumer = "receive"

-----------------------------------------------------------------------------
(* One access of Queue::send(e); the call ends in the state next. *)
Send(e, next) ==
  /\ Ring!Push /\ (sender = "idle" => item' = e)
  /\ producer' = IF sender' = "idle" THEN next ELSE producer
  /\ UNCHANGED <<lockVars, consumer>>

(* read: the gyro's sample, announced in the slots of the loop timer. *)
SendGyro == producer = "gyro" /\ Send(Gyro, "accel")

SkipGyro ==
  /\ producer = "gyro" /\ sender = "idle"
  /\ producer' = "accel"
  /\ UNCHANGED <<ringVars, lockVars, consumer>>

SkipAccel ==
  /\ producer = "accel" /\ sender = "idle" /\ ~storing
  /\ producer' = "gyro"
  /\ UNCHANGED <<ringVars, lockVars, consumer>>

(* In the slots of its own timer the accelerometer is read, ... *)
StoreAccel ==
  /\ producer = "accel" /\ Lock!Store
  /\ producer' = IF storing' THEN producer ELSE "announce"
  /\ UNCHANGED <<ringVars, consumer>>

(* ... and only then announced. *)
SendAccel == producer = "announce" /\ Send(Accel(counter \div 2), "gyro")

(* Mutant: the sample is announced first and stored after it. *)
AnnounceEarly ==
  \/ producer = "accel" /\ counter < 2 * Stores /\ Send(Accel(1 + counter \div 2), "announce")
  \/ /\ producer = "announce" /\ Lock!Store
     /\ producer' = IF storing' THEN producer ELSE "gyro"
     /\ UNCHANGED <<ringVars, consumer>>
SensorRead_SendsFirst == SendGyro \/ SkipGyro \/ SkipAccel \/ AnnounceEarly

SensorRead == SendGyro \/ SkipGyro \/ SkipAccel \/ StoreAccel \/ SendAccel

-----------------------------------------------------------------------------
(* updateOther: isEmpty, then receive. *)
Receive ==
  /\ consumer = "receive" /\ Ring!Pop
  /\ consumer' = IF receiver' = "idle" THEN "serve" ELSE consumer
  /\ UNCHANGED <<lockVars, producer>>

(* fusion fetches; of the gyro's handlers the calibration and the log do. *)
Serve ==
  /\ consumer = "serve"
  /\ \/ received # Nothing /\ consumer' = "fetch"
     \/ received \in {Nothing, Gyro} /\ consumer' = "receive"
  /\ UNCHANGED <<ringVars, lockVars, producer>>

Fetch ==
  /\ consumer = "fetch"
  /\ \/ Lock!Fetch /\ UNCHANGED consumer
     \/ Lock!FetchAgain /\ consumer' = "receive"
  /\ UNCHANGED <<ringVars, producer>>

UpdateOther == Receive \/ Serve \/ Fetch

Next == SensorRead \/ UpdateOther

Spec == Init /\ [][Next]_vars

(* The gyro task finishes the store it began, the PID task polls for ever. *)
FairSpec == Spec /\ WF_vars(StoreAccel) /\ WF_vars(UpdateOther)

-----------------------------------------------------------------------------
(***************************************************************************)
(* The attitude filter never computes with an older sample than the one it *)
(* was woken for: the sample fetched after ACCEL_READ is that one or, if   *)
(* the gyro task has gone on meanwhile, a later one, word by word.         *)
(***************************************************************************)
FetchIsFresh ==
  \A n \in 1..Stores :
    received = Accel(n) /\ reader = "done" => \A w \in Word : copy[w] >= n

(* The ring is a bounded first-in first-out channel of events. *)
IsChannel == Ring!IsChannel

(* A fetch that saw an even counter returns one store's value. *)
EvenFetchIsWhole == Lock!EvenFetchIsWhole

(* Both: no fetch is older than its event, none that the counter vouches   *)
(* for is a mixture of two samples.                                        *)
FetchIsSound == FetchIsFresh /\ EvenFetchIsWhole

(***************************************************************************)
(* No announcement stays unread, even if the gyro task stops anywhere      *)
(* outside a store: a fetch it disturbs ends, and the next event is taken. *)
(***************************************************************************)
EventsArrive == Ring!EventsArrive

(***************************************************************************)
(* Why a fetch is fresh: an announced sample has been stored completely,   *)
(* the words in memory are never behind the counter, and so neither are    *)
(* those that a fetch has copied since its announcement was taken.         *)
(***************************************************************************)
Stored(e) == \A n \in 1..Stores : e = Accel(n) => 2 * n <= counter

AnnouncedIsStored ==
  /\ Stored(item) /\ Stored(slotCopy) /\ Stored(received)
  /\ \A s \in Ring!Slot : Stored(array[s])

DataIsRecent == \A w \in Word : data[w] >= counter \div 2

FetchesWhenServing == consumer # "fetch" => reader = "load" /\ seqAfter = 0

CopyIsRecent ==
  \A n \in 1..Stores : received = Accel(n) =>
    /\ reader # "load" => seqBefore > 0
    /\ reader = "copy" => \A w \in Word \ reading : copy[w] >= n
    /\ seqAfter > 0 => \A w \in Word : copy[w] >= n

Freshness ==
  AnnouncedIsStored /\ DataIsRecent /\ FetchesWhenServing /\ CopyIsRecent

=============================================================================
