---------------------------- MODULE QueueAtomic ----------------------------
(***************************************************************************)
(* Target/QueueAtomic: the ring through which the gyro task, its only      *)
(* producer, and the PID task, its only consumer, exchange events on the   *)
(* two cores of an ESP32.  Every load and store of the two indices and     *)
(* every access to a slot is a step of its own; the indices are            *)
(* sequentially consistent atomics, the slots plain memory.                *)
(***************************************************************************)
EXTENDS Naturals, Sequences, RingSize

CONSTANTS
  Payload,    \* what the producer may send
  Idle        \* EVENT_IDLE, what a default-constructed Event holds

Event == Payload \cup {Idle}

Capacity == Size + 1
Slot == 0..(Capacity - 1)

VARIABLES
  head, tail, array,
  sender,     \* where Queue::send is
  item,       \* the argument of push
  tailSeen,   \* current_tail in push
  receiver,   \* where isEmpty and Queue::receive are
  headSeen,   \* current_head in pop
  copy,       \* the copy pop made of its slot
  received    \* the event the last receive returned

senderVars == <<sender, item, tailSeen>>
receiverVars == <<receiver, headSeen, copy, received>>
vars == <<head, tail, array, senderVars, receiverVars>>

(* increment(idx): the next slot, around the ring. *)
Increment(i) == (i + 1) % Capacity

Init ==
  /\ head = 0 /\ tail = 0
  /\ array = [s \in Slot |-> Idle]
  /\ sender = "idle" /\ item = Idle /\ tailSeen = 0
  /\ receiver = "idle" /\ headSeen = 0 /\ copy = Idle /\ received = Idle

-----------------------------------------------------------------------------
(***************************************************************************)
(* Queue::send, by the producer: isFull, then push.                        *)
(***************************************************************************)

(* isFull: the load of the producer's own tail needs no step. *)
SendIsFull ==
  /\ sender = "idle"
  /\ item' \in Payload
  /\ sender' = IF Increment(tail) = head THEN "idle" ELSE "room"
  /\ UNCHANGED <<head, tail, array, tailSeen, receiverVars>>

PushLoadTail ==
  /\ sender = "room"
  /\ tailSeen' = tail
  /\ sender' = "tail"
  /\ UNCHANGED <<head, tail, array, item, receiverVars>>

(* A full ring drops the event: push returns false. *)
PushLoadHead ==
  /\ sender = "tail"
  /\ sender' = IF Increment(tailSeen) # head THEN "checked" ELSE "idle"
  /\ UNCHANGED <<head, tail, array, item, tailSeen, receiverVars>>

PushWrite ==
  /\ sender = "checked"
  /\ array' = [array EXCEPT ![tailSeen] = item]
  /\ sender' = "written"
  /\ UNCHANGED <<head, tail, item, tailSeen, receiverVars>>

PushStoreTail ==
  /\ sender = "written"
  /\ tail' = Increment(tailSeen)
  /\ sender' = "idle"
  /\ UNCHANGED <<head, array, item, tailSeen, receiverVars>>

-----------------------------------------------------------------------------
(***************************************************************************)
(* Espfc::updateOther, by the consumer: isEmpty, then receive, which pops. *)
(***************************************************************************)

(* isEmpty: the load of the consumer's own head needs no step. *)
ReceiveIsEmpty ==
  /\ receiver = "idle" /\ head # tail
  /\ receiver' = "some"
  /\ UNCHANGED <<head, tail, array, headSeen, copy, received, senderVars>>

PopLoadHead ==
  /\ receiver = "some"
  /\ headSeen' = head
  /\ receiver' = "head"
  /\ UNCHANGED <<head, tail, array, copy, received, senderVars>>

(* From an empty ring receive returns the event it was constructed with. *)
PopLoadTail ==
  /\ receiver = "head"
  /\ IF headSeen = tail
     THEN receiver' = "idle" /\ received' = Idle
     ELSE receiver' = "checked" /\ UNCHANGED received
  /\ UNCHANGED <<head, tail, array, headSeen, copy, senderVars>>

(* Mutant: the slot is given back before it is read. *)
PopRead_HeadFirst ==
  /\ receiver = "checked"
  /\ head' = Increment(headSeen)
  /\ receiver' = "copied"
  /\ UNCHANGED <<tail, array, headSeen, copy, received, senderVars>>

PopRead ==
  /\ receiver = "checked"
  /\ copy' = array[headSeen]
  /\ receiver' = "copied"
  /\ UNCHANGED <<head, tail, array, headSeen, received, senderVars>>

PopStoreHead ==
  /\ receiver = "copied"
  /\ head' = Increment(headSeen)
  /\ received' = copy
  /\ receiver' = "idle"
  /\ UNCHANGED <<tail, array, headSeen, copy, senderVars>>

Push == SendIsFull \/ PushLoadTail \/ PushLoadHead \/ PushWrite \/ PushStoreTail
Pop == ReceiveIsEmpty \/ PopLoadHead \/ PopLoadTail \/ PopRead \/ PopStoreHead
Next == Push \/ Pop

Spec == Init /\ [][Next]_vars

(* The PID task polls for ever: other tasks of its core delay it only. *)
FairSpec == Spec /\ WF_vars(Pop)

-----------------------------------------------------------------------------
TypeOK ==
  /\ head \in Slot /\ tail \in Slot /\ array \in [Slot -> Event]
  /\ sender \in {"idle", "room", "tail", "checked", "written"}
  /\ item \in Event /\ tailSeen \in Slot
  /\ receiver \in {"idle", "some", "head", "checked", "copied"}
  /\ headSeen \in Slot /\ copy \in Event /\ received \in Event

(***************************************************************************)
(* The occupied slots, from head to tail around the ring, and the events   *)
(* in them: the channel the ring implements.                               *)
(***************************************************************************)
Length == IF head <= tail THEN tail - head ELSE tail + Capacity - head

SlotAt(i) == IF head + i < Capacity THEN head + i ELSE head + i - Capacity

Contents == [i \in 1..Length |-> array[SlotAt(i - 1)]]

(***************************************************************************)
(* The two tasks never touch the same slot at the same time: the plain     *)
(* accesses to _array do not race.                                         *)
(***************************************************************************)
NoSlotRace ==
  ~(sender = "checked" /\ receiver = "checked" /\ tailSeen = headSeen)

(***************************************************************************)
(* The slot being written is free, and the event being taken is the oldest *)
(* one: what each task learnt from its loads still holds when it acts.     *)
(***************************************************************************)
LoadsStayTrue ==
  /\ sender \in {"tail", "checked", "written"} => tailSeen = tail
  /\ sender \in {"room", "tail", "checked", "written"} => Increment(tail) # head
  /\ sender = "written" => array[tail] = item
  /\ receiver \in {"head", "checked", "copied"} => headSeen = head
  /\ receiver \in {"some", "head", "checked", "copied"} => head # tail
  /\ receiver = "copied" => copy = array[head]

Inv == TypeOK /\ LoadsStayTrue

(***************************************************************************)
(* The ring is a bounded first-in first-out channel of Size events.        *)
(***************************************************************************)
Channel == INSTANCE EventChannel WITH channel <- Contents

IsChannel == Channel!ChannelSpec

(***************************************************************************)
(* No event stays in the ring: the PID task, as long as it runs, receives  *)
(* whatever was accepted, even if the gyro task stops halfway in a push.   *)
(***************************************************************************)
EventsArrive == \A h \in Slot : (head = h /\ head # tail) ~> (head # h)

=============================================================================
