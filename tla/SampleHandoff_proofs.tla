------------------------ MODULE SampleHandoff_proofs ------------------------
(***************************************************************************)
(* Proofs about the hand-over of a sample, for every size of the ring and  *)
(* any number of words and stores.  First each structure on its own: its   *)
(* lemmas are about the ring's or the lock's steps alone, and the tasks    *)
(* take no others.  Then the order of the two, which keeps the samples     *)
(* fresh.                                                                  *)
(***************************************************************************)
EXTENDS SampleHandoff, TLAPS

(* The indices walk the slots in a circle. *)
LEMMA IncrementFact ==
  ASSUME NEW i \in Ring!Slot
  PROVE  /\ Ring!Increment(i) = IF i + 1 = Ring!Capacity THEN 0 ELSE i + 1
         /\ Ring!Increment(i) \in Ring!Slot
PROOF
  <1>1. Size \in Nat /\ Size > 0 BY SizeAssumption
  <1>2. CASE i + 1 = Ring!Capacity BY <1>1, <1>2, Z3
    DEF Ring!Increment, Ring!Capacity, Ring!Slot
  <1>3. CASE i + 1 # Ring!Capacity BY <1>1, <1>3, Z3
    DEF Ring!Increment, Ring!Capacity, Ring!Slot
  <1> QED BY <1>2, <1>3

(* Different slots have different successors. *)
LEMMA IncrementInjective ==
  ASSUME NEW i \in Ring!Slot, NEW j \in Ring!Slot, i # j
  PROVE  Ring!Increment(i) # Ring!Increment(j)
PROOF
  <1>1. Ring!Increment(i) = IF i + 1 = Ring!Capacity THEN 0 ELSE i + 1
    BY IncrementFact
  <1>2. Ring!Increment(j) = IF j + 1 = Ring!Capacity THEN 0 ELSE j + 1
    BY IncrementFact
  <1> QED BY <1>1, <1>2, SizeAssumption DEF Ring!Slot, Ring!Capacity

(* The occupied slots lie in the array, and their number within the ring. *)
LEMMA SlotFacts ==
  ASSUME Ring!TypeOK
  PROVE  /\ Size \in Nat /\ Ring!Capacity = Size + 1
         /\ Ring!Length \in 0..Size
         /\ \A i \in 0..(Ring!Length - 1) : Ring!SlotAt(i) \in Ring!Slot
PROOF
  <1>1. Size \in Nat /\ Size > 0 BY SizeAssumption
  <1>2. Ring!Length \in 0..Size BY <1>1
    DEF Ring!TypeOK, Ring!Slot, Ring!Capacity, Ring!Length
  <1>3. \A i \in 0..(Ring!Length - 1) : Ring!SlotAt(i) \in Ring!Slot
    BY <1>1, <1>2 DEF Ring!TypeOK, Ring!Slot, Ring!Capacity, Ring!SlotAt
  <1> QED BY <1>1, <1>2, <1>3 DEF Ring!Capacity

(* The contents are a sequence of events. *)
LEMMA ContentsFacts ==
  ASSUME Ring!TypeOK
  PROVE  Ring!Contents \in Seq(Ring!Event) /\ Len(Ring!Contents) = Ring!Length
PROOF
  <1>1. Ring!Length \in Nat BY SlotFacts
  <1>2. \A i \in 1..Ring!Length : array[Ring!SlotAt(i - 1)] \in Ring!Event
    <2> TAKE i \in 1..Ring!Length
    <2>1. i - 1 \in 0..(Ring!Length - 1) BY <1>1
    <2>2. Ring!SlotAt(i - 1) \in Ring!Slot BY <2>1, SlotFacts
    <2> QED BY <2>2 DEF Ring!TypeOK
  <1> QED BY <1>1, <1>2 DEF Ring!Contents

-----------------------------------------------------------------------------
(* Nothing has been loaded or stored yet. *)
LEMMA RingInitInv == Ring!Init => Ring!Inv
PROOF
  <1> SUFFICES ASSUME Ring!Init PROVE Ring!Inv OBVIOUS
  <1>1. 0 \in Ring!Slot BY SizeAssumption DEF Ring!Slot, Ring!Capacity
  <1> QED BY <1>1
    DEF Ring!Init, Ring!Inv, Ring!TypeOK, Ring!LoadsStayTrue, Ring!Event

(* Neither task invalidates what the other has loaded. *)
LEMMA RingNextInv == Ring!Inv /\ [Ring!Next]_(Ring!vars) => Ring!Inv'
PROOF
  <1> SUFFICES ASSUME Ring!Inv, [Ring!Next]_(Ring!vars) PROVE Ring!Inv' OBVIOUS
  <1> USE DEF Ring!Inv, Ring!senderVars, Ring!receiverVars
  <1>1. CASE Ring!SendIsFull BY <1>1
    DEF Ring!SendIsFull, Ring!TypeOK, Ring!LoadsStayTrue, Ring!Event
  <1>2. CASE Ring!PushLoadTail BY <1>2
    DEF Ring!PushLoadTail, Ring!TypeOK, Ring!LoadsStayTrue
  <1>3. CASE Ring!PushLoadHead BY <1>3
    DEF Ring!PushLoadHead, Ring!TypeOK, Ring!LoadsStayTrue
  <1>4. CASE Ring!PushWrite
    <2>1. Ring!TypeOK' BY <1>4 DEF Ring!PushWrite, Ring!TypeOK
    <2>2. array' = [array EXCEPT ![tail] = item] /\ tail \in Ring!Slot
      BY <1>4 DEF Ring!PushWrite, Ring!TypeOK, Ring!LoadsStayTrue
    <2>3. receiver = "copied" => slotCopy = array'[head]
      BY <2>2 DEF Ring!TypeOK, Ring!LoadsStayTrue
    <2> QED BY <1>4, <2>1, <2>2, <2>3
      DEF Ring!PushWrite, Ring!TypeOK, Ring!LoadsStayTrue
  <1>5. CASE Ring!PushStoreTail
    <2>1. tail' = Ring!Increment(tail) /\ tail' # head
      BY <1>5 DEF Ring!PushStoreTail, Ring!LoadsStayTrue
    <2>2. tail' \in Ring!Slot BY <2>1, IncrementFact DEF Ring!TypeOK
    <2> QED BY <1>5, <2>1, <2>2
      DEF Ring!PushStoreTail, Ring!TypeOK, Ring!LoadsStayTrue
  <1>6. CASE Ring!ReceiveIsEmpty BY <1>6
    DEF Ring!ReceiveIsEmpty, Ring!TypeOK, Ring!LoadsStayTrue
  <1>7. CASE Ring!PopLoadHead BY <1>7
    DEF Ring!PopLoadHead, Ring!TypeOK, Ring!LoadsStayTrue
  <1>8. CASE Ring!PopLoadTail
    BY <1>8 DEF Ring!PopLoadTail, Ring!TypeOK, Ring!LoadsStayTrue, Ring!Event
  <1>9. CASE Ring!PopRead
    <2>1. slotCopy' = array[head] /\ slotCopy' \in Ring!Event
      BY <1>9 DEF Ring!PopRead, Ring!TypeOK, Ring!LoadsStayTrue
    <2> QED BY <1>9, <2>1 DEF Ring!PopRead, Ring!TypeOK, Ring!LoadsStayTrue
  <1>10. CASE Ring!PopStoreHead
    <2>1. head' = Ring!Increment(head) /\ head # tail
      BY <1>10 DEF Ring!PopStoreHead, Ring!LoadsStayTrue
    <2>2. head' \in Ring!Slot BY <2>1, IncrementFact DEF Ring!TypeOK
    <2>3. sender \in {"room", "tail", "checked", "written"} => Ring!Increment(tail) # head'
      BY <2>1, IncrementInjective DEF Ring!TypeOK
    <2> QED BY <1>10, <2>1, <2>2, <2>3
      DEF Ring!PopStoreHead, Ring!TypeOK, Ring!LoadsStayTrue
  <1>11. CASE UNCHANGED Ring!vars BY <1>11
    DEF Ring!vars, Ring!TypeOK, Ring!LoadsStayTrue
  <1> QED
    BY <1>1, <1>2, <1>3, <1>4, <1>5, <1>6, <1>7, <1>8, <1>9, <1>10, <1>11
    DEF Ring!Next, Ring!Push, Ring!Pop

-----------------------------------------------------------------------------
(***************************************************************************)
(* The tasks use the ring as its specification says.                       *)
(***************************************************************************)
LEMMA RingNext == [Next]_vars => [Ring!Next]_(Ring!vars)
PROOF
  <1> SUFFICES ASSUME [Next]_vars
               PROVE  Ring!Next \/ UNCHANGED Ring!vars
    OBVIOUS
  <1>1. UNCHANGED ringVars => UNCHANGED Ring!vars
    BY DEF ringVars, Ring!vars, Ring!senderVars, Ring!receiverVars
  <1>2. CASE SendGyro \/ SendAccel
    BY <1>2 DEF SendGyro, SendAccel, Send, Ring!Next
  <1>3. CASE SkipGyro \/ SkipAccel \/ StoreAccel
    BY <1>1, <1>3 DEF SkipGyro, SkipAccel, StoreAccel
  <1>4. CASE Receive BY <1>4 DEF Receive, Ring!Next
  <1>5. CASE Serve \/ Fetch BY <1>1, <1>5 DEF Serve, Fetch
  <1>6. CASE UNCHANGED vars BY <1>1, <1>6 DEF vars
  <1> QED BY <1>2, <1>3, <1>4, <1>5, <1>6 DEF Next, SensorRead, UpdateOther

LEMMA UsesRing == Spec => Ring!Spec
PROOF
  <1>1. Init => Ring!Init BY DEF Init
  <1> QED BY <1>1, RingNext, PTL DEF Spec, Ring!Spec

(* What each task has loaded stays true until it acts on it. *)
THEOREM LoadsAreStable == Spec => []Ring!Inv
PROOF BY UsesRing, RingInitInv, RingNextInv, PTL DEF Ring!Spec

(* The plain accesses to the slots never race. *)
THEOREM SlotsDoNotRace == Spec => []Ring!NoSlotRace
PROOF
  <1>1. Ring!Inv => Ring!NoSlotRace
    BY DEF Ring!Inv, Ring!LoadsStayTrue, Ring!NoSlotRace
  <1> QED BY <1>1, LoadsAreStable, PTL

-----------------------------------------------------------------------------
(* Storing the tail appends the event that was pushed. *)
LEMMA PushAppends ==
  ASSUME Ring!Inv, Ring!Inv', Ring!PushStoreTail
  PROVE  Ring!Channel!Send(item)
PROOF
  <1> USE DEF Ring!Inv
  <1>1. /\ tail' = Ring!Increment(tail) /\ head' = head /\ array' = array
        /\ tail' # head /\ array[tail] = item /\ received' = received
    BY DEF Ring!PushStoreTail, Ring!LoadsStayTrue, Ring!receiverVars
  <1>2. /\ Size \in Nat /\ head \in 0..Size /\ tail \in 0..Size /\ Ring!Capacity = Size + 1
        /\ tail' = IF tail = Size THEN 0 ELSE tail + 1
    <2>1. Size \in Nat /\ head \in 0..Size /\ tail \in 0..Size /\ Ring!Capacity = Size + 1
      BY SizeAssumption DEF Ring!TypeOK, Ring!Slot, Ring!Capacity
    <2>2. tail' = IF tail + 1 = Ring!Capacity THEN 0 ELSE tail + 1
      BY <1>1, IncrementFact DEF Ring!TypeOK
    <2> QED BY <2>1, <2>2
  <1>3. Ring!Length' = Ring!Length + 1 /\ Ring!Length \in Nat /\ Ring!Length < Size
    BY <1>1, <1>2 DEF Ring!Length
  <1>4. Ring!SlotAt(Ring!Length) = tail BY <1>2 DEF Ring!SlotAt, Ring!Length
  <1>5. \A i : Ring!SlotAt(i)' = Ring!SlotAt(i) BY <1>1 DEF Ring!SlotAt
  <1>6. Ring!Contents' = [i \in 1..(Ring!Length + 1) |-> array[Ring!SlotAt(i - 1)]]
    BY <1>1, <1>3, <1>5 DEF Ring!Contents
  <1>7. Append(Ring!Contents, item)
          = [i \in 1..(Ring!Length + 1) |-> array[Ring!SlotAt(i - 1)]]
    <2>1. array[Ring!SlotAt((Ring!Length + 1) - 1)] = item BY <1>1, <1>3, <1>4
    <2>2. Ring!Contents \in Seq(Ring!Event) /\ Len(Ring!Contents) = Ring!Length
      BY ContentsFacts
    <2> QED BY <1>3, <2>1, <2>2 DEF Ring!Contents
  <1>8. Len(Ring!Contents) < Size BY <1>3, ContentsFacts
  <1> QED BY <1>1, <1>6, <1>7, <1>8 DEF Ring!Channel!Send

(* Storing the head takes the oldest event. *)
LEMMA PopTakesOldest ==
  ASSUME Ring!Inv, Ring!Inv', Ring!PopStoreHead
  PROVE  Ring!Channel!Receive
PROOF
  <1> USE DEF Ring!Inv
  <1>1. /\ head' = Ring!Increment(head) /\ tail' = tail /\ array' = array
        /\ head # tail /\ received' = array[head]
    BY DEF Ring!PopStoreHead, Ring!LoadsStayTrue
  <1>2. /\ Size \in Nat /\ head \in 0..Size /\ tail \in 0..Size /\ Ring!Capacity = Size + 1
        /\ head' = IF head = Size THEN 0 ELSE head + 1
    <2>1. Size \in Nat /\ head \in 0..Size /\ tail \in 0..Size /\ Ring!Capacity = Size + 1
      BY SizeAssumption DEF Ring!TypeOK, Ring!Slot, Ring!Capacity
    <2>2. head' = IF head + 1 = Ring!Capacity THEN 0 ELSE head + 1
      BY <1>1, IncrementFact DEF Ring!TypeOK
    <2> QED BY <2>1, <2>2
  <1>3. Ring!Length' = Ring!Length - 1 /\ Ring!Length \in Nat /\ Ring!Length > 0
    BY <1>1, <1>2 DEF Ring!Length
  <1>4. Ring!SlotAt(0) = head BY <1>2 DEF Ring!SlotAt
  <1>5. \A i \in 0..(Ring!Length - 2) : Ring!SlotAt(i)' = Ring!SlotAt(i + 1)
    BY <1>1, <1>2, <1>3 DEF Ring!SlotAt, Ring!Length
  <1>6. Ring!Contents \in Seq(Ring!Event) /\ Len(Ring!Contents) = Ring!Length
    BY ContentsFacts
  <1>7. Ring!Contents # <<>> /\ Head(Ring!Contents) = array[head]
    BY <1>3, <1>4, <1>6 DEF Ring!Contents
  <1>8. Ring!Contents' = [i \in 1..(Ring!Length - 1) |-> array[Ring!SlotAt(i)]]
    <2>1. \A i \in 1..(Ring!Length - 1) : Ring!SlotAt(i - 1)' = Ring!SlotAt(i)
      <3> TAKE i \in 1..(Ring!Length - 1)
      <3>1. i - 1 \in 0..(Ring!Length - 2) /\ (i - 1) + 1 = i BY <1>3
      <3> QED BY <1>5, <3>1
    <2> QED BY <1>1, <1>3, <2>1 DEF Ring!Contents
  <1>9. Tail(Ring!Contents) = [i \in 1..(Ring!Length - 1) |-> array[Ring!SlotAt(i)]]
    BY <1>3, <1>6 DEF Ring!Contents
  <1> QED BY <1>1, <1>7, <1>8, <1>9 DEF Ring!Channel!Receive

(* Writing the free slot changes no event in the ring. *)
LEMMA WriteIsInvisible ==
  ASSUME Ring!Inv, Ring!PushWrite
  PROVE  UNCHANGED <<Ring!Contents, received>>
PROOF
  <1> USE DEF Ring!Inv
  <1>1. /\ head' = head /\ tail' = tail /\ received' = received
        /\ array' = [array EXCEPT ![tail] = item] /\ Ring!Increment(tail) # head
    BY DEF Ring!PushWrite, Ring!LoadsStayTrue, Ring!receiverVars
  <1>2. /\ Size \in Nat /\ head \in 0..Size /\ tail \in 0..Size /\ Ring!Capacity = Size + 1
    BY SizeAssumption DEF Ring!TypeOK, Ring!Slot, Ring!Capacity
  <1>3. Ring!Length \in 0..Size /\ Ring!Length' = Ring!Length
    BY <1>1, SlotFacts DEF Ring!Length
  <1>4. \A i \in 0..(Ring!Length - 1) : Ring!SlotAt(i) # tail /\ Ring!SlotAt(i) \in Ring!Slot
    BY <1>2, <1>3, SlotFacts DEF Ring!SlotAt, Ring!Length
  <1>5. \A i : Ring!SlotAt(i)' = Ring!SlotAt(i) BY <1>1 DEF Ring!SlotAt
  <1>6. \A i \in 1..Ring!Length : array'[Ring!SlotAt(i - 1)'] = array[Ring!SlotAt(i - 1)]
    <2> TAKE i \in 1..Ring!Length
    <2>1. i - 1 \in 0..(Ring!Length - 1) BY <1>3
    <2>2. Ring!SlotAt(i - 1) # tail /\ Ring!SlotAt(i - 1) \in Ring!Slot
      BY <2>1, <1>4
    <2> QED BY <2>2, <1>1, <1>5 DEF Ring!TypeOK
  <1> QED BY <1>1, <1>3, <1>6 DEF Ring!Contents

(***************************************************************************)
(* The ring implements the channel: a push appends when it stores the      *)
(* tail, a receive takes when it stores the head, every other step is      *)
(* invisible, and the empty ring is never popped.                          *)
(***************************************************************************)
THEOREM HandoffIsChannel == Spec => IsChannel
PROOF
  <1>1. Ring!Init => Ring!Channel!ChannelInit
    <2> SUFFICES ASSUME Ring!Init PROVE Ring!Channel!ChannelInit OBVIOUS
    <2>1. Ring!Length = 0 BY DEF Ring!Init, Ring!Length
    <2>2. Ring!Contents = <<>> BY <2>1 DEF Ring!Contents
    <2> QED BY <2>2 DEF Ring!Init, Ring!Channel!ChannelInit, Ring!Event
  <1>2. Ring!Inv /\ Ring!Inv' /\ [Ring!Next]_(Ring!vars)
        => [Ring!Channel!ChannelNext]_<<Ring!Contents, received>>
    <2> SUFFICES ASSUME Ring!Inv, Ring!Inv', [Ring!Next]_(Ring!vars)
                 PROVE  Ring!Channel!ChannelNext \/ UNCHANGED <<Ring!Contents, received>>
      OBVIOUS
    <2>1. UNCHANGED <<head, tail, array>> => UNCHANGED Ring!Contents
      BY DEF Ring!Contents, Ring!Length, Ring!SlotAt
    <2>2. CASE Ring!PushStoreTail
      BY <2>2, PushAppends DEF Ring!Channel!ChannelNext, Ring!Inv, Ring!TypeOK
    <2>3. CASE Ring!PopStoreHead BY <2>3, PopTakesOldest
      DEF Ring!Channel!ChannelNext
    <2>4. CASE Ring!PushWrite BY <2>4, WriteIsInvisible
    <2>5. CASE Ring!PopLoadTail
      BY <2>1, <2>5 DEF Ring!PopLoadTail, Ring!Inv, Ring!LoadsStayTrue
    <2>6. CASE Ring!SendIsFull \/ Ring!PushLoadTail \/ Ring!PushLoadHead
      BY <2>1, <2>6
      DEF Ring!SendIsFull, Ring!PushLoadTail, Ring!PushLoadHead, Ring!receiverVars
    <2>7. CASE Ring!ReceiveIsEmpty \/ Ring!PopLoadHead \/ Ring!PopRead
      BY <2>1, <2>7 DEF Ring!ReceiveIsEmpty, Ring!PopLoadHead, Ring!PopRead
    <2>8. CASE UNCHANGED Ring!vars BY <2>1, <2>8 DEF Ring!vars, Ring!receiverVars
    <2> QED BY <2>2, <2>3, <2>4, <2>5, <2>6, <2>7, <2>8
      DEF Ring!Next, Ring!Push, Ring!Pop
  <1> QED BY <1>1, <1>2, UsesRing, LoadsAreStable, PTL
    DEF Ring!Spec, IsChannel, Ring!IsChannel, Ring!Channel!ChannelSpec

-----------------------------------------------------------------------------
(* Nothing stored, nothing fetched. *)
LEMMA LockInitInv == Lock!Init => Lock!Inv
PROOF
  <1> SUFFICES ASSUME Lock!Init PROVE Lock!Inv OBVIOUS
  <1>1. Lock!TypeOK BY DEF Lock!Init, Lock!TypeOK
  <1>2. Lock!StoreShape BY DEF Lock!Init, Lock!StoreShape, Lock!IsOdd
  <1>3. Lock!CopyShape BY DEF Lock!Init, Lock!CopyShape, Lock!IsOdd, Lock!Whole
  <1> QED BY <1>1, <1>2, <1>3 DEF Lock!Inv

(* A step of the writer outdates a copy in progress, or leaves it alone. *)
LEMMA StoreKeepsInv ==
  ASSUME Lock!Inv, Lock!Store
  PROVE  Lock!Inv'
PROOF
  <1> USE DEF Lock!Inv, Lock!readerVars
  <1>1. CASE Lock!OpenStore
    <2>1. Lock!TypeOK' BY <1>1 DEF Lock!OpenStore, Lock!TypeOK
    <2>2. Lock!StoreShape' BY <1>1
      DEF Lock!OpenStore, Lock!TypeOK, Lock!StoreShape, Lock!IsOdd
    <2>3. Lock!CopyShape' BY <1>1
      DEF Lock!OpenStore, Lock!TypeOK, Lock!CopyShape, Lock!IsOdd, Lock!Whole
    <2> QED BY <2>1, <2>2, <2>3
  <1>2. CASE Lock!StoreWord
    <2>1. PICK w \in writing : data' = [data EXCEPT ![w] = (counter + 1) \div 2]
                               /\ writing' = writing \ {w}
      BY <1>2 DEF Lock!StoreWord
    <2>2. storing /\ UNCHANGED <<counter, storing>> /\ UNCHANGED Lock!readerVars
      BY <1>2 DEF Lock!StoreWord
    <2>3. Lock!TypeOK' BY <2>1, <2>2 DEF Lock!TypeOK
    <2>4. Lock!StoreShape' BY <2>1, <2>2
      DEF Lock!TypeOK, Lock!StoreShape, Lock!IsOdd
    <2>5. Lock!CopyShape' BY <2>2 DEF Lock!CopyShape, Lock!Whole, Lock!IsOdd
    <2> QED BY <2>3, <2>4, <2>5
  <1>3. CASE Lock!CloseStore
    <2>1. /\ counter \in Nat /\ counter % 2 = 1 /\ counter' = counter + 1
          /\ writing = {} /\ storing' = FALSE /\ UNCHANGED <<data, writing>>
      BY <1>3 DEF Lock!CloseStore, Lock!TypeOK, Lock!StoreShape, Lock!IsOdd
    <2>2. Lock!TypeOK'
      <3>1. storing' \in BOOLEAN BY <2>1, Zenon
      <3>2. counter' \in Nat /\ data' \in [Word -> Nat] /\ writing' \subseteq Word
        BY <2>1 DEF Lock!TypeOK
      <3> QED BY <1>3, <3>1, <3>2 DEF Lock!CloseStore, Lock!TypeOK
    <2>3. (counter' + 1) \div 2 = (counter + 1) \div 2 /\ ~Lock!IsOdd(counter')
      BY <2>1 DEF Lock!IsOdd
    <2>4. Lock!StoreShape' BY <2>1, <2>3 DEF Lock!StoreShape
    <2>5. Lock!CopyShape' BY <1>3, <2>1
      DEF Lock!CloseStore, Lock!TypeOK, Lock!CopyShape, Lock!IsOdd, Lock!Whole
    <2> QED BY <2>2, <2>4, <2>5
  <1> QED BY <1>1, <1>2, <1>3 DEF Lock!Store

(* A step of the reader copies what the counter stands for. *)
LEMMA FetchKeepsInv ==
  ASSUME Lock!Inv, Lock!Fetch \/ Lock!FetchAgain
  PROVE  Lock!Inv'
PROOF
  <1> USE DEF Lock!Inv, Lock!writerVars
  <1>1. UNCHANGED Lock!writerVars
    BY
    DEF Lock!Fetch, Lock!FetchAgain, Lock!LoadBefore, Lock!CopyWord, Lock!LoadAfter,
        Lock!TestCounters
  <1>2. Lock!StoreShape' BY <1>1 DEF Lock!StoreShape
  <1>3. CASE Lock!LoadBefore
    <2>1. Lock!TypeOK' BY <1>3 DEF Lock!LoadBefore, Lock!TypeOK
    <2>2. Lock!CopyShape' BY <1>3
      DEF Lock!LoadBefore, Lock!TypeOK, Lock!CopyShape, Lock!IsOdd, Lock!Whole
    <2> QED BY <1>2, <2>1, <2>2
  <1>4. CASE Lock!CopyWord
    <2>1. PICK w \in reading : copy' = [copy EXCEPT ![w] = data[w]]
                               /\ reading' = reading \ {w}
      BY <1>4 DEF Lock!CopyWord
    <2>2. reader = "copy" /\ UNCHANGED <<reader, seqBefore, seqAfter>>
      BY <1>4 DEF Lock!CopyWord
    <2>3. Lock!TypeOK' BY <1>1, <2>1, <2>2 DEF Lock!TypeOK
    <2>4. counter = seqBefore => data[w] = seqBefore \div 2
      <3> SUFFICES ASSUME counter = seqBefore PROVE data[w] = seqBefore \div 2
        OBVIOUS
      <3>1. ~Lock!IsOdd(counter) BY <2>2 DEF Lock!CopyShape
      <3>2. writing = {} BY <3>1 DEF Lock!StoreShape, Lock!TypeOK
      <3>3. (counter + 1) \div 2 = counter \div 2 BY <3>1
        DEF Lock!IsOdd, Lock!TypeOK
      <3> QED BY <2>1, <3>2, <3>3 DEF Lock!StoreShape, Lock!TypeOK
    <2>5. Lock!CopyShape' BY <1>1, <2>1, <2>2, <2>4 DEF Lock!CopyShape, Lock!TypeOK
    <2> QED BY <1>2, <2>3, <2>5
  <1>5. CASE Lock!LoadAfter
    <2>1. Lock!TypeOK' BY <1>5 DEF Lock!LoadAfter, Lock!TypeOK
    <2>2. Lock!CopyShape' BY <1>5
      DEF Lock!LoadAfter, Lock!TypeOK, Lock!CopyShape, Lock!Whole
    <2> QED BY <1>2, <2>1, <2>2
  <1>6. CASE Lock!TestCounters
    <2>1. Lock!TypeOK' BY <1>6 DEF Lock!TestCounters, Lock!TypeOK
    <2>2. Lock!CopyShape' BY <1>6
      DEF Lock!TestCounters, Lock!TypeOK, Lock!CopyShape, Lock!Whole
    <2> QED BY <1>2, <2>1, <2>2
  <1>7. CASE Lock!FetchAgain
    <2>1. Lock!TypeOK' BY <1>7 DEF Lock!FetchAgain, Lock!TypeOK
    <2>2. Lock!CopyShape' BY <1>7
      DEF Lock!FetchAgain, Lock!TypeOK, Lock!CopyShape, Lock!Whole
    <2> QED BY <1>2, <2>1, <2>2
  <1> QED BY <1>3, <1>4, <1>5, <1>6, <1>7 DEF Lock!Fetch

(* Every step keeps the invariant. *)
LEMMA LockNextInv == Lock!Inv /\ [Lock!Next]_(Lock!vars) => Lock!Inv'
PROOF
  <1> SUFFICES ASSUME Lock!Inv, [Lock!Next]_(Lock!vars) PROVE Lock!Inv' OBVIOUS
  <1>1. CASE Lock!Store BY <1>1, StoreKeepsInv
  <1>2. CASE Lock!Fetch \/ Lock!FetchAgain BY <1>2, FetchKeepsInv
  <1>3. CASE UNCHANGED Lock!vars
    BY <1>3
    DEF Lock!vars, Lock!writerVars, Lock!readerVars, Lock!Inv, Lock!TypeOK,
        Lock!StoreShape, Lock!CopyShape, Lock!Whole
  <1> QED BY <1>1, <1>2, <1>3 DEF Lock!Next

-----------------------------------------------------------------------------
(***************************************************************************)
(* The tasks use the lock as its specification says.                       *)
(***************************************************************************)
LEMMA LockNext == [Next]_vars => [Lock!Next]_(Lock!vars)
PROOF
  <1> SUFFICES ASSUME [Next]_vars
               PROVE  Lock!Next \/ UNCHANGED Lock!vars
    OBVIOUS
  <1>1. UNCHANGED lockVars => UNCHANGED Lock!vars
    BY DEF lockVars, Lock!vars, Lock!writerVars, Lock!readerVars
  <1>2. CASE StoreAccel BY <1>2 DEF StoreAccel, Lock!Next
  <1>3. CASE SendGyro \/ SendAccel \/ SkipGyro \/ SkipAccel
    BY <1>1, <1>3 DEF SendGyro, SendAccel, Send, SkipGyro, SkipAccel
  <1>4. CASE Receive \/ Serve BY <1>1, <1>4 DEF Receive, Serve
  <1>5. CASE Fetch BY <1>5 DEF Fetch, Lock!Next
  <1>6. CASE UNCHANGED vars BY <1>1, <1>6 DEF vars
  <1> QED BY <1>2, <1>3, <1>4, <1>5, <1>6 DEF Next, SensorRead, UpdateOther

LEMMA UsesLock == Spec => Lock!Spec
PROOF
  <1>1. Init => Lock!Init BY DEF Init
  <1> QED BY <1>1, LockNext, PTL DEF Spec, Lock!Spec

(* The shape of the lock, for every number of stores. *)
THEOREM LockShape == Spec => []Lock!Inv
PROOF BY UsesLock, LockInitInv, LockNextInv, PTL DEF Lock!Spec

(***************************************************************************)
(* A fetch that saw an even counter returns one store's value.             *)
(***************************************************************************)
THEOREM HandoffFetchesWhole == Spec => []EvenFetchIsWhole
PROOF
  <1>1. Lock!Inv => EvenFetchIsWhole
    BY DEF Lock!Inv, Lock!CopyShape, EvenFetchIsWhole, Lock!EvenFetchIsWhole
  <1> QED BY <1>1, LockShape, PTL

-----------------------------------------------------------------------------
(***************************************************************************)
(* Freshness.  A store that is complete now stays complete, so what was    *)
(* announced is stored; and the words never fall behind the counter, so    *)
(* whatever is copied after the announcement is at least as new.           *)
(***************************************************************************)
(* Nothing has been announced: the slots hold no event. *)
LEMMA FreshInit == Init => Freshness
PROOF
  <1> SUFFICES ASSUME Init PROVE Freshness OBVIOUS
  <1>1. Stored(Nothing) BY DEF Stored, Nothing, Accel
  <1>2. AnnouncedIsStored BY <1>1 DEF Init, Ring!Init, AnnouncedIsStored, Stored
  <1>3. DataIsRecent BY DEF Init, Lock!Init, DataIsRecent
  <1>4. FetchesWhenServing BY DEF Init, Lock!Init, FetchesWhenServing
  <1>5. CopyIsRecent BY DEF Init, Ring!Init, Lock!Init, CopyIsRecent, Nothing, Accel
  <1> QED BY <1>2, <1>3, <1>4, <1>5 DEF Freshness

(* Counting on makes no announcement false. *)
LEMMA StoredStays ==
  ASSUME counter \in Nat, counter' \in Nat, counter' >= counter, NEW e, Stored(e)
  PROVE  Stored(e)'
PROOF BY DEF Stored

(* A sending step moves events that are stored from place to place. *)
LEMMA SendKeepsStored ==
  ASSUME Ring!Inv, AnnouncedIsStored, NEW e, NEW next, Send(e, next), Stored(e)
  PROVE  AnnouncedIsStored'
PROOF
  <1>1. counter' = counter /\ UNCHANGED <<slotCopy, received>>
    BY DEF Send, lockVars, Ring!Push, Ring!SendIsFull, Ring!PushLoadTail,
           Ring!PushLoadHead, Ring!PushWrite, Ring!PushStoreTail, Ring!receiverVars
  <1>2. \A x : Stored(x)' <=> Stored(x) BY <1>1 DEF Stored
  <1>3. item' = e \/ item' = item
    BY DEF Send, Ring!Push, Ring!SendIsFull, Ring!PushLoadTail, Ring!PushLoadHead,
           Ring!PushWrite, Ring!PushStoreTail
  <1>4. \A s \in Ring!Slot : array'[s] = array[s] \/ array'[s] = item
    BY DEF Send, Ring!Push, Ring!SendIsFull, Ring!PushLoadTail, Ring!PushLoadHead,
           Ring!PushWrite, Ring!PushStoreTail, Ring!Inv, Ring!TypeOK
  <1>5. Stored(item') BY <1>3 DEF AnnouncedIsStored
  <1>6. \A s \in Ring!Slot : Stored(array'[s]) BY <1>4 DEF AnnouncedIsStored
  <1> QED
    BY <1>1, <1>2, <1>5, <1>6
    DEF AnnouncedIsStored, Stored, Ring!Slot, Ring!Capacity

(* Neither a sending step nor a skipped slot disturbs the sequence lock. *)
LEMMA ProducerKeepsFresh ==
  ASSUME Ring!Inv, Lock!Inv, Freshness,
         SendGyro \/ SkipGyro \/ SkipAccel \/ SendAccel
  PROVE  Freshness'
PROOF
  <1> USE DEF Freshness
  <1>1. UNCHANGED <<lockVars, consumer, received>>
    BY DEF SendGyro, SkipGyro, SkipAccel, SendAccel, Send, ringVars, Ring!Push,
           Ring!SendIsFull, Ring!PushLoadTail, Ring!PushLoadHead, Ring!PushWrite,
           Ring!PushStoreTail, Ring!receiverVars
  <1>2. DataIsRecent' BY <1>1 DEF DataIsRecent, lockVars
  <1>3. FetchesWhenServing' BY <1>1 DEF FetchesWhenServing, lockVars
  <1>4. CopyIsRecent' BY <1>1 DEF CopyIsRecent, lockVars
  <1>5. CASE SendGyro
    <2>1. Stored(Gyro) BY DEF Stored, Gyro, Accel
    <2>2. AnnouncedIsStored' BY <1>5, <2>1, SendKeepsStored DEF SendGyro
    <2> QED BY <1>2, <1>3, <1>4, <2>2
  <1>6. CASE SendAccel
    <2>1. counter \in Nat BY DEF Lock!Inv, Lock!TypeOK
    <2>2. Stored(Accel(counter \div 2)) BY <2>1 DEF Stored, Accel
    <2>3. AnnouncedIsStored' BY <1>6, <2>2, SendKeepsStored DEF SendAccel
    <2> QED BY <1>2, <1>3, <1>4, <2>3
  <1>7. CASE SkipGyro \/ SkipAccel
    <2>1. AnnouncedIsStored'
      BY <1>7
      DEF SkipGyro, SkipAccel, ringVars, lockVars, AnnouncedIsStored, Stored,
                  Ring!Slot, Ring!Capacity
    <2> QED BY <1>2, <1>3, <1>4, <2>1
  <1> QED BY <1>5, <1>6, <1>7

(* A store step makes the words and the counter newer, never older. *)
LEMMA StoreKeepsFresh ==
  ASSUME Ring!Inv, Lock!Inv, Lock!Inv', Freshness, StoreAccel
  PROVE  Freshness'
PROOF
  <1> USE DEF Freshness, Lock!Inv
  <1>1. /\ Lock!Store /\ UNCHANGED <<ringVars, consumer>>
        /\ UNCHANGED <<reader, seqBefore, seqAfter, reading, copy>>
    BY DEF StoreAccel, Lock!Store, Lock!OpenStore, Lock!StoreWord, Lock!CloseStore,
           Lock!readerVars
  <1>2. counter \in Nat /\ counter' \in Nat /\ counter' >= counter
    BY <1>1
    DEF Lock!TypeOK, Lock!Store, Lock!OpenStore, Lock!StoreWord, Lock!CloseStore
  <1>3. AnnouncedIsStored'
    <2>1. \A e : Stored(e) => Stored(e)' BY <1>2, StoredStays
    <2> QED BY <1>1, <2>1
      DEF ringVars, AnnouncedIsStored, Stored, Ring!Slot, Ring!Capacity
  <1>4. DataIsRecent'
    <2>1. CASE Lock!OpenStore
      <3>1. counter' = counter + 1 /\ counter % 2 = 0 /\ data' = data
        BY <2>1 DEF Lock!OpenStore, Lock!StoreShape, Lock!IsOdd, Lock!TypeOK
      <3>2. counter' \div 2 = counter \div 2 BY <1>2, <3>1
      <3> QED BY <3>1, <3>2 DEF DataIsRecent
    <2>2. CASE Lock!StoreWord
      <3>1. PICK w \in writing : data' = [data EXCEPT ![w] = (counter + 1) \div 2]
        BY <2>2 DEF Lock!StoreWord
      <3>2. counter' = counter BY <2>2 DEF Lock!StoreWord
      <3>3. (counter + 1) \div 2 >= counter \div 2 BY <1>2
      <3> QED BY <3>1, <3>2, <3>3 DEF DataIsRecent, Lock!TypeOK
    <2>3. CASE Lock!CloseStore
      <3>1. counter' = counter + 1 /\ data' = data /\ writing = {}
        BY <2>3 DEF Lock!CloseStore
      <3>2. \A w \in Word : data[w] = (counter + 1) \div 2
        BY <3>1 DEF Lock!StoreShape
      <3>3. (counter + 1) \div 2 >= (counter + 1) \div 2 BY <1>2
      <3> QED BY <3>1, <3>2, <3>3 DEF DataIsRecent
    <2> QED BY <1>1, <2>1, <2>2, <2>3 DEF Lock!Store
  <1>5. FetchesWhenServing' BY <1>1 DEF FetchesWhenServing
  <1>6. CopyIsRecent' BY <1>1 DEF CopyIsRecent, ringVars
  <1> QED BY <1>3, <1>4, <1>5, <1>6

(* While an event is taken no fetch is under way. *)
LEMMA ReceiveKeepsFresh ==
  ASSUME Ring!Inv, Lock!Inv, Freshness, Receive \/ Serve
  PROVE  Freshness'
PROOF
  <1> USE DEF Freshness
  <1>1. UNCHANGED lockVars /\ consumer # "fetch" /\ UNCHANGED <<item, array>>
    BY
    DEF Receive, Serve, ringVars, Ring!Pop, Ring!ReceiveIsEmpty, Ring!PopLoadHead,
           Ring!PopLoadTail, Ring!PopRead, Ring!PopStoreHead, Ring!senderVars
  <1>2. reader' = "load" /\ seqAfter' = 0 BY <1>1 DEF FetchesWhenServing, lockVars
  <1>3. Stored(slotCopy') /\ Stored(received')
    <2>1. slotCopy' = slotCopy \/ \E s \in Ring!Slot : slotCopy' = array[s]
      BY
      DEF Receive, Serve, ringVars, Ring!Pop, Ring!ReceiveIsEmpty, Ring!PopLoadHead,
             Ring!PopLoadTail, Ring!PopRead, Ring!PopStoreHead, Ring!Inv, Ring!TypeOK
    <2>2. received' \in {received, slotCopy, Nothing}
      BY
      DEF Receive, Serve, ringVars, Ring!Pop, Ring!ReceiveIsEmpty, Ring!PopLoadHead,
             Ring!PopLoadTail, Ring!PopRead, Ring!PopStoreHead
    <2>3. Stored(Nothing) BY DEF Stored, Nothing, Accel
    <2> QED BY <2>1, <2>2, <2>3 DEF AnnouncedIsStored
  <1>4. AnnouncedIsStored'
    BY <1>1, <1>3 DEF AnnouncedIsStored, Stored, lockVars, Ring!Slot, Ring!Capacity
  <1>5. DataIsRecent' BY <1>1 DEF DataIsRecent, lockVars
  <1>6. FetchesWhenServing' BY <1>2 DEF FetchesWhenServing
  <1>7. CopyIsRecent' BY <1>2 DEF CopyIsRecent
  <1> QED BY <1>4, <1>5, <1>6, <1>7

(* What a fetch copies is at least as new as what it was woken for. *)
LEMMA FetchKeepsFresh ==
  ASSUME Ring!Inv, Lock!Inv, Freshness, Fetch
  PROVE  Freshness'
PROOF
  <1> USE DEF Freshness
  <1>1. /\ UNCHANGED <<ringVars, counter, data>> /\ consumer = "fetch"
        /\ (Lock!Fetch /\ UNCHANGED consumer) \/ Lock!FetchAgain
    BY DEF Fetch, Lock!Fetch, Lock!LoadBefore, Lock!CopyWord, Lock!LoadAfter,
           Lock!TestCounters, Lock!FetchAgain, Lock!writerVars
  <1>2. AnnouncedIsStored'
    BY <1>1 DEF ringVars, AnnouncedIsStored, Stored, Ring!Slot, Ring!Capacity
  <1>3. DataIsRecent' BY <1>1 DEF DataIsRecent
  <1>4. CASE Lock!FetchAgain
    <2>1. reader' = "load" /\ seqAfter' = 0 BY <1>4 DEF Lock!FetchAgain
    <2> QED BY <1>2, <1>3, <2>1 DEF FetchesWhenServing, CopyIsRecent
  <1>5. CASE Lock!Fetch /\ UNCHANGED consumer
    <2>1. FetchesWhenServing' BY <1>1, <1>5 DEF FetchesWhenServing
    <2>2. SUFFICES ASSUME NEW n \in 1..Stores, received = Accel(n)
                   PROVE  /\ reader' # "load" => seqBefore' > 0
                          /\ reader' = "copy" => \A w \in Word \ reading' : copy'[w] >= n
                          /\ seqAfter' > 0 => \A w \in Word : copy'[w] >= n
      BY <1>1, <1>2, <1>3, <2>1 DEF CopyIsRecent, ringVars
    <2>3. 2 * n <= counter /\ counter \in Nat /\ n \in Nat /\ n > 0
      BY <2>2 DEF AnnouncedIsStored, Stored, Lock!Inv, Lock!TypeOK
    <2>4. \A w \in Word : data[w] \in Nat /\ data[w] >= n
      <3>1. counter \div 2 >= n BY <2>3
      <3> QED BY <2>3, <3>1 DEF DataIsRecent, Lock!Inv, Lock!TypeOK
    <2>5. /\ reader # "load" => seqBefore > 0
          /\ reader = "copy" => \A w \in Word \ reading : copy[w] >= n
          /\ seqAfter > 0 => \A w \in Word : copy[w] >= n
      BY <2>2 DEF CopyIsRecent
    <2>6. CASE Lock!LoadBefore BY <2>3, <2>5, <2>6 DEF Lock!LoadBefore
    <2>7. CASE Lock!CopyWord
      <3>1. PICK w \in reading : copy' = [copy EXCEPT ![w] = data[w]]
                                 /\ reading' = reading \ {w}
        BY <2>7 DEF Lock!CopyWord
      <3>2. UNCHANGED <<reader, seqBefore, seqAfter>> BY <2>7 DEF Lock!CopyWord
      <3> QED BY <2>4, <2>5, <3>1, <3>2 DEF Lock!Inv, Lock!TypeOK
    <2>8. CASE Lock!LoadAfter BY <2>3, <2>5, <2>8 DEF Lock!LoadAfter
    <2>9. CASE Lock!TestCounters BY <2>5, <2>9 DEF Lock!TestCounters
    <2> QED BY <1>5, <2>6, <2>7, <2>8, <2>9 DEF Lock!Fetch
  <1> QED BY <1>1, <1>4, <1>5

(***************************************************************************)
(* No fetch is older than the event that asked for it, for every size of   *)
(* the ring and any number of words and stores.                            *)
(***************************************************************************)
THEOREM FetchesAreFresh == Spec => []FetchIsFresh
PROOF
  <1>1. /\ Ring!Inv /\ Lock!Inv /\ (Ring!Inv /\ Lock!Inv)' /\ Freshness /\ [Next]_vars
        => Freshness'
    <2> SUFFICES ASSUME Ring!Inv, Lock!Inv, Lock!Inv', Freshness, [Next]_vars
                 PROVE  Freshness'
      OBVIOUS
    <2>1. CASE SendGyro \/ SkipGyro \/ SkipAccel \/ SendAccel
      BY <2>1, ProducerKeepsFresh
    <2>2. CASE StoreAccel BY <2>2, StoreKeepsFresh
    <2>3. CASE Receive \/ Serve BY <2>3, ReceiveKeepsFresh
    <2>4. CASE Fetch BY <2>4, FetchKeepsFresh
    <2>5. CASE UNCHANGED vars
      BY <2>5
      DEF vars, ringVars, lockVars, Freshness, AnnouncedIsStored, Stored,
          DataIsRecent,
          FetchesWhenServing, CopyIsRecent, Ring!Slot, Ring!Capacity
    <2> QED BY <2>1, <2>2, <2>3, <2>4, <2>5 DEF Next, SensorRead, UpdateOther
  <1>2. Lock!Inv /\ Freshness => FetchIsFresh
    BY
    DEF Lock!Inv, Lock!TypeOK, Lock!CopyShape, Freshness, CopyIsRecent, FetchIsFresh
  <1> QED BY LoadsAreStable, LockShape, FreshInit, <1>1, <1>2, PTL DEF Spec

(***************************************************************************)
(* What the fetches owe the filter, together: fresh, and whole wherever    *)
(* the counter says so.                                                    *)
(***************************************************************************)
THEOREM FetchesAreSound == Spec => []FetchIsSound
PROOF
  <1>1. FetchIsFresh /\ EvenFetchIsWhole => FetchIsSound BY DEF FetchIsSound
  <1> QED BY <1>1, FetchesAreFresh, HandoffFetchesWhole, PTL

=============================================================================
