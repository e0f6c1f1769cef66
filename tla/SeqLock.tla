------------------------------ MODULE SeqLock ------------------------------
(***************************************************************************)
(* Utils/SeqLockWrapper.hpp: the gyro task stores a new acceleration, the  *)
(* PID task fetches it on the other core.  The data are copied word by     *)
(* word, in any order; the counter is odd while a store is open.           *)
(*                                                                         *)
(* The words hold the number of the store that wrote them: a value is torn *)
(* when its words come from different stores.  Fences order every access,  *)
(* so one access is one step.                                              *)
(***************************************************************************)
EXTENDS Naturals

CONSTANTS
  Word,        \* the words of _data
  Stores       \* bound: how many stores are modelled

VARIABLES
  counter, data,
  writing,     \* words the open store has still to copy
  storing,     \* a store is open
  reader,      \* where fetch is: "load", "copy", "test" or "done"
  seqBefore, seqAfter,
  reading,     \* words fetch has still to copy
  copy         \* what fetch has copied

writerVars == <<counter, data, writing, storing>>
readerVars == <<reader, seqBefore, seqAfter, reading, copy>>
vars == <<writerVars, readerVars>>

IsOdd(n) == n % 2 = 1

Init ==
  /\ counter = 0 /\ data = [w \in Word |-> 0]
  /\ writing = {} /\ storing = FALSE
  /\ reader = "load" /\ seqBefore = 0 /\ seqAfter = 0
  /\ reading = {} /\ copy = [w \in Word |-> 0]

-----------------------------------------------------------------------------
(* store: the counter goes odd, the words follow, the counter goes even. *)
OpenStore ==
  /\ ~storing /\ counter < 2 * Stores
  /\ counter' = counter + 1
  /\ storing' = TRUE /\ writing' = Word
  /\ UNCHANGED <<data, readerVars>>

StoreWord ==
  /\ storing
  /\ \E w \in writing :
       /\ data' = [data EXCEPT ![w] = (counter + 1) \div 2]
       /\ writing' = writing \ {w}
  /\ UNCHANGED <<counter, storing, readerVars>>

(* Mutant: the counter goes one too far and is odd after the store. *)
CloseStore_Odd ==
  /\ storing /\ writing = {}
  /\ counter' = counter + 2
  /\ storing' = FALSE
  /\ UNCHANGED <<data, writing, readerVars>>

CloseStore ==
  /\ storing /\ writing = {}
  /\ counter' = counter + 1
  /\ storing' = FALSE
  /\ UNCHANGED <<data, writing, readerVars>>

-----------------------------------------------------------------------------
(* fetch: an open store is not copied, but the loop condition is tested. *)
LoadBefore ==
  /\ reader = "load"
  /\ seqBefore' = counter
  /\ IF IsOdd(counter)
     THEN reader' = "test" /\ UNCHANGED reading
     ELSE reader' = "copy" /\ reading' = Word
  /\ UNCHANGED <<seqAfter, copy, writerVars>>

CopyWord ==
  /\ reader = "copy"
  /\ \E w \in reading :
       /\ copy' = [copy EXCEPT ![w] = data[w]]
       /\ reading' = reading \ {w}
  /\ UNCHANGED <<reader, seqBefore, seqAfter, writerVars>>

LoadAfter ==
  /\ reader = "copy" /\ reading = {}
  /\ seqAfter' = counter
  /\ reader' = "test"
  /\ UNCHANGED <<seqBefore, reading, copy, writerVars>>

(* while (seqBefore != seqAfter), which continue reaches as well. *)
TestCounters ==
  /\ reader = "test"
  /\ reader' = IF seqBefore = seqAfter THEN "done" ELSE "load"
  /\ UNCHANGED <<seqBefore, seqAfter, reading, copy, writerVars>>

(* The next call of fetch, with locals of its own. *)
FetchAgain ==
  /\ reader = "done"
  /\ reader' = "load"
  /\ seqBefore' = 0 /\ seqAfter' = 0
  /\ copy' = [w \in Word |-> 0]
  /\ UNCHANGED <<reading, writerVars>>

Store == OpenStore \/ StoreWord \/ CloseStore
Fetch == LoadBefore \/ CopyWord \/ LoadAfter \/ TestCounters
Next == Store \/ Fetch \/ FetchAgain

Spec == Init /\ [][Next]_vars

FairSpec == Spec /\ WF_vars(Store) /\ WF_vars(Fetch)

-----------------------------------------------------------------------------
TypeOK ==
  /\ counter \in Nat /\ data \in [Word -> Nat]
  /\ writing \subseteq Word /\ storing \in BOOLEAN
  /\ reader \in {"load", "test", "copy", "done"}
  /\ seqBefore \in Nat /\ seqAfter \in Nat
  /\ reading \subseteq Word /\ copy \in [Word -> Nat]

(***************************************************************************)
(* A fetch that saw the same even counter before and after its copy        *)
(* returns one store's value, the newest when the copy began.              *)
(***************************************************************************)
Whole(n) == \A w \in Word : copy[w] = n

EvenFetchIsWhole ==
  reader = "done" /\ ~IsOdd(seqBefore) => Whole(seqBefore \div 2)

(***************************************************************************)
(* A fetch ends once the gyro task stops storing (here after Stores        *)
(* stores; it has a sample period between two of them).                    *)
(***************************************************************************)
FetchReturns == (reader = "load") ~> (reader = "done")

(***************************************************************************)
(* The inductive invariant: outside a store the data are one value, a      *)
(* store writes only its own, and what was copied under an even counter    *)
(* is what that counter stood for, as long as the counter stands.          *)
(***************************************************************************)
StoreShape ==
  /\ storing <=> IsOdd(counter)
  /\ ~storing => writing = {}
  /\ \A w \in Word \ writing : data[w] = (counter + 1) \div 2

CopyShape ==
  /\ seqBefore <= counter /\ seqAfter <= counter
  /\ reader = "copy" => ~IsOdd(seqBefore)
  /\ (reader = "copy" /\ counter = seqBefore)
       => \A w \in Word \ reading : copy[w] = seqBefore \div 2
  /\ (reader \in {"test", "done"} /\ seqAfter = seqBefore /\ ~IsOdd(seqBefore))
       => Whole(seqBefore \div 2)
  /\ reader = "done" => seqBefore = seqAfter

Inv == TypeOK /\ StoreShape /\ CopyShape

-----------------------------------------------------------------------------
(***************************************************************************)
(* SeqLockWrapper.hpp:80: "if seqBefore is odd, it means a write is in     *)
(* progress, so we should wait and try again".  A fetch never returns      *)
(* while that is so.                                                       *)
(***************************************************************************)
OddMeansRetry ==
  reader = "done" => ~IsOdd(seqBefore)

=============================================================================
