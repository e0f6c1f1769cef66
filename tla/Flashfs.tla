------------------------------ MODULE Flashfs ------------------------------
(***************************************************************************)
(* Blackbox/BlackboxFlashfs.cpp: the log store in a flash partition.  Logs *)
(* lie one after another; a journal behind them holds where each begins    *)
(* and ends.  Bytes wait in a ring buffer until a chunk is full.           *)
(*                                                                         *)
(* The functions of the C module are operators here, from store to store.  *)
(* A cell stands for a fixed number of bytes.  The copy of the journal in  *)
(* memory is written together with the one in flash and read from it at    *)
(* mount, so one is kept.                                                  *)
(***************************************************************************)
EXTENDS Naturals, Sequences, FiniteSets

CONSTANTS
  Cells,     \* flashfsGetSize(), in cells
  Items,     \* FLASHFS_JOURNAL_ITEMS
  Chunk,     \* FLASHFS_FLUSH_BUFFER_SIZE, in cells
  Sector,    \* SPI_FLASH_SEC_SIZE, in cells
  Stride,    \* the 128 bytes in which the repair looks for an end, in cells
  Erased,    \* what an erased cell reads
  Mixed,     \* what a cell reads that was programmed twice
  Ones       \* data whose first word reads as if erased

ASSUME GeometryAssumption ==
  /\ {Cells, Items, Chunk, Sector, Stride} \subseteq Nat \ {0}
  /\ Sector % Chunk = 0

Address == 0..Cells
Cell == 0..(Cells - 1)
Item == 0..(Items - 1)
None == Cells + 1      \* FLASHFS_ERASED_VAL, in the journal

(* A partition that was erased, in a craft that has just started. *)
Blank ==
  [cell |-> [a \in Cell |-> Erased],
   begin |-> [i \in Item |-> None], end |-> [i \in Item |-> None],
   address |-> 0, journalIdx |-> 0, buffer |-> <<>>]

-----------------------------------------------------------------------------
IsEOF(fs) == fs.journalIdx >= Items \/ fs.address >= Cells

(* One past the journal its index is read for a begin, which is not erased. *)
LogStarted(fs) == fs.journalIdx >= Items \/ fs.begin[fs.journalIdx] # None

LogBegin(fs) == [fs EXCEPT !.begin[fs.journalIdx] = fs.address]

LogEnd(fs) ==
  [fs EXCEPT !.end[fs.journalIdx] = fs.address, !.journalIdx = @ + 1]

(* Programming can only clear bits: a cell that has data gets a mixture. *)
Program(fs, data) ==
  [fs EXCEPT
     !.cell = [a \in Cell |->
                 IF a \notin fs.address..(fs.address + Len(data) - 1) THEN @[a]
                 ELSE IF @[a] = Erased THEN data[a - fs.address + 1]
                 ELSE Mixed],
     !.address = @ + Len(data)]

Started(fs) == IF LogStarted(fs) THEN fs ELSE LogBegin(fs)

(* The buffer never holds more than a chunk, and all of it is written. *)
FlushAsync(fs) ==
  LET begun == Started(fs)
  IN [Program(begun, begun.buffer) EXCEPT !.buffer = <<>>]

(* What flashfsFlushAsync returns. *)
Flushed(fs) == fs.buffer # <<>>

Close(fs) == LogEnd(FlushAsync(fs))

Pushed(fs) ==
  LET size == Len(fs.buffer)
  IN IF fs.address + size >= Cells THEN Close(fs)
     ELSE IF (fs.address + size) % Sector = 0 \/ size >= Chunk
          THEN FlushAsync(fs)
     ELSE fs

WriteByte(fs, byte) ==
  IF IsEOF(fs) THEN fs ELSE Pushed([fs EXCEPT !.buffer = Append(@, byte)])

(* The store after each byte, as the only member of a set. *)
Write(fs, data) ==
  LET after[n \in 0..Len(data)] ==
        IF n = 0 THEN {fs} ELSE {WriteByte(f, data[n]) : f \in after[n - 1]}
  IN CHOOSE f \in after[Len(data)] : TRUE

-----------------------------------------------------------------------------
(***************************************************************************)
(* flashfsInit: the logs that have an end, then the repair of the journal. *)
(***************************************************************************)
Least(S) == CHOOSE n \in S : \A k \in S : n <= k

OpenItems(fs) == {i \in Item : fs.begin[i] # None /\ fs.end[i] = None}

LooksErased(word) == word = Erased \/ word \in Ones

(* Mutant: the search leaves the first stride out. *)
EndCandidates_Late(fs, begin) ==
  {a \in Cell : /\ a > begin /\ (a - begin) % Stride = 0
                /\ LooksErased(fs.cell[a])}

EndCandidates(fs, begin) ==
  {a \in Cell : /\ a >= begin /\ (a - begin) % Stride = 0
                /\ LooksErased(fs.cell[a])}

(* The end of the first open log is its first word that looks erased. *)
JournalFix(fs) ==
  IF OpenItems(fs) = {} THEN fs
  ELSE LET ends == EndCandidates(fs, fs.begin[Least(OpenItems(fs))])
       IN IF ends = {} THEN fs ELSE LogEnd([fs EXCEPT !.address = Least(ends)])

Mount(fs) ==
  LET ended == Least({i \in Item : fs.end[i] = None} \union {Items})
  IN JournalFix([fs EXCEPT
       !.journalIdx = ended,
       !.address = IF ended = 0 THEN 0 ELSE fs.end[ended - 1]])

(* The buffer is not emptied with the partition. *)
EraseCompletely(fs) == Mount([Blank EXCEPT !.buffer = fs.buffer])

(* Power returns: the partition is as it was left, memory is not. *)
Restart(fs) == Mount([fs EXCEPT !.buffer = <<>>])

(***************************************************************************)
(* The partitions a loss of power can leave while writes take the store    *)
(* from one state to a later one: a begin is written first, then the data  *)
(* in order, then the end; the begin of the next log comes last.           *)
(***************************************************************************)
Torn(fs, later) ==
  LET begun == [later EXCEPT !.begin = [i \in Item |-> IF i > fs.journalIdx
                                                       THEN fs.begin[i] ELSE @[i]]]
  IN {fs, begun, later} \union
       {[begun EXCEPT !.end = fs.end,
                      !.cell = [a \in Cell |-> IF a < fs.address + n THEN @[a]
                                               ELSE fs.cell[a]]] :
          n \in 0..(later.address - fs.address)}

(***************************************************************************)
(* The repair misses the end of a log that stops less than a stride before *)
(* the end of the partition, and takes data that reads as erased for it.   *)
(***************************************************************************)
EndIsMissed(fs) ==
  OpenItems(fs) # {} /\
    LET begin == fs.begin[Least(OpenItems(fs))]
        ends == EndCandidates(fs, begin)
    IN IF ends = {} THEN begin < Cells
       ELSE \E a \in Least(ends)..(Cells - 1) : fs.cell[a] # Erased

-----------------------------------------------------------------------------
(***************************************************************************)
(* What the store holds: the logs its journal has an end for, and what was *)
(* written since the last of them.                                         *)
(***************************************************************************)
Between(fs, from, to) == [k \in 1..(to - from) |-> fs.cell[from + k - 1]]

Logs(fs) ==
  [i \in 1..fs.journalIdx |-> Between(fs, fs.begin[i - 1], fs.end[i - 1])]

LogIsOpen(fs) ==
  fs.journalIdx < Items /\ fs.begin[fs.journalIdx] < fs.address

OpenLog(fs) ==
  (IF LogIsOpen(fs)
   THEN Between(fs, fs.begin[fs.journalIdx], fs.address) ELSE <<>>)
  \o fs.buffer

=============================================================================
