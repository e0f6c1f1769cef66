--------------------------- MODULE Blackbox_proofs ---------------------------
(***************************************************************************)
(* Proofs about the recorder and its store, for every size of the          *)
(* partition, of the journal, of the chunks, sectors and strides, and all  *)
(* delays, intervals and lengths of the header.                            *)
(***************************************************************************)
EXTENDS Blackbox, Integers, FiniteSetTheorems, SequenceTheorems, WellFoundedInduction, TLAPS

(***************************************************************************)
(* The store as its reader will find it: where the data ends, where the    *)
(* last closed log ends, and what the cells are once the buffer is flushed.*)
(***************************************************************************)
Top(s) == s.address + Len(s.buffer)

LastEnd(s) == IF s.journalIdx = 0 THEN 0 ELSE s.end[s.journalIdx - 1]

Image(s) ==
  [a \in Cell |-> IF a < s.address THEN s.cell[a]
                  ELSE IF a < Top(s) THEN s.buffer[a - s.address + 1] ELSE Erased]

(***************************************************************************)
(* IsDecodable over the cells from one address to another.                 *)
(***************************************************************************)
OnlyHeader(m, from, to) ==
  \A a \in Cell : from <= a /\ a < to => m[a] \in {"B", "H"}

Fresh(m, from, to) ==
  \E i \in Cell : /\ from <= i /\ i < to /\ m[i] = "I"
                  /\ \A a \in Cell : i <= a /\ a < to => m[a] # "R"

Fits(m, from, a) ==
  /\ m[a] \in Byte
  /\ m[a] = "B" <=> a = from
  /\ m[a] = "H" => OnlyHeader(m, from, a)
  /\ m[a] = "P" => Fresh(m, from, a)

Decodable(m, from, to) == \A a \in Cell : from <= a /\ a < to => Fits(m, from, a)

ErasedFrom(m, from, to) == \A a \in Cell : from <= a /\ a < to => m[a] = Erased

GoodLog(m, from, to) ==
  \E w \in Address : from <= w /\ w <= to /\ Decodable(m, from, w) /\ ErasedFrom(m, w, to)

-----------------------------------------------------------------------------
(***************************************************************************)
(* The invariant of the store.                                             *)
(***************************************************************************)
Stores ==
  [cell : [Cell -> Byte \cup {Erased, Mixed}],
   begin : [Item -> Address \cup {None}], end : [Item -> Address \cup {None}],
   address : Address, journalIdx : 0..Items, buffer : Seq(Byte)]

(* Logs that have an end lie one after another, the open one behind them. *)
Journal(s) ==
  /\ \A i \in Item : i < s.journalIdx =>
       /\ s.begin[i] \in Address /\ s.end[i] \in Address
       /\ s.begin[i] <= s.end[i] /\ s.end[i] <= LastEnd(s)
  /\ LastEnd(s) \in Address /\ LastEnd(s) <= s.address
  /\ \A i \in Item : s.journalIdx <= i => s.end[i] = None
  /\ \A i \in Item : s.journalIdx < i => s.begin[i] = None
  /\ \A i \in Item : i = s.journalIdx => s.begin[i] \in {None, LastEnd(s)}
  /\ (\A i \in Item : i = s.journalIdx => s.begin[i] = None) => s.address = LastEnd(s)

LogsGood(s) == \A i \in Item : i < s.journalIdx => GoodLog(s.cell, s.begin[i], s.end[i])

Sound(s) ==
  /\ s \in Stores /\ Top(s) <= Cells
  /\ Journal(s)
  /\ ErasedFrom(s.cell, s.address, Cells)
  /\ LogsGood(s)
  /\ Decodable(Image(s), LastEnd(s), Top(s))

(* A store is full between logs only. *)
StoreInv(s) ==
  /\ Sound(s)
  /\ IF IsEOF(s) THEN Top(s) = LastEnd(s) ELSE Top(s) < Cells

-----------------------------------------------------------------------------
(***************************************************************************)
(* What the operations may do to a store: write on in the open log, or     *)
(* write on and close it.                                                  *)
(***************************************************************************)
Kept(f, g) ==
  /\ \A i \in Item : i < f.journalIdx => g.begin[i] = f.begin[i] /\ g.end[i] = f.end[i]
  /\ \A a \in Cell : a < Top(f) => Image(g)[a] = Image(f)[a]

Same(f, g) ==
  /\ g.journalIdx = f.journalIdx /\ Kept(f, g)
  /\ f.address <= g.address /\ Top(f) <= Top(g)

Closed(f, g) ==
  /\ ~IsEOF(f) /\ g.journalIdx = f.journalIdx + 1 /\ Kept(f, g)
  /\ g.begin[f.journalIdx] = LastEnd(f) /\ Top(f) <= LastEnd(g)
  /\ Top(g) = LastEnd(g) /\ Decodable(Image(g), LastEnd(f), LastEnd(g))
  /\ IsEOF(g) \/ \A i \in Item : i = g.journalIdx => g.begin[i] = None

(* A full store is written no further. *)
Later(f, g) == Same(f, g) \/ (Closed(f, g) /\ IsEOF(g))

(***************************************************************************)
(* What the recorder relies on of the open log, while the store has room.  *)
(***************************************************************************)
HasData(s) == LastEnd(s) < Top(s)

AllHeader(s) == OnlyHeader(Image(s), LastEnd(s), Top(s))

Ready(s) == Fresh(Image(s), LastEnd(s), Top(s))

(* The byte may come next in the open log. *)
FitsNext(s, byte) ==
  /\ byte = "B" <=> Top(s) = LastEnd(s)
  /\ byte = "H" => AllHeader(s)
  /\ byte = "P" => Ready(s)

-----------------------------------------------------------------------------
(***************************************************************************)
(* The invariant of the recorder: what is in the open log, by its state.   *)
(***************************************************************************)
Recorders ==
  [state : States, next : {"SEND_SYSINFO", "RUNNING"}, left : Nat, wait : Nat, stop : Nat,
   armed : BOOLEAN, testing : BOOLEAN, loopIndex : Nat, pFrameIndex : Nat]

Pairs == [rec : Recorders, fs : Stores]

InHeader == {"SEND_FIELD_HEADERS", "SEND_SYSINFO", "CACHE_FLUSH"}

Phase(s) ==
  /\ s.rec.state \in BetweenLogs => Top(s.fs) = LastEnd(s.fs)
  /\ s.rec.state \in InHeader \cup {"PREPARE_LOG_FILE", "SEND_HEADER"} => s.rec.loopIndex = 0
  /\ s.rec.state \in InHeader => HasData(s.fs) /\ AllHeader(s.fs)
  /\ s.rec.state \in {"RUNNING", "PAUSED"} => HasData(s.fs)
  /\ s.rec.state = "RUNNING" /\ s.rec.loopIndex # 0 => Ready(s.fs)

PairInv(s) == s \in Pairs /\ StoreInv(s.fs) /\ (IsEOF(s.fs) \/ Phase(s))

(* Between two updates, and in an update after updateArmed, a full store   *)
(* leaves few states; what they do writes no more.                         *)
Boundary(s) ==
  IsEOF(s.fs) => \/ s.rec.state \in {"STOPPED", "START_ERASE", "ERASING", "ERASED"}
                 \/ s.rec.state = "SHUTTING_DOWN" /\ s.rec.wait > 0

Midway(s) == Boundary(s) \/ s.rec.state \in {"RUNNING", "PAUSED"}

(* What an update does to the store, unless it erases it. *)
Changes(s, t) ==
  \/ Later(s.fs, t.fs)
  \/ Closed(s.fs, t.fs) /\ t.rec.state = "STOPPED"

-----------------------------------------------------------------------------
(***************************************************************************)
(* A loss of power leaves the partition of a store: of one that was        *)
(* written on in part, or of the one with the log closed.                  *)
(***************************************************************************)
Partly(f, u) ==
  /\ u.journalIdx = f.journalIdx
  /\ \A i \in Item : i < f.journalIdx => u.begin[i] = f.begin[i] /\ u.end[i] = f.end[i]
  /\ \A a \in Cell : a < Top(f) /\ a < u.address => u.cell[a] = Image(f)[a]

Left(f, u) == Sound(u) /\ u.buffer = <<>> /\ (Partly(f, u) \/ Closed(f, u))

(* The repair adds the open log, with few erased cells behind it. *)
Repaired(u, r) ==
  /\ r.journalIdx = u.journalIdx + 1
  /\ u.journalIdx < Items /\ LastEnd(u) < Cells /\ u.begin[u.journalIdx] # None
  /\ r.begin[u.journalIdx] = LastEnd(u) /\ u.address <= LastEnd(r)
  /\ LastEnd(r) - u.address < Stride /\ ErasedFrom(u.cell, u.address, LastEnd(r))

Mounted(u, r) ==
  /\ r.cell = u.cell
  /\ \A i \in Item : i < u.journalIdx => r.begin[i] = u.begin[i] /\ r.end[i] = u.end[i]
  /\ r.journalIdx = u.journalIdx \/ Repaired(u, r)

(* Numbers: the least of a set, and induction up to a bound. *)

(* Of the numbers up to a bound there is a least: the set of those below   *)
(* it is minimal by inclusion.                                             *)
LEMMA LeastFacts ==
  ASSUME NEW N \in Nat, NEW S, S \subseteq 0..N, S # {}
  PROVE  Least(S) \in S /\ \A k \in S : Least(S) <= k
PROOF
  <1> DEFINE Below(o) == {p \in S : p < o}
             Family == {Below(o) : o \in S}
             Smaller == StrictSubsetOrdering(S)
  <1>1. IsFiniteSet(S)
    <2>1. IsFiniteSet(0..N) BY FS_Interval
    <2> QED BY <2>1, FS_Subset, Zenon
  <1>2. IsWellFoundedOn(Smaller, FiniteSubsetsOf(S))
    BY <1>1, FS_StrictSubsetOrderingWellFounded
  <1>3. Family \subseteq FiniteSubsetsOf(S)
    <2> SUFFICES ASSUME NEW o \in S PROVE Below(o) \in FiniteSubsetsOf(S)
      OBVIOUS
    <2> DEFINE D == Below(o)
    <2>1. D \subseteq S OBVIOUS
    <2> HIDE DEF D
    <2>2. D \in FiniteSubsetsOf(S) BY <1>1, <2>1, FS_Subset, Zenon DEF FiniteSubsetsOf
    <2> QED BY <2>2 DEF D
  <1>4. Family # {}
    <2>1. PICK o \in S : TRUE OBVIOUS
    <2>2. Below(o) \in Family OBVIOUS
    <2> HIDE DEF Family
    <2> QED BY <2>2
  <1>5. PICK B \in Family : \A C \in Family : ~(<<C, B>> \in Smaller)
    <2> HIDE DEF Family, Smaller
    <2> QED BY <1>2, <1>3, <1>4, WFMin
  <1>6. PICK o \in S : B = Below(o) BY <1>5
  <1>7. ASSUME NEW p \in S, p < o PROVE FALSE
    <2>1. Below(p) \subseteq Below(o)
      <3> SUFFICES ASSUME NEW q \in S, q < p PROVE q < o
        OBVIOUS
      <3>1. q \in Int /\ p \in Int /\ o \in Int OBVIOUS
      <3> QED BY <1>7, <3>1
    <2>2. p \in Below(o) /\ p \notin Below(p) BY <1>7
    <2>3. <<Below(p), Below(o)>> \in Smaller BY <2>1, <2>2 DEF StrictSubsetOrdering
    <2> QED BY <1>5, <1>6, <2>3
  <1>8. \A k \in S : o <= k BY <1>7
  <1> QED BY <1>8, Zenon DEF Least

(* The least of a set is the member that is below all others. *)
LEMMA LeastIs ==
  ASSUME NEW S, S \subseteq Nat, NEW n \in S, \A k \in S : n <= k
  PROVE  Least(S) = n
PROOF
  <1>1. Least(S) \in S /\ \A k \in S : Least(S) <= k BY Zenon DEF Least
  <1>2. Least(S) <= n /\ n <= Least(S) BY <1>1
  <1>3. Least(S) \in Nat /\ n \in Nat BY <1>1, Zenon
  <1> HIDE DEF Least
  <1> QED BY <1>2, <1>3

(* What holds of 0 and is handed on holds of all numbers up to the bound. *)
LEMMA SetInduction ==
  ASSUME NEW N \in Nat, NEW S, 0 \in S,
         \A n \in 0..N : n < N /\ n \in S => n + 1 \in S
  PROVE  \A n \in 0..N : n \in S
PROOF
  <1> DEFINE Bad == {n \in 0..N : n \notin S}
  <1>1. ASSUME Bad # {} PROVE FALSE
    <2>1. Bad \subseteq 0..N OBVIOUS
    <2> DEFINE b == Least(Bad)
    <2>2. b \in Bad /\ \A k \in Bad : b <= k
      <3> HIDE DEF Bad
      <3> QED BY <1>1, <2>1, LeastFacts
    <2> HIDE DEF b
    <2>3. b \in 0..N /\ b \notin S BY <2>2
    <2>4. b # 0 BY <2>3
    <2>5. b - 1 \in 0..N /\ b - 1 < N /\ b - 1 \in S BY <2>2, <2>3, <2>4
    <2> QED BY <2>3, <2>5
  <1> QED BY <1>1

-----------------------------------------------------------------------------
(***************************************************************************)
(* Write goes from store to store, a byte at a time: the recursive         *)
(* function in it exists.                                                  *)
(***************************************************************************)
LEMMA WriteFacts ==
  ASSUME NEW s, NEW data, Len(data) \in Nat
  PROVE  \E g : /\ g[0] = s /\ Write(s, data) = g[Len(data)]
                /\ \A n \in 0..Len(data) :
                     n < Len(data) => g[n + 1] = WriteByte(g[n], data[n + 1])
PROOF
  <1> DEFINE N == Len(data)
             Runs(g, n) == /\ g[0] = s
                           /\ \A k \in 0..N : k < n => g[k + 1] = WriteByte(g[k], data[k + 1])
             Body(f) == [n \in 0..N |-> IF n = 0 THEN {s}
                                        ELSE {WriteByte(x, data[n]) : x \in f[n - 1]}]
             after == CHOOSE f : f = Body(f)
  <1>1. Write(s, data) = CHOOSE x \in after[N] : TRUE BY DEF Write
  <1> HIDE DEF N
  <1>0. N \in Nat BY DEF N
  <1>2. \E g : Runs(g, N)
    <2> DEFINE S == {n \in 0..N : \E g : Runs(g, n)}
    <2>1. 0 \in S
      <3> DEFINE g0 == [k \in {0} |-> s]
      <3>1. Runs(g0, 0) BY <1>0
      <3> HIDE DEF g0, Runs
      <3> QED BY <1>0, <3>1
    <2>2. ASSUME NEW n \in 0..N, n < N, n \in S PROVE n + 1 \in S
      <3>1. PICK g : Runs(g, n) BY <2>2
      <3> DEFINE h == [k \in 0..N |-> IF k = n + 1 THEN WriteByte(g[n], data[n + 1]) ELSE g[k]]
      <3>2. h[0] = s BY <1>0, <3>1
      <3>3. ASSUME NEW k \in 0..N, k < n + 1 PROVE h[k + 1] = WriteByte(h[k], data[k + 1])
        <4>1. CASE k = n BY <1>0, <2>2, <4>1
        <4>2. CASE k < n
          <5>1. h[k] = g[k] /\ h[k + 1] = g[k + 1] BY <1>0, <2>2, <4>2
          <5>2. g[k + 1] = WriteByte(g[k], data[k + 1]) BY <3>1, <4>2
          <5> QED BY <5>1, <5>2
        <4> QED BY <3>3, <4>1, <4>2
      <3> HIDE DEF h
      <3>4. Runs(h, n + 1) BY <3>2, <3>3
      <3>5. n + 1 \in 0..N BY <1>0, <2>2
      <3> HIDE DEF Runs
      <3> QED BY <3>4, <3>5
    <2>3. N \in S
      <3> HIDE DEF S
      <3>1. \A n \in 0..N : n \in S BY <1>0, <2>1, <2>2, SetInduction
      <3> QED BY <1>0, <3>1
    <2> QED BY <2>3
  <1>3. PICK g : Runs(g, N) BY <1>2
  <1>4. after = Body(after)
    <2> DEFINE f == [n \in 0..N |-> {g[n]}]
    <2>1. ASSUME NEW n \in 0..N
          PROVE  f[n] = IF n = 0 THEN {s} ELSE {WriteByte(x, data[n]) : x \in f[n - 1]}
      <3>1. CASE n = 0 BY <1>3, <3>1
      <3>2. CASE n # 0
        <4>1. n - 1 \in 0..N /\ n - 1 < N /\ (n - 1) + 1 = n BY <1>0, <3>2
        <4>2. g[n] = WriteByte(g[n - 1], data[n]) BY <1>3, <4>1
        <4>3. f[n - 1] = {g[n - 1]} BY <4>1
        <4>4. f[n] = {g[n]} OBVIOUS
        <4> QED BY <3>2, <4>2, <4>3, <4>4
      <3> QED BY <3>1, <3>2
    <2>2. f = Body(f) BY <2>1
    <2> HIDE DEF f, Body
    <2> QED BY <2>2, Zenon
  <1> HIDE DEF after
  <1>5. after[N] = {g[N]}
    <2> DEFINE S == {n \in 0..N : after[n] = {g[n]}}
    <2>1. 0 \in S
      <3>1. Body(after)[0] = {s} BY <1>0
      <3> HIDE DEF Body
      <3> QED BY <1>0, <1>3, <1>4, <3>1
    <2>2. ASSUME NEW n \in 0..N, n < N, n \in S PROVE n + 1 \in S
      <3>1. n + 1 \in 0..N /\ n + 1 # 0 /\ (n + 1) - 1 = n BY <1>0, <2>2
      <3>2. Body(after)[n + 1] = {WriteByte(x, data[n + 1]) : x \in after[n]} BY <3>1
      <3> HIDE DEF Body
      <3>3. after[n + 1] = {WriteByte(x, data[n + 1]) : x \in {g[n]}} BY <1>4, <2>2, <3>2
      <3>4. g[n + 1] = WriteByte(g[n], data[n + 1]) BY <1>3, <2>2
      <3> QED BY <3>1, <3>3, <3>4
    <2>3. N \in S
      <3> HIDE DEF S
      <3>1. \A n \in 0..N : n \in S BY <1>0, <2>1, <2>2, SetInduction
      <3> QED BY <1>0, <3>1
    <2> QED BY <2>3
  <1>6. Write(s, data) = g[N] BY <1>1, <1>5
  <1> QED BY <1>3, <1>6 DEF N


-----------------------------------------------------------------------------
(***************************************************************************)
(* The operations of the store, field by field.                            *)
(***************************************************************************)
LEMMA Sizes ==
  /\ Cells \in Nat \ {0} /\ Items \in Nat \ {0} /\ Chunk \in Nat \ {0}
  /\ Sector \in Nat \ {0} /\ Stride \in Nat \ {0}
PROOF BY GeometryAssumption

(* What reads as erased is not a byte of a log.                            *)
LEMMA ErasedIsNoByte == Erased \notin Byte
PROOF BY RecorderAssumption

(* A store is a record of its fields. *)
LEMMA StoreFields ==
  ASSUME NEW s \in Stores
  PROVE  /\ s.cell \in [Cell -> Byte \cup {Erased, Mixed}]
         /\ s.begin \in [Item -> Address \cup {None}] /\ s.end \in [Item -> Address \cup {None}]
         /\ s.address \in 0..Cells /\ s.journalIdx \in 0..Items /\ s.buffer \in Seq(Byte)
         /\ Len(s.buffer) \in Nat /\ Top(s) \in Nat /\ s.address <= Top(s)
PROOF
  <1>1. /\ s.cell \in [Cell -> Byte \cup {Erased, Mixed}]
        /\ s.begin \in [Item -> Address \cup {None}] /\ s.end \in [Item -> Address \cup {None}]
        /\ s.address \in 0..Cells /\ s.journalIdx \in 0..Items /\ s.buffer \in Seq(Byte)
    BY DEF Stores, Address
  <1>2. Len(s.buffer) \in Nat BY <1>1
  <1>3. Top(s) \in Nat /\ s.address <= Top(s) BY <1>1, <1>2, Sizes DEF Top
  <1> QED BY <1>1, <1>2, <1>3

(* What a reader finds in a cell. *)
LEMMA ImageFacts ==
  ASSUME NEW s \in Stores, NEW a \in Cell
  PROVE  /\ a < s.address => Image(s)[a] = s.cell[a]
         /\ s.address <= a /\ a < Top(s) =>
              Image(s)[a] = s.buffer[a - s.address + 1] /\ Image(s)[a] \in Byte
         /\ Top(s) <= a => Image(s)[a] = Erased
         /\ Image(s)[a] \in Byte \cup {Erased, Mixed}
PROOF
  <1>1. a \in Int /\ s.address \in Int /\ Top(s) = s.address + Len(s.buffer) /\ Len(s.buffer) \in Nat
    BY StoreFields, Sizes DEF Top, Cell
  <1>2. Image(s)[a] = IF a < s.address THEN s.cell[a]
                      ELSE IF a < Top(s) THEN s.buffer[a - s.address + 1] ELSE Erased
    BY DEF Image
  <1>3. s.cell[a] \in Byte \cup {Erased, Mixed} BY StoreFields
  <1>4. ASSUME s.address <= a, a < Top(s) PROVE s.buffer[a - s.address + 1] \in Byte
    <2>1. s.buffer \in Seq(Byte) BY StoreFields
    <2>2. a - s.address + 1 \in 1..Len(s.buffer) BY <1>1, <1>4
    <2> QED BY <2>1, <2>2
  <1> QED BY <1>1, <1>2, <1>3, <1>4

(* The image has a byte, or what an erased or torn cell holds, in each     *)
(* cell.                                                                   *)
LEMMA ImageIsFunction ==
  ASSUME NEW s \in Stores
  PROVE  Image(s) \in [Cell -> Byte \cup {Erased, Mixed}]
PROOF
  <1>1. \A a \in Cell : Image(s)[a] \in Byte \cup {Erased, Mixed} BY ImageFacts
  <1>2. Image(s) = [a \in Cell |-> Image(s)[a]] BY DEF Image
  <1> QED BY <1>1, <1>2

(* The begin of a log is written before its data. *)
LEMMA StartedFacts ==
  ASSUME NEW s \in Stores
  PROVE  /\ Started(s) \in Stores
         /\ Started(s).cell = s.cell /\ Started(s).end = s.end /\ Started(s).address = s.address
         /\ Started(s).journalIdx = s.journalIdx /\ Started(s).buffer = s.buffer
         /\ \A i \in Item : Started(s).begin[i] =
              IF i = s.journalIdx /\ s.begin[i] = None THEN s.address ELSE s.begin[i]
PROOF
  <1>1. CASE LogStarted(s)
    <2>1. \A i \in Item : i = s.journalIdx => s.begin[i] # None
      BY <1>1, StoreFields, Sizes DEF LogStarted, Item
    <2> QED BY <1>1, <2>1 DEF Started
  <1>2. CASE ~LogStarted(s)
    <2>1. s.journalIdx \in Item /\ s.begin[s.journalIdx] = None
      BY <1>2, StoreFields, Sizes DEF LogStarted, Item
    <2>2. Started(s) = [s EXCEPT !.begin = [s.begin EXCEPT ![s.journalIdx] = s.address]]
      BY <1>2 DEF Started, LogBegin
    <2>3. [s.begin EXCEPT ![s.journalIdx] = s.address] \in [Item -> Address \cup {None}]
      BY StoreFields DEF Address
    <2>4. /\ Started(s) \in Stores
          /\ Started(s).begin = [s.begin EXCEPT ![s.journalIdx] = s.address]
          /\ Started(s).cell = s.cell /\ Started(s).end = s.end /\ Started(s).address = s.address
          /\ Started(s).journalIdx = s.journalIdx /\ Started(s).buffer = s.buffer
      BY <2>2, <2>3 DEF Stores
    <2> QED BY <2>1, <2>4, StoreFields
  <1> QED BY <1>1, <1>2

(* Programming erased cells leaves in them what is written. *)
LEMMA ProgramFacts ==
  ASSUME NEW s \in Stores, Top(s) <= Cells, ErasedFrom(s.cell, s.address, Cells)
  PROVE  /\ Program(s, s.buffer).cell = Image(s) /\ Program(s, s.buffer).address = Top(s)
         /\ Program(s, s.buffer).begin = s.begin /\ Program(s, s.buffer).end = s.end
         /\ Program(s, s.buffer).journalIdx = s.journalIdx
         /\ Program(s, s.buffer) \in Stores
PROOF
  <1> DEFINE f == [a \in Cell |->
                     IF a \notin s.address..(s.address + Len(s.buffer) - 1) THEN s.cell[a]
                     ELSE IF s.cell[a] = Erased THEN s.buffer[a - s.address + 1] ELSE Mixed]
  <1>1. ASSUME NEW a \in Cell PROVE f[a] = Image(s)[a]
    <2>1. /\ a \in Int /\ s.address \in Int /\ Top(s) = s.address + Len(s.buffer)
          /\ Len(s.buffer) \in Nat /\ a < Cells
      BY StoreFields, Sizes DEF Top, Cell
    <2>2. s.address <= a => s.cell[a] = Erased BY <2>1 DEF ErasedFrom
    <2>3. a \in s.address..(s.address + Len(s.buffer) - 1) <=> s.address <= a /\ a < Top(s) BY <2>1
    <2>4. Image(s)[a] = IF a < s.address THEN s.cell[a]
                        ELSE IF a < Top(s) THEN s.buffer[a - s.address + 1] ELSE Erased
      BY DEF Image
    <2> QED BY <2>1, <2>2, <2>3, <2>4
  <1>2. f = Image(s) BY <1>1 DEF Image
  <1>3. Program(s, s.buffer) = [s EXCEPT !.cell = f, !.address = s.address + Len(s.buffer)]
    BY DEF Program
  <1> HIDE DEF f
  <1>4. Top(s) \in Address BY StoreFields, Sizes DEF Address
  <1>5. f \in [Cell -> Byte \cup {Erased, Mixed}] BY <1>2, ImageIsFunction
  <1>6. s.address + Len(s.buffer) = Top(s) BY DEF Top
  <1> QED BY <1>2, <1>3, <1>4, <1>5, <1>6 DEF Stores

(* A flush brings to the cells what the reader is to find in them. *)
LEMMA FlushFacts ==
  ASSUME NEW s \in Stores, Top(s) <= Cells, ErasedFrom(s.cell, s.address, Cells)
  PROVE  LET t == FlushAsync(s)
         IN /\ t \in Stores /\ t.cell = Image(s) /\ t.end = s.end /\ t.address = Top(s)
            /\ t.journalIdx = s.journalIdx /\ t.buffer = <<>>
            /\ \A i \in Item : t.begin[i] =
                 IF i = s.journalIdx /\ s.begin[i] = None THEN s.address ELSE s.begin[i]
PROOF
  <1> DEFINE b == Started(s)
             p == Program(b, b.buffer)
  <1>1. /\ b \in Stores /\ b.cell = s.cell /\ b.end = s.end /\ b.address = s.address
        /\ b.journalIdx = s.journalIdx /\ b.buffer = s.buffer
        /\ \A i \in Item : b.begin[i] =
             IF i = s.journalIdx /\ s.begin[i] = None THEN s.address ELSE s.begin[i]
    BY StartedFacts
  <1>2. FlushAsync(s) = [p EXCEPT !.buffer = <<>>] BY DEF FlushAsync
  <1> HIDE DEF b
  <1>3. Top(b) = Top(s) /\ Image(b) = Image(s) BY <1>1 DEF Top, Image
  <1>4. /\ p.cell = Image(b) /\ p.address = Top(b) /\ p.begin = b.begin /\ p.end = b.end
        /\ p.journalIdx = b.journalIdx /\ p \in Stores
    BY <1>1, <1>3, ProgramFacts
  <1> HIDE DEF p
  <1>5. /\ FlushAsync(s).buffer = <<>>
        /\ FlushAsync(s).cell = p.cell /\ FlushAsync(s).address = p.address
        /\ FlushAsync(s).begin = p.begin /\ FlushAsync(s).end = p.end
        /\ FlushAsync(s).journalIdx = p.journalIdx
    BY <1>2, <1>4 DEF Stores
  <1>6. FlushAsync(s) \in Stores
    <2>1. <<>> \in Seq(Byte) OBVIOUS
    <2> QED BY <1>2, <1>4, <2>1, Zenon DEF Stores
  <1> QED BY <1>1, <1>3, <1>4, <1>5, <1>6

(* A cell whose content is a byte was written. *)
LEMMA EmptyBuffer ==
  ASSUME NEW s \in Stores, s.buffer = <<>>
  PROVE  /\ Top(s) = s.address
         /\ ErasedFrom(s.cell, s.address, Cells) => Image(s) = s.cell
PROOF
  <1>1. Top(s) = s.address BY StoreFields DEF Top
  <1>2. ASSUME ErasedFrom(s.cell, s.address, Cells), NEW a \in Cell PROVE Image(s)[a] = s.cell[a]
    <2>1. a < Cells /\ a \in Int /\ s.address \in Int BY Sizes, StoreFields DEF Cell
    <2> QED BY <1>1, <1>2, <2>1, ImageFacts DEF ErasedFrom
  <1>3. ASSUME ErasedFrom(s.cell, s.address, Cells) PROVE Image(s) = s.cell
    <2>1. Image(s) \in [Cell -> Byte \cup {Erased, Mixed}] BY ImageIsFunction
    <2>2. s.cell \in [Cell -> Byte \cup {Erased, Mixed}] BY StoreFields
    <2> QED BY <1>2, <1>3, <2>1, <2>2
  <1> QED BY <1>1, <1>3

-----------------------------------------------------------------------------
(* What can be decoded depends on the cells of the log only. *)
LEMMA DecodableAgree ==
  ASSUME NEW m1, NEW m2, NEW from \in Int, NEW to \in Int,
         \A a \in Cell : a < to => m1[a] = m2[a], Decodable(m1, from, to)
  PROVE  Decodable(m2, from, to)
PROOF
  <1> SUFFICES ASSUME NEW a \in Cell, from <= a, a < to PROVE Fits(m2, from, a)
    BY DEF Decodable
  <1>0. Cell \subseteq Int BY Sizes DEF Cell
  <1>1. \A b \in Cell : b <= a => m1[b] = m2[b]
    <2> SUFFICES ASSUME NEW b \in Cell, b <= a PROVE b < to
      OBVIOUS
    <2>1. a \in Int /\ b \in Int BY <1>0
    <2> QED BY <2>1
  <1>2. Fits(m1, from, a) BY DEF Decodable
  <1>3. m1[a] = m2[a] BY <1>0, <1>1
  <1>4. OnlyHeader(m1, from, a) => OnlyHeader(m2, from, a)
    BY <1>0, <1>1 DEF OnlyHeader
  <1>5. Fresh(m1, from, a) => Fresh(m2, from, a)
    <2> SUFFICES ASSUME Fresh(m1, from, a) PROVE Fresh(m2, from, a)
      OBVIOUS
    <2>1. PICK i \in Cell : /\ from <= i /\ i < a /\ m1[i] = "I"
                            /\ \A b \in Cell : i <= b /\ b < a => m1[b] # "R"
      BY DEF Fresh
    <2>2. m2[i] = "I" BY <1>0, <1>1, <2>1
    <2>3. \A b \in Cell : i <= b /\ b < a => m2[b] # "R" BY <1>0, <1>1, <2>1
    <2> QED BY <2>1, <2>2, <2>3 DEF Fresh
  <1> QED BY <1>2, <1>3, <1>4, <1>5 DEF Fits

(* The head of what can be decoded can be decoded. *)
LEMMA DecodableHead ==
  ASSUME NEW m, NEW from \in Int, NEW to \in Int, NEW w \in Int, w <= to,
         Decodable(m, from, to)
  PROVE  Decodable(m, from, w)
PROOF
  <1> SUFFICES ASSUME NEW a \in Cell, from <= a, a < w PROVE Fits(m, from, a)
    BY DEF Decodable
  <1>1. a < to BY Sizes DEF Cell
  <1> QED BY <1>1 DEF Decodable

(* Whether a log is good depends on the cells below its end only.          *)
LEMMA GoodLogAgree ==
  ASSUME NEW m1, NEW m2, NEW from \in Int, NEW to \in Int,
         \A a \in Cell : a < to => m1[a] = m2[a], GoodLog(m1, from, to)
  PROVE  GoodLog(m2, from, to)
PROOF
  <1>1. PICK w \in Address : /\ from <= w /\ w <= to
                             /\ Decodable(m1, from, w) /\ ErasedFrom(m1, w, to)
    BY DEF GoodLog
  <1>0. Cell \subseteq Int /\ w \in Int BY Sizes DEF Cell, Address
  <1>2. Decodable(m2, from, w)
    <2>1. \A a \in Cell : a < w => m1[a] = m2[a] BY <1>0, <1>1
    <2> QED BY <1>0, <1>1, <2>1, DecodableAgree
  <1>3. ErasedFrom(m2, w, to) BY <1>1 DEF ErasedFrom
  <1> QED BY <1>1, <1>2, <1>3 DEF GoodLog

(* A log that can be decoded whole is good. *)
LEMMA DecodableIsGood ==
  ASSUME NEW m, NEW from \in Int, NEW to \in Address, from <= to, Decodable(m, from, to)
  PROVE  GoodLog(m, from, to)
PROOF
  <1>1. to <= to /\ ErasedFrom(m, to, to) BY Sizes DEF ErasedFrom, Address, Cell
  <1> QED BY <1>1 DEF GoodLog

-----------------------------------------------------------------------------
(* A flush moves the data and changes nothing a reader finds. *)
LEMMA FlushSound ==
  ASSUME NEW s, Sound(s), s.journalIdx >= Items => s.buffer = <<>>
  PROVE  LET t == FlushAsync(s)
         IN /\ Sound(t) /\ Image(t) = Image(s) /\ Top(t) = Top(s) /\ LastEnd(t) = LastEnd(s)
            /\ t.buffer = <<>> /\ t.journalIdx = s.journalIdx /\ t.end = s.end
            /\ s.journalIdx < Items => t.begin[s.journalIdx] = LastEnd(s)
            /\ Same(s, t)
PROOF
  <1> DEFINE t == FlushAsync(s)
  <1>0. s \in Stores /\ Top(s) <= Cells /\ ErasedFrom(s.cell, s.address, Cells) BY DEF Sound
  <1>1. /\ t \in Stores /\ t.cell = Image(s) /\ t.end = s.end /\ t.address = Top(s)
        /\ t.journalIdx = s.journalIdx /\ t.buffer = <<>>
        /\ \A i \in Item : t.begin[i] =
             IF i = s.journalIdx /\ s.begin[i] = None THEN s.address ELSE s.begin[i]
    BY <1>0, FlushFacts
  <1> HIDE DEF t
  <1>2. /\ s.address \in Int /\ Top(s) \in Int /\ s.address <= Top(s) /\ s.journalIdx \in Int
        /\ Cell \subseteq Int /\ Item \subseteq Int
        /\ s.address <= Cells
    BY <1>0, StoreFields, Sizes DEF Cell, Item
  <1>3. LastEnd(t) = LastEnd(s) BY <1>1 DEF LastEnd
  <1>4. LastEnd(s) \in Int /\ LastEnd(s) <= s.address
    <2>1. LastEnd(s) \in Address /\ LastEnd(s) <= s.address BY DEF Sound, Journal
    <2> QED BY <2>1, Sizes DEF Address
  <1>5. Top(t) = Top(s) BY <1>1, EmptyBuffer
  <1>6. ErasedFrom(t.cell, t.address, Cells)
    <2> SUFFICES ASSUME NEW a \in Cell, Top(s) <= a PROVE Image(s)[a] = Erased
      BY <1>1 DEF ErasedFrom
    <2> QED BY <1>0, ImageFacts
  <1>7. Image(t) = Image(s) BY <1>1, <1>6, EmptyBuffer
  <1>8. Decodable(Image(t), LastEnd(t), Top(t)) BY <1>3, <1>5, <1>7 DEF Sound
  <1>9. \A i \in Item : i < s.journalIdx => t.begin[i] = s.begin[i] /\ t.end[i] = s.end[i]
    BY <1>1, <1>2
  <1>10. LogsGood(t)
    <2> SUFFICES ASSUME NEW i \in Item, i < s.journalIdx PROVE GoodLog(t.cell, s.begin[i], s.end[i])
      BY <1>1, <1>9 DEF LogsGood
    <2>1. /\ s.begin[i] \in Int /\ s.end[i] \in Int /\ s.end[i] <= LastEnd(s)
          /\ GoodLog(s.cell, s.begin[i], s.end[i])
      BY Sizes DEF Sound, Journal, LogsGood, Address
    <2>2. ASSUME NEW a \in Cell, a < s.end[i] PROVE s.cell[a] = t.cell[a]
      <3>1. a < s.address BY <1>2, <1>4, <2>1, <2>2
      <3> QED BY <1>0, <1>1, <3>1, ImageFacts
    <2> QED BY <2>1, <2>2, GoodLogAgree
  <1>11. ASSUME NEW i \in Item, i = s.journalIdx PROVE t.begin[i] = LastEnd(s)
    <2>1. s.begin[i] \in {None, LastEnd(s)} BY <1>11 DEF Sound, Journal
    <2>2. s.begin[i] = None => s.address = LastEnd(s) BY <1>11 DEF Sound, Journal
    <2> QED BY <1>1, <1>11, <2>1, <2>2
  <1>12. Journal(t)
    <2>1. /\ \A i \in Item : i < t.journalIdx =>
               /\ t.begin[i] \in Address /\ t.end[i] \in Address
               /\ t.begin[i] <= t.end[i] /\ t.end[i] <= LastEnd(t)
      BY <1>1, <1>3, <1>9 DEF Sound, Journal
    <2>2. LastEnd(t) \in Address /\ LastEnd(t) <= t.address
      BY <1>1, <1>2, <1>3, <1>4 DEF Sound, Journal
    <2>3. \A i \in Item : t.journalIdx <= i => t.end[i] = None
      BY <1>1 DEF Sound, Journal
    <2>4. \A i \in Item : t.journalIdx < i => t.begin[i] = None
      BY <1>1, <1>2 DEF Sound, Journal
    <2>5. \A i \in Item : i = t.journalIdx => t.begin[i] \in {None, LastEnd(t)}
      BY <1>1, <1>3, <1>11
    <2>6. ASSUME \A i \in Item : i = t.journalIdx => t.begin[i] = None
          PROVE  t.address = LastEnd(t)
      <3>1. CASE s.journalIdx \in Item
        <4>1. t.begin[s.journalIdx] = LastEnd(s) BY <1>11, <3>1
        <4>2. LastEnd(s) # None BY <1>2, <1>4, Sizes DEF None
        <4> QED BY <1>1, <2>6, <3>1, <4>1, <4>2
      <3>2. CASE s.journalIdx \notin Item
        <4>1. s.journalIdx >= Items BY <1>0, <3>2, StoreFields, Sizes DEF Item
        <4>2. s.address = LastEnd(s) BY <3>2 DEF Sound, Journal
        <4>3. Top(s) = s.address BY <1>0, <4>1, EmptyBuffer
        <4> QED BY <1>1, <1>3, <4>2, <4>3
      <3> QED BY <3>1, <3>2
    <2> QED BY <2>1, <2>2, <2>3, <2>4, <2>5, <2>6 DEF Journal
  <1>13. Sound(t) BY <1>0, <1>1, <1>5, <1>6, <1>8, <1>10, <1>12 DEF Sound
  <1>14. s.journalIdx < Items => t.begin[s.journalIdx] = LastEnd(s)
    <2>1. s.journalIdx < Items => s.journalIdx \in Item BY <1>0, StoreFields, Sizes DEF Item
    <2> QED BY <1>11, <2>1
  <1>15. Same(s, t)
    <2>1. Kept(s, t) BY <1>7, <1>9 DEF Kept
    <2>2. Top(s) <= Top(t) /\ s.address <= t.address BY <1>1, <1>2, <1>5
    <2> QED BY <1>1, <2>1, <2>2 DEF Same
  <1> QED BY <1>1, <1>3, <1>5, <1>7, <1>13, <1>14, <1>15 DEF t

(* A flush leaves a store of the invariant as full as it was. *)
LEMMA FlushKeeps ==
  ASSUME NEW s, StoreInv(s)
  PROVE  LET t == FlushAsync(s)
         IN /\ StoreInv(t) /\ Same(s, t) /\ t.buffer = <<>>
            /\ Image(t) = Image(s) /\ Top(t) = Top(s) /\ LastEnd(t) = LastEnd(s)
            /\ t.journalIdx = s.journalIdx /\ (IsEOF(t) <=> IsEOF(s))
PROOF
  <1> DEFINE t == FlushAsync(s)
  <1>0. Sound(s) /\ s \in Stores BY DEF StoreInv, Sound
  <1>1. /\ s.address \in Int /\ Top(s) \in Int /\ s.address <= Top(s) /\ Top(s) <= Cells
        /\ s.journalIdx \in Int
    BY <1>0, StoreFields DEF Sound
  <1>2. IsEOF(s) => s.buffer = <<>> /\ Top(s) = s.address
    <2>1. LastEnd(s) \in Int /\ LastEnd(s) <= s.address
      BY <1>0, Sizes DEF Sound, Journal, Address
    <2>2. IsEOF(s) => Top(s) = s.address BY <1>1, <2>1 DEF StoreInv
    <2>3. Top(s) = s.address => Len(s.buffer) = 0 BY <1>0, StoreFields DEF Top
    <2>4. Len(s.buffer) = 0 => s.buffer = <<>> BY <1>0, StoreFields
    <2> QED BY <2>2, <2>3, <2>4
  <1>3. s.journalIdx >= Items => s.buffer = <<>> BY <1>2 DEF IsEOF
  <1>4. /\ Sound(t) /\ Image(t) = Image(s) /\ Top(t) = Top(s) /\ LastEnd(t) = LastEnd(s)
        /\ t.buffer = <<>> /\ t.journalIdx = s.journalIdx /\ Same(s, t)
    BY <1>0, <1>3, FlushSound
  <1> HIDE DEF t
  <1>5. t.address = Top(s)
    <2>1. t \in Stores BY <1>4 DEF Sound
    <2> QED BY <1>4, <2>1, EmptyBuffer
  <1>6. IsEOF(t) <=> IsEOF(s)
    <2>1. IsEOF(s) => IsEOF(t) BY <1>2, <1>4, <1>5 DEF IsEOF
    <2>2. ~IsEOF(s) => ~IsEOF(t)
      <3> SUFFICES ASSUME ~IsEOF(s) PROVE ~IsEOF(t)
        OBVIOUS
      <3>1. Top(s) < Cells BY DEF StoreInv
      <3>2. ~(s.journalIdx >= Items) BY DEF IsEOF
      <3>3. ~(t.address >= Cells) BY <1>1, <1>5, <3>1, Sizes
      <3> QED BY <1>4, <3>2, <3>3 DEF IsEOF
    <2> QED BY <2>1, <2>2
  <1>7. StoreInv(t) BY <1>4, <1>6 DEF StoreInv
  <1> QED BY <1>4, <1>6, <1>7 DEF t

(* Closing the open log adds it to the good ones and opens none. *)
LEMMA CloseSound ==
  ASSUME NEW s, Sound(s), ~IsEOF(s)
  PROVE  LET t == Close(s)
         IN /\ StoreInv(t) /\ Closed(s, t) /\ Top(t) = LastEnd(t) /\ LastEnd(t) = Top(s)
            /\ Image(t) = Image(s)
            /\ t.buffer = <<>> /\ \A i \in Item : i = t.journalIdx => t.begin[i] = None
PROOF
  <1> DEFINE f == FlushAsync(s)
             j == s.journalIdx
             t == Close(s)
  <1>0. s \in Stores /\ j \in Item /\ j \in Nat
    BY StoreFields, Sizes DEF Sound, Item, IsEOF
  <1>1. /\ Sound(f) /\ Image(f) = Image(s) /\ Top(f) = Top(s) /\ LastEnd(f) = LastEnd(s)
        /\ f.buffer = <<>> /\ f.journalIdx = j /\ f.end = s.end
        /\ f.begin[j] = LastEnd(s) /\ Same(s, f)
    <2>1. ~(s.journalIdx >= Items) /\ s.journalIdx < Items BY <1>0, Sizes DEF Item
    <2> QED BY <2>1, FlushSound
  <1>2. t = [f EXCEPT !.end = [f.end EXCEPT ![j] = f.address], !.journalIdx = j + 1]
    BY <1>1 DEF Close, LogEnd
  <1> HIDE DEF f, t
  <1>3. f \in Stores /\ f.address = Top(s)
    <2>1. f \in Stores BY <1>1 DEF Sound
    <2> QED BY <1>1, <2>1, EmptyBuffer
  <1>4. [f.end EXCEPT ![j] = f.address] \in [Item -> Address \cup {None}]
    BY <1>0, <1>3, StoreFields DEF Address
  <1>5. /\ t.end = [f.end EXCEPT ![j] = f.address] /\ t.journalIdx = j + 1
        /\ t.begin = f.begin /\ t.cell = f.cell /\ t.address = f.address /\ t.buffer = f.buffer
    BY <1>2, <1>3 DEF Stores
  <1>6. t \in Stores
    <2>1. j + 1 \in 0..Items BY <1>0, Sizes DEF Item
    <2> QED BY <1>2, <1>3, <1>4, <2>1 DEF Stores
  <1> HIDE DEF j
  <1>7. t.buffer = <<>> /\ Top(t) = Top(s) BY <1>1, <1>3, <1>5, <1>6, EmptyBuffer
  <1>8. Image(t) = Image(s)
    <2>1. Top(t) = Top(f) BY <1>1, <1>7
    <2> QED BY <1>1, <1>5, <2>1 DEF Image
  <1>9. LastEnd(t) = Top(s)
    <2>1. t.journalIdx # 0 /\ t.journalIdx - 1 = j BY <1>0, <1>5
    <2>2. t.end[j] = f.address BY <1>0, <1>3, <1>5, StoreFields
    <2> QED BY <1>3, <2>1, <2>2 DEF LastEnd
  <1>10. /\ Top(s) \in Address /\ Top(s) \in Int /\ LastEnd(s) \in Int
         /\ LastEnd(s) \in Address /\ LastEnd(s) <= Top(s)
    <2>1. Top(s) \in Nat /\ Top(s) <= Cells /\ s.address <= Top(s) /\ s.address \in Int
      BY <1>0, StoreFields DEF Sound
    <2>2. LastEnd(s) \in Address /\ LastEnd(s) <= s.address BY DEF Sound, Journal
    <2> QED BY <2>1, <2>2, Sizes DEF Address
  <1>11. t.begin[j] = LastEnd(s) /\ t.end[j] = Top(s)
    BY <1>0, <1>1, <1>3, <1>5, StoreFields
  <1>12. ASSUME NEW i \in Item, i < t.journalIdx, i # j
         PROVE  i < f.journalIdx /\ t.begin[i] = f.begin[i] /\ t.end[i] = f.end[i]
    <2>1. i \in Int BY Sizes DEF Item
    <2> QED BY <1>0, <1>1, <1>3, <1>5, <1>12, <2>1, StoreFields
  <1>13. Journal(t)
    <2>1. ASSUME NEW i \in Item, i < t.journalIdx
          PROVE  /\ t.begin[i] \in Address /\ t.end[i] \in Address
                 /\ t.begin[i] <= t.end[i] /\ t.end[i] <= LastEnd(t)
      <3>1. CASE i = j BY <1>9, <1>10, <1>11, <3>1
      <3>2. CASE i # j
        <4>1. /\ f.begin[i] \in Address /\ f.end[i] \in Address
              /\ f.begin[i] <= f.end[i] /\ f.end[i] <= LastEnd(s)
          BY <1>1, <1>12, <2>1, <3>2 DEF Sound, Journal
        <4>2. f.end[i] \in Int BY <4>1, Sizes DEF Address
        <4> QED BY <1>9, <1>10, <1>12, <2>1, <3>2, <4>1, <4>2
      <3> QED BY <3>1, <3>2
    <2>2. LastEnd(t) \in Address /\ LastEnd(t) <= t.address
      BY <1>3, <1>5, <1>9, <1>10
    <2>3. ASSUME NEW i \in Item, t.journalIdx <= i
          PROVE  t.end[i] = None /\ t.begin[i] = None
      <3>1. i \in Int BY Sizes DEF Item
      <3>2. i # j /\ f.journalIdx < i /\ f.journalIdx <= i BY <1>0, <1>1, <1>5, <2>3, <3>1
      <3>3. f.end[i] = None /\ f.begin[i] = None BY <1>1, <3>2 DEF Sound, Journal
      <3> QED BY <1>3, <1>5, <3>2, <3>3, StoreFields
    <2>4. \A i \in Item : t.journalIdx < i => t.journalIdx <= i
      BY <1>0, <1>5, Sizes DEF Item
    <2>5. \A i \in Item : i = t.journalIdx => t.journalIdx <= i
      BY <1>0, <1>5, Sizes DEF Item
    <2>6. t.address = LastEnd(t) BY <1>3, <1>5, <1>9
    <2> QED BY <2>1, <2>2, <2>3, <2>4, <2>5, <2>6 DEF Journal
  <1>14. ErasedFrom(t.cell, t.address, Cells) BY <1>1, <1>5 DEF Sound
  <1>15. LogsGood(t)
    <2> SUFFICES ASSUME NEW i \in Item, i < t.journalIdx PROVE GoodLog(t.cell, t.begin[i], t.end[i])
      BY DEF LogsGood
    <2>1. CASE i = j
      <3>1. Decodable(t.cell, LastEnd(s), Top(s))
        <4>1. Image(t) = t.cell BY <1>6, <1>7, <1>14, EmptyBuffer
        <4> QED BY <1>8, <4>1 DEF Sound
      <3>2. GoodLog(t.cell, LastEnd(s), Top(s)) BY <1>10, <3>1, DecodableIsGood
      <3> QED BY <1>11, <2>1, <3>2
    <2>2. CASE i # j
      <3>1. GoodLog(f.cell, f.begin[i], f.end[i]) BY <1>1, <1>12, <2>2 DEF Sound, LogsGood
      <3> QED BY <1>5, <1>12, <2>2, <3>1
    <2> QED BY <2>1, <2>2
  <1>16. Decodable(Image(t), LastEnd(t), Top(t))
    BY <1>7, <1>9, <1>10, Sizes DEF Decodable, Cell
  <1>17. StoreInv(t)
    <2>1. Top(t) <= Cells BY <1>7, <1>10, Sizes DEF Address
    <2>2. Sound(t) BY <1>6, <1>13, <1>14, <1>15, <1>16, <2>1 DEF Sound
    <2>3. ~IsEOF(t) => Top(t) < Cells
      <3>1. t.address = Top(t) BY <1>3, <1>5, <1>7
      <3> QED BY <1>7, <1>10, <3>1, Sizes DEF IsEOF
    <2> QED BY <1>7, <1>9, <2>2, <2>3 DEF StoreInv
  <1>18. \A i \in Item : i = t.journalIdx => t.begin[i] = None
    <2>1. ASSUME NEW i \in Item, i = t.journalIdx PROVE t.begin[i] = None
      <3>1. f.journalIdx < i BY <1>0, <1>1, <1>5, <2>1
      <3> QED BY <1>1, <1>5, <3>1 DEF Sound, Journal
    <2> QED BY <2>1
  <1>19. Closed(s, t)
    <2>1. \A i \in Item : i < j => t.begin[i] = s.begin[i] /\ t.end[i] = s.end[i]
      <3> SUFFICES ASSUME NEW i \in Item, i < j PROVE t.begin[i] = s.begin[i] /\ t.end[i] = s.end[i]
        OBVIOUS
      <3>1. i # j /\ i < t.journalIdx
        <4>1. i \in Int BY Sizes DEF Item
        <4> QED BY <1>0, <1>5, <4>1
      <3>2. f.begin[i] = s.begin[i] /\ f.end[i] = s.end[i] BY <1>1 DEF Same, Kept, j
      <3> QED BY <1>12, <3>1, <3>2
    <2>2. Kept(s, t) BY <1>8, <2>1 DEF Kept, j
    <2>3. Decodable(Image(t), LastEnd(s), LastEnd(t)) BY <1>8, <1>9 DEF Sound
    <2>4. Top(s) <= LastEnd(t) BY <1>9, <1>10
    <2> QED BY <1>5, <1>7, <1>9, <1>11, <1>18, <2>2, <2>3, <2>4 DEF Closed, j
  <1> QED BY <1>7, <1>8, <1>9, <1>17, <1>18, <1>19 DEF t

-----------------------------------------------------------------------------
(* The relations between an earlier and a later store. *)
LEMMA SameLastEnd ==
  ASSUME NEW f \in Stores, NEW g \in Stores, Same(f, g)
  PROVE  LastEnd(g) = LastEnd(f) /\ (IsEOF(f) => IsEOF(g))
PROOF
  <1>1. g.journalIdx = f.journalIdx /\ f.journalIdx \in Nat /\ f.journalIdx <= Items
    BY StoreFields, Sizes DEF Same
  <1>2. f.journalIdx = 0 => LastEnd(g) = LastEnd(f) BY <1>1 DEF LastEnd
  <1>3. ASSUME f.journalIdx # 0 PROVE LastEnd(g) = LastEnd(f)
    <2>1. f.journalIdx - 1 \in Item /\ f.journalIdx - 1 < f.journalIdx BY <1>1, <1>3, Sizes DEF Item
    <2>2. g.end[f.journalIdx - 1] = f.end[f.journalIdx - 1] BY <2>1 DEF Same, Kept
    <2> QED BY <1>1, <1>3, <2>2 DEF LastEnd
  <1>4. IsEOF(f) => IsEOF(g)
    <2>1. f.address <= g.address /\ f.address \in Int /\ g.address \in Int
      BY StoreFields DEF Same
    <2> QED BY <1>1, <2>1, Sizes DEF IsEOF
  <1> QED BY <1>2, <1>3, <1>4

(* A store that does nothing has stayed the same.                          *)
LEMMA SameSelf ==
  ASSUME NEW s \in Stores
  PROVE  Same(s, s)
PROOF BY StoreFields DEF Same, Kept

(* What two steps keep, both together keep.                                *)
LEMMA KeptTrans ==
  ASSUME NEW f \in Stores, NEW g \in Stores, NEW h \in Stores, Kept(f, g), Kept(g, h),
         f.journalIdx <= g.journalIdx, Top(f) <= Top(g)
  PROVE  Kept(f, h)
PROOF
  <1>1. ASSUME NEW i \in Item, i < f.journalIdx
        PROVE  h.begin[i] = f.begin[i] /\ h.end[i] = f.end[i]
    <2>1. i < g.journalIdx
      <3>1. i \in Int /\ f.journalIdx \in Int /\ g.journalIdx \in Int
        BY StoreFields, Sizes DEF Item
      <3> QED BY <1>1, <3>1
    <2> QED BY <1>1, <2>1 DEF Kept
  <1>2. ASSUME NEW a \in Cell, a < Top(f)
        PROVE  Image(h)[a] = Image(f)[a]
    <2>1. a < Top(g)
      <3>1. a \in Int /\ Top(f) \in Int /\ Top(g) \in Int BY StoreFields, Sizes DEF Cell
      <3> QED BY <1>2, <3>1
    <2> QED BY <1>2, <2>1 DEF Kept
  <1> QED BY <1>1, <1>2 DEF Kept

(* Writing on twice is writing on.                                         *)
LEMMA SameTrans ==
  ASSUME NEW f \in Stores, NEW g \in Stores, NEW h \in Stores, Same(f, g), Same(g, h)
  PROVE  Same(f, h)
PROOF
  <1>1. /\ f.address \in Int /\ g.address \in Int /\ h.address \in Int
        /\ Top(f) \in Int /\ Top(g) \in Int /\ Top(h) \in Int /\ f.journalIdx \in Int
    BY StoreFields
  <1>2. Kept(f, h)
    <2>1. f.journalIdx <= g.journalIdx BY <1>1 DEF Same
    <2> QED BY <2>1, KeptTrans DEF Same
  <1> QED BY <1>1, <1>2 DEF Same

(* Writing on and then closing the log is closing it.                      *)
LEMMA SameThenClosed ==
  ASSUME NEW f \in Stores, NEW g \in Stores, NEW h \in Stores, Same(f, g), Closed(g, h)
  PROVE  Closed(f, h)
PROOF
  <1>1. LastEnd(g) = LastEnd(f) /\ ~IsEOF(f) BY SameLastEnd DEF Closed
  <1>2. Kept(f, h)
    <2>1. f.journalIdx <= g.journalIdx BY StoreFields DEF Same
    <2> QED BY <2>1, KeptTrans DEF Same, Closed
  <1>3. Top(f) <= LastEnd(h)
    <2>1. Top(f) \in Int /\ Top(g) \in Int /\ Top(h) \in Int BY StoreFields
    <2> QED BY <2>1 DEF Same, Closed
  <1> QED BY <1>1, <1>2, <1>3 DEF Same, Closed

(* Transitivity: what happens to a store in one update is one such step. *)
LEMMA LaterTrans ==
  ASSUME NEW f, NEW g, NEW h, StoreInv(f), StoreInv(g), StoreInv(h), Later(f, g), Later(g, h)
  PROVE  Later(f, h)
PROOF
  <1>0. f \in Stores /\ g \in Stores /\ h \in Stores BY DEF StoreInv, Sound
  <1>1. CASE Same(f, g) /\ Same(g, h) BY <1>0, <1>1, SameTrans DEF Later
  <1>2. CASE Same(f, g) /\ Closed(g, h) /\ IsEOF(h) BY <1>0, <1>2, SameThenClosed DEF Later
  <1>3. CASE Closed(f, g) /\ IsEOF(g) /\ Same(g, h)
    <2>1. LastEnd(h) = LastEnd(g) /\ IsEOF(h) BY <1>0, <1>3, SameLastEnd
    <2>2. Top(h) = LastEnd(h) BY <2>1 DEF StoreInv
    <2>3. /\ Top(f) \in Int /\ Top(g) \in Int /\ LastEnd(f) \in Int
          /\ f.journalIdx \in Int /\ f.journalIdx \in Item
      <3>1. LastEnd(f) \in Int BY Sizes DEF StoreInv, Sound, Journal, Address
      <3>2. f.journalIdx \in Item BY <1>0, <1>3, StoreFields, Sizes DEF Closed, IsEOF, Item
      <3> QED BY <1>0, <3>1, <3>2, StoreFields
    <2>4. Kept(f, h)
      <3>1. f.journalIdx <= g.journalIdx /\ Top(f) <= Top(g) BY <1>3, <2>3 DEF Closed
      <3> QED BY <1>0, <1>3, <3>1, KeptTrans DEF Same, Closed
    <2>5. h.begin[f.journalIdx] = g.begin[f.journalIdx]
      <3>1. f.journalIdx < g.journalIdx BY <1>3, <2>3 DEF Closed
      <3> QED BY <1>3, <2>3, <3>1 DEF Same, Kept
    <2>6. Decodable(Image(h), LastEnd(f), LastEnd(h))
      <3>1. \A a \in Cell : a < Top(g) => Image(g)[a] = Image(h)[a] BY <1>3 DEF Same, Kept
      <3>2. Decodable(Image(g), LastEnd(f), Top(g)) BY <1>3 DEF Closed
      <3>3. Decodable(Image(h), LastEnd(f), Top(g)) BY <2>3, <3>1, <3>2, DecodableAgree
      <3> QED BY <1>3, <2>1, <3>3 DEF Closed
    <2>7. Closed(f, h) BY <1>3, <2>1, <2>2, <2>4, <2>5, <2>6 DEF Closed, Same
    <2> QED BY <2>1, <2>7 DEF Later
  <1>4. ~(Closed(f, g) /\ IsEOF(g) /\ Closed(g, h)) BY DEF Closed
  <1> QED BY <1>1, <1>2, <1>3, <1>4 DEF Later

-----------------------------------------------------------------------------
(* A byte that fits goes to the buffer. *)
LEMMA AppendFacts ==
  ASSUME NEW s, StoreInv(s), ~IsEOF(s), NEW byte \in Byte, FitsNext(s, byte)
  PROVE  LET t == [s EXCEPT !.buffer = Append(s.buffer, byte)]
         IN /\ Sound(t) /\ Same(s, t) /\ LastEnd(t) = LastEnd(s)
            /\ t.journalIdx = s.journalIdx /\ t.address = s.address
            /\ Top(t) = Top(s) + 1 /\ Image(t)[Top(s)] = byte
PROOF
  <1> DEFINE t == [s EXCEPT !.buffer = Append(s.buffer, byte)]
  <1>0. s \in Stores /\ Sound(s) BY DEF StoreInv, Sound
  <1>1. Append(s.buffer, byte) \in Seq(Byte) /\ Len(Append(s.buffer, byte)) = Len(s.buffer) + 1
    BY <1>0, StoreFields
  <1>2. /\ t.buffer = Append(s.buffer, byte) /\ t.cell = s.cell /\ t.begin = s.begin
        /\ t.end = s.end /\ t.address = s.address /\ t.journalIdx = s.journalIdx
    BY <1>0 DEF Stores
  <1>3. t \in Stores BY <1>0, <1>1, Zenon DEF Stores
  <1> HIDE DEF t
  <1>4. /\ s.address \in Int /\ Len(s.buffer) \in Nat /\ Top(s) \in Nat /\ s.address <= Top(s)
        /\ Top(s) < Cells /\ Top(s) = s.address + Len(s.buffer)
        /\ Cell \subseteq Int
    BY <1>0, StoreFields, Sizes DEF StoreInv, Top, Cell
  <1>5. Top(t) = Top(s) + 1 BY <1>1, <1>2, <1>4 DEF Top
  <1>6. Top(s) \in Cell BY <1>4, Sizes DEF Cell
  <1>7. LastEnd(t) = LastEnd(s) BY <1>2 DEF LastEnd
  <1>8. Image(t)[Top(s)] = byte
    <2>1. Image(t)[Top(s)] = t.buffer[Top(s) - s.address + 1]
      <3>1. t.address <= Top(s) /\ Top(s) < Top(t) BY <1>2, <1>4, <1>5
      <3> QED BY <1>2, <1>3, <1>6, <3>1, ImageFacts
    <2>2. Top(s) - s.address + 1 = Len(s.buffer) + 1 BY <1>4
    <2>3. Append(s.buffer, byte)[Len(s.buffer) + 1] = byte BY <1>0, StoreFields
    <2> QED BY <1>2, <2>1, <2>2, <2>3
  <1>9. ASSUME NEW a \in Cell, a < Top(s) PROVE Image(t)[a] = Image(s)[a]
    <2>0. a \in Int BY <1>4
    <2>1. CASE a < s.address
      BY <1>0, <1>2, <1>3, <2>1, ImageFacts
    <2>2. CASE ~(a < s.address)
      <3>1. s.address <= a /\ a < Top(t) BY <1>4, <1>5, <1>9, <2>0, <2>2
      <3>2. a - s.address + 1 \in 1..Len(s.buffer) BY <1>4, <1>9, <2>0, <2>2
      <3>3. Append(s.buffer, byte)[a - s.address + 1] = s.buffer[a - s.address + 1]
        BY <1>0, <3>2, StoreFields
      <3>4. Image(t)[a] = t.buffer[a - s.address + 1] BY <1>2, <1>3, <3>1, ImageFacts
      <3>5. Image(s)[a] = s.buffer[a - s.address + 1] BY <1>0, <1>9, <3>1, ImageFacts
      <3> QED BY <1>2, <3>3, <3>4, <3>5
    <2> QED BY <2>1, <2>2
  <1>10. LastEnd(s) \in Int /\ LastEnd(s) <= s.address
    BY <1>0, Sizes DEF Sound, Journal, Address
  <1>11. Decodable(Image(t), LastEnd(s), Top(s))
    <2>1. Decodable(Image(s), LastEnd(s), Top(s)) BY <1>0 DEF Sound
    <2> QED BY <1>4, <1>9, <1>10, <2>1, DecodableAgree
  <1>12. Fits(Image(t), LastEnd(s), Top(s))
    <2>1. byte = "H" => OnlyHeader(Image(t), LastEnd(s), Top(s))
      BY <1>9 DEF FitsNext, AllHeader, OnlyHeader
    <2>2. byte = "P" => Fresh(Image(t), LastEnd(s), Top(s))
      BY <1>9 DEF FitsNext, Ready, Fresh
    <2> QED BY <1>8, <2>1, <2>2 DEF Fits, FitsNext
  <1>13. Decodable(Image(t), LastEnd(t), Top(t))
    <2> SUFFICES ASSUME NEW a \in Cell, LastEnd(s) <= a, a < Top(s) + 1
                 PROVE  Fits(Image(t), LastEnd(s), a)
      BY <1>5, <1>7 DEF Decodable
    <2>1. a < Top(s) \/ a = Top(s) BY <1>4
    <2> QED BY <1>11, <1>12, <2>1 DEF Decodable
  <1>14. Journal(t)
    <2>1. Journal(s) BY <1>0 DEF Sound
    <2> QED BY <1>2, <1>7, <2>1 DEF Journal
  <1>15. Sound(t)
    <2>1. LogsGood(t) BY <1>0, <1>2 DEF Sound, LogsGood
    <2>2. Top(t) <= Cells BY <1>4, <1>5, Sizes
    <2>3. ErasedFrom(t.cell, t.address, Cells) BY <1>0, <1>2 DEF Sound
    <2> QED BY <1>3, <1>13, <1>14, <2>1, <2>2, <2>3 DEF Sound
  <1>16. Same(s, t) BY <1>2, <1>4, <1>5, <1>9 DEF Same, Kept
  <1> QED BY <1>2, <1>5, <1>7, <1>8, <1>15, <1>16 DEF t

(* A byte that fits keeps the invariant: it is added to the open log, or   *)
(* fills the store and closes it.                                          *)
LEMMA WriteByteFacts ==
  ASSUME NEW s, StoreInv(s), NEW byte \in Byte, ~IsEOF(s) => FitsNext(s, byte)
  PROVE  LET t == WriteByte(s, byte)
         IN /\ StoreInv(t) /\ Later(s, t)
            /\ ~IsEOF(t) => /\ ~IsEOF(s) /\ Same(s, t) /\ LastEnd(t) = LastEnd(s)
                            /\ Top(t) = Top(s) + 1 /\ Image(t)[Top(s)] = byte
PROOF
  <1> DEFINE t == WriteByte(s, byte)
             f == [s EXCEPT !.buffer = Append(s.buffer, byte)]
  <1>0. s \in Stores BY DEF StoreInv, Sound
  <1>1. CASE IsEOF(s)
    <2>1. t = s BY <1>1 DEF WriteByte
    <2> QED BY <1>0, <1>1, <2>1, SameSelf DEF Later
  <1>2. CASE ~IsEOF(s)
    <2>1. /\ Sound(f) /\ Same(s, f) /\ LastEnd(f) = LastEnd(s)
          /\ f.journalIdx = s.journalIdx /\ f.address = s.address
          /\ Top(f) = Top(s) + 1 /\ Image(f)[Top(s)] = byte
      BY <1>2, AppendFacts
    <2>2. t = Pushed(f) BY <1>2 DEF WriteByte
    <2> HIDE DEF f, t
    <2>3. /\ f \in Stores /\ ~IsEOF(f) /\ Top(f) = f.address + Len(f.buffer)
          /\ Top(f) \in Int /\ s.journalIdx \in Int /\ ~(f.journalIdx >= Items)
      BY <1>2, <2>1, StoreFields DEF Sound, IsEOF, Top
    <2>4. CASE Top(f) >= Cells
      <3>1. t = Close(f) BY <2>2, <2>3, <2>4 DEF Pushed
      <3>2. /\ StoreInv(t) /\ Closed(f, t) /\ Top(t) = LastEnd(t) /\ LastEnd(t) = Top(f)
            /\ t.buffer = <<>>
        BY <2>1, <2>3, <3>1, CloseSound
      <3>3. t \in Stores BY <3>2 DEF StoreInv, Sound
      <3>4. t.address = Top(t) BY <3>2, <3>3, EmptyBuffer
      <3>5. IsEOF(t) BY <2>4, <3>2, <3>4 DEF IsEOF
      <3>6. Closed(s, t) BY <1>0, <2>1, <2>3, <3>2, <3>3, SameThenClosed
      <3> QED BY <3>2, <3>5, <3>6 DEF Later, t
    <2>5. CASE ~(Top(f) >= Cells) /\ t = FlushAsync(f)
      <3>1. /\ Sound(t) /\ Image(t) = Image(f) /\ Top(t) = Top(f) /\ LastEnd(t) = LastEnd(f)
            /\ t.buffer = <<>> /\ t.journalIdx = f.journalIdx /\ Same(f, t)
        BY <2>1, <2>3, <2>5, FlushSound
      <3>2. t \in Stores BY <3>1 DEF Sound
      <3>3. t.address = Top(t) BY <3>1, <3>2, EmptyBuffer
      <3>4. ~IsEOF(t) BY <2>3, <2>5, <3>1, <3>3 DEF IsEOF
      <3>5. Top(t) < Cells BY <2>3, <2>5, <3>1, Sizes
      <3>6. Same(s, t) BY <1>0, <2>1, <2>3, <3>1, <3>2, SameTrans
      <3> QED BY <1>2, <2>1, <3>1, <3>4, <3>5, <3>6 DEF StoreInv, Later, t
    <2>6. CASE ~(Top(f) >= Cells) /\ t = f
      <3>1. Top(f) < Cells BY <2>3, <2>6, Sizes
      <3> QED BY <1>2, <2>1, <2>3, <2>6, <3>1 DEF StoreInv, Later, t
    <2>7. Top(f) >= Cells \/ t = FlushAsync(f) \/ t = f BY <2>2, <2>3 DEF Pushed
    <2> QED BY <2>4, <2>5, <2>6, <2>7
  <1> QED BY <1>1, <1>2

(* What a byte makes of the open log. *)
LEMMA ByteThen ==
  ASSUME NEW s, StoreInv(s), NEW byte \in Byte, ~IsEOF(s) => FitsNext(s, byte)
  PROVE  LET t == WriteByte(s, byte)
         IN /\ StoreInv(t) /\ Later(s, t)
            /\ ~IsEOF(t) =>
                 /\ ~IsEOF(s) /\ HasData(t)
                 /\ byte \in {"B", "H"} /\ AllHeader(s) => AllHeader(t)
                 /\ byte = "I" \/ (byte # "R" /\ Ready(s)) => Ready(t)
PROOF
  <1> DEFINE t == WriteByte(s, byte)
  <1>1. /\ StoreInv(t) /\ Later(s, t)
        /\ ~IsEOF(t) => /\ ~IsEOF(s) /\ Same(s, t) /\ LastEnd(t) = LastEnd(s)
                        /\ Top(t) = Top(s) + 1 /\ Image(t)[Top(s)] = byte
    BY WriteByteFacts
  <1> HIDE DEF t
  <1>2. ASSUME ~IsEOF(t)
        PROVE  /\ HasData(t)
               /\ byte \in {"B", "H"} /\ AllHeader(s) => AllHeader(t)
               /\ byte = "I" \/ (byte # "R" /\ Ready(s)) => Ready(t)
    <2>1. /\ ~IsEOF(s) /\ LastEnd(t) = LastEnd(s) /\ Top(t) = Top(s) + 1
          /\ Image(t)[Top(s)] = byte
          /\ \A a \in Cell : a < Top(s) => Image(t)[a] = Image(s)[a]
      BY <1>1, <1>2 DEF Same, Kept
    <2>2. s \in Stores /\ Sound(s) /\ Top(s) < Cells BY <2>1 DEF StoreInv, Sound
    <2>3. /\ Top(s) \in Nat /\ Cell \subseteq Int /\ Top(s) \in Cell
          /\ LastEnd(s) \in Int /\ LastEnd(s) <= Top(s)
      <3>1. Top(s) \in Nat /\ s.address <= Top(s) /\ s.address \in Int BY <2>2, StoreFields
      <3>2. LastEnd(s) \in Int /\ LastEnd(s) <= s.address
        BY <2>2, Sizes DEF Sound, Journal, Address
      <3> QED BY <2>2, <3>1, <3>2, Sizes DEF Cell
    <2>4. HasData(t) BY <2>1, <2>3 DEF HasData
    <2>5. ASSUME byte \in {"B", "H"}, AllHeader(s) PROVE AllHeader(t)
      <3> SUFFICES ASSUME NEW a \in Cell, LastEnd(s) <= a, a < Top(s) + 1
                   PROVE  Image(t)[a] \in {"B", "H"}
        BY <2>1 DEF AllHeader, OnlyHeader
      <3>1. a < Top(s) \/ a = Top(s) BY <2>3
      <3> QED BY <2>1, <2>5, <3>1 DEF AllHeader, OnlyHeader
    <2>6. ASSUME byte = "I" PROVE Ready(t)
      <3>1. \A a \in Cell : Top(s) <= a /\ a < Top(s) + 1 => a = Top(s) BY <2>3
      <3>2. Top(s) < Top(t) /\ LastEnd(t) <= Top(s) BY <2>1, <2>3
      <3>3. \A a \in Cell : Top(s) <= a /\ a < Top(t) => Image(t)[a] # "R"
        BY <2>1, <2>6, <3>1
      <3> QED BY <2>1, <2>3, <2>6, <3>2, <3>3 DEF Ready, Fresh
    <2>7. ASSUME byte # "R", Ready(s) PROVE Ready(t)
      <3>1. PICK i \in Cell : /\ LastEnd(s) <= i /\ i < Top(s) /\ Image(s)[i] = "I"
                              /\ \A a \in Cell : i <= a /\ a < Top(s) => Image(s)[a] # "R"
        BY <2>7 DEF Ready, Fresh
      <3>2. Image(t)[i] = "I" /\ i < Top(t) BY <2>1, <2>3, <3>1
      <3>3. ASSUME NEW a \in Cell, i <= a, a < Top(s) + 1 PROVE Image(t)[a] # "R"
        <4>1. a < Top(s) \/ a = Top(s) BY <2>3, <3>3
        <4> QED BY <2>1, <2>7, <3>1, <3>3, <4>1
      <3> QED BY <2>1, <3>1, <3>2, <3>3 DEF Ready, Fresh
    <2> QED BY <2>4, <2>5, <2>6, <2>7
  <1> QED BY <1>1, <1>2 DEF t

-----------------------------------------------------------------------------
(* Writing nothing, a frame, and two. *)
LEMMA WriteNone ==
  ASSUME NEW s
  PROVE  Write(s, <<>>) = s
PROOF
  <1>1. Len(<<>>) = 0 OBVIOUS
  <1>2. \E g : g[0] = s /\ Write(s, <<>>) = g[Len(<<>>)] BY <1>1, WriteFacts
  <1> QED BY <1>1, <1>2

(* Writing a sequence of one byte is flashfsWriteByte.                     *)
LEMMA WriteOne ==
  ASSUME NEW s, NEW byte
  PROVE  Write(s, <<byte>>) = WriteByte(s, byte)
PROOF
  <1> DEFINE data == <<byte>>
  <1>1. Len(data) = 1 /\ data[1] = byte OBVIOUS
  <1> HIDE DEF data
  <1>2. Len(data) \in Nat BY <1>1
  <1>3. PICK g : /\ g[0] = s /\ Write(s, data) = g[Len(data)]
                 /\ \A n \in 0..Len(data) :
                      n < Len(data) => g[n + 1] = WriteByte(g[n], data[n + 1])
    BY <1>2, WriteFacts
  <1>4. g[0 + 1] = WriteByte(g[0], data[0 + 1]) BY <1>1, <1>3
  <1> QED BY <1>1, <1>3, <1>4 DEF data

(* Writing a sequence of two bytes is flashfsWriteByte twice.              *)
LEMMA WriteTwo ==
  ASSUME NEW s, NEW data
  PROVE  Len(data) = 2 => Write(s, data) = WriteByte(WriteByte(s, data[1]), data[2])
PROOF
  <1>1. Len(data) \in Nat =>
          \E g : /\ g[0] = s /\ Write(s, data) = g[Len(data)]
                /\ \A n \in 0..Len(data) :
                     n < Len(data) => g[n + 1] = WriteByte(g[n], data[n + 1])
    BY WriteFacts
  <1>2. ASSUME Len(data) = 2
        PROVE  Write(s, data) = WriteByte(WriteByte(s, data[1]), data[2])
    <2>1. PICK g : /\ g[0] = s /\ Write(s, data) = g[2]
                   /\ \A n \in 0..2 : n < 2 => g[n + 1] = WriteByte(g[n], data[n + 1])
      BY <1>1, <1>2
    <2>2. g[0 + 1] = WriteByte(g[0], data[0 + 1]) BY <2>1
    <2>3. g[1 + 1] = WriteByte(g[1], data[1 + 1]) BY <2>1
    <2> QED BY <2>1, <2>2, <2>3
  <1> QED BY <1>2

(* An event of the log, or the resume of one. *)
LEMMA WriteEvent ==
  ASSUME NEW s, StoreInv(s), NEW byte \in {"X", "R", "I"}, IsEOF(s) \/ HasData(s)
  PROVE  LET t == Write(s, <<byte>>)
         IN /\ StoreInv(t) /\ Later(s, t)
            /\ ~IsEOF(t) => /\ ~IsEOF(s) /\ HasData(t)
                            /\ byte = "I" \/ (byte # "R" /\ Ready(s)) => Ready(t)
PROOF
  <1>1. byte \in Byte /\ byte # "B" /\ byte # "H" /\ byte # "P" BY DEF Byte
  <1>2. HasData(s) => Top(s) # LastEnd(s)
    <2>1. Top(s) \in Int /\ LastEnd(s) \in Int
      BY StoreFields, Sizes DEF StoreInv, Sound, Journal, Address
    <2> QED BY <2>1 DEF HasData
  <1>3. ~IsEOF(s) => FitsNext(s, byte) BY <1>1, <1>2 DEF FitsNext
  <1> QED BY <1>1, <1>3, ByteThen, WriteOne

(* The first line of the header begins the log. *)
LEMMA WriteFirst ==
  ASSUME NEW s, StoreInv(s), ~IsEOF(s), Top(s) = LastEnd(s)
  PROVE  LET t == Write(s, <<"B">>)
         IN StoreInv(t) /\ Later(s, t) /\ (~IsEOF(t) => HasData(t) /\ AllHeader(t))
PROOF
  <1>1. "B" \in Byte /\ FitsNext(s, "B") BY DEF Byte, FitsNext
  <1>2. AllHeader(s)
    <2>1. Top(s) \in Int /\ Cell \subseteq Int
      BY StoreFields, Sizes DEF StoreInv, Sound, Cell
    <2> QED BY <2>1 DEF AllHeader, OnlyHeader
  <1> QED BY <1>1, <1>2, ByteThen, WriteOne

(* The header goes on for as long as it is all there is. *)
LEMMA WriteHeader ==
  ASSUME NEW s, StoreInv(s), IsEOF(s) \/ (HasData(s) /\ AllHeader(s)), NEW n \in Nat
  PROVE  LET t == Write(s, [k \in 1..n |-> "H"])
         IN StoreInv(t) /\ Later(s, t) /\ (IsEOF(t) \/ (HasData(t) /\ AllHeader(t)))
PROOF
  <1> DEFINE data == [k \in 1..n |-> "H"]
             Fine(t) == StoreInv(t) /\ Later(s, t) /\ (IsEOF(t) \/ (HasData(t) /\ AllHeader(t)))
  <1>1. Len(data) = n /\ \A k \in 1..n : data[k] = "H" OBVIOUS
  <1> HIDE DEF data
  <1>2. PICK g : /\ g[0] = s /\ Write(s, data) = g[n]
                 /\ \A k \in 0..n : k < n => g[k + 1] = WriteByte(g[k], data[k + 1])
    <2>1. Len(data) \in Nat BY <1>1
    <2>2. \E g : /\ g[0] = s /\ Write(s, data) = g[Len(data)]
                 /\ \A k \in 0..Len(data) :
                      k < Len(data) => g[k + 1] = WriteByte(g[k], data[k + 1])
      BY <2>1, WriteFacts
    <2> QED BY <1>1, <2>2
  <1> DEFINE S == {k \in 0..n : Fine(g[k])}
  <1>3. 0 \in S
    <2>1. s \in Stores BY DEF StoreInv, Sound
    <2>2. Fine(s) BY <2>1, SameSelf DEF Later
    <2> QED BY <1>2, <2>2
  <1>4. ASSUME NEW k \in 0..n, k < n, k \in S PROVE k + 1 \in S
    <2>1. g[k + 1] = WriteByte(g[k], "H")
      <3>1. k + 1 \in 1..n BY <1>4
      <3> QED BY <1>1, <1>2, <1>4, <3>1
    <2> DEFINE f == g[k]
               t == g[k + 1]
    <2>2. Fine(f) BY <1>4
    <2>3. t = WriteByte(f, "H") BY <2>1
    <2> HIDE DEF f, t
    <2>4. "H" \in Byte BY DEF Byte
    <2>5. ~IsEOF(f) => FitsNext(f, "H")
      <3>1. HasData(f) => Top(f) # LastEnd(f)
        <4>1. Top(f) \in Int /\ LastEnd(f) \in Int
          BY <2>2, StoreFields, Sizes DEF StoreInv, Sound, Journal, Address
        <4> QED BY <4>1 DEF HasData
      <3> QED BY <2>2, <3>1 DEF FitsNext
    <2>6. /\ StoreInv(t) /\ Later(f, t)
          /\ ~IsEOF(t) => ~IsEOF(f) /\ HasData(t) /\ (AllHeader(f) => AllHeader(t))
      BY <2>2, <2>3, <2>4, <2>5, ByteThen
    <2>7. Later(s, t) BY <2>2, <2>6, LaterTrans
    <2>8. Fine(t) BY <2>2, <2>6, <2>7
    <2> HIDE DEF Fine
    <2> QED BY <1>4, <2>8 DEF t
  <1>5. n \in S
    <2> HIDE DEF S
    <2>1. \A k \in 0..n : k \in S BY <1>3, <1>4, SetInduction
    <2> QED BY <2>1
  <1> QED BY <1>2, <1>5 DEF data

(* The frames of an iteration: differences after an I frame only. *)
LEMMA WriteFrames ==
  ASSUME NEW s, StoreInv(s), IsEOF(s) \/ HasData(s),
         NEW frames \in {<<"I">>, <<"P">>, <<>>, <<"X">> \o <<"P">>, <<"X">> \o <<>>},
         IsEOF(s) \/ frames = <<"I">> \/ Ready(s)
  PROVE  LET t == Write(s, frames)
         IN StoreInv(t) /\ Later(s, t) /\ (~IsEOF(t) => HasData(t) /\ Ready(t))
PROOF
  <1>0. s \in Stores BY DEF StoreInv, Sound
  <1> DEFINE two == <<"X">> \o <<"P">>
             one == <<"X">> \o <<>>
  <1>1. Len(two) = 2 /\ two[1] = "X" /\ two[2] = "P"
    OBVIOUS
  <1>8. one = <<"X">>
    OBVIOUS
  <1>2. ASSUME NEW f, StoreInv(f), IsEOF(f) \/ (HasData(f) /\ Ready(f))
        PROVE  LET t == Write(f, <<"P">>)
               IN StoreInv(t) /\ Later(f, t) /\ (~IsEOF(t) => HasData(t) /\ Ready(t))
    <2>1. "P" \in Byte BY DEF Byte
    <2>2. HasData(f) => Top(f) # LastEnd(f)
      <3>1. Top(f) \in Int /\ LastEnd(f) \in Int
        BY <1>2, StoreFields, Sizes DEF StoreInv, Sound, Journal, Address
      <3> QED BY <3>1 DEF HasData
    <2>3. ~IsEOF(f) => FitsNext(f, "P") BY <1>2, <2>2 DEF FitsNext
    <2> QED BY <1>2, <2>1, <2>3, ByteThen, WriteOne
  <1>3. CASE frames = <<"I">>
    BY <1>3, WriteEvent
  <1>4. CASE frames # <<"I">> /\ frames = <<"P">>
    BY <1>2, <1>4
  <1>5. CASE frames # <<"I">> /\ frames = <<>>
    BY <1>0, <1>5, WriteNone, SameSelf DEF Later
  <1>6. CASE frames # <<"I">> /\ frames = <<"X">>
    BY <1>6, WriteEvent
  <1> HIDE DEF two, one
  <1>7. CASE frames # <<"I">> /\ frames = two
    <2> DEFINE f == Write(s, <<"X">>)
               t == Write(f, <<"P">>)
    <2>1. /\ StoreInv(f) /\ Later(s, f)
          /\ ~IsEOF(f) => ~IsEOF(s) /\ HasData(f) /\ (Ready(s) => Ready(f))
      BY WriteEvent
    <2>2. Write(s, frames) = t BY <1>1, <1>7, WriteOne, WriteTwo
    <2> HIDE DEF f
    <2>3. IsEOF(f) \/ (HasData(f) /\ Ready(f)) BY <1>7, <2>1
    <2>4. StoreInv(t) /\ Later(f, t) /\ (~IsEOF(t) => HasData(t) /\ Ready(t))
      BY <1>2, <2>1, <2>3
    <2> HIDE DEF t
    <2>5. Later(s, t) BY <2>1, <2>4, LaterTrans
    <2> QED BY <2>2, <2>4, <2>5
  <1> QED BY <1>3, <1>4, <1>5, <1>6, <1>7, <1>8 DEF two, one

-----------------------------------------------------------------------------
(***************************************************************************)
(* The recorder's own operations, field by field.                          *)
(***************************************************************************)
LEMMA Delays ==
  /\ HeaderDelay \in Nat /\ StopDelay \in Nat /\ ShutdownDelay \in Nat /\ ShutdownDelay > 0
  /\ HeaderLengths \subseteq Nat /\ EraseStates \subseteq BetweenLogs
PROOF
  <1>1. HeaderDelay \in Nat /\ StopDelay \in Nat BY RecorderAssumption
  <1>2. ShutdownDelay \in Nat /\ ShutdownDelay > 0 BY RecorderAssumption
  <1>3. HeaderLengths \subseteq Nat /\ EraseStates \subseteq BetweenLogs BY RecorderAssumption
  <1> QED BY <1>1, <1>2, <1>3

(* The types of the recorder's fields.                                     *)
LEMMA PairFields ==
  ASSUME NEW s \in Pairs
  PROVE  /\ s.rec \in Recorders /\ s.fs \in Stores
         /\ s.rec.state \in States /\ s.rec.next \in {"SEND_SYSINFO", "RUNNING"}
         /\ s.rec.left \in Nat /\ s.rec.wait \in Nat /\ s.rec.stop \in Nat
         /\ s.rec.armed \in BOOLEAN /\ s.rec.testing \in BOOLEAN
         /\ s.rec.loopIndex \in Nat /\ s.rec.pFrameIndex \in Nat
PROOF BY DEF Pairs, Recorders

(* The store alone, or the recorder alone, is replaced. *)
LEMMA NewStore ==
  ASSUME NEW s \in Pairs, NEW f \in Stores
  PROVE  LET t == [s EXCEPT !.fs = f]
         IN t \in Pairs /\ t.rec = s.rec /\ t.fs = f
PROOF BY DEF Pairs

(* A pair with another recorder of the right type is a pair.               *)
LEMMA NewRecorder ==
  ASSUME NEW s \in Pairs, NEW r \in Recorders
  PROVE  LET t == [s EXCEPT !.rec = r]
         IN t \in Pairs /\ t.rec = r /\ t.fs = s.fs
PROOF BY DEF Pairs

(* blackboxSetState touches neither the store nor the frame counters.      *)
LEMMA SetStateFacts ==
  ASSUME NEW s \in Pairs, NEW state \in States
  PROVE  LET t == SetState(s, state)
         IN /\ t \in Pairs /\ t.fs = s.fs /\ t.rec.state = state
            /\ t.rec.next = s.rec.next /\ t.rec.left = s.rec.left /\ t.rec.stop = s.rec.stop
            /\ t.rec.armed = s.rec.armed /\ t.rec.testing = s.rec.testing
            /\ t.rec.loopIndex = s.rec.loopIndex
            /\ state = "SHUTTING_DOWN" => t.rec.wait > 0
PROOF
  <1> DEFINE delay == CASE state = "SEND_HEADER" -> HeaderDelay
                        [] state = "SHUTTING_DOWN" -> ShutdownDelay
                        [] OTHER -> 0
             r == [s.rec EXCEPT !.state = state, !.wait = delay]
  <1>1. delay \in Nat /\ (state = "SHUTTING_DOWN" => delay > 0) BY Delays
  <1>2. SetState(s, state) = [s EXCEPT !.rec.state = state, !.rec.wait = delay] BY DEF SetState
  <1> HIDE DEF delay
  <1>3. [s EXCEPT !.rec.state = state, !.rec.wait = delay] = [s EXCEPT !.rec = r]
    BY PairFields DEF Pairs
  <1>4. /\ r \in Recorders /\ r.state = state /\ r.wait = delay
        /\ r.next = s.rec.next /\ r.left = s.rec.left /\ r.stop = s.rec.stop
        /\ r.armed = s.rec.armed /\ r.testing = s.rec.testing
        /\ r.loopIndex = s.rec.loopIndex
    BY <1>1, PairFields DEF Recorders
  <1> HIDE DEF r
  <1>5. SetState(s, state) = [s EXCEPT !.rec = r] BY <1>2, <1>3, Zenon
  <1>6. /\ SetState(s, state) \in Pairs /\ SetState(s, state).rec = r
        /\ SetState(s, state).fs = s.fs
    BY <1>4, <1>5, NewRecorder
  <1> QED BY <1>1, <1>4, <1>6

(* blackboxResetIterationTimers leaves store and state alone.              *)
LEMMA ResetFacts ==
  ASSUME NEW s \in Pairs
  PROVE  LET t == ResetIterationTimers(s)
         IN /\ t \in Pairs /\ t.fs = s.fs /\ t.rec.state = s.rec.state
            /\ t.rec.loopIndex = 0 /\ t.rec.testing = s.rec.testing
PROOF
  <1> DEFINE r == [s.rec EXCEPT !.loopIndex = 0, !.pFrameIndex = 0]
  <1>1. ResetIterationTimers(s) = [s EXCEPT !.rec = r]
    BY PairFields DEF ResetIterationTimers, Pairs
  <1>2. r \in Recorders /\ r.state = s.rec.state /\ r.loopIndex = 0 /\ r.testing = s.rec.testing
    BY PairFields DEF Recorders
  <1> HIDE DEF r
  <1> QED BY <1>1, <1>2, NewRecorder

(* blackboxAdvanceIterationTimers leaves store and state alone.            *)
LEMMA AdvanceFacts ==
  ASSUME NEW s \in Pairs
  PROVE  LET t == AdvanceIterationTimers(s)
         IN t \in Pairs /\ t.fs = s.fs /\ t.rec.state = s.rec.state
PROOF
  <1> DEFINE p == [s.rec EXCEPT !.loopIndex = s.rec.loopIndex + 1, !.pFrameIndex = 0]
             q == [s.rec EXCEPT !.loopIndex = s.rec.loopIndex + 1,
                                !.pFrameIndex = s.rec.pFrameIndex + 1]
  <1>1. /\ [s EXCEPT !.rec.loopIndex = @ + 1, !.rec.pFrameIndex = 0] = [s EXCEPT !.rec = p]
        /\ [s EXCEPT !.rec.loopIndex = @ + 1, !.rec.pFrameIndex = @ + 1] = [s EXCEPT !.rec = q]
    BY PairFields DEF Pairs, Recorders
  <1>2. AdvanceIterationTimers(s) \in
          {ResetIterationTimers(s), [s EXCEPT !.rec = p], [s EXCEPT !.rec = q]}
    <2> HIDE DEF p, q
    <2> QED BY <1>1, Zenon DEF AdvanceIterationTimers
  <1>3. s.rec \in Recorders /\ s.rec.loopIndex + 1 \in Nat /\ s.rec.pFrameIndex + 1 \in Nat
    BY PairFields
  <1>4. p \in Recorders /\ p.state = s.rec.state BY <1>3 DEF Recorders
  <1>5. q \in Recorders /\ q.state = s.rec.state BY <1>3 DEF Recorders
  <1> HIDE DEF p, q
  <1>6. CASE AdvanceIterationTimers(s) = ResetIterationTimers(s) BY <1>6, ResetFacts
  <1>7. CASE AdvanceIterationTimers(s) = [s EXCEPT !.rec = p] BY <1>4, <1>7, NewRecorder
  <1>8. CASE AdvanceIterationTimers(s) = [s EXCEPT !.rec = q] BY <1>5, <1>8, NewRecorder
  <1> QED BY <1>2, <1>6, <1>7, <1>8

(* Fields that neither the store nor the phase depends on. *)
LEMMA NewLeft ==
  ASSUME NEW s \in Pairs, NEW x \in Nat
  PROVE  LET t == [s EXCEPT !.rec.left = x]
         IN /\ t \in Pairs /\ t.fs = s.fs /\ t.rec.state = s.rec.state
            /\ t.rec.loopIndex = s.rec.loopIndex
PROOF BY PairFields DEF Pairs, Recorders

(* Another time to wait leaves store and state alone.                      *)
LEMMA NewWait ==
  ASSUME NEW s \in Pairs, NEW x \in Nat
  PROVE  LET t == [s EXCEPT !.rec.wait = x]
         IN /\ t \in Pairs /\ t.fs = s.fs /\ t.rec.state = s.rec.state
            /\ t.rec.loopIndex = s.rec.loopIndex
PROOF BY PairFields DEF Pairs, Recorders

(* Another time to stop leaves store and state alone.                      *)
LEMMA NewStop ==
  ASSUME NEW s \in Pairs, NEW x \in Nat
  PROVE  LET t == [s EXCEPT !.rec.stop = x]
         IN /\ t \in Pairs /\ t.fs = s.fs /\ t.rec.state = s.rec.state
            /\ t.rec.loopIndex = s.rec.loopIndex /\ t.rec.wait = s.rec.wait
PROOF BY PairFields DEF Pairs, Recorders

(* Another armed flag leaves store and state alone.                        *)
LEMMA NewArmed ==
  ASSUME NEW s \in Pairs, NEW x \in BOOLEAN
  PROVE  LET t == [s EXCEPT !.rec.armed = x]
         IN /\ t \in Pairs /\ t.fs = s.fs /\ t.rec.state = s.rec.state
            /\ t.rec.loopIndex = s.rec.loopIndex /\ t.rec.wait = s.rec.wait
PROOF BY PairFields DEF Pairs, Recorders

(* Another motor test flag leaves store and state alone.                   *)
LEMMA NewTesting ==
  ASSUME NEW s \in Pairs, NEW x \in BOOLEAN
  PROVE  LET t == [s EXCEPT !.rec.testing = x]
         IN /\ t \in Pairs /\ t.fs = s.fs /\ t.rec.state = s.rec.state
            /\ t.rec.loopIndex = s.rec.loopIndex /\ t.rec.wait = s.rec.wait
PROOF BY PairFields DEF Pairs, Recorders

(* Another section to come leaves store and state alone.                   *)
LEMMA NewNext ==
  ASSUME NEW s \in Pairs, NEW x \in {"SEND_SYSINFO", "RUNNING"}
  PROVE  LET t == [s EXCEPT !.rec.next = x]
         IN /\ t \in Pairs /\ t.fs = s.fs /\ t.rec.state = s.rec.state
            /\ t.rec.loopIndex = s.rec.loopIndex
PROOF BY PairFields DEF Pairs, Recorders

(* What the invariant says depends on the state, the index and the store. *)
LEMMA PhaseKeeps ==
  ASSUME NEW s, PairInv(s), NEW t \in Pairs, t.fs = s.fs, t.rec.state = s.rec.state,
         t.rec.loopIndex = s.rec.loopIndex
  PROVE  PairInv(t) /\ (t.rec.wait = s.rec.wait /\ Boundary(s) => Boundary(t))
PROOF BY DEF PairInv, Phase, Boundary

(* A store that does nothing is a later store.                             *)
LEMMA LaterSelf ==
  ASSUME NEW s, StoreInv(s)
  PROVE  Later(s, s)
PROOF BY SameSelf DEF Later, StoreInv, Sound

-----------------------------------------------------------------------------
(* An event is logged in a recording, and keeps the invariant. *)
LEMMA LogEventFacts ==
  ASSUME NEW s, PairInv(s), NEW event \in {"X", "R"}
  PROVE  LET t == LogEvent(s, event)
         IN /\ t \in Pairs /\ t.rec = s.rec /\ StoreInv(t.fs) /\ Later(s.fs, t.fs)
            /\ event = "X" => PairInv(t)
            /\ s.rec.state \in {"RUNNING", "PAUSED"} /\ ~IsEOF(t.fs) => HasData(t.fs)
            /\ s.rec.state \notin {"RUNNING", "PAUSED"} => t = s
PROOF
  <1> DEFINE t == LogEvent(s, event)
  <1>0. s \in Pairs /\ StoreInv(s.fs) BY DEF PairInv
  <1>1. CASE ~IsRecording(s)
    <2>1. t = s BY <1>1 DEF LogEvent
    <2>2. s.rec.state \notin {"RUNNING", "PAUSED"} BY <1>1 DEF IsRecording
    <2> QED BY <1>0, <2>1, <2>2, LaterSelf
  <1>2. CASE IsRecording(s)
    <2>1. s.rec.state \in {"RUNNING", "PAUSED"} BY <1>2 DEF IsRecording
    <2> DEFINE f == Write(s.fs, <<event>>)
    <2>2. IsEOF(s.fs) \/ HasData(s.fs) BY <2>1 DEF PairInv, Phase
    <2>3. /\ StoreInv(f) /\ Later(s.fs, f)
          /\ ~IsEOF(f) => /\ ~IsEOF(s.fs) /\ HasData(f)
                          /\ event # "R" /\ Ready(s.fs) => Ready(f)
      BY <1>0, <2>2, WriteEvent
    <2>4. t = [s EXCEPT !.fs = f] BY <1>2 DEF LogEvent, Record
    <2> HIDE DEF f, t
    <2>5. f \in Stores BY <2>3 DEF StoreInv, Sound
    <2>6. t \in Pairs /\ t.rec = s.rec /\ t.fs = f BY <1>0, <2>4, <2>5, NewStore
    <2>7. ASSUME event = "X" PROVE PairInv(t)
      <3> SUFFICES ASSUME ~IsEOF(t.fs) PROVE Phase(t)
        BY <2>3, <2>6 DEF PairInv
      <3>1. ~IsEOF(s.fs) /\ HasData(t.fs) /\ (Ready(s.fs) => Ready(t.fs))
        BY <2>3, <2>6, <2>7
      <3>2. t.rec.state \in {"RUNNING", "PAUSED"} /\ t.rec.loopIndex = s.rec.loopIndex
        BY <2>1, <2>6
      <3>3. t.rec.state \notin BetweenLogs \cup InHeader \cup {"PREPARE_LOG_FILE", "SEND_HEADER"}
        BY <3>2 DEF BetweenLogs, InHeader
      <3>4. t.rec.state = "RUNNING" /\ t.rec.loopIndex # 0 => Ready(t.fs)
        BY <2>6, <3>1 DEF PairInv, Phase
      <3> QED BY <3>1, <3>3, <3>4 DEF Phase
    <2> QED BY <2>1, <2>3, <2>6, <2>7 DEF t
  <1> QED BY <1>1, <1>2

(* Finishing leaves the log to be closed by the shutdown. *)
LEMMA FinishFacts ==
  ASSUME NEW s, PairInv(s)
  PROVE  LET t == Finish(s)
         IN /\ PairInv(t) /\ Later(s.fs, t.fs)
            /\ t.rec.state \in {s.rec.state, "SHUTTING_DOWN"}
            /\ Boundary(s) => Boundary(t)
            /\ s.rec.state \in {"STOPPED", "DISABLED", "SHUTTING_DOWN"} => t = s
            /\ s.rec.state \notin {"RUNNING", "PAUSED"} => t.fs = s.fs
PROOF
  <1>1. CASE s.rec.state \in {"DISABLED", "STOPPED", "SHUTTING_DOWN"}
    <2>1. Finish(s) = s BY <1>1 DEF Finish
    <2> QED BY <2>1, LaterSelf DEF PairInv
  <1>2. CASE s.rec.state \notin {"DISABLED", "STOPPED", "SHUTTING_DOWN"}
    <2> DEFINE u == LogEvent(s, "X")
               t == Finish(s)
    <2>1. /\ PairInv(u) /\ u.rec = s.rec /\ Later(s.fs, u.fs)
          /\ s.rec.state \notin {"RUNNING", "PAUSED"} => u = s
      BY LogEventFacts
    <2>2. t = SetState(u, "SHUTTING_DOWN") BY <1>2 DEF Finish
    <2> HIDE DEF u, t
    <2>3. "SHUTTING_DOWN" \in States BY DEF States
    <2>4. t \in Pairs /\ t.fs = u.fs /\ t.rec.state = "SHUTTING_DOWN" /\ t.rec.wait > 0
      BY <2>1, <2>2, <2>3, SetStateFacts DEF PairInv
    <2>5. PairInv(t) BY <2>1, <2>4 DEF PairInv, Phase, BetweenLogs, InHeader
    <2> QED BY <1>2, <2>1, <2>4, <2>5 DEF Boundary, t
  <1> QED BY <1>1, <1>2

(* The change of the arming, and the end asked for by an earlier one. *)
LEMMA UpdateArmedFacts ==
  ASSUME NEW s, PairInv(s), Boundary(s)
  PROVE  LET t == UpdateArmed(s)
         IN /\ PairInv(t) /\ Midway(t) /\ Later(s.fs, t.fs)
            /\ t.rec.state \in {s.rec.state, "SHUTTING_DOWN"}
PROOF
  <1> DEFINE p == StopLogging(s)
             t == UpdateArmed(s)
  <1>1. /\ PairInv(p) /\ Boundary(p) /\ Later(s.fs, p.fs)
        /\ p.rec.state \in {s.rec.state, "SHUTTING_DOWN"}
    <2>0. s \in Pairs /\ StoreInv(s.fs) BY DEF PairInv
    <2>1. CASE s.rec.stop = 0
      <3>1. p = s BY <2>1 DEF StopLogging
      <3> QED BY <2>0, <3>1, LaterSelf
    <2>2. CASE s.rec.stop = 1
      <3> DEFINE u == Finish(s)
      <3>1. /\ PairInv(u) /\ Later(s.fs, u.fs)
            /\ u.rec.state \in {s.rec.state, "SHUTTING_DOWN"} /\ Boundary(u)
        BY FinishFacts
      <3>2. p = [u EXCEPT !.rec.stop = 0] BY <2>2 DEF StopLogging
      <3> HIDE DEF u, p
      <3>3. u \in Pairs BY <3>1 DEF PairInv
      <3>4. /\ p \in Pairs /\ p.fs = u.fs /\ p.rec.state = u.rec.state
            /\ p.rec.loopIndex = u.rec.loopIndex /\ p.rec.wait = u.rec.wait
        BY <3>2, <3>3, NewStop
      <3>5. PairInv(p) /\ Boundary(p) BY <3>1, <3>4, PhaseKeeps
      <3> QED BY <3>1, <3>4, <3>5
    <2>3. CASE s.rec.stop # 0 /\ s.rec.stop # 1
      <3>1. s.rec.stop - 1 \in Nat BY <2>0, <2>3, PairFields
      <3> DEFINE n == s.rec.stop - 1
      <3>2. p = [s EXCEPT !.rec.stop = n] BY <2>3 DEF StopLogging
      <3> HIDE DEF n, p
      <3>3. n \in Nat BY <3>1 DEF n
      <3>4. /\ p \in Pairs /\ p.fs = s.fs /\ p.rec.state = s.rec.state
            /\ p.rec.loopIndex = s.rec.loopIndex /\ p.rec.wait = s.rec.wait
        BY <2>0, <3>2, <3>3, NewStop
      <3>5. PairInv(p) /\ Boundary(p) BY <3>4, PhaseKeeps
      <3> QED BY <2>0, <3>4, <3>5, LaterSelf
    <2> QED BY <2>1, <2>2, <2>3
  <1>2. \/ t = p
        \/ t = [p EXCEPT !.rec.armed = TRUE]
        \/ t = [LogEvent([p EXCEPT !.rec.armed = FALSE], "X") EXCEPT !.rec.stop = StopDelay + 1]
    <2> HIDE DEF p
    <2> QED BY Zenon DEF UpdateArmed, p
  <1> HIDE DEF p, t
  <1>3. p \in Pairs BY <1>1 DEF PairInv
  <1>4. CASE t = p BY <1>1, <1>4 DEF t, Midway
  <1>5. CASE t = [p EXCEPT !.rec.armed = TRUE]
    <2>1. /\ t \in Pairs /\ t.fs = p.fs /\ t.rec.state = p.rec.state
          /\ t.rec.loopIndex = p.rec.loopIndex /\ t.rec.wait = p.rec.wait
      BY <1>3, <1>5, NewArmed
    <2>2. PairInv(t) /\ Boundary(t) BY <1>1, <2>1, PhaseKeeps
    <2> QED BY <1>1, <2>1, <2>2 DEF t, Midway
  <1>6. CASE t = [LogEvent([p EXCEPT !.rec.armed = FALSE], "X") EXCEPT !.rec.stop = StopDelay + 1]
    <2> DEFINE q == [p EXCEPT !.rec.armed = FALSE]
               u == LogEvent(q, "X")
               n == StopDelay + 1
    <2>1. /\ q \in Pairs /\ q.fs = p.fs /\ q.rec.state = p.rec.state
          /\ q.rec.loopIndex = p.rec.loopIndex /\ q.rec.wait = p.rec.wait
      BY <1>3, NewArmed
    <2>2. t = [u EXCEPT !.rec.stop = n] BY <1>6
    <2>3. n \in Nat BY Delays
    <2> HIDE DEF q, n
    <2>4. PairInv(q) /\ Boundary(q) BY <1>1, <2>1, PhaseKeeps
    <2>5. /\ PairInv(u) /\ u.rec = q.rec /\ Later(q.fs, u.fs)
          /\ q.rec.state \notin {"RUNNING", "PAUSED"} => u = q
      BY <2>4, LogEventFacts
    <2> HIDE DEF u
    <2>6. u \in Pairs BY <2>5 DEF PairInv
    <2>7. /\ t \in Pairs /\ t.fs = u.fs /\ t.rec.state = u.rec.state
          /\ t.rec.loopIndex = u.rec.loopIndex /\ t.rec.wait = u.rec.wait
      BY <2>2, <2>3, <2>6, NewStop
    <2>8. PairInv(t) BY <2>5, <2>7, PhaseKeeps
    <2>9. Midway(t)
      <3>1. CASE t.rec.state \in {"RUNNING", "PAUSED"} BY <3>1 DEF Midway
      <3>2. CASE t.rec.state \notin {"RUNNING", "PAUSED"}
        <4>1. u = q BY <2>5, <2>7, <3>2
        <4> QED BY <2>4, <2>7, <4>1 DEF Midway, Boundary
      <3> QED BY <3>1, <3>2
    <2>10. Later(s.fs, t.fs)
      <3>1. StoreInv(s.fs) /\ StoreInv(p.fs) /\ StoreInv(t.fs) BY <1>1, <2>8 DEF PairInv
      <3>2. Later(p.fs, t.fs) BY <2>1, <2>5, <2>7
      <3> QED BY <1>1, <3>1, <3>2, LaterTrans
    <2> QED BY <1>1, <2>1, <2>5, <2>7, <2>8, <2>9, <2>10 DEF t
  <1> QED BY <1>2, <1>4, <1>5, <1>6

-----------------------------------------------------------------------------
(* An erased store. *)
LEMMA BlankFacts ==
  /\ StoreInv(Blank) /\ ~IsEOF(Blank) /\ Top(Blank) = LastEnd(Blank) /\ Blank.journalIdx = 0
  /\ Top(Blank) = 0
PROOF
  <1>1. /\ Blank.cell = [a \in Cell |-> Erased] /\ Blank.address = 0 /\ Blank.journalIdx = 0
        /\ Blank.begin = [i \in Item |-> None] /\ Blank.end = [i \in Item |-> None]
        /\ Blank.buffer = <<>>
    BY DEF Blank
  <1>2. Blank \in Stores
    <2>1. <<>> \in Seq(Byte) /\ 0 \in Address /\ 0 \in 0..Items BY Sizes DEF Address
    <2>2. Blank.cell \in [Cell -> Byte \cup {Erased, Mixed}] BY <1>1
    <2>3. Blank.begin \in [Item -> Address \cup {None}] /\ Blank.end \in [Item -> Address \cup {None}]
      BY <1>1
    <2> QED BY <1>1, <2>1, <2>2, <2>3 DEF Stores, Blank
  <1>3. Top(Blank) = 0 /\ LastEnd(Blank) = 0
    <2>1. LastEnd(Blank) = 0 BY <1>1 DEF LastEnd
    <2> QED BY <1>1, <1>2, <2>1, EmptyBuffer
  <1>4. ~IsEOF(Blank) BY <1>1, Sizes DEF IsEOF
  <1>5. Journal(Blank)
    <2>1. \A i \in Item : ~(i < 0) BY Sizes DEF Item
    <2>2. 0 \in Address BY Sizes DEF Address
    <2> QED BY <1>1, <1>3, <2>1, <2>2 DEF Journal
  <1>6. LogsGood(Blank)
    <2>1. \A i \in Item : ~(i < 0) BY Sizes DEF Item
    <2> QED BY <1>1, <2>1 DEF LogsGood
  <1>7. ErasedFrom(Blank.cell, Blank.address, Cells) BY <1>1 DEF ErasedFrom
  <1>8. Decodable(Image(Blank), LastEnd(Blank), Top(Blank))
    BY <1>3, Sizes DEF Decodable, Cell
  <1>9. Top(Blank) < Cells BY <1>3, Sizes
  <1>10. Sound(Blank)
    <2>1. Top(Blank) <= Cells BY <1>3, Sizes
    <2> QED BY <1>2, <1>5, <1>6, <1>7, <1>8, <2>1 DEF Sound
  <1> QED BY <1>1, <1>3, <1>4, <1>9, <1>10 DEF StoreInv

(* An erased store is a blank one, if its buffer was empty.                *)
LEMMA EraseFacts ==
  ASSUME NEW s \in Stores, s.buffer = <<>>
  PROVE  EraseCompletely(s) = Blank
PROOF
  <1>1. /\ Blank.cell = [a \in Cell |-> Erased] /\ Blank.address = 0 /\ Blank.journalIdx = 0
        /\ Blank.begin = [i \in Item |-> None] /\ Blank.end = [i \in Item |-> None]
        /\ Blank.buffer = <<>>
    BY DEF Blank
  <1>2. [Blank EXCEPT !.buffer = s.buffer] = Blank BY DEF Blank
  <1> DEFINE S == {i \in Item : Blank.end[i] = None} \union {Items}
  <1>3. Least(S) = 0
    <2>1. 0 \in S BY <1>1, Sizes DEF Item
    <2>2. S \subseteq Nat BY Sizes DEF Item
    <2>3. \A k \in S : 0 <= k BY <2>2
    <2> HIDE DEF S
    <2> QED BY <2>1, <2>2, <2>3, LeastIs
  <1>4. [Blank EXCEPT !.journalIdx = 0, !.address = 0] = Blank
    <2>1. Blank \in Stores BY BlankFacts DEF StoreInv, Sound
    <2> QED BY <1>1, <2>1 DEF Stores
  <1>5. Mount(Blank) = JournalFix(Blank) BY <1>3, <1>4 DEF Mount
  <1>6. OpenItems(Blank) = {} BY <1>1 DEF OpenItems
  <1>7. JournalFix(Blank) = Blank BY <1>6 DEF JournalFix
  <1> QED BY <1>2, <1>5, <1>7 DEF EraseCompletely

(* Nothing waits in the buffer between two logs. *)
LEMMA NothingWaits ==
  ASSUME NEW s, StoreInv(s), IsEOF(s) \/ Top(s) = LastEnd(s)
  PROVE  s.buffer = <<>> /\ Top(s) = s.address /\ s.address = LastEnd(s)
PROOF
  <1>1. s \in Stores /\ Top(s) = LastEnd(s) BY DEF StoreInv, Sound
  <1>2. LastEnd(s) \in Int /\ LastEnd(s) <= s.address
    BY Sizes DEF StoreInv, Sound, Journal, Address
  <1>3. s.address \in Int /\ s.address <= Top(s) /\ Top(s) = s.address + Len(s.buffer)
        /\ Len(s.buffer) \in Nat
    BY <1>1, StoreFields DEF Top
  <1>4. Top(s) = s.address /\ Len(s.buffer) = 0 BY <1>1, <1>2, <1>3
  <1>5. Len(s.buffer) = 0 => s.buffer = <<>> BY <1>1, StoreFields
  <1> QED BY <1>1, <1>4, <1>5

(* Between logs blackboxEraseAll leaves a blank store, a stopped recorder. *)
LEMMA EraseAllFacts ==
  ASSUME NEW s, PairInv(s), IsEOF(s.fs) \/ Top(s.fs) = LastEnd(s.fs)
  PROVE  LET t == EraseAll(s)
         IN t \in Pairs /\ t.fs = Blank /\ t.rec.state = "STOPPED"
PROOF
  <1> DEFINE p == ResetIterationTimers(s)
             q == SetState(p, "STOPPED")
             f == EraseCompletely(q.fs)
  <1>1. s \in Pairs BY DEF PairInv
  <1>2. p \in Pairs /\ p.fs = s.fs BY <1>1, ResetFacts
  <1>3. "STOPPED" \in States BY DEF States
  <1> HIDE DEF p
  <1>4. q \in Pairs /\ q.fs = s.fs /\ q.rec.state = "STOPPED" BY <1>2, <1>3, SetStateFacts
  <1>5. EraseAll(s) = [q EXCEPT !.fs = f] BY DEF EraseAll, p
  <1> HIDE DEF q
  <1>6. f = Blank
    <2>1. q.fs \in Stores /\ q.fs.buffer = <<>>
      BY <1>4, NothingWaits DEF PairInv, StoreInv, Sound
    <2> QED BY <2>1, EraseFacts
  <1> HIDE DEF f
  <1>7. f \in Stores BY <1>6, BlankFacts DEF StoreInv, Sound
  <1> QED BY <1>4, <1>5, <1>6, <1>7, NewStore

-----------------------------------------------------------------------------
(* A state between logs may be entered when nothing waits, the shutdown at *)
(* any time.                                                               *)
LEMMA EnterBetween ==
  ASSUME NEW s \in Pairs, StoreInv(s.fs), IsEOF(s.fs) \/ Top(s.fs) = LastEnd(s.fs),
         NEW state \in {"DISABLED", "STOPPED", "START_ERASE", "ERASING", "ERASED"}
  PROVE  LET t == SetState(s, state)
         IN PairInv(t) /\ t.fs = s.fs /\ t.rec.state = state
PROOF
  <1>1. state \in States BY DEF States
  <1>2. /\ SetState(s, state) \in Pairs /\ SetState(s, state).fs = s.fs
        /\ SetState(s, state).rec.state = state
    BY <1>1, SetStateFacts
  <1> QED BY <1>2 DEF PairInv, Phase, InHeader

(* blackboxStart: a log file is prepared unless the store is full. *)
LEMMA StartFacts ==
  ASSUME NEW s, PairInv(s), s.rec.state = "STOPPED"
  PROVE  LET t == Start(s)
         IN /\ PairInv(t) /\ t.fs = s.fs
            /\ t.rec.state = IF IsEOF(s.fs) THEN "DISABLED" ELSE "PREPARE_LOG_FILE"
PROOF
  <1>0. s \in Pairs /\ StoreInv(s.fs) /\ (IsEOF(s.fs) \/ Top(s.fs) = LastEnd(s.fs))
    BY DEF PairInv, Phase, BetweenLogs
  <1>1. CASE IsEOF(s.fs)
    <2>1. Start(s) = SetState(s, "DISABLED") BY <1>1 DEF Start
    <2> QED BY <1>0, <1>1, <2>1, EnterBetween
  <1>2. CASE ~IsEOF(s.fs)
    <2> DEFINE p == ResetIterationTimers(s)
               t == SetState(p, "PREPARE_LOG_FILE")
    <2>1. p \in Pairs /\ p.fs = s.fs /\ p.rec.loopIndex = 0 BY <1>0, ResetFacts
    <2>2. Start(s) = t BY <1>2 DEF Start
    <2> HIDE DEF p
    <2>3. "PREPARE_LOG_FILE" \in States BY DEF States
    <2>4. t \in Pairs /\ t.fs = s.fs /\ t.rec.state = "PREPARE_LOG_FILE" /\ t.rec.loopIndex = 0
      BY <2>1, <2>3, SetStateFacts
    <2> HIDE DEF t
    <2>5. PairInv(t) BY <1>0, <1>2, <2>4 DEF PairInv, Phase, InHeader
    <2> QED BY <1>2, <2>2, <2>4, <2>5
  <1> QED BY <1>1, <1>2

-----------------------------------------------------------------------------
(***************************************************************************)
(* The states of the machine.                                              *)
(***************************************************************************)
LEMMA StoppedKeeps ==
  ASSUME NEW s, PairInv(s), s.rec.state = "STOPPED", NEW u \in Stopped(s)
  PROVE  PairInv(u) /\ Changes(s, u)
PROOF
  <1> DEFINE t == IF s.rec.armed THEN Start(s) ELSE s
  <1>1. PairInv(t) /\ t.fs = s.fs BY StartFacts
  <1>2. u = SetState(t, "START_ERASE") \/ u = t BY DEF Stopped
  <1> HIDE DEF t
  <1>3. StoreInv(s.fs) /\ (IsEOF(s.fs) \/ Top(s.fs) = LastEnd(s.fs))
    BY DEF PairInv, Phase, BetweenLogs
  <1>4. PairInv(u) /\ u.fs = s.fs
    <2>1. CASE u = t BY <1>1, <2>1
    <2>2. CASE u = SetState(t, "START_ERASE")
      <3>1. t \in Pairs BY <1>1 DEF PairInv
      <3> QED BY <1>1, <1>3, <2>2, <3>1, EnterBetween
    <2> QED BY <1>2, <2>1, <2>2
  <1> QED BY <1>3, <1>4, LaterSelf DEF Changes

(* The pause before the header is begun keeps the invariant.               *)
LEMMA PrepareKeeps ==
  ASSUME NEW s, PairInv(s), ~IsEOF(s.fs), s.rec.state = "PREPARE_LOG_FILE"
  PROVE  LET u == SetState(s, "SEND_HEADER")
         IN PairInv(u) /\ Changes(s, u)
PROOF
  <1> DEFINE u == SetState(s, "SEND_HEADER")
  <1>0. s \in Pairs /\ StoreInv(s.fs) /\ Phase(s) BY DEF PairInv
  <1>1. "SEND_HEADER" \in States BY DEF States
  <1>2. u \in Pairs /\ u.fs = s.fs /\ u.rec.state = "SEND_HEADER" /\ u.rec.loopIndex = s.rec.loopIndex
    BY <1>0, <1>1, SetStateFacts
  <1> HIDE DEF u
  <1>3. PairInv(u) BY <1>0, <1>2 DEF PairInv, Phase, BetweenLogs, InHeader
  <1>4. Changes(s, u) BY <1>0, <1>2, LaterSelf DEF Changes
  <1> QED BY <1>3, <1>4 DEF u

(* A section of the header is entered with its length. *)
LEMMA EnterSectionKeeps ==
  ASSUME NEW s \in Pairs, StoreInv(s.fs), s.rec.loopIndex = 0,
         IsEOF(s.fs) \/ (HasData(s.fs) /\ AllHeader(s.fs)),
         NEW state \in {"SEND_FIELD_HEADERS", "SEND_SYSINFO"}, NEW u \in EnterSection(s, state)
  PROVE  PairInv(u) /\ u.fs = s.fs
PROOF
  <1>1. PICK n \in HeaderLengths : u = [SetState(s, state) EXCEPT !.rec.left = n]
    BY DEF EnterSection
  <1> DEFINE t == SetState(s, state)
  <1>2. state \in States /\ n \in Nat
    <2>1. n \in Nat BY <1>1, Delays
    <2> QED BY <2>1 DEF States
  <1>3. t \in Pairs /\ t.fs = s.fs /\ t.rec.state = state /\ t.rec.loopIndex = 0
    BY <1>2, SetStateFacts
  <1>4. u = [t EXCEPT !.rec.left = n] BY <1>1
  <1> HIDE DEF t
  <1>5. u \in Pairs /\ u.fs = s.fs /\ u.rec.state = state /\ u.rec.loopIndex = 0
    BY <1>2, <1>3, <1>4, NewLeft
  <1> QED BY <1>5 DEF PairInv, Phase, BetweenLogs, InHeader

(* The first piece of the header, which begins the log, keeps it.          *)
LEMMA SendHeaderKeeps ==
  ASSUME NEW s, PairInv(s), ~IsEOF(s.fs), s.rec.state = "SEND_HEADER", NEW u \in SendHeader(s)
  PROVE  PairInv(u) /\ Changes(s, u)
PROOF
  <1>0. /\ s \in Pairs /\ StoreInv(s.fs) /\ Top(s.fs) = LastEnd(s.fs) /\ s.rec.loopIndex = 0
    BY DEF PairInv, Phase, BetweenLogs
  <1>1. CASE s.rec.wait > 0
    <2> DEFINE n == s.rec.wait - 1
    <2>1. u = [s EXCEPT !.rec.wait = n] BY <1>1 DEF SendHeader
    <2>2. n \in Nat BY <1>0, <1>1, PairFields
    <2> HIDE DEF n
    <2>3. /\ u \in Pairs /\ u.fs = s.fs /\ u.rec.state = s.rec.state
          /\ u.rec.loopIndex = s.rec.loopIndex
      BY <1>0, <2>1, <2>2, NewWait
    <2>4. PairInv(u) BY <2>3, PhaseKeeps
    <2> QED BY <1>0, <2>3, <2>4, LaterSelf DEF Changes
  <1>2. CASE ~(s.rec.wait > 0)
    <2> DEFINE f == Write(s.fs, <<"B">>)
               t == Record(s, <<"B">>)
    <2>1. StoreInv(f) /\ Later(s.fs, f) /\ (~IsEOF(f) => HasData(f) /\ AllHeader(f))
      BY <1>0, WriteFirst
    <2>2. u \in EnterSection(t, "SEND_FIELD_HEADERS") BY <1>2 DEF SendHeader
    <2>3. t = [s EXCEPT !.fs = f] BY DEF Record
    <2> HIDE DEF f, t
    <2>4. t \in Pairs /\ t.rec = s.rec /\ t.fs = f
      <3>1. f \in Stores BY <2>1 DEF StoreInv, Sound
      <3> QED BY <1>0, <2>3, <3>1, NewStore
    <2>5. PairInv(u) /\ u.fs = f BY <1>0, <2>1, <2>2, <2>4, EnterSectionKeeps
    <2> QED BY <2>1, <2>5 DEF Changes
  <1> QED BY <1>1, <1>2

(* A piece of the header, and the flush after the last. *)
LEMMA SendPieceKeeps ==
  ASSUME NEW s, PairInv(s), ~IsEOF(s.fs), s.rec.state \in {"SEND_FIELD_HEADERS", "SEND_SYSINFO"},
         NEW next \in {"SEND_SYSINFO", "RUNNING"}, NEW u \in SendPiece(s, next)
  PROVE  PairInv(u) /\ Changes(s, u)
PROOF
  <1>0. /\ s \in Pairs /\ StoreInv(s.fs) /\ HasData(s.fs) /\ AllHeader(s.fs) /\ s.rec.loopIndex = 0
    BY DEF PairInv, Phase, InHeader
  <1> DEFINE n == IF s.rec.left < Chunk THEN s.rec.left ELSE Chunk
             f == Write(s.fs, [k \in 1..n |-> "H"])
             p == Record(s, [k \in 1..n |-> "H"])
             rest == s.rec.left - n
             sent == [p EXCEPT !.rec.left = rest]
             told == [sent EXCEPT !.rec.next = next]
             over == SetState(told, "CACHE_FLUSH")
  <1>1. n \in Nat /\ rest \in Nat BY <1>0, PairFields, Sizes
  <1>2. p = [s EXCEPT !.fs = f] BY DEF Record
  <1>3. sent = [p EXCEPT !.rec.left = @ - n]
    <2>1. p.rec.left = s.rec.left
      <3>1. p.rec = s.rec BY <1>0, <1>2 DEF Pairs
      <3> QED BY <3>1
    <2> QED BY <2>1
  <1>4. u = sent \/ u = over BY <1>3 DEF SendPiece, FlushThen
  <1> HIDE DEF n
  <1>5. StoreInv(f) /\ Later(s.fs, f) /\ (IsEOF(f) \/ (HasData(f) /\ AllHeader(f)))
    BY <1>0, <1>1, WriteHeader
  <1> HIDE DEF f, p, rest
  <1>6. p \in Pairs /\ p.rec = s.rec /\ p.fs = f
    <2>1. f \in Stores BY <1>5 DEF StoreInv, Sound
    <2> QED BY <1>0, <1>2, <2>1, NewStore
  <1>7. /\ sent \in Pairs /\ sent.fs = f /\ sent.rec.state = s.rec.state /\ sent.rec.loopIndex = 0
    BY <1>0, <1>1, <1>6, NewLeft
  <1> HIDE DEF sent
  <1>8. /\ told \in Pairs /\ told.fs = f /\ told.rec.loopIndex = 0
    BY <1>7, NewNext
  <1> HIDE DEF told
  <1>9. /\ over \in Pairs /\ over.fs = f /\ over.rec.state = "CACHE_FLUSH" /\ over.rec.loopIndex = 0
    <2>1. "CACHE_FLUSH" \in States BY DEF States
    <2> QED BY <1>8, <2>1, SetStateFacts
  <1> HIDE DEF over
  <1>10. CASE u = sent
    BY <1>5, <1>7, <1>10 DEF PairInv, Phase, BetweenLogs, InHeader, Changes
  <1>11. CASE u = over
    BY <1>5, <1>9, <1>11 DEF PairInv, Phase, BetweenLogs, InHeader, Changes
  <1> QED BY <1>4, <1>10, <1>11

(* What a flush leaves of the log is what was there. *)
LEMMA FlushFlags ==
  ASSUME NEW s, StoreInv(s)
  PROVE  LET t == FlushAsync(s)
         IN /\ StoreInv(t) /\ Later(s, t) /\ (IsEOF(t) <=> IsEOF(s))
            /\ (HasData(t) <=> HasData(s)) /\ (AllHeader(t) <=> AllHeader(s)) /\ (Ready(t) <=> Ready(s))
PROOF BY FlushKeeps DEF Later, HasData, AllHeader, Ready

(* Waiting for the header to reach the flash keeps it.                     *)
LEMMA CacheFlushKeeps ==
  ASSUME NEW s, PairInv(s), ~IsEOF(s.fs), s.rec.state = "CACHE_FLUSH", NEW u \in CacheFlush(s)
  PROVE  PairInv(u) /\ Changes(s, u)
PROOF
  <1>0. /\ s \in Pairs /\ StoreInv(s.fs) /\ HasData(s.fs) /\ AllHeader(s.fs) /\ s.rec.loopIndex = 0
    BY DEF PairInv, Phase, InHeader
  <1> DEFINE f == FlushAsync(s.fs)
             flushed == [s EXCEPT !.fs = f]
  <1>1. \/ u = flushed
        \/ u = SetState(flushed, "RUNNING")
        \/ s.rec.next # "RUNNING" /\ u \in EnterSection(flushed, s.rec.next)
    BY DEF CacheFlush
  <1>2. StoreInv(f) /\ Later(s.fs, f) /\ HasData(f) /\ AllHeader(f) BY <1>0, FlushFlags
  <1> HIDE DEF f
  <1>3. flushed \in Pairs /\ flushed.rec = s.rec /\ flushed.fs = f
    <2>1. f \in Stores BY <1>2 DEF StoreInv, Sound
    <2> QED BY <1>0, <2>1, NewStore
  <1> HIDE DEF flushed
  <1>4. CASE u = flushed
    BY <1>0, <1>2, <1>3, <1>4 DEF PairInv, Phase, BetweenLogs, InHeader, Changes
  <1>5. CASE u = SetState(flushed, "RUNNING")
    <2>1. "RUNNING" \in States BY DEF States
    <2>2. u \in Pairs /\ u.fs = f /\ u.rec.state = "RUNNING" /\ u.rec.loopIndex = 0
      BY <1>0, <1>3, <1>5, <2>1, SetStateFacts
    <2> QED BY <1>2, <2>2 DEF PairInv, Phase, BetweenLogs, InHeader, Changes
  <1>6. CASE s.rec.next # "RUNNING" /\ u \in EnterSection(flushed, s.rec.next)
    <2>1. s.rec.next = "SEND_SYSINFO" BY <1>0, <1>6, PairFields
    <2>2. PairInv(u) /\ u.fs = f BY <1>0, <1>2, <1>3, <1>6, <2>1, EnterSectionKeeps
    <2> QED BY <1>2, <2>2 DEF Changes
  <1> QED BY <1>1, <1>4, <1>5, <1>6

(* An iteration logs a whole frame first, or differences after one. *)
LEMMA LogIterationFacts ==
  ASSUME NEW s \in Pairs, StoreInv(s.fs), IsEOF(s.fs) \/ HasData(s.fs),
         IsEOF(s.fs) \/ s.rec.loopIndex = 0 \/ Ready(s.fs), NEW t \in LogIteration(s)
  PROVE  /\ t \in Pairs /\ t.rec = s.rec /\ StoreInv(t.fs) /\ Later(s.fs, t.fs)
         /\ ~IsEOF(t.fs) => HasData(t.fs) /\ Ready(t.fs)
PROOF
  <1>1. PICK frames \in Frames(s) : t = [s EXCEPT !.fs = FlushAsync(Write(s.fs, frames))]
    BY DEF LogIteration
  <1>2. /\ frames \in {<<"I">>, <<"P">>, <<>>, <<"X">> \o <<"P">>, <<"X">> \o <<>>}
        /\ frames = <<"I">> \/ s.rec.loopIndex # 0
    <2>1. CASE s.rec.loopIndex = 0
      BY <1>1, <2>1, Zenon DEF Frames, ShouldLogIFrame, IFrame
    <2>2. CASE s.rec.loopIndex # 0
      <3> DEFINE main == IF ShouldLogPFrame(s) THEN PFrame ELSE <<>>
      <3>1. frames = main \/ frames = <<"X">> \o main
        BY <1>1, <2>2, Zenon DEF Frames, ShouldLogIFrame, SlowOrGpsFrame
      <3>2. main = <<"P">> \/ main = <<>> BY Zenon DEF PFrame
      <3> HIDE DEF main
      <3> QED BY <2>2, <3>1, <3>2, Zenon
    <2> QED BY <2>1, <2>2
  <1> DEFINE w == Write(s.fs, frames)
             f == FlushAsync(w)
  <1>3. StoreInv(w) /\ Later(s.fs, w) /\ (~IsEOF(w) => HasData(w) /\ Ready(w))
    <2>1. IsEOF(s.fs) \/ frames = <<"I">> \/ Ready(s.fs) BY <1>2
    <2> QED BY <1>2, <2>1, WriteFrames
  <1> HIDE DEF w
  <1>4. /\ StoreInv(f) /\ Later(w, f) /\ (~IsEOF(f) => HasData(f) /\ Ready(f))
    BY <1>3, FlushFlags
  <1>5. t = [s EXCEPT !.fs = f] BY <1>1 DEF w
  <1> HIDE DEF f
  <1>6. t \in Pairs /\ t.rec = s.rec /\ t.fs = f
    <2>1. f \in Stores BY <1>4 DEF StoreInv, Sound
    <2> QED BY <1>5, <2>1, NewStore
  <1>7. Later(s.fs, f) BY <1>3, <1>4, LaterTrans
  <1> QED BY <1>4, <1>6, <1>7

(* A recording update, which logs or pauses, keeps it.                     *)
LEMMA RunningKeeps ==
  ASSUME NEW s, PairInv(s), s.rec.state = "RUNNING", NEW u \in Running(s)
  PROVE  PairInv(u) /\ Changes(s, u)
PROOF
  <1>0. s \in Pairs /\ StoreInv(s.fs) /\ (IsEOF(s.fs) \/ HasData(s.fs))
    BY DEF PairInv, Phase
  <1>1. PICK t : /\ t = SetState(s, "PAUSED") \/ t \in LogIteration(s)
                 /\ u = AdvanceIterationTimers(t)
    BY DEF Running
  <1>2. CASE t = SetState(s, "PAUSED")
    <2>1. "PAUSED" \in States BY DEF States
    <2>2. t \in Pairs /\ t.fs = s.fs /\ t.rec.state = "PAUSED" BY <1>0, <1>2, <2>1, SetStateFacts
    <2>3. u \in Pairs /\ u.fs = s.fs /\ u.rec.state = "PAUSED" BY <1>1, <2>2, AdvanceFacts
    <2>4. PairInv(u) BY <1>0, <2>3 DEF PairInv, Phase, BetweenLogs, InHeader
    <2> QED BY <1>0, <2>3, <2>4, LaterSelf DEF Changes
  <1>3. CASE t \in LogIteration(s)
    <2>1. IsEOF(s.fs) \/ s.rec.loopIndex = 0 \/ Ready(s.fs) BY DEF PairInv, Phase
    <2>2. /\ t \in Pairs /\ t.rec = s.rec /\ StoreInv(t.fs) /\ Later(s.fs, t.fs)
          /\ ~IsEOF(t.fs) => HasData(t.fs) /\ Ready(t.fs)
      BY <1>0, <1>3, <2>1, LogIterationFacts
    <2>3. u \in Pairs /\ u.fs = t.fs /\ u.rec.state = "RUNNING" BY <1>1, <2>2, AdvanceFacts
    <2>4. PairInv(u) BY <2>2, <2>3 DEF PairInv, Phase, BetweenLogs, InHeader
    <2> QED BY <2>2, <2>3, <2>4 DEF Changes
  <1> QED BY <1>1, <1>2, <1>3

(* A pause ends with a whole frame. *)
LEMMA PausedKeeps ==
  ASSUME NEW s, PairInv(s), s.rec.state = "PAUSED", NEW u \in Paused(s)
  PROVE  PairInv(u) /\ Changes(s, u)
PROOF
  <1>0. s \in Pairs /\ StoreInv(s.fs) /\ (IsEOF(s.fs) \/ HasData(s.fs))
    BY DEF PairInv, Phase
  <1> DEFINE p == LogEvent(s, "R")
             q == SetState(p, "RUNNING")
  <1>1. PICK t : /\ t = s \/ (s.rec.loopIndex = 0 /\ t \in LogIteration(q))
                 /\ u = AdvanceIterationTimers(t)
    BY DEF Paused, ShouldLogIFrame
  <1>2. CASE t = s
    <2>1. u \in Pairs /\ u.fs = s.fs /\ u.rec.state = "PAUSED" BY <1>0, <1>1, <1>2, AdvanceFacts
    <2>2. PairInv(u) BY <1>0, <2>1 DEF PairInv, Phase, BetweenLogs, InHeader
    <2> QED BY <1>0, <2>1, <2>2, LaterSelf DEF Changes
  <1>3. CASE s.rec.loopIndex = 0 /\ t \in LogIteration(q)
    <2>1. /\ p \in Pairs /\ p.rec = s.rec /\ StoreInv(p.fs) /\ Later(s.fs, p.fs)
          /\ IsEOF(p.fs) \/ HasData(p.fs)
      BY LogEventFacts
    <2>2. q \in Pairs /\ q.fs = p.fs /\ q.rec.state = "RUNNING" /\ q.rec.loopIndex = 0
      <3>1. "RUNNING" \in States BY DEF States
      <3> QED BY <1>3, <2>1, <3>1, SetStateFacts
    <2> HIDE DEF p, q
    <2>3. /\ t \in Pairs /\ t.rec = q.rec /\ StoreInv(t.fs) /\ Later(q.fs, t.fs)
          /\ ~IsEOF(t.fs) => HasData(t.fs) /\ Ready(t.fs)
      BY <1>3, <2>1, <2>2, LogIterationFacts
    <2>4. u \in Pairs /\ u.fs = t.fs /\ u.rec.state = "RUNNING" BY <1>1, <2>2, <2>3, AdvanceFacts
    <2>5. PairInv(u) BY <2>3, <2>4 DEF PairInv, Phase, BetweenLogs, InHeader
    <2>6. Later(s.fs, u.fs) BY <1>0, <2>1, <2>2, <2>3, <2>4, LaterTrans
    <2> QED BY <2>5, <2>6 DEF Changes
  <1> QED BY <1>1, <1>2, <1>3

(* A store with room is closed; a full one waits for its turn to be over. *)
LEMMA ShuttingDownKeeps ==
  ASSUME NEW s, PairInv(s), Midway(s), s.rec.state = "SHUTTING_DOWN", NEW u \in ShuttingDown(s)
  PROVE  PairInv(u) /\ Changes(s, u)
PROOF
  <1>0. s \in Pairs /\ StoreInv(s.fs) BY DEF PairInv
  <1> DEFINE f == FlushAsync(s.fs)
             flushed == [s EXCEPT !.fs = f]
             now == Close(s.fs)
             then == Close(f)
             waited == [flushed EXCEPT !.rec.wait = s.rec.wait - 1]
  <1>1. StoreInv(f) /\ Later(s.fs, f) /\ Same(s.fs, f) /\ (IsEOF(f) <=> IsEOF(s.fs))
    BY <1>0, FlushFlags, FlushKeeps
  <1>2. f \in Stores /\ s.fs \in Stores BY <1>0, <1>1 DEF StoreInv, Sound
  <1>3. flushed \in Pairs /\ flushed.rec = s.rec /\ flushed.fs = f
    <2> HIDE DEF f
    <2> QED BY <1>0, <1>2, NewStore
  <1>4. \/ s.rec.wait = 0 /\ u = SetState([s EXCEPT !.fs = now], "STOPPED")
        \/ Flushed(s.fs) /\ u = SetState([flushed EXCEPT !.fs = then], "STOPPED")
        \/ s.rec.wait # 0 /\ u = waited
    <2>1. [flushed EXCEPT !.fs = Close(@)] = [flushed EXCEPT !.fs = then]
      BY <1>3
    <2>2. [flushed EXCEPT !.rec.wait = @ - 1] = waited BY <1>3
    <2> HIDE DEF f, flushed, now, then, waited
    <2>3. [s EXCEPT !.fs = Close(@)] = [s EXCEPT !.fs = now] BY DEF now
    <2> QED BY <2>1, <2>2, <2>3 DEF ShuttingDown, f, flushed
  <1> HIDE DEF f, flushed, now, then
  <1>5. ASSUME IsEOF(s.fs) PROVE s.rec.wait > 0 /\ ~Flushed(s.fs)
    <2>1. s.fs.buffer = <<>> BY <1>0, <1>5, NothingWaits
    <2> QED BY <1>5, <2>1 DEF Midway, Boundary, Flushed
  <1>6. ASSUME NEW p \in Pairs, NEW g, StoreInv(g), Top(g) = LastEnd(g), Closed(s.fs, g),
               u = SetState([p EXCEPT !.fs = g], "STOPPED")
        PROVE  PairInv(u) /\ Changes(s, u)
    <2> DEFINE q == [p EXCEPT !.fs = g]
    <2>1. g \in Stores BY <1>6 DEF StoreInv, Sound
    <2>2. q \in Pairs /\ q.fs = g BY <2>1, NewStore
    <2>3. u = SetState(q, "STOPPED") BY <1>6
    <2> HIDE DEF q
    <2>4. PairInv(u) /\ u.fs = g /\ u.rec.state = "STOPPED" BY <1>6, <2>2, <2>3, EnterBetween
    <2> QED BY <1>6, <2>4 DEF Changes
  <1>7. CASE s.rec.wait = 0 /\ u = SetState([s EXCEPT !.fs = now], "STOPPED")
    <2>1. ~IsEOF(s.fs) BY <1>5, <1>7
    <2>2. StoreInv(now) /\ Closed(s.fs, now) /\ Top(now) = LastEnd(now)
      BY <1>0, <2>1, CloseSound DEF StoreInv, now
    <2> QED BY <1>0, <1>6, <1>7, <2>2
  <1>8. CASE Flushed(s.fs) /\ u = SetState([flushed EXCEPT !.fs = then], "STOPPED")
    <2>1. ~IsEOF(s.fs) BY <1>5, <1>8
    <2>2. StoreInv(then) /\ Closed(f, then) /\ Top(then) = LastEnd(then)
      BY <1>1, <2>1, CloseSound DEF StoreInv, then
    <2>3. Closed(s.fs, then)
      <3>1. then \in Stores BY <2>2 DEF StoreInv, Sound
      <3> QED BY <1>1, <1>2, <2>2, <3>1, SameThenClosed
    <2> QED BY <1>3, <1>6, <1>8, <2>2, <2>3
  <1>9. CASE s.rec.wait # 0 /\ u = waited
    <2> DEFINE n == s.rec.wait - 1
    <2>1. n \in Nat BY <1>0, <1>9, PairFields
    <2>2. u = [flushed EXCEPT !.rec.wait = n] BY <1>9
    <2> HIDE DEF n
    <2>3. u \in Pairs /\ u.fs = f /\ u.rec.state = "SHUTTING_DOWN"
      BY <1>3, <2>1, <2>2, NewWait
    <2> QED BY <1>1, <2>3 DEF PairInv, Phase, BetweenLogs, InHeader, Changes
  <1> QED BY <1>4, <1>7, <1>8, <1>9

(* One call of blackboxUpdate. *)
LEMMA MachineKeeps ==
  ASSUME NEW s, PairInv(s), Midway(s), NEW u \in Machine(s)
  PROVE  /\ PairInv(u)
         /\ IF s.rec.state = "START_ERASE" THEN u.fs = Blank /\ u.rec.state = "ERASING"
            ELSE Changes(s, u)
PROOF
  <1>0. s \in Pairs /\ StoreInv(s.fs) /\ s.rec.state \in States
    BY PairFields DEF PairInv
  <1>1. s.rec.state \in {"PREPARE_LOG_FILE", "SEND_HEADER", "SEND_FIELD_HEADERS",
                         "SEND_SYSINFO", "CACHE_FLUSH"} => ~IsEOF(s.fs)
    BY DEF Midway, Boundary
  <1>2. s.rec.state \in {"DISABLED", "STOPPED", "START_ERASE", "ERASING", "ERASED"} =>
          IsEOF(s.fs) \/ Top(s.fs) = LastEnd(s.fs)
    BY DEF PairInv, Phase, BetweenLogs
  <1>3. CASE s.rec.state = "STOPPED"
    <2>1. u \in Stopped(s) BY <1>3 DEF Machine
    <2> QED BY <1>3, <2>1, StoppedKeeps
  <1>4. CASE s.rec.state = "PREPARE_LOG_FILE"
    <2>1. u = SetState(s, "SEND_HEADER") BY <1>4 DEF Machine
    <2> QED BY <1>1, <1>4, <2>1, PrepareKeeps
  <1>5. CASE s.rec.state = "SEND_HEADER"
    <2>1. u \in SendHeader(s) BY <1>5 DEF Machine
    <2> QED BY <1>1, <1>5, <2>1, SendHeaderKeeps
  <1>6. CASE s.rec.state = "SEND_FIELD_HEADERS"
    <2>1. u \in SendPiece(s, "SEND_SYSINFO") BY <1>6 DEF Machine, SendFieldHeaders
    <2> QED BY <1>1, <1>6, <2>1, SendPieceKeeps
  <1>7. CASE s.rec.state = "SEND_SYSINFO"
    <2>1. u \in SendPiece(s, "RUNNING") BY <1>7 DEF Machine, SendSysinfo
    <2> QED BY <1>1, <1>7, <2>1, SendPieceKeeps
  <1>8. CASE s.rec.state = "CACHE_FLUSH"
    <2>1. u \in CacheFlush(s) BY <1>8 DEF Machine
    <2> QED BY <1>1, <1>8, <2>1, CacheFlushKeeps
  <1>9. CASE s.rec.state = "PAUSED"
    <2>1. u \in Paused(s) BY <1>9 DEF Machine
    <2> QED BY <1>9, <2>1, PausedKeeps
  <1>10. CASE s.rec.state = "RUNNING"
    <2>1. u \in Running(s) BY <1>10 DEF Machine
    <2> QED BY <1>10, <2>1, RunningKeeps
  <1>11. CASE s.rec.state = "SHUTTING_DOWN"
    <2>1. u \in ShuttingDown(s) BY <1>11 DEF Machine
    <2> QED BY <1>11, <2>1, ShuttingDownKeeps
  <1>12. CASE s.rec.state = "START_ERASE"
    <2> DEFINE t == EraseAll(s)
    <2>1. u = SetState(t, "ERASING") BY <1>12 DEF Machine
    <2>2. t \in Pairs /\ t.fs = Blank BY <1>2, <1>12, EraseAllFacts
    <2> HIDE DEF t
    <2> QED BY <1>12, <2>1, <2>2, BlankFacts, EnterBetween
  <1>13. CASE s.rec.state = "ERASING"
    <2>1. u = SetState(s, "ERASED") BY <1>13 DEF Machine
    <2>2. PairInv(u) /\ u.fs = s.fs BY <1>0, <1>2, <1>13, <2>1, EnterBetween
    <2> QED BY <1>0, <1>13, <2>2, LaterSelf DEF Changes
  <1>14. CASE s.rec.state = "ERASED"
    <2>1. u = s \/ u = SetState(s, "STOPPED") BY <1>14 DEF Machine
    <2>2. PairInv(u) /\ u.fs = s.fs BY <1>0, <1>2, <1>14, <2>1, EnterBetween
    <2> QED BY <1>0, <1>14, <2>2, LaterSelf DEF Changes
  <1>15. CASE s.rec.state = "DISABLED"
    <2>1. u = s BY <1>15 DEF Machine
    <2> QED BY <1>0, <1>15, <2>1, LaterSelf DEF Changes
  <1> QED BY <1>0, <1>3, <1>4, <1>5, <1>6, <1>7, <1>8, <1>9, <1>10, <1>11, <1>12, <1>13, <1>14, <1>15 DEF States

(* A full store stops the recorder; the test mode starts and stops it. *)
LEMMA FullOrTestModeKeeps ==
  ASSUME NEW s, PairInv(s), NEW test \in BOOLEAN
  PROVE  LET t == FullOrTestMode(s, test)
         IN /\ PairInv(t) /\ Boundary(t) /\ Later(s.fs, t.fs)
            /\ s.rec.state \notin {"RUNNING", "PAUSED"} => t.fs = s.fs
PROOF
  <1> DEFINE t == FullOrTestMode(s, test)
             stopped == [s EXCEPT !.rec.testing = FALSE]
  <1>0. s \in Pairs /\ StoreInv(s.fs) BY DEF PairInv
  <1>1. \/ t = s /\ (IsEOF(s.fs) => s.rec.state \in {"START_ERASE", "ERASING", "ERASED"})
        \/ IsEOF(s.fs) /\ t = SetState(stopped, "STOPPED")
        \/ ~IsEOF(s.fs) /\ s.rec.state = "STOPPED" /\ t = StartInTestMode(s)
        \/ ~IsEOF(s.fs) /\ s.rec.state # "STOPPED" /\ t = StopInTestMode(s)
    <2> HIDE DEF stopped
    <2>1. CASE IsEOF(s.fs) BY <2>1 DEF FullOrTestMode, stopped
    <2>2. CASE ~IsEOF(s.fs) BY <2>2, Zenon DEF FullOrTestMode
    <2> QED BY <2>1, <2>2
  <1> HIDE DEF t, stopped
  <1>2. CASE t = s /\ (IsEOF(s.fs) => s.rec.state \in {"START_ERASE", "ERASING", "ERASED"})
    BY <1>0, <1>2, LaterSelf DEF t, Boundary
  <1>3. CASE IsEOF(s.fs) /\ t = SetState(stopped, "STOPPED")
    <2>1. stopped \in Pairs /\ stopped.fs = s.fs BY <1>0, NewTesting DEF stopped
    <2>2. PairInv(t) /\ t.fs = s.fs /\ t.rec.state = "STOPPED"
      BY <1>0, <1>3, <2>1, EnterBetween
    <2> QED BY <1>0, <2>2, LaterSelf DEF t, Boundary
  <1>4. CASE ~IsEOF(s.fs) /\ s.rec.state = "STOPPED" /\ t = StartInTestMode(s)
    <2>1. PairInv(t) /\ t.fs = s.fs
      <3>1. CASE s.rec.testing BY <1>4, <3>1 DEF StartInTestMode
      <3>2. CASE ~s.rec.testing
        <4> DEFINE p == Start(s)
        <4>1. PairInv(p) /\ p.fs = s.fs BY <1>4, StartFacts
        <4>2. t = [p EXCEPT !.rec.testing = TRUE] BY <1>4, <3>2 DEF StartInTestMode
        <4> HIDE DEF p
        <4>3. p \in Pairs BY <4>1 DEF PairInv
        <4>4. /\ t \in Pairs /\ t.fs = p.fs /\ t.rec.state = p.rec.state
              /\ t.rec.loopIndex = p.rec.loopIndex
          BY <4>2, <4>3, NewTesting
        <4>5. PairInv(t) BY <4>1, <4>4, PhaseKeeps
        <4> QED BY <4>1, <4>4, <4>5
      <3> QED BY <3>1, <3>2
    <2> QED BY <1>0, <1>4, <2>1, LaterSelf DEF t, Boundary
  <1>5. CASE ~IsEOF(s.fs) /\ s.rec.state # "STOPPED" /\ t = StopInTestMode(s)
    <2>1. Boundary(s) BY <1>5 DEF Boundary
    <2>2. CASE ~s.rec.testing
      <3>1. t = s BY <1>5, <2>2 DEF StopInTestMode
      <3> QED BY <1>0, <2>1, <3>1, LaterSelf DEF t
    <2>3. CASE s.rec.testing
      <3> DEFINE p == Finish(s)
      <3>1. /\ PairInv(p) /\ Later(s.fs, p.fs) /\ Boundary(p)
            /\ s.rec.state \notin {"RUNNING", "PAUSED"} => p.fs = s.fs
        BY <2>1, FinishFacts
      <3>2. t = [p EXCEPT !.rec.testing = FALSE] BY <1>5, <2>3 DEF StopInTestMode
      <3> HIDE DEF p
      <3>3. p \in Pairs BY <3>1 DEF PairInv
      <3>4. /\ t \in Pairs /\ t.fs = p.fs /\ t.rec.state = p.rec.state
            /\ t.rec.loopIndex = p.rec.loopIndex /\ t.rec.wait = p.rec.wait
        BY <3>2, <3>3, NewTesting
      <3>5. PairInv(t) /\ Boundary(t) BY <3>1, <3>4, PhaseKeeps
      <3> QED BY <1>5, <3>1, <3>4, <3>5 DEF t
    <2> QED BY <2>2, <2>3
  <1> QED BY <1>1, <1>2, <1>3, <1>4, <1>5

-----------------------------------------------------------------------------
(* A whole update: the open log grows, or is closed, once. *)
LEMMA UpdatesFacts ==
  ASSUME PairInv([rec |-> rec, fs |-> fs]), Boundary([rec |-> rec, fs |-> fs]), NEW s \in Updates
  PROVE  /\ PairInv(s) /\ Boundary(s)
         /\ \/ Later(fs, s.fs) \/ Closed(fs, s.fs)
            \/ rec.state = "START_ERASE" /\ s.fs = Blank
PROOF
  <1> DEFINE p == [rec |-> rec, fs |-> fs]
             t == UpdateArmed(p)
  <1>1. p.rec = rec /\ p.fs = fs OBVIOUS
  <1>2. PICK m \in Machine(t), test \in MotorTests : s = FullOrTestMode(m, test)
    BY DEF Updates
  <1>3. test \in BOOLEAN BY <1>2 DEF MotorTests
  <1> HIDE DEF p
  <1>4. PairInv(p) /\ Boundary(p) BY DEF p
  <1>5. PairInv(t) /\ Midway(t) /\ Later(fs, t.fs) /\ t.rec.state \in {rec.state, "SHUTTING_DOWN"}
    BY <1>1, <1>4, UpdateArmedFacts
  <1> HIDE DEF t
  <1>6. /\ PairInv(m)
        /\ IF t.rec.state = "START_ERASE" THEN m.fs = Blank /\ m.rec.state = "ERASING"
           ELSE Changes(t, m)
    BY <1>2, <1>5, MachineKeeps
  <1>7. /\ PairInv(s) /\ Boundary(s) /\ Later(m.fs, s.fs)
        /\ m.rec.state \notin {"RUNNING", "PAUSED"} => s.fs = m.fs
    BY <1>2, <1>3, <1>6, FullOrTestModeKeeps
  <1>8. StoreInv(fs) /\ StoreInv(t.fs) /\ StoreInv(m.fs) /\ StoreInv(s.fs)
    BY <1>1, <1>4, <1>5, <1>6, <1>7 DEF PairInv
  <1>9. CASE t.rec.state = "START_ERASE" BY <1>5, <1>6, <1>7, <1>9
  <1>10. CASE Later(t.fs, m.fs)
    <2>1. Later(fs, m.fs) BY <1>5, <1>8, <1>10, LaterTrans
    <2>2. Later(fs, s.fs) BY <1>7, <1>8, <2>1, LaterTrans
    <2> QED BY <1>7, <2>2
  <1>11. CASE Closed(t.fs, m.fs) /\ m.rec.state = "STOPPED"
    <2>1. Same(fs, t.fs) BY <1>5, <1>11 DEF Later, Closed
    <2>2. fs \in Stores /\ t.fs \in Stores /\ m.fs \in Stores BY <1>8 DEF StoreInv, Sound
    <2>3. Closed(fs, m.fs) BY <1>11, <2>1, <2>2, SameThenClosed
    <2> QED BY <1>7, <1>11, <2>3
  <1> QED BY <1>6, <1>9, <1>10, <1>11 DEF Changes

-----------------------------------------------------------------------------
(***************************************************************************)
(* The mount after power returns.                                          *)
(***************************************************************************)
(* A multiple that is less than the number is zero. *)
LEMMA SmallMultiple ==
  ASSUME NEW n \in Nat \ {0}, NEW m \in Int, 0 <= n * m, n * m < n
  PROVE  n * m = 0
PROOF
  <1>1. CASE m >= 1
    <2>1. n * m = n + n * (m - 1) BY SMT
    <2>2. n * (m - 1) >= 0 BY <1>1, SMT
    <2> QED BY <2>1, <2>2, SMT
  <1>2. CASE m <= -1
    <2>1. n * m = n * (m + 1) - n BY SMT
    <2>2. n * (m + 1) <= 0 BY <1>2, SMT
    <2> QED BY <2>1, <2>2, SMT
  <1>3. CASE m = 0 BY <1>3, SMT
  <1> QED BY <1>1, <1>2, <1>3, SMT

(* A stride back from a multiple of strides there is another. *)
LEMMA StrideBack ==
  ASSUME NEW n \in Nat, n % Stride = 0, n >= Stride
  PROVE  n - Stride \in Nat /\ (n - Stride) % Stride = 0
PROOF
  <1>1. Stride \in Nat \ {0} BY Sizes
  <1> DEFINE d == n - Stride
             k == n \div Stride
             q == d \div Stride
             r == d % Stride
  <1>2. d \in Nat /\ k \in Int /\ q \in Int BY <1>1
  <1>3. n = Stride * k BY <1>1
  <1>4. d = Stride * q + r /\ r \in Nat /\ r < Stride BY <1>1, <1>2
  <1> HIDE DEF k, q, r
  <1>5. d = n - Stride OBVIOUS
  <1> HIDE DEF d
  <1> DEFINE m == k - 1 - q
  <1>6. m \in Int BY <1>2
  <1>7. Stride * m = Stride * k - Stride - Stride * q BY <1>1, <1>2, SMT
  <1>8. Stride * m = r BY <1>1, <1>2, <1>3, <1>4, <1>5, <1>7
  <1> HIDE DEF m
  <1>9. r = 0 BY <1>1, <1>4, <1>6, <1>8, SmallMultiple
  <1> QED BY <1>2, <1>9 DEF d, r

(* The journal's index is found again from its ends. *)
LEMMA IndexFound ==
  ASSUME NEW u \in Stores, Journal(u)
  PROVE  Least({i \in Item : u.end[i] = None} \union {Items}) = u.journalIdx
PROOF
  <1> DEFINE S == {i \in Item : u.end[i] = None} \union {Items}
             j == u.journalIdx
  <1>1. j \in 0..Items BY StoreFields
  <1>2. S \subseteq Nat BY Sizes DEF Item
  <1>3. j \in S BY <1>1, Sizes DEF Journal, Item
  <1>4. ASSUME NEW k \in S PROVE j <= k
    <2>1. CASE k = Items BY <1>1, <2>1, Sizes
    <2>2. CASE k \in Item /\ u.end[k] = None
      <3>1. ~(k < j) BY <2>2, Sizes DEF Journal, Address, None
      <3> QED BY <1>1, <2>2, <3>1, Sizes DEF Item
    <2> QED BY <2>1, <2>2
  <1> HIDE DEF S, j
  <1>5. Least(S) = j BY <1>2, <1>3, <1>4, LeastIs
  <1> QED BY <1>5 DEF S, j

(* Mounted before the repair, the store ends with its last closed log. *)
LEMMA BeforeRepair ==
  ASSUME NEW u \in Stores, Journal(u), NEW t \in Stores, t.cell = u.cell, t.begin = u.begin, t.end = u.end
  PROVE  \E m \in Stores : /\ Restart(t) = JournalFix(m)
                           /\ m.cell = u.cell /\ m.begin = u.begin /\ m.end = u.end
                           /\ m.journalIdx = u.journalIdx /\ m.address = LastEnd(u) /\ m.buffer = <<>>
PROOF
  <1> DEFINE s == [t EXCEPT !.buffer = <<>>]
             ended == Least({i \in Item : s.end[i] = None} \union {Items})
             last == IF ended = 0 THEN 0 ELSE s.end[ended - 1]
             m == [s EXCEPT !.journalIdx = ended, !.address = last]
  <1>1. /\ s \in Stores /\ s.cell = u.cell /\ s.begin = u.begin /\ s.end = u.end /\ s.buffer = <<>>
    <2>1. <<>> \in Seq(Byte) OBVIOUS
    <2>2. s.cell = t.cell /\ s.begin = t.begin /\ s.end = t.end /\ s.buffer = <<>> BY DEF Stores
    <2>3. s \in Stores BY <2>1, Zenon DEF Stores
    <2> QED BY <2>2, <2>3
  <1>2. Restart(t) = JournalFix(m) BY DEF Restart, Mount
  <1> HIDE DEF s
  <1>3. ended = u.journalIdx BY <1>1, IndexFound
  <1> HIDE DEF ended
  <1>4. last = LastEnd(u) BY <1>1, <1>3 DEF LastEnd
  <1>5. last \in Address BY <1>4 DEF Journal
  <1>6. ended \in 0..Items BY <1>3, StoreFields
  <1> HIDE DEF last
  <1>7. /\ m.cell = s.cell /\ m.begin = s.begin /\ m.end = s.end
        /\ m.journalIdx = ended /\ m.address = last /\ m.buffer = s.buffer
    BY <1>1 DEF Stores
  <1>8. m \in Stores BY <1>1, <1>5, <1>6, Zenon DEF Stores
  <1> QED BY <1>1, <1>2, <1>3, <1>4, <1>7, <1>8

(* Of two stores with the same fields there is one. *)
LEMMA SameStore ==
  ASSUME NEW u \in Stores, NEW m \in Stores, m.cell = u.cell, m.begin = u.begin, m.end = u.end,
         m.journalIdx = u.journalIdx, m.address = u.address, m.buffer = u.buffer
  PROVE  m = u
PROOF BY DEF Stores

(* The open log is the one at the index. *)
LEMMA OpenItem ==
  ASSUME NEW u \in Stores, Journal(u)
  PROVE  /\ OpenItems(u) = {} =>
              /\ u.address = LastEnd(u)
              /\ u.journalIdx < Items => u.begin[u.journalIdx] = None
         /\ OpenItems(u) # {} => /\ u.journalIdx \in Item /\ u.begin[u.journalIdx] = LastEnd(u)
                                 /\ u.begin[u.journalIdx] # None
                                 /\ Least(OpenItems(u)) = u.journalIdx
PROOF
  <1> DEFINE j == u.journalIdx
  <1>1. j \in 0..Items BY StoreFields
  <1>2. ASSUME NEW i \in OpenItems(u) PROVE i = j
    <2>1. i \in Item /\ u.begin[i] # None /\ u.end[i] = None BY DEF OpenItems
    <2>2. ~(i < j) BY <2>1, Sizes DEF Journal, Address, None
    <2>3. ~(j < i) BY <2>1 DEF Journal
    <2> QED BY <1>1, <2>1, <2>2, <2>3, Sizes DEF Item
  <1>3. ASSUME OpenItems(u) = {}
        PROVE  u.address = LastEnd(u) /\ (j < Items => u.begin[j] = None)
    <2>1. \A i \in Item : i = j => u.begin[i] = None
      BY <1>1, <1>3, Sizes DEF OpenItems, Journal, Item
    <2>2. j < Items => j \in Item BY <1>1, Sizes DEF Item
    <2> QED BY <2>1, <2>2 DEF Journal
  <1>4. ASSUME OpenItems(u) # {}
        PROVE  j \in Item /\ u.begin[j] = LastEnd(u) /\ u.begin[j] # None /\ Least(OpenItems(u)) = j
    <2>1. j \in OpenItems(u) /\ OpenItems(u) = {j} BY <1>2, <1>4
    <2>2. j \in Item /\ u.begin[j] # None BY <2>1 DEF OpenItems
    <2>3. u.begin[j] = LastEnd(u) BY <2>2 DEF Journal
    <2>4. j \in Nat /\ OpenItems(u) \subseteq Nat /\ \A k \in OpenItems(u) : j <= k BY <1>1, <2>1, Sizes
    <2>5. Least(OpenItems(u)) = j BY <2>1, <2>4, LeastIs
    <2> QED BY <2>2, <2>3, <2>5
  <1> QED BY <1>3, <1>4

(* The end the repair takes is the first that can be, behind the data. *)
LEMMA EndFound ==
  ASSUME NEW u, Sound(u), u.buffer = <<>>, NEW from \in Address, from = LastEnd(u),
         NEW E, E = EndCandidates(u, from), E # {},
         \A a \in Least(E)..(Cells - 1) : u.cell[a] = Erased
  PROVE  /\ Least(E) \in Cell /\ from <= Least(E) /\ u.address <= Least(E)
         /\ Least(E) - u.address < Stride
PROOF
  <1> DEFINE e == Least(E)
  <1>0. u \in Stores BY DEF Sound
  <1>1. u.address \in 0..Cells /\ Top(u) = u.address BY <1>0, StoreFields, EmptyBuffer
  <1>2. E \subseteq 0..Cells /\ E \subseteq Cell BY Sizes DEF EndCandidates, Cell
  <1>3. e \in E /\ \A k \in E : e <= k BY <1>2, Sizes, LeastFacts
  <1>4. e \in Cell /\ e >= from /\ (e - from) % Stride = 0 BY <1>3 DEF EndCandidates
  <1>5. u.cell[e] = Erased BY <1>4, Sizes DEF Cell
  <1>6. Image(u) = u.cell BY <1>0, EmptyBuffer DEF Sound
  <1> HIDE DEF e
  <1>7. ~(e < u.address)
    <2> SUFFICES ASSUME e < u.address PROVE FALSE OBVIOUS
    <2>1. Fits(u.cell, from, e) BY <1>1, <1>4, <1>6 DEF Sound, Decodable
    <2> QED BY <1>5, <2>1, ErasedIsNoByte DEF Fits
  <1>8. from \in Int /\ e \in Nat /\ Stride \in Nat \ {0} BY <1>4, Sizes DEF Cell, Address
  <1>9. ~(e - u.address >= Stride)
    <2> SUFFICES ASSUME e - u.address >= Stride PROVE FALSE OBVIOUS
    <2>1. from <= u.address BY DEF Sound, Journal
    <2> DEFINE n == e - from
               b == e - Stride
    <2>2. n \in Nat /\ n >= Stride BY <1>1, <1>4, <1>8, <2>1
    <2>3. n % Stride = 0 BY <1>4
    <2> HIDE DEF n
    <2>4. (n - Stride) % Stride = 0 BY <2>2, <2>3, StrideBack
    <2>5. n - Stride = b - from BY <1>8 DEF n
    <2>6. b \in Nat /\ b >= u.address /\ b < e BY <1>1, <1>8
    <2>7. b \in Cell BY <1>4, <2>6, Sizes DEF Cell
    <2>8. u.cell[b] = Erased BY <2>6, <2>7, Sizes DEF Sound, ErasedFrom, Cell
    <2>9. b >= from BY <1>1, <1>8, <2>1, <2>6
    <2> HIDE DEF b
    <2>10. b \in E BY <2>4, <2>5, <2>7, <2>8, <2>9 DEF EndCandidates, LooksErased
    <2> QED BY <1>3, <1>8, <2>6, <2>10 DEF e
  <1> QED BY <1>1, <1>4, <1>7, <1>8, <1>9 DEF e

(* The open log, ended there, is a good log. *)
LEMMA EndedSound ==
  ASSUME NEW u, Sound(u), u.buffer = <<>>, u.journalIdx \in Item,
         u.begin[u.journalIdx] = LastEnd(u), LastEnd(u) < Cells,
         NEW e \in Cell, u.address <= e, e - u.address < Stride,
         NEW m \in Stores, m.cell = u.cell, m.begin = u.begin, m.end = u.end,
         m.journalIdx = u.journalIdx, m.buffer = <<>>,
         u.begin[u.journalIdx] # None
  PROVE  LET r == LogEnd([m EXCEPT !.address = e])
         IN StoreInv(r) /\ r.buffer = <<>> /\ Top(r) = LastEnd(r) /\ Mounted(u, r)
PROOF
  <1> DEFINE j == u.journalIdx
             a1 == [m EXCEPT !.address = e]
             r == LogEnd(a1)
  <1>0. u \in Stores /\ Journal(u) BY DEF Sound
  <1>1. e \in Address /\ e \in Nat /\ j \in Nat /\ j + 1 \in 0..Items /\ j < Items
    BY Sizes DEF Cell, Address, Item
  <1>2. /\ a1 \in Stores /\ a1.cell = u.cell /\ a1.begin = u.begin /\ a1.end = u.end
        /\ a1.journalIdx = j /\ a1.buffer = <<>> /\ a1.address = e
    <2>1. a1 \in Stores BY <1>1, Zenon DEF Stores
    <2>2. /\ a1.cell = m.cell /\ a1.begin = m.begin /\ a1.end = m.end
          /\ a1.journalIdx = m.journalIdx /\ a1.buffer = m.buffer /\ a1.address = e
      BY DEF Stores
    <2> QED BY <2>1, <2>2
  <1> HIDE DEF a1
  <1> DEFINE end == [a1.end EXCEPT ![j] = e]
  <1>3. r = [a1 EXCEPT !.end = end, !.journalIdx = j + 1] BY <1>2 DEF LogEnd, Stores
  <1>4. end \in [Item -> Address \cup {None}] BY <1>0, <1>1, <1>2, StoreFields
  <1>5. \A i \in Item : end[i] = IF i = j THEN e ELSE u.end[i] BY <1>0, <1>2, StoreFields
  <1> HIDE DEF end, r
  <1>6. /\ r.cell = u.cell /\ r.begin = u.begin /\ r.end = end /\ r.address = e
        /\ r.journalIdx = j + 1 /\ r.buffer = <<>>
    BY <1>2, <1>3 DEF Stores
  <1>7. r \in Stores BY <1>1, <1>2, <1>3, <1>4, Zenon DEF Stores
  <1>8. LastEnd(r) = e BY <1>1, <1>5, <1>6 DEF LastEnd
  <1>9. Top(r) = e BY <1>6, <1>7, EmptyBuffer
  <1>10. LastEnd(u) \in Address /\ LastEnd(u) <= u.address /\ u.address \in 0..Cells
         /\ Top(u) = u.address
    BY <1>0, StoreFields, EmptyBuffer DEF Journal
  <1>11. ErasedFrom(u.cell, u.address, Cells) /\ Image(u) = u.cell
    BY <1>0, EmptyBuffer DEF Sound
  <1>12. ErasedFrom(u.cell, e, Cells) /\ ErasedFrom(u.cell, u.address, e)
    BY <1>1, <1>10, <1>11, Sizes DEF ErasedFrom, Cell
  <1>13. Journal(r)
    <2>1. ASSUME NEW i \in Item, i < j + 1
          PROVE  /\ u.begin[i] \in Address /\ r.end[i] \in Address
                 /\ u.begin[i] <= r.end[i] /\ r.end[i] <= e
      <3>1. CASE i = j BY <1>1, <1>5, <1>6, <1>10, <3>1, Sizes DEF Address
      <3>2. CASE i # j
        <4>1. i < j BY <1>1, <2>1, <3>2, Sizes DEF Item
        <4>2. r.end[i] = u.end[i] BY <1>5, <1>6, <3>2
        <4>3. u.begin[i] \in Address /\ u.end[i] \in Address /\ u.begin[i] <= u.end[i] /\ u.end[i] <= LastEnd(u)
          BY <1>0, <4>1 DEF Journal
        <4> QED BY <1>1, <1>10, <4>2, <4>3, Sizes DEF Address
      <3> QED BY <3>1, <3>2
    <2>2. ASSUME NEW i \in Item, j + 1 <= i PROVE r.end[i] = None /\ u.begin[i] = None
      <3>1. j < i /\ j <= i /\ i # j BY <1>1, <2>2, Sizes DEF Item
      <3> QED BY <1>0, <1>5, <1>6, <3>1 DEF Journal
    <2>3. \A i \in Item : j + 1 < i \/ i = j + 1 => j + 1 <= i BY <1>1, Sizes DEF Item
    <2>4. LastEnd(r) \in Address /\ LastEnd(r) <= r.address /\ r.address = LastEnd(r)
      BY <1>1, <1>6, <1>8
    <2> QED BY <1>6, <1>8, <2>1, <2>2, <2>3, <2>4 DEF Journal
  <1>14. LogsGood(r)
    <2> SUFFICES ASSUME NEW i \in Item, i < j + 1 PROVE GoodLog(u.cell, u.begin[i], r.end[i])
      BY <1>6 DEF LogsGood
    <2>1. CASE i = j
      <3>1. Decodable(u.cell, LastEnd(u), u.address) BY <1>10, <1>11 DEF Sound
      <3> QED BY <1>1, <1>5, <1>6, <1>10, <1>12, <2>1, <3>1 DEF GoodLog, Address
    <2>2. CASE i # j
      <3>1. i < j BY <1>1, <2>2, Sizes DEF Item
      <3> QED BY <1>5, <1>6, <2>2, <3>1 DEF Sound, LogsGood
    <2> QED BY <2>1, <2>2
  <1>15. Decodable(Image(r), LastEnd(r), Top(r)) BY <1>1, <1>8, <1>9, Sizes DEF Decodable, Cell
  <1>16. StoreInv(r)
    <2>1. Sound(r) BY <1>1, <1>6, <1>7, <1>9, <1>12, <1>13, <1>14, <1>15, Sizes DEF Sound, Cell
    <2> QED BY <1>8, <1>9, <2>1, Sizes DEF StoreInv, Cell
  <1>17. Mounted(u, r)
    <2>1. Repaired(u, r)
      BY <1>1, <1>6, <1>8, <1>12 DEF Repaired
    <2>2. \A i \in Item : i < j => r.begin[i] = u.begin[i] /\ r.end[i] = u.end[i]
      BY <1>1, <1>5, <1>6
    <2> QED BY <1>6, <2>1, <2>2 DEF Mounted
  <1> QED BY <1>6, <1>8, <1>9, <1>16, <1>17 DEF r, a1

(* What the repair does not miss, it makes a store of the invariant. *)
LEMMA RestartFacts ==
  ASSUME NEW u, Sound(u), u.buffer = <<>>,
         NEW t \in Stores, t.cell = u.cell, t.begin = u.begin, t.end = u.end, ~EndIsMissed(t)
  PROVE  LET r == Restart(t)
         IN StoreInv(r) /\ r.buffer = <<>> /\ Top(r) = LastEnd(r) /\ Mounted(u, r)
PROOF
  <1> DEFINE j == u.journalIdx
             r == Restart(t)
  <1>0. u \in Stores /\ Journal(u) BY DEF Sound
  <1>1. PICK m \in Stores : /\ r = JournalFix(m)
                            /\ m.cell = u.cell /\ m.begin = u.begin /\ m.end = u.end
                            /\ m.journalIdx = j /\ m.address = LastEnd(u) /\ m.buffer = <<>>
    BY <1>0, BeforeRepair
  <1>2. OpenItems(m) = OpenItems(u) /\ OpenItems(t) = OpenItems(u) BY <1>1 DEF OpenItems
  <1>3. Top(u) = u.address BY <1>0, EmptyBuffer
  <1>4. u.address \in 0..Cells /\ LastEnd(u) \in Address /\ LastEnd(u) <= u.address
    BY <1>0, StoreFields DEF Journal
  <1> HIDE DEF r
  <1>5. ASSUME m = r, u.address = LastEnd(u)
        PROVE  StoreInv(r) /\ r.buffer = <<>> /\ Top(r) = LastEnd(r) /\ Mounted(u, r)
    <2>1. m = u BY <1>0, <1>1, <1>5, SameStore
    <2>2. StoreInv(u) BY <1>3, <1>4, <1>5, Sizes DEF StoreInv, IsEOF
    <2> QED BY <1>1, <1>3, <1>5, <2>1, <2>2 DEF Mounted
  <1>6. CASE OpenItems(u) = {}
    <2>1. r = m BY <1>1, <1>2, <1>6 DEF JournalFix
    <2>2. u.address = LastEnd(u) BY <1>0, <1>6, OpenItem
    <2> QED BY <1>5, <2>1, <2>2 DEF r
  <1>7. CASE OpenItems(u) # {}
    <2> DEFINE from == LastEnd(u)
               E == EndCandidates(u, from)
    <2>1. /\ j \in Item /\ u.begin[j] = from /\ u.begin[j] # None /\ Least(OpenItems(u)) = j
      BY <1>0, <1>7, OpenItem
    <2>2. EndCandidates(m, from) = E /\ EndCandidates(t, from) = E BY <1>1 DEF EndCandidates
    <2>3. r = IF E = {} THEN m ELSE LogEnd([m EXCEPT !.address = Least(E)])
      BY <1>1, <1>2, <1>7, <2>1, <2>2 DEF JournalFix
    <2>4. IF E = {} THEN ~(from < Cells) ELSE ~\E a \in Least(E)..(Cells - 1) : t.cell[a] # Erased
      BY <1>2, <1>7, <2>1, <2>2 DEF EndIsMissed
    <2> HIDE DEF E
    <2>5. CASE E = {}
      <3>1. u.address = LastEnd(u) BY <1>4, <2>4, <2>5, Sizes DEF Address
      <3> QED BY <1>5, <2>3, <2>5, <3>1 DEF r
    <2>6. CASE E # {}
      <3> DEFINE e == Least(E)
      <3>1. \A a \in e..(Cells - 1) : u.cell[a] = Erased BY <2>4, <2>6
      <3>2. e \in Cell /\ from <= e /\ u.address <= e /\ e - u.address < Stride
        BY <1>4, <2>6, <3>1, EndFound DEF E
      <3>3. from < Cells BY <1>4, <3>2, Sizes DEF Cell, Address
      <3> HIDE DEF e
      <3>4. r = LogEnd([m EXCEPT !.address = e]) BY <2>3, <2>6 DEF e
      <3> QED BY <1>0, <1>1, <2>1, <3>2, <3>3, <3>4, EndedSound DEF r
    <2> QED BY <2>5, <2>6
  <1> QED BY <1>6, <1>7

-----------------------------------------------------------------------------
(* A store with an emptied buffer. *)
LEMMA DropBuffer ==
  ASSUME NEW s, Sound(s)
  PROVE  LET u == [s EXCEPT !.buffer = <<>>]
         IN /\ Sound(u) /\ u.buffer = <<>> /\ u.cell = s.cell /\ u.begin = s.begin /\ u.end = s.end
            /\ u.address = s.address /\ u.journalIdx = s.journalIdx /\ Partly(s, u)
PROOF
  <1> DEFINE u == [s EXCEPT !.buffer = <<>>]
  <1>0. s \in Stores BY DEF Sound
  <1>1. <<>> \in Seq(Byte) OBVIOUS
  <1>2. u \in Stores BY <1>0, <1>1, Zenon DEF Stores
  <1>3. /\ u.buffer = <<>> /\ u.cell = s.cell /\ u.begin = s.begin /\ u.end = s.end
        /\ u.address = s.address /\ u.journalIdx = s.journalIdx
    BY <1>0 DEF Stores
  <1> HIDE DEF u
  <1>4. s.address \in 0..Cells /\ s.address <= Top(s) /\ Top(s) \in Nat BY <1>0, StoreFields
  <1>5. LastEnd(u) = LastEnd(s) BY <1>3 DEF LastEnd
  <1>6. Top(u) = s.address BY <1>2, <1>3, EmptyBuffer
  <1>7. ErasedFrom(u.cell, u.address, Cells) BY <1>3 DEF Sound
  <1>8. Image(u) = s.cell BY <1>2, <1>3, <1>7, EmptyBuffer
  <1>9. Journal(u) BY <1>3, <1>5 DEF Sound, Journal
  <1>10. LogsGood(u) BY <1>3 DEF Sound, LogsGood
  <1>11. \A a \in Cell : a < s.address => Image(s)[a] = s.cell[a] BY <1>0, ImageFacts
  <1>12. Decodable(s.cell, LastEnd(s), s.address)
    <2>1. LastEnd(s) \in Int BY DEF Sound, Journal, Address
    <2>2. Decodable(Image(s), LastEnd(s), s.address)
      BY <1>4, <2>1, DecodableHead DEF Sound
    <2> QED BY <1>4, <1>11, <2>1, <2>2, DecodableAgree
  <1>13. Sound(u)
    BY <1>2, <1>4, <1>5, <1>6, <1>7, <1>8, <1>9, <1>10, <1>12 DEF Sound
  <1>14. Partly(s, u) BY <1>3, <1>11 DEF Partly
  <1> QED BY <1>3, <1>13, <1>14 DEF u

(* The beginning of a later log is left out. *)
LEMMA BegunFacts ==
  ASSUME NEW f \in Stores, NEW g \in Stores, Journal(f), Journal(g),
         g.journalIdx = f.journalIdx \/ g.journalIdx = f.journalIdx + 1
  PROVE  LET begin == [i \in Item |-> IF i > f.journalIdx THEN f.begin[i] ELSE g.begin[i]]
         IN /\ begin \in [Item -> Address \cup {None}]
            /\ \A i \in Item : f.journalIdx < i => begin[i] = None
            /\ \A i \in Item : i <= f.journalIdx => begin[i] = g.begin[i]
            /\ g.journalIdx = f.journalIdx => begin = g.begin
PROOF
  <1> DEFINE begin == [i \in Item |-> IF i > f.journalIdx THEN f.begin[i] ELSE g.begin[i]]
  <1>1. /\ f.begin \in [Item -> Address \cup {None}] /\ g.begin \in [Item -> Address \cup {None}]
        /\ f.journalIdx \in Nat
    BY StoreFields
  <1>2. begin \in [Item -> Address \cup {None}] BY <1>1
  <1>3. \A i \in Item : i \in Int BY DEF Item
  <1>4. \A i \in Item : f.journalIdx < i => begin[i] = None BY <1>1, <1>3 DEF Journal
  <1>5. \A i \in Item : i <= f.journalIdx => begin[i] = g.begin[i] BY <1>1, <1>3
  <1>6. ASSUME g.journalIdx = f.journalIdx PROVE begin = g.begin
    <2>1. \A i \in Item : begin[i] = g.begin[i] BY <1>1, <1>3, <1>4, <1>5, <1>6 DEF Journal
    <2> QED BY <1>1, <1>2, <2>1
  <1> QED BY <1>2, <1>4, <1>5, <1>6

(* The later store with the beginning of its next log left out. *)
LEMMA BegunSound ==
  ASSUME NEW g, StoreInv(g), IsEOF(g) \/ Top(g) = LastEnd(g),
         NEW begin \in [Item -> Address \cup {None}],
         \A i \in Item : i < g.journalIdx => begin[i] = g.begin[i],
         \A i \in Item : g.journalIdx <= i => begin[i] = None
  PROVE  LET u == [g EXCEPT !.begin = begin]
         IN /\ Sound(u) /\ u.buffer = <<>> /\ u.cell = g.cell /\ u.begin = begin /\ u.end = g.end
            /\ u.journalIdx = g.journalIdx /\ u.address = g.address /\ Top(u) = Top(g)
            /\ LastEnd(u) = LastEnd(g) /\ Image(u) = Image(g)
PROOF
  <1> DEFINE u == [g EXCEPT !.begin = begin]
  <1>0. g \in Stores /\ Sound(g) BY DEF StoreInv, Sound
  <1>1. g.buffer = <<>> /\ Top(g) = g.address /\ g.address = LastEnd(g) BY NothingWaits
  <1>2. u \in Stores BY <1>0, Zenon DEF Stores
  <1>3. /\ u.buffer = <<>> /\ u.cell = g.cell /\ u.begin = begin /\ u.end = g.end
        /\ u.address = g.address /\ u.journalIdx = g.journalIdx
    BY <1>0, <1>1 DEF Stores
  <1> HIDE DEF u
  <1>4. LastEnd(u) = LastEnd(g) BY <1>3 DEF LastEnd
  <1>5. Top(u) = Top(g) BY <1>1, <1>2, <1>3, EmptyBuffer
  <1>6. Image(u) = Image(g) BY <1>1, <1>3, <1>5 DEF Image
  <1>7. g.journalIdx \in Nat BY <1>0, StoreFields
  <1>8. \A i \in Item : i \in Int BY DEF Item
  <1>9. Journal(u)
    BY <1>0, <1>1, <1>3, <1>4, <1>7, <1>8 DEF Sound, Journal
  <1>10. LogsGood(u) BY <1>0, <1>3 DEF Sound, LogsGood
  <1>11. Sound(u) BY <1>0, <1>2, <1>3, <1>4, <1>5, <1>6, <1>9, <1>10 DEF Sound
  <1> QED BY <1>3, <1>4, <1>5, <1>6, <1>11 DEF u

(* What a growing and a closing have in common. *)
LEMMA GrownFacts ==
  ASSUME NEW f, NEW g, StoreInv(f), StoreInv(g), Same(f, g) \/ Closed(f, g)
  PROVE  /\ f \in Stores /\ g \in Stores /\ Journal(f) /\ Journal(g) /\ Kept(f, g)
         /\ g.journalIdx = f.journalIdx \/ g.journalIdx = f.journalIdx + 1
         /\ f.address <= g.address /\ Decodable(Image(g), LastEnd(f), g.address)
         /\ f.journalIdx \in Item => g.begin[f.journalIdx] \in {None, LastEnd(f)}
         /\ (\A i \in Item : i = f.journalIdx => g.begin[i] = None) =>
              g.address = LastEnd(f)
PROOF
  <1>0. f \in Stores /\ g \in Stores /\ Journal(f) /\ Journal(g) BY DEF StoreInv, Sound
  <1>1. /\ f.address \in 0..Cells /\ f.address <= Top(f) /\ Top(f) \in Nat
        /\ g.address \in 0..Cells /\ g.address <= Top(g) /\ Top(g) \in Nat
        /\ f.journalIdx \in 0..Items /\ LastEnd(f) \in Int /\ LastEnd(g) \in Int
    BY <1>0, StoreFields DEF Journal, Address
  <1>2. CASE Same(f, g)
    <2>1. LastEnd(g) = LastEnd(f) BY <1>0, <1>2, SameLastEnd
    <2>2. Decodable(Image(g), LastEnd(f), g.address)
      BY <1>1, <2>1, DecodableHead DEF StoreInv, Sound
    <2> QED BY <1>0, <1>2, <2>1, <2>2 DEF Same, Journal
  <1>3. CASE Closed(f, g)
    <2>1. g.address = LastEnd(g) /\ Top(g) = g.address BY <1>3, NothingWaits DEF Closed
    <2>2. f.journalIdx \in Item BY <1>1, <1>3, Sizes DEF Closed, IsEOF, Item
    <2>3. LastEnd(f) # None BY <1>0, Sizes DEF Journal, Address, None
    <2> QED BY <1>0, <1>1, <1>3, <2>1, <2>2, <2>3 DEF Closed
  <1> QED BY <1>2, <1>3

(* Power is lost while the data is written: its beginning is there. *)
LEMMA PartialSound ==
  ASSUME NEW f, NEW g, StoreInv(f), StoreInv(g), Same(f, g) \/ Closed(f, g),
         NEW n \in 0..(g.address - f.address),
         NEW begin, begin = [i \in Item |-> IF i > f.journalIdx THEN f.begin[i] ELSE g.begin[i]],
         NEW cell, cell = [a \in Cell |-> IF a < f.address + n THEN g.cell[a] ELSE f.cell[a]]
  PROVE  LET u == [cell |-> cell, begin |-> begin, end |-> f.end, address |-> f.address + n,
                   journalIdx |-> f.journalIdx, buffer |-> <<>>]
         IN Sound(u) /\ Partly(f, u)
PROOF
  <1> DEFINE top == f.address + n
             u == [cell |-> cell, begin |-> begin, end |-> f.end, address |-> top,
                   journalIdx |-> f.journalIdx, buffer |-> <<>>]
             j == f.journalIdx
  <1>0. /\ f \in Stores /\ g \in Stores /\ Journal(f) /\ Journal(g) /\ Kept(f, g)
        /\ g.journalIdx = f.journalIdx \/ g.journalIdx = f.journalIdx + 1
        /\ f.address <= g.address /\ Decodable(Image(g), LastEnd(f), g.address)
        /\ j \in Item => g.begin[j] \in {None, LastEnd(f)}
        /\ (\A i \in Item : i = j => g.begin[i] = None) => g.address = LastEnd(f)
    BY GrownFacts
  <1>1. /\ f.address \in 0..Cells /\ f.address <= Top(f) /\ Top(f) \in Nat
        /\ g.address \in 0..Cells /\ j \in 0..Items
        /\ LastEnd(f) \in Address /\ LastEnd(f) <= f.address /\ LastEnd(f) \in Int
        /\ f.cell \in [Cell -> Byte \cup {Erased, Mixed}] /\ g.cell \in [Cell -> Byte \cup {Erased, Mixed}]
        /\ f.end \in [Item -> Address \cup {None}]
    BY <1>0, StoreFields DEF Journal, Address
  <1>2. top \in Address /\ top \in 0..Cells /\ f.address <= top /\ top <= g.address
    BY <1>0, <1>1, Sizes DEF Address
  <1>3. /\ begin \in [Item -> Address \cup {None}]
        /\ \A i \in Item : j < i => begin[i] = None
        /\ \A i \in Item : i <= j => begin[i] = g.begin[i]
    BY <1>0, BegunFacts
  <1>4. \A a \in Cell : a \in Int BY Sizes DEF Cell
  <1>5. cell \in [Cell -> Byte \cup {Erased, Mixed}] BY <1>1
  <1> HIDE DEF top
  <1>6. \A a \in Cell : cell[a] = IF a < top THEN g.cell[a] ELSE f.cell[a] BY DEF top
  <1>7. /\ u.cell = cell /\ u.begin = begin /\ u.end = f.end /\ u.address = top
        /\ u.journalIdx = j /\ u.buffer = <<>>
    OBVIOUS
  <1>8. u \in Stores
    <2>1. <<>> \in Seq(Byte) OBVIOUS
    <2>2. top \in Address /\ j \in 0..Items BY <1>1, <1>2
    <2> QED BY <1>1, <1>3, <1>5, <2>1, <2>2, Zenon DEF Stores
  <1>9. u = [cell |-> cell, begin |-> begin, end |-> f.end, address |-> f.address + n,
             journalIdx |-> f.journalIdx, buffer |-> <<>>]
    BY DEF top
  <1> HIDE DEF u
  <1>10. LastEnd(u) = LastEnd(f) BY <1>7 DEF LastEnd
  <1>11. Top(u) = top BY <1>7, <1>8, EmptyBuffer
  <1>12. ErasedFrom(u.cell, u.address, Cells)
    BY <1>1, <1>2, <1>4, <1>6, <1>7 DEF StoreInv, Sound, ErasedFrom
  <1>13. Image(u) = cell BY <1>7, <1>8, <1>12, EmptyBuffer
  <1>14. \A a \in Cell : a < top => cell[a] = Image(g)[a]
    BY <1>0, <1>1, <1>2, <1>4, <1>6, ImageFacts
  <1>15. \A a \in Cell : a < top /\ a < Top(f) => cell[a] = Image(f)[a]
    BY <1>0, <1>14 DEF Kept
  <1>16. Decodable(cell, LastEnd(f), top)
    <2>1. Decodable(Image(g), LastEnd(f), top) BY <1>0, <1>1, <1>2, DecodableHead
    <2> QED BY <1>1, <1>2, <1>14, <2>1, DecodableAgree
  <1>17. \A i \in Item : i < j => begin[i] = f.begin[i] BY <1>0, <1>1, <1>3, Sizes DEF Kept, Item
  <1>18. Journal(u)
    <2>1. \A i \in Item : i \in Int BY DEF Item
    <2>2. \A i \in Item : i = j => begin[i] \in {None, LastEnd(f)} BY <1>0, <1>1, <1>3, <2>1
    <2>3. ASSUME \A i \in Item : i = j => begin[i] = None PROVE top = LastEnd(f)
      <3>1. \A i \in Item : i = j => g.begin[i] = None BY <1>1, <1>3, <2>1, <2>3
      <3>2. g.address = LastEnd(f) BY <1>0, <3>1
      <3> QED BY <1>1, <1>2, <3>2
    <2>4. LastEnd(f) <= top BY <1>1, <1>2
    <2> QED BY <1>0, <1>1, <1>3, <1>7, <1>10, <1>17, <2>2, <2>3, <2>4 DEF Journal
  <1>19. LogsGood(u)
    <2> SUFFICES ASSUME NEW i \in Item, i < j PROVE GoodLog(cell, begin[i], f.end[i])
      BY <1>7 DEF LogsGood
    <2>1. GoodLog(f.cell, f.begin[i], f.end[i]) BY DEF StoreInv, Sound, LogsGood
    <2>2. f.begin[i] \in Int /\ f.end[i] \in Int /\ f.end[i] <= LastEnd(f)
      BY <1>0, Sizes DEF Journal, Address
    <2>3. \A a \in Cell : a < f.end[i] => f.cell[a] = cell[a]
      <3> SUFFICES ASSUME NEW a \in Cell, a < f.end[i] PROVE f.cell[a] = cell[a]
        OBVIOUS
      <3>1. a < f.address /\ a < top /\ a < Top(f) BY <1>1, <1>2, <1>4, <2>2
      <3> QED BY <1>0, <1>15, <3>1, ImageFacts
    <2> QED BY <1>17, <2>1, <2>2, <2>3, GoodLogAgree
  <1>20. Sound(u)
    BY <1>1, <1>2, <1>7, <1>8, <1>10, <1>11, <1>12, <1>13, <1>16, <1>18, <1>19 DEF Sound
  <1>21. Partly(f, u) BY <1>0, <1>7, <1>15, <1>17 DEF Partly
  <1> QED BY <1>9, <1>20, <1>21

(* What a loss of power leaves is the partition of a sound store. *)
LEMMA TornFacts ==
  ASSUME NEW f, NEW g, StoreInv(f), StoreInv(g), Same(f, g) \/ Closed(f, g), NEW t \in Torn(f, g)
  PROVE  /\ t \in Stores
         /\ \E u : Left(f, u) /\ t.cell = u.cell /\ t.begin = u.begin /\ t.end = u.end
PROOF
  <1> DEFINE begin == [i \in Item |-> IF i > f.journalIdx THEN f.begin[i] ELSE g.begin[i]]
             begun == [g EXCEPT !.begin = begin]
  <1>0. /\ f \in Stores /\ g \in Stores /\ Journal(f) /\ Journal(g) /\ Sound(f) /\ Sound(g)
        /\ Kept(f, g)
        /\ g.journalIdx = f.journalIdx \/ g.journalIdx = f.journalIdx + 1
    BY GrownFacts DEF StoreInv
  <1>1. /\ begin \in [Item -> Address \cup {None}]
        /\ \A i \in Item : f.journalIdx < i => begin[i] = None
        /\ \A i \in Item : i <= f.journalIdx => begin[i] = g.begin[i]
        /\ g.journalIdx = f.journalIdx => begin = g.begin
    BY <1>0, BegunFacts
  <1> HIDE DEF begin
  <1>2. /\ begun \in Stores /\ begun.cell = g.cell /\ begun.begin = begin /\ begun.end = g.end
        /\ begun.address = g.address
    <2>1. begun \in Stores BY <1>0, <1>1, Zenon DEF Stores
    <2>2. /\ begun.cell = g.cell /\ begun.begin = begin /\ begun.end = g.end
          /\ begun.address = g.address
      BY <1>0 DEF Stores
    <2> QED BY <2>1, <2>2
  <1>3. CASE t = f
    <2>1. Left(f, [f EXCEPT !.buffer = <<>>]) BY <1>0, DropBuffer DEF Left
    <2> QED BY <1>0, <1>3, <2>1, DropBuffer
  <1>4. CASE t = g /\ Same(f, g)
    <2> DEFINE u == [g EXCEPT !.buffer = <<>>]
    <2>1. /\ Sound(u) /\ u.buffer = <<>> /\ u.cell = g.cell /\ u.begin = g.begin /\ u.end = g.end
          /\ u.address = g.address /\ u.journalIdx = g.journalIdx
      BY <1>0, DropBuffer
    <2> HIDE DEF u
    <2>2. Partly(f, u)
      <3>1. \A a \in Cell : a < Top(f) /\ a < g.address => g.cell[a] = Image(f)[a]
        <4>1. \A a \in Cell : a < g.address => g.cell[a] = Image(g)[a] BY <1>0, ImageFacts
        <4> QED BY <1>0, <4>1 DEF Kept
      <3> QED BY <1>0, <1>4, <2>1, <3>1 DEF Partly, Kept, Same
    <2> QED BY <1>0, <1>4, <2>1, <2>2 DEF Left
  <1>5. CASE t = g /\ Closed(f, g)
    <2>1. g.buffer = <<>> BY <1>5, NothingWaits DEF Closed
    <2> QED BY <1>0, <1>5, <2>1 DEF Left
  <1>6. CASE t = begun /\ Same(f, g)
    <2>1. t.cell = g.cell /\ t.begin = g.begin /\ t.end = g.end /\ t \in Stores
      BY <1>1, <1>2, <1>6 DEF Same
    <2> DEFINE u == [g EXCEPT !.buffer = <<>>]
    <2>2. /\ Sound(u) /\ u.buffer = <<>> /\ u.cell = g.cell /\ u.begin = g.begin /\ u.end = g.end
          /\ u.address = g.address /\ u.journalIdx = g.journalIdx
      BY <1>0, DropBuffer
    <2> HIDE DEF u
    <2>3. Partly(f, u)
      <3>1. \A a \in Cell : a < Top(f) /\ a < g.address => g.cell[a] = Image(f)[a]
        <4>1. \A a \in Cell : a < g.address => g.cell[a] = Image(g)[a] BY <1>0, ImageFacts
        <4> QED BY <1>0, <4>1 DEF Kept
      <3> QED BY <1>0, <1>6, <2>2, <3>1 DEF Partly, Kept, Same
    <2> QED BY <2>1, <2>2, <2>3 DEF Left
  <1>7. CASE t = begun /\ Closed(f, g)
    <2>1. f.journalIdx \in Nat /\ \A i \in Item : i \in Int BY <1>0, StoreFields DEF Item
    <2>2. \A i \in Item : i < g.journalIdx => begin[i] = g.begin[i] BY <1>1, <1>7, <2>1 DEF Closed
    <2>3. \A i \in Item : g.journalIdx <= i => begin[i] = None BY <1>1, <1>7, <2>1 DEF Closed
    <2>4. /\ Sound(begun) /\ begun.buffer = <<>> /\ begun.end = g.end
          /\ begun.journalIdx = g.journalIdx /\ begun.address = g.address /\ Top(begun) = Top(g)
          /\ LastEnd(begun) = LastEnd(g) /\ Image(begun) = Image(g)
      BY <1>1, <1>7, <2>2, <2>3, BegunSound DEF Closed
    <2>5. begun.begin = begin BY <1>2
    <2> HIDE DEF begun
    <2>6. Kept(f, begun) BY <1>0, <1>7, <2>1, <2>2, <2>4, <2>5 DEF Kept, Closed
    <2>7. f.journalIdx \in Item BY <1>0, <1>7, <2>1, Sizes DEF Closed, IsEOF, Item
    <2>8. begin[f.journalIdx] = LastEnd(f) BY <1>1, <1>7, <2>1, <2>7 DEF Closed
    <2>9. \A i \in Item : i = begun.journalIdx => begin[i] = None
      BY <1>7, <2>1, <2>3, <2>4
    <2>10. Closed(f, begun)
      BY <1>7, <2>4, <2>5, <2>6, <2>8, <2>9 DEF Closed
    <2> QED BY <1>2, <1>7, <2>4, <2>10 DEF Left
  <1>8. CASE \E n \in 0..(g.address - f.address) :
               t = [begun EXCEPT !.end = f.end,
                                 !.cell = [a \in Cell |-> IF a < f.address + n THEN g.cell[a]
                                                          ELSE f.cell[a]]]
    <2>1. PICK n \in 0..(g.address - f.address) :
               t = [begun EXCEPT !.end = f.end,
                                 !.cell = [a \in Cell |-> IF a < f.address + n THEN begun.cell[a]
                                                          ELSE f.cell[a]]]
      BY <1>2, <1>8
    <2> DEFINE cell == [a \in Cell |-> IF a < f.address + n THEN g.cell[a] ELSE f.cell[a]]
               u == [cell |-> cell, begin |-> begin, end |-> f.end, address |-> f.address + n,
                     journalIdx |-> f.journalIdx, buffer |-> <<>>]
    <2>2. t = [begun EXCEPT !.end = f.end, !.cell = cell] BY <1>2, <2>1
    <2>3. Sound(u) /\ Partly(f, u) BY PartialSound DEF begin
    <2>4. u.cell = cell /\ u.begin = begin /\ u.end = f.end /\ u.buffer = <<>> OBVIOUS
    <2> HIDE DEF u, cell, begun
    <2>5. t.cell = cell /\ t.end = f.end /\ t.begin = begun.begin BY <1>2, <2>2 DEF Stores
    <2>6. cell \in [Cell -> Byte \cup {Erased, Mixed}] /\ f.end \in [Item -> Address \cup {None}]
      BY <1>0, <2>3, <2>4, StoreFields DEF Sound
    <2>7. t \in Stores BY <1>2, <2>2, <2>6, Zenon DEF Stores
    <2> QED BY <1>2, <2>3, <2>4, <2>5, <2>7 DEF Left
  <1>9. t \in {f, begun, g} \/ \E n \in 0..(g.address - f.address) :
               t = [begun EXCEPT !.end = f.end,
                                 !.cell = [a \in Cell |-> IF a < f.address + n THEN g.cell[a]
                                                          ELSE f.cell[a]]]
    <2>1. begun.cell = g.cell BY <1>2
    <2> HIDE DEF begun
    <2>2. t \in {f, begun, g} \/ \E n \in 0..(g.address - f.address) :
               t = [begun EXCEPT !.end = f.end,
                                 !.cell = [a \in Cell |-> IF a < f.address + n THEN begun.cell[a]
                                                          ELSE f.cell[a]]]
      BY DEF Torn, begun, begin
    <2>3. \A n : [a \in Cell |-> IF a < f.address + n THEN begun.cell[a] ELSE f.cell[a]]
                = [a \in Cell |-> IF a < f.address + n THEN g.cell[a] ELSE f.cell[a]]
      BY <2>1
    <2> QED BY <2>2, <2>3
  <1> QED BY <1>3, <1>4, <1>5, <1>6, <1>7, <1>8, <1>9

-----------------------------------------------------------------------------
(***************************************************************************)
(* The inductive invariant: what is in the open log fits the state of the  *)
(* recorder, and every closed log is good.                                 *)
(***************************************************************************)
Inv == PairInv([rec |-> rec, fs |-> fs]) /\ Boundary([rec |-> rec, fs |-> fs])

(* What blackboxInit leaves: a stopped recorder of the right type.         *)
LEMMA RecorderFacts ==
  /\ Recorder \in Recorders /\ Recorder.state = "STOPPED"
PROOF
  <1>1. Recorder.state = "STOPPED" BY DEF Recorder
  <1>2. Recorder \in Recorders
    <2>1. "STOPPED" \in States /\ "RUNNING" \in {"SEND_SYSINFO", "RUNNING"} /\ 0 \in Nat
      BY DEF States
    <2> QED BY <2>1 DEF Recorder, Recorders
  <1> QED BY <1>1, <1>2

(* A recorder that has just started, with a store between two logs. *)
LEMMA StartedInv ==
  ASSUME NEW r \in Recorders, r.state = "STOPPED",
         NEW f, StoreInv(f), IsEOF(f) \/ Top(f) = LastEnd(f)
  PROVE  PairInv([rec |-> r, fs |-> f]) /\ Boundary([rec |-> r, fs |-> f])
PROOF
  <1> DEFINE p == [rec |-> r, fs |-> f]
  <1>1. p.rec = r /\ p.fs = f OBVIOUS
  <1>2. p \in Pairs BY DEF Pairs, StoreInv, Sound
  <1> HIDE DEF p
  <1>3. PairInv(p) BY <1>1, <1>2 DEF PairInv, Phase, InHeader
  <1>4. Boundary(p) BY <1>1 DEF Boundary
  <1> QED BY <1>3, <1>4 DEF p

(* The invariant holds of every step. *)
LEMMA InvInit ==
  ASSUME Init
  PROVE  Inv
BY RecorderFacts, BlankFacts, StartedInv DEF Init, Inv

(* An update of the recorder keeps the invariant.                          *)
LEMMA InvUpdate ==
  ASSUME Inv, Update
  PROVE  Inv'
PROOF
  <1>1. PICK s \in Updates : rec' = s.rec /\ fs' = s.fs BY DEF Update
  <1>2. PairInv(s) /\ Boundary(s) BY <1>1, UpdatesFacts DEF Inv
  <1>3. s = [rec |-> rec', fs |-> fs'] BY <1>1, <1>2 DEF PairInv, Pairs
  <1> QED BY <1>2, <1>3 DEF Inv

(* The configurator's erase between logs keeps it and leaves nothing.      *)
LEMMA EraseInv ==
  ASSUME Inv, DataflashErase
  PROVE  Inv' /\ fs' = Blank
PROOF
  <1> DEFINE p == [rec |-> rec, fs |-> fs]
             s == EraseAll(p)
  <1>1. rec' = s.rec /\ fs' = s.fs /\ rec.state \in BetweenLogs
    BY Delays DEF DataflashErase
  <1>2. p.rec = rec /\ p.fs = fs OBVIOUS
  <1> HIDE DEF p
  <1>3. IsEOF(p.fs) \/ Top(p.fs) = LastEnd(p.fs) BY <1>1, <1>2 DEF Inv, PairInv, Phase, p
  <1>4. s \in Pairs /\ s.fs = Blank /\ s.rec.state = "STOPPED" BY <1>3, EraseAllFacts DEF Inv, p
  <1>5. rec' \in Recorders /\ rec'.state = "STOPPED" /\ fs' = Blank BY <1>1, <1>4, PairFields
  <1> HIDE DEF s
  <1>6. PairInv([rec |-> rec', fs |-> fs']) /\ Boundary([rec |-> rec', fs |-> fs'])
    BY <1>5, BlankFacts, StartedInv
  <1> QED BY <1>5, <1>6 DEF Inv

(* Power returns to a store between two logs, made of what was left. *)
LEMMA PowerLossInv ==
  ASSUME Inv, PowerLoss
  PROVE  Inv' /\ \E u : Left(fs, u) /\ Mounted(u, fs') /\ Top(fs') = LastEnd(fs') /\ StoreInv(fs')
PROOF
  <1>0. PICK s \in Updates : \E t \in Torn(fs, s.fs) : ~EndIsMissed(t) /\ fs' = Restart(t)
    BY DEF PowerLoss
  <1>1. PICK t \in Torn(fs, s.fs) : ~EndIsMissed(t) /\ fs' = Restart(t) BY <1>0
  <1>2. rec' = Recorder /\ rec.state # "START_ERASE" BY DEF PowerLoss
  <1>3. PairInv(s) /\ (Later(fs, s.fs) \/ Closed(fs, s.fs)) BY <1>2, UpdatesFacts DEF Inv
  <1>4. StoreInv(fs) /\ StoreInv(s.fs) BY <1>3 DEF Inv, PairInv
  <1>5. Same(fs, s.fs) \/ Closed(fs, s.fs) BY <1>3 DEF Later
  <1>6. /\ t \in Stores
        /\ \E u : Left(fs, u) /\ t.cell = u.cell /\ t.begin = u.begin /\ t.end = u.end
    BY <1>4, <1>5, TornFacts
  <1>7. PICK u : Left(fs, u) /\ t.cell = u.cell /\ t.begin = u.begin /\ t.end = u.end
    BY <1>6
  <1>8. StoreInv(fs') /\ Top(fs') = LastEnd(fs') /\ Mounted(u, fs')
    BY <1>1, <1>6, <1>7, RestartFacts DEF Left
  <1>9. PairInv([rec |-> rec', fs |-> fs']) /\ Boundary([rec |-> rec', fs |-> fs'])
    BY <1>2, <1>8, RecorderFacts, StartedInv
  <1> QED BY <1>7, <1>8, <1>9 DEF Inv

(* The recorder and its store keep the inductive invariant. *)
THEOREM RecorderInvariant == Spec => []Inv
PROOF
  <1>1. Init => Inv BY InvInit
  <1>2. Inv /\ [Next]_vars => Inv'
    <2> SUFFICES ASSUME Inv, [Next]_vars PROVE Inv' OBVIOUS
    <2>1. CASE Update BY <2>1, InvUpdate
    <2>2. CASE ArmOrDisarm BY <2>2 DEF ArmOrDisarm, Inv
    <2>3. CASE Switch BY <2>3 DEF Switch, Inv
    <2>4. CASE DataflashErase BY <2>4, EraseInv
    <2>5. CASE PowerLoss BY <2>5, PowerLossInv
    <2>6. CASE UNCHANGED vars BY <2>6 DEF vars, Inv
    <2> QED BY <2>1, <2>2, <2>3, <2>4, <2>5, <2>6 DEF Next
  <1> QED BY <1>1, <1>2, PTL DEF Spec

-----------------------------------------------------------------------------
(***************************************************************************)
(* A good log, as the sequence the reader gets.                            *)
(***************************************************************************)
LEMMA PrefixFacts ==
  ASSUME NEW S, NEW q \in Seq(S), NEW n \in 0..Len(q)
  PROVE  /\ SubSeq(q, 1, n) \in Seq(S) /\ Len(SubSeq(q, 1, n)) = n
         /\ \A k \in 1..n : SubSeq(q, 1, n)[k] = q[k]
PROOF
  <1>1. Len(q) \in Nat BY LenProperties
  <1>2. \A k \in 1..n : q[k] \in S BY <1>1, ElementOfSeq
  <1>3. SubSeq(q, 1, n) = [k \in 1..n |-> q[k]] BY <1>1
  <1>4. [k \in 1..n |-> q[k]] \in Seq(S) BY <1>1, <1>2, IsASeq
  <1>5. Len([k \in 1..n |-> q[k]]) = n BY <1>1, <1>4
  <1> QED BY <1>3, <1>4, <1>5

(* The cells between two addresses, as a sequence.                         *)
LEMMA BetweenFacts ==
  ASSUME NEW s \in Stores, NEW from \in Address, NEW to \in Address, from <= to
  PROVE  /\ Between(s, from, to) \in Seq(Byte \cup {Erased, Mixed})
         /\ Len(Between(s, from, to)) = to - from
         /\ \A k \in 1..(to - from) : /\ Between(s, from, to)[k] = s.cell[from + k - 1]
                                      /\ from + k - 1 \in Cell
PROOF
  <1> DEFINE S == Byte \cup {Erased, Mixed}
             n == to - from
             q == [k \in 1..n |-> s.cell[from + k - 1]]
  <1>1. n \in Nat BY Sizes DEF Address
  <1>2. \A k \in 1..n : from + k - 1 \in Cell BY Sizes DEF Address, Cell
  <1>3. \A k \in 1..n : s.cell[from + k - 1] \in S BY <1>2, StoreFields
  <1>4. Between(s, from, to) = q BY DEF Between
  <1> HIDE DEF n
  <1>5. q \in Seq(S) BY <1>1, <1>3, IsASeq
  <1>6. Len(q) = n BY <1>1, <1>5
  <1>7. \A k \in 1..n : q[k] = s.cell[from + k - 1] OBVIOUS
  <1> QED BY <1>2, <1>4, <1>5, <1>6, <1>7 DEF n

(* What the decoder needs of the cells, it has of the sequence. *)
LEMMA DecodableSequence ==
  ASSUME NEW m, NEW from \in Nat, NEW n \in Nat, NEW q, Len(q) = n,
         \A k \in 1..n : q[k] = m[from + k - 1] /\ from + k - 1 \in Cell,
         Decodable(m, from, from + n)
  PROVE  IsDecodable(q)
PROOF
  <1> SUFFICES ASSUME NEW k \in 1..n
               PROVE  /\ q[k] \in Byte /\ (q[k] = "B" <=> k = 1)
                      /\ q[k] = "H" => \A j \in 1..(k - 1) : q[j] \in {"B", "H"}
                      /\ q[k] = "P" => \E i \in 1..(k - 1) : /\ q[i] = "I"
                                                            /\ \A j \in i..k : q[j] # "R"
    BY DEF IsDecodable
  <1> DEFINE a == from + k - 1
  <1>0. \A c \in Cell : c \in Nat BY Sizes DEF Cell
  <1>1. a \in Cell /\ from <= a /\ a < from + n /\ q[k] = m[a] OBVIOUS
  <1>2. Fits(m, from, a) BY <1>1 DEF Decodable
  <1>3. q[k] \in Byte /\ (q[k] = "B" <=> k = 1) BY <1>1, <1>2 DEF Fits
  <1>4. ASSUME q[k] = "H" PROVE \A j \in 1..(k - 1) : q[j] \in {"B", "H"}
    <2> SUFFICES ASSUME NEW j \in 1..(k - 1) PROVE q[j] \in {"B", "H"} OBVIOUS
    <2>1. j \in 1..n /\ from <= from + j - 1 /\ from + j - 1 < a OBVIOUS
    <2>2. OnlyHeader(m, from, a) BY <1>1, <1>2, <1>4 DEF Fits
    <2>3. from + j - 1 \in Cell /\ q[j] = m[from + j - 1] BY <2>1
    <2> QED BY <2>1, <2>2, <2>3 DEF OnlyHeader
  <1>5. ASSUME q[k] = "P"
        PROVE  \E i \in 1..(k - 1) : q[i] = "I" /\ \A j \in i..k : q[j] # "R"
    <2>1. Fresh(m, from, a) BY <1>1, <1>2, <1>5 DEF Fits
    <2>2. PICK c \in Cell : /\ from <= c /\ c < a /\ m[c] = "I"
                            /\ \A b \in Cell : c <= b /\ b < a => m[b] # "R"
      BY <2>1 DEF Fresh
    <2> DEFINE i == c - from + 1
    <2>3. i \in 1..(k - 1) /\ i \in 1..n /\ from + i - 1 = c BY <1>0, <2>2
    <2>4. q[i] = "I" BY <2>2, <2>3
    <2>5. ASSUME NEW j \in i..k PROVE q[j] # "R"
      <3>1. CASE j = k BY <1>5, <3>1
      <3>2. CASE j # k
        <4>1. j \in 1..n /\ c <= from + j - 1 /\ from + j - 1 < a BY <1>0, <2>2, <2>3, <3>2
        <4>2. from + j - 1 \in Cell /\ q[j] = m[from + j - 1] BY <4>1
        <4> QED BY <2>2, <4>1, <4>2
      <3> QED BY <3>1, <3>2
    <2> QED BY <2>3, <2>4, <2>5
  <1> QED BY <1>3, <1>4, <1>5

(* The reader's logs. *)
LEMMA LogFacts ==
  ASSUME NEW s, Sound(s), NEW i \in 1..s.journalIdx
  PROVE  /\ i - 1 \in Item /\ i - 1 < s.journalIdx
         /\ s.begin[i - 1] \in Address /\ s.end[i - 1] \in Address /\ s.begin[i - 1] <= s.end[i - 1]
         /\ s.end[i - 1] <= LastEnd(s)
         /\ Logs(s)[i] = Between(s, s.begin[i - 1], s.end[i - 1])
PROOF
  <1>1. s \in Stores /\ s.journalIdx \in 0..Items BY StoreFields DEF Sound
  <1>2. i - 1 \in Item /\ i - 1 < s.journalIdx BY <1>1, Sizes DEF Item
  <1> QED BY <1>2 DEF Sound, Journal, Logs

(* The invariant of the store says that each closed log can be decoded.    *)
LEMMA InvLogs ==
  ASSUME Inv
  PROVE  LogsDecodable
PROOF
  <1>1. Sound(fs) /\ fs \in Stores BY DEF Inv, PairInv, StoreInv, Sound
  <1> SUFFICES ASSUME NEW i \in 1..fs.journalIdx
               PROVE  \E n \in 0..Len(Logs(fs)[i]) :
                        /\ \A k \in (n + 1)..Len(Logs(fs)[i]) : Logs(fs)[i][k] = Erased
                        /\ IsDecodable(SubSeq(Logs(fs)[i], 1, n))
    BY DEF LogsDecodable
  <1> DEFINE from == fs.begin[i - 1]
             to == fs.end[i - 1]
             log == Logs(fs)[i]
  <1>2. /\ i - 1 \in Item /\ i - 1 < fs.journalIdx
        /\ from \in Address /\ to \in Address /\ from <= to /\ log = Between(fs, from, to)
    BY <1>1, LogFacts
  <1>3. PICK w \in Address : /\ from <= w /\ w <= to /\ Decodable(fs.cell, from, w)
                             /\ ErasedFrom(fs.cell, w, to)
    BY <1>1, <1>2 DEF Sound, LogsGood, GoodLog
  <1> HIDE DEF from, to, log
  <1>4. from \in Nat /\ to \in Nat /\ w \in Nat BY <1>2, Sizes DEF Address
  <1> DEFINE n == w - from
  <1>5. n \in 0..(to - from) /\ n \in Nat /\ from + n = w BY <1>3, <1>4
  <1>6. /\ log \in Seq(Byte \cup {Erased, Mixed})
        /\ \A k \in 1..(to - from) : log[k] = fs.cell[from + k - 1] /\ from + k - 1 \in Cell
    BY <1>1, <1>2, BetweenFacts
  <1>7. Len(log) = to - from BY <1>1, <1>2, BetweenFacts
  <1> HIDE DEF n
  <1>8. ASSUME NEW k \in (n + 1)..(to - from) PROVE log[k] = Erased
    <2>1. k \in 1..(to - from) /\ w <= from + k - 1 /\ from + k - 1 < to BY <1>3, <1>4, <1>5
    <2> QED BY <1>3, <1>6, <2>1 DEF ErasedFrom
  <1>9. IsDecodable(SubSeq(log, 1, n))
    <2> DEFINE q == SubSeq(log, 1, n)
    <2>1. Len(q) = n /\ \A k \in 1..n : q[k] = log[k] BY <1>5, <1>6, <1>7, PrefixFacts
    <2> HIDE DEF q
    <2>2. \A k \in 1..n : q[k] = fs.cell[from + k - 1] /\ from + k - 1 \in Cell
      <3> SUFFICES ASSUME NEW k \in 1..n
                   PROVE  q[k] = fs.cell[from + k - 1] /\ from + k - 1 \in Cell
        OBVIOUS
      <3>1. k \in 1..(to - from) BY <1>4, <1>5
      <3> QED BY <1>6, <2>1, <3>1
    <2>3. Decodable(fs.cell, from, from + n) BY <1>3, <1>5
    <2>4. IsDecodable(q) BY <1>4, <1>5, <2>1, <2>2, <2>3, DecodableSequence
    <2> QED BY <2>4 DEF q
  <1> QED BY <1>5, <1>7, <1>8, <1>9 DEF log

(* Every log that has an end can be decoded up to where power was lost or  *)
(* the store was full: Blackbox.cpp, blackbox.c and BlackboxFlashfs.cpp,   *)
(* whatever arming, switches, erases and losses of power came between.     *)
THEOREM LogsStayDecodable == Spec => []LogsDecodable
BY RecorderInvariant, InvLogs, PTL

-----------------------------------------------------------------------------
(***************************************************************************)
(* The refinement of the log store.                                        *)
(***************************************************************************)
Content == Byte \cup {Erased, Mixed}

(* A sequence that agrees with a longer one is a prefix of it.             *)
LEMMA PrefixIs ==
  ASSUME NEW S, NEW p \in Seq(S), NEW q \in Seq(S), Len(p) <= Len(q),
         \A k \in 1..Len(p) : p[k] = q[k]
  PROVE  Store!IsPrefix(p, q)
PROOF
  <1>1. Len(p) \in Nat /\ Len(q) \in Nat BY LenProperties
  <1>2. SubSeq(p, 1, Len(p)) = [k \in 1..Len(p) |-> p[k]] BY <1>1
  <1>3. SubSeq(q, 1, Len(p)) = [k \in 1..Len(p) |-> q[k]] BY <1>1
  <1> QED BY <1>2, <1>3 DEF Store!IsPrefix

(* What was written since the last log that has an end. *)
LEMMA OpenLogFacts ==
  ASSUME NEW s, StoreInv(s)
  PROVE  /\ OpenLog(s) \in Seq(Content) /\ Len(OpenLog(s)) = Top(s) - LastEnd(s)
         /\ \A k \in 1..(Top(s) - LastEnd(s)) :
              /\ OpenLog(s)[k] = Image(s)[LastEnd(s) + k - 1] /\ LastEnd(s) + k - 1 \in Cell
PROOF
  <1> DEFINE from == LastEnd(s)
             head == IF LogIsOpen(s) THEN Between(s, s.begin[s.journalIdx], s.address) ELSE <<>>
  <1>0. s \in Stores /\ Journal(s) /\ Top(s) <= Cells BY DEF StoreInv, Sound
  <1>1. /\ s.address \in 0..Cells /\ s.journalIdx \in 0..Items /\ s.buffer \in Seq(Byte)
        /\ Len(s.buffer) \in Nat /\ Top(s) = s.address + Len(s.buffer)
        /\ from \in Address /\ from \in Nat /\ from <= s.address
    BY <1>0, StoreFields DEF Journal, Address, Top
  <1>2. s.buffer \in Seq(Content) BY <1>1 DEF Content
  <1>3. /\ head \in Seq(Content) /\ Len(head) = s.address - from
        /\ \A k \in 1..(s.address - from) : head[k] = s.cell[from + k - 1]
    <2>1. CASE LogIsOpen(s)
      <3>1. s.journalIdx \in Item BY <1>1, <2>1, Sizes DEF LogIsOpen, Item
      <3>2. s.begin[s.journalIdx] = from
        BY <1>0, <1>1, <2>1, <3>1, Sizes DEF LogIsOpen, Journal, None
      <3>3. s.address \in Address BY <1>1 DEF Address
      <3>4. head = Between(s, from, s.address) BY <2>1, <3>2
      <3> QED BY <1>0, <1>1, <3>3, <3>4, BetweenFacts DEF Content
    <2>2. CASE ~LogIsOpen(s)
      <3>1. s.address = from
        <4>1. CASE s.journalIdx >= Items
          <5>1. Top(s) = from BY <4>1 DEF StoreInv, IsEOF
          <5> QED BY <1>1, <5>1
        <4>2. CASE s.journalIdx < Items
          <5>1. s.journalIdx \in Item BY <1>1, <4>2, Sizes DEF Item
          <5>2. ~(s.begin[s.journalIdx] < s.address) BY <2>2, <4>2 DEF LogIsOpen
          <5>3. s.begin[s.journalIdx] \in {None, from} BY <1>0, <5>1 DEF Journal
          <5>4. CASE s.begin[s.journalIdx] = None BY <1>0, <5>4 DEF Journal
          <5>5. CASE s.begin[s.journalIdx] = from BY <1>1, <5>2, <5>5
          <5> QED BY <5>3, <5>4, <5>5
        <4> QED BY <1>1, <4>1, <4>2, Sizes
      <3>2. head = <<>> BY <2>2
      <3>3. <<>> \in Seq(Content) /\ Len(<<>>) = 0 OBVIOUS
      <3>4. s.address - from = 0 BY <1>1, <3>1
      <3>5. \A k \in 1..0 : FALSE OBVIOUS
      <3> HIDE DEF head
      <3> QED BY <3>2, <3>3, <3>4, <3>5
    <2> QED BY <2>1, <2>2
  <1>4. OpenLog(s) = head \o s.buffer BY DEF OpenLog
  <1> HIDE DEF head, from
  <1>5. Len(head) \in Nat /\ Len(head) = s.address - from BY <1>1, <1>3
  <1>6. /\ head \o s.buffer \in Seq(Content) /\ Len(head \o s.buffer) = Top(s) - from
        /\ \A k \in 1..(Top(s) - from) :
             (head \o s.buffer)[k] = IF k <= s.address - from THEN head[k]
                                     ELSE s.buffer[k - (s.address - from)]
    <2> DEFINE n == Len(head)
    <2>1. head \o s.buffer \in Seq(Content) BY <1>2, <1>3
    <2>2. Len(head \o s.buffer) = n + Len(s.buffer) BY <1>2, <1>3, ConcatProperties
    <2>3. \A k \in 1..(n + Len(s.buffer)) :
            (head \o s.buffer)[k] = IF k <= n THEN head[k] ELSE s.buffer[k - n]
      BY <1>2, <1>3, ConcatProperties
    <2>4. n + Len(s.buffer) = Top(s) - from BY <1>1, <1>5
    <2> QED BY <1>5, <2>1, <2>2, <2>3, <2>4
  <1>7. ASSUME NEW k \in 1..(Top(s) - from)
        PROVE  (head \o s.buffer)[k] = Image(s)[from + k - 1] /\ from + k - 1 \in Cell
    <2> DEFINE a == from + k - 1
    <2>1. a \in Cell /\ a < Top(s) BY <1>0, <1>1, Sizes DEF Cell
    <2>2. CASE k <= s.address - from
      <3>1. k \in 1..(s.address - from) /\ a < s.address BY <1>1, <2>2
      <3>2. Image(s)[a] = s.cell[a] BY <1>0, <2>1, <3>1, ImageFacts
      <3> QED BY <1>3, <1>6, <2>1, <2>2, <3>1, <3>2
    <2>3. CASE ~(k <= s.address - from)
      <3>1. s.address <= a /\ k - (s.address - from) = a - s.address + 1 BY <1>1, <2>3
      <3>2. Image(s)[a] = s.buffer[a - s.address + 1] BY <1>0, <2>1, <3>1, ImageFacts
      <3> QED BY <1>6, <2>1, <2>3, <3>1, <3>2
    <2> QED BY <2>2, <2>3
  <1> QED BY <1>4, <1>6, <1>7 DEF from

(* The logs that have an end. *)
LEMMA LogsFacts ==
  ASSUME NEW s, Sound(s)
  PROVE  /\ Logs(s) \in Seq(Seq(Content)) /\ Len(Logs(s)) = s.journalIdx /\ s.journalIdx \in Nat
         /\ Logs(s) = [i \in 1..s.journalIdx |-> Logs(s)[i]]
PROOF
  <1>0. s \in Stores BY DEF Sound
  <1>1. s.journalIdx \in Nat BY <1>0, StoreFields
  <1>2. \A i \in 1..s.journalIdx : Logs(s)[i] \in Seq(Content)
    BY <1>0, LogFacts, BetweenFacts DEF Content
  <1>3. Logs(s) = [i \in 1..s.journalIdx |-> Logs(s)[i]] BY DEF Logs
  <1>4. Logs(s) \in Seq(Seq(Content)) BY <1>1, <1>2, <1>3, IsASeq
  <1>5. Len(Logs(s)) = s.journalIdx BY <1>1, <1>3, <1>4
  <1> QED BY <1>1, <1>3, <1>4, <1>5

(* They stay what they are as long as their cells and ends do. *)
LEMMA LogsAgree ==
  ASSUME NEW f, NEW g, Sound(f), Sound(g), f.journalIdx <= g.journalIdx,
         \A i \in Item : i < f.journalIdx => g.begin[i] = f.begin[i] /\ g.end[i] = f.end[i],
         \A a \in Cell : a < LastEnd(f) => g.cell[a] = f.cell[a]
  PROVE  /\ \A i \in 1..f.journalIdx : Logs(g)[i] = Logs(f)[i]
         /\ Store!IsPrefix(Logs(f), Logs(g))
         /\ g.journalIdx = f.journalIdx => Logs(g) = Logs(f)
PROOF
  <1>1. /\ Logs(f) \in Seq(Seq(Content)) /\ Len(Logs(f)) = f.journalIdx /\ f.journalIdx \in Nat
        /\ Logs(f) = [i \in 1..f.journalIdx |-> Logs(f)[i]]
    BY LogsFacts
  <1>2. /\ Logs(g) \in Seq(Seq(Content)) /\ Len(Logs(g)) = g.journalIdx /\ g.journalIdx \in Nat
        /\ Logs(g) = [i \in 1..g.journalIdx |-> Logs(g)[i]]
    BY LogsFacts
  <1>3. ASSUME NEW i \in 1..f.journalIdx PROVE Logs(g)[i] = Logs(f)[i]
    <2>0. i \in 1..g.journalIdx BY <1>1, <1>2
    <2> DEFINE from == f.begin[i - 1]
               to == f.end[i - 1]
    <2>1. /\ i - 1 \in Item /\ i - 1 < f.journalIdx /\ from \in Address /\ to \in Address
          /\ from <= to /\ to <= LastEnd(f) /\ Logs(f)[i] = Between(f, from, to)
      BY LogFacts
    <2>2. Logs(g)[i] = Between(g, from, to) BY <2>0, <2>1, LogFacts
    <2>3. LastEnd(f) \in Nat BY DEF Sound, Journal, Address
    <2>4. \A k \in 1..(to - from) : f.cell[from + k - 1] = g.cell[from + k - 1]
      BY <2>1, <2>3, Sizes DEF Address, Cell
    <2> HIDE DEF from, to
    <2>5. Between(f, from, to) = Between(g, from, to) BY <2>4 DEF Between
    <2> QED BY <2>1, <2>2, <2>5
  <1>4. Store!IsPrefix(Logs(f), Logs(g)) BY <1>1, <1>2, <1>3, PrefixIs
  <1>5. ASSUME g.journalIdx = f.journalIdx PROVE Logs(g) = Logs(f)
    BY <1>1, <1>2, <1>3, <1>5
  <1> QED BY <1>3, <1>4, <1>5

(* The last of them. *)
LEMMA LastLog ==
  ASSUME NEW r, Sound(r), NEW j \in Nat, r.journalIdx = j + 1,
         NEW from, from = r.begin[j]
  PROVE  /\ Store!Last(Logs(r)) \in Seq(Content)
         /\ j \in Item /\ from \in Address /\ LastEnd(r) \in Address /\ from <= LastEnd(r)
         /\ Len(Store!Last(Logs(r))) = LastEnd(r) - from
         /\ \A k \in 1..(LastEnd(r) - from) :
              Store!Last(Logs(r))[k] = r.cell[from + k - 1] /\ from + k - 1 \in Cell
PROOF
  <1>0. r \in Stores BY DEF Sound
  <1>1. Len(Logs(r)) = j + 1 BY LogsFacts
  <1>2. j + 1 \in 1..r.journalIdx OBVIOUS
  <1>3. (j + 1) - 1 = j OBVIOUS
  <1>4. /\ j \in Item /\ from \in Address /\ r.end[j] \in Address /\ from <= r.end[j]
        /\ Logs(r)[j + 1] = Between(r, from, r.end[j])
    BY <1>2, <1>3, LogFacts
  <1>5. LastEnd(r) = r.end[j] BY <1>3 DEF LastEnd
  <1>6. Store!Last(Logs(r)) = Between(r, from, LastEnd(r)) BY <1>1, <1>4, <1>5 DEF Store!Last
  <1> QED BY <1>0, <1>4, <1>5, <1>6, BetweenFacts DEF Content

(* Between two logs nothing is open. *)
LEMMA NothingOpen ==
  ASSUME NEW s, StoreInv(s), Top(s) = LastEnd(s)
  PROVE  OpenLog(s) = <<>>
PROOF
  <1>1. OpenLog(s) \in Seq(Content) /\ Len(OpenLog(s)) = Top(s) - LastEnd(s) BY OpenLogFacts
  <1>2. Top(s) \in Nat BY StoreFields DEF StoreInv, Sound
  <1>3. Len(OpenLog(s)) = 0 BY <1>1, <1>2
  <1> QED BY <1>1, <1>3, EmptySeq

(* What grows or is closed keeps the logs there are. *)
LEMMA LogsKept ==
  ASSUME NEW f, NEW g, StoreInv(f), StoreInv(g), Same(f, g) \/ Closed(f, g)
  PROVE  /\ Store!IsPrefix(Logs(f), Logs(g))
         /\ g.journalIdx = f.journalIdx => Logs(g) = Logs(f)
PROOF
  <1>1. f \in Stores /\ g \in Stores /\ Kept(f, g) /\ f.address <= g.address /\ Sound(f) /\ Sound(g)
    BY GrownFacts DEF StoreInv
  <1>2. f.journalIdx <= g.journalIdx BY <1>1, StoreFields DEF Same, Closed
  <1>3. /\ LastEnd(f) \in Nat /\ f.address \in Nat /\ g.address \in Nat /\ f.address <= Top(f)
        /\ LastEnd(f) <= f.address /\ Top(f) \in Nat
    BY <1>1, StoreFields DEF Sound, Journal, Address
  <1>4. ASSUME NEW a \in Cell, a < LastEnd(f) PROVE g.cell[a] = f.cell[a]
    <2>1. a \in Nat BY Sizes DEF Cell
    <2>2. a < f.address /\ a < g.address /\ a < Top(f) BY <1>1, <1>3, <1>4, <2>1
    <2>3. f.cell[a] = Image(f)[a] /\ g.cell[a] = Image(g)[a] BY <1>1, <2>2, ImageFacts
    <2> QED BY <1>1, <2>2, <2>3 DEF Kept
  <1> QED BY <1>1, <1>2, <1>4, LogsAgree DEF Kept

(* A log that is written on only grows. *)
LEMMA GrowStep ==
  ASSUME NEW f, NEW g, StoreInv(f), StoreInv(g), Same(f, g)
  PROVE  Logs(g) = Logs(f) /\ Store!IsPrefix(OpenLog(f), OpenLog(g))
PROOF
  <1>0. f \in Stores /\ g \in Stores BY DEF StoreInv, Sound
  <1>1. Logs(g) = Logs(f) BY LogsKept DEF Same
  <1>2. LastEnd(g) = LastEnd(f) BY <1>0, SameLastEnd
  <1>3. Top(f) \in Nat /\ Top(g) \in Nat /\ LastEnd(f) \in Nat /\ Top(f) <= Top(g)
    BY <1>0, StoreFields DEF StoreInv, Sound, Journal, Address, Same
  <1> DEFINE from == LastEnd(f)
             n == Top(f) - from
  <1>4. /\ OpenLog(f) \in Seq(Content) /\ Len(OpenLog(f)) = n
        /\ \A k \in 1..n : OpenLog(f)[k] = Image(f)[from + k - 1] /\ from + k - 1 \in Cell
    BY OpenLogFacts
  <1>5. /\ OpenLog(g) \in Seq(Content) /\ Len(OpenLog(g)) = Top(g) - from
        /\ \A k \in 1..(Top(g) - from) : OpenLog(g)[k] = Image(g)[from + k - 1]
    BY <1>2, OpenLogFacts
  <1>6. ASSUME NEW k \in 1..n PROVE OpenLog(f)[k] = OpenLog(g)[k]
    <2>1. k \in 1..(Top(g) - from) /\ from + k - 1 < Top(f) BY <1>3
    <2> QED BY <1>4, <1>5, <2>1 DEF Same, Kept
  <1>7. n <= Top(g) - from BY <1>3
  <1> HIDE DEF n
  <1> QED BY <1>1, <1>4, <1>5, <1>6, <1>7, PrefixIs

(* A log that is closed is kept as it was written. *)
LEMMA CloseStep ==
  ASSUME NEW f, NEW g, StoreInv(f), Sound(g), Closed(f, g), f.address <= g.address,
         Top(g) = g.address
  PROVE  Store!IsPrefix(OpenLog(f), Store!Last(Logs(g)))
PROOF
  <1>0. f \in Stores /\ g \in Stores BY DEF StoreInv, Sound
  <1> DEFINE from == LastEnd(f)
             n == Top(f) - from
             to == LastEnd(g)
  <1>1. /\ Top(f) \in Nat /\ Top(g) \in Nat /\ from \in Nat /\ f.journalIdx \in Nat
        /\ Top(f) <= to /\ to = g.address
    BY <1>0, StoreFields DEF StoreInv, Sound, Journal, Address, Closed
  <1>2. /\ OpenLog(f) \in Seq(Content) /\ Len(OpenLog(f)) = n
        /\ \A k \in 1..n : OpenLog(f)[k] = Image(f)[from + k - 1] /\ from + k - 1 \in Cell
    BY OpenLogFacts
  <1>3. g.journalIdx = f.journalIdx + 1 /\ from = g.begin[f.journalIdx] BY DEF Closed
  <1> DEFINE log == Store!Last(Logs(g))
  <1>4. /\ log \in Seq(Content) /\ Len(log) = to - from
        /\ \A k \in 1..(to - from) : log[k] = g.cell[from + k - 1] /\ from + k - 1 \in Cell
    BY <1>1, <1>3, LastLog
  <1> HIDE DEF log
  <1>5. to \in Nat BY <1>1
  <1>6. ASSUME NEW k \in 1..n PROVE OpenLog(f)[k] = log[k]
    <2> DEFINE a == from + k - 1
    <2>1. k \in 1..(to - from) /\ a < Top(f) /\ a < g.address BY <1>1, <1>5
    <2>2. a \in Cell /\ OpenLog(f)[k] = Image(f)[a] /\ log[k] = g.cell[a] BY <1>2, <1>4, <2>1
    <2>3. g.cell[a] = Image(g)[a] BY <1>0, <2>1, <2>2, ImageFacts
    <2> QED BY <2>1, <2>2, <2>3 DEF Closed, Kept
  <1>7. n <= to - from BY <1>1, <1>5
  <1> HIDE DEF n, to, from
  <1> QED BY <1>2, <1>4, <1>6, <1>7, PrefixIs DEF log

(* The log the repair found the end of: what was written, then erased.     *)
LEMMA SalvagedPartly ==
  ASSUME NEW f, StoreInv(f), NEW u, Sound(u), u.buffer = <<>>, Partly(f, u), LastEnd(u) = LastEnd(f),
         NEW r, StoreInv(r), Mounted(u, r), Repaired(u, r)
  PROVE  LET log == Store!Last(Logs(r))
         IN \E n \in 0..Len(log) :
              /\ n <= Len(log) /\ Len(log) - n <= Stride - 1
              /\ \A k \in (n + 1)..Len(log) : log[k] = Erased
              /\ \/ Store!IsPrefix(SubSeq(log, 1, n), OpenLog(f))
                 \/ Store!IsPrefix(OpenLog(f), SubSeq(log, 1, n))
PROOF
  <1>0. f \in Stores /\ u \in Stores /\ r \in Stores /\ Sound(r) BY DEF StoreInv, Sound
  <1> DEFINE from == LastEnd(f)
             to == LastEnd(r)
             log == Store!Last(Logs(r))
             n == u.address - from
             d == to - from
             h == Top(f) - from
  <1>1. /\ u.address \in Nat /\ from \in Nat /\ to \in Nat /\ Top(f) \in Nat /\ Stride \in Nat
        /\ from <= u.address /\ u.address <= to /\ to - u.address < Stride /\ from <= Top(f)
        /\ u.journalIdx \in Nat /\ r.cell = u.cell
    BY <1>0, Sizes, StoreFields DEF StoreInv, Sound, Journal, Address, Repaired, Mounted
  <1>2. r.journalIdx = u.journalIdx + 1 /\ from = r.begin[u.journalIdx] BY DEF Repaired
  <1>3. /\ log \in Seq(Content) /\ Len(log) = d
        /\ \A k \in 1..d : log[k] = u.cell[from + k - 1] /\ from + k - 1 \in Cell
    <2> HIDE DEF from
    <2>1. /\ log \in Seq(Content) /\ Len(log) = d
          /\ \A k \in 1..d : log[k] = r.cell[from + k - 1] /\ from + k - 1 \in Cell
      <3> DEFINE j == u.journalIdx
      <3>1. j \in Nat /\ r.journalIdx = j + 1 /\ from = r.begin[j] /\ Sound(r)
        BY <1>0, <1>1, <1>2
      <3> HIDE DEF j
      <3> QED BY <3>1, LastLog
    <2> QED BY <1>1, <2>1
  <1>4. /\ OpenLog(f) \in Seq(Content) /\ Len(OpenLog(f)) = h
        /\ \A k \in 1..h : OpenLog(f)[k] = Image(f)[from + k - 1]
    BY OpenLogFacts
  <1>5. n \in Nat /\ n <= d /\ d \in Nat /\ h \in Nat /\ d - n <= Stride - 1 BY <1>1
  <1>6. ASSUME NEW k \in (n + 1)..d PROVE log[k] = Erased
    <2>1. k \in 1..d /\ u.address <= from + k - 1 /\ from + k - 1 < to BY <1>1, <1>6
    <2> QED BY <1>3, <2>1 DEF Repaired, ErasedFrom
  <1>7. ASSUME NEW k \in 1..n, k <= h PROVE log[k] = OpenLog(f)[k]
    <2>1. k \in 1..d /\ k \in 1..h /\ from + k - 1 < u.address /\ from + k - 1 < Top(f)
      BY <1>1, <1>7
    <2> QED BY <1>3, <1>4, <2>1 DEF Partly
  <1> DEFINE q == SubSeq(log, 1, n)
  <1> HIDE DEF n, d, h, log
  <1>8. q \in Seq(Content) /\ Len(q) = n /\ \A k \in 1..n : q[k] = log[k]
    <2>1. n \in 0..Len(log) BY <1>3, <1>5
    <2> QED BY <1>3, <2>1, PrefixFacts
  <1> HIDE DEF q
  <1>9. CASE n <= h
    <2>1. \A k \in 1..n : q[k] = OpenLog(f)[k] BY <1>5, <1>7, <1>8, <1>9
    <2>2. Store!IsPrefix(q, OpenLog(f)) BY <1>4, <1>8, <1>9, <2>1, PrefixIs
    <2> QED BY <1>3, <1>5, <1>6, <2>2 DEF q, log
  <1>10. CASE h <= n
    <2>1. \A k \in 1..h : OpenLog(f)[k] = q[k]
      <3> SUFFICES ASSUME NEW k \in 1..h PROVE OpenLog(f)[k] = q[k] OBVIOUS
      <3>1. k \in 1..n /\ k <= h BY <1>5, <1>10
      <3> QED BY <1>7, <1>8, <3>1
    <2>2. Store!IsPrefix(OpenLog(f), q) BY <1>4, <1>8, <1>10, <2>1, PrefixIs
    <2> QED BY <1>3, <1>5, <1>6, <2>2 DEF q, log
  <1> QED BY <1>5, <1>9, <1>10

(* A log that was closed before the power went is whole. *)
LEMMA SalvagedWhole ==
  ASSUME NEW log \in Seq(Content), NEW open, Store!IsPrefix(open, log)
  PROVE  \E n \in 0..Len(log) :
           /\ n <= Len(log) /\ Len(log) - n <= Stride - 1
           /\ \A k \in (n + 1)..Len(log) : log[k] = Erased
           /\ \/ Store!IsPrefix(SubSeq(log, 1, n), open)
              \/ Store!IsPrefix(open, SubSeq(log, 1, n))
PROOF
  <1> DEFINE n == Len(log)
  <1>1. n \in Nat /\ Stride \in Nat \ {0} BY LenProperties, Sizes
  <1>2. SubSeq(log, 1, n) = log
    <2>1. SubSeq(log, 1, n) = [k \in 1..n |-> log[k]] BY <1>1
    <2> QED BY <2>1, LenProperties
  <1>3. \A k \in (n + 1)..Len(log) : log[k] = Erased BY <1>1
  <1>4. n \in 0..Len(log) /\ n <= Len(log) /\ Len(log) - n <= Stride - 1 BY <1>1
  <1>5. Store!IsPrefix(open, SubSeq(log, 1, n)) BY <1>2
  <1> HIDE DEF n
  <1> QED BY <1>3, <1>4, <1>5

(* After a loss of power nothing is open, and at most one log was added.   *)
LEMMA RecoverStep ==
  ASSUME NEW f, StoreInv(f), NEW u, Left(f, u), NEW r, StoreInv(r), Mounted(u, r)
  PROVE  \/ Logs(r) = Logs(f)
         \/ /\ Len(Logs(r)) = Len(Logs(f)) + 1 /\ Store!IsPrefix(Logs(f), Logs(r))
            /\ LET log == Store!Last(Logs(r))
               IN \E n \in 0..Len(log) :
                    /\ n <= Len(log) /\ Len(log) - n <= Stride - 1
                    /\ \A k \in (n + 1)..Len(log) : log[k] = Erased
                    /\ \/ Store!IsPrefix(SubSeq(log, 1, n), OpenLog(f))
                       \/ Store!IsPrefix(OpenLog(f), SubSeq(log, 1, n))
PROOF
  <1>0. f \in Stores /\ u \in Stores /\ r \in Stores /\ Sound(f) /\ Sound(u) /\ Sound(r)
    BY DEF StoreInv, Sound, Left
  <1>1. /\ f.address \in Nat /\ u.address \in Nat /\ r.cell = u.cell /\ Top(u) = u.address
        /\ f.journalIdx \in Nat /\ u.journalIdx \in Nat /\ r.journalIdx \in Nat
        /\ LastEnd(f) \in Nat /\ LastEnd(f) <= f.address /\ f.address <= Top(f) /\ Top(f) \in Nat
        /\ LastEnd(u) \in Nat /\ LastEnd(u) <= u.address
    BY <1>0, StoreFields, EmptyBuffer DEF Sound, Journal, Address, Left, Mounted
  <1>2. Len(Logs(f)) = f.journalIdx /\ Len(Logs(r)) = r.journalIdx BY <1>0, LogsFacts
  <1>3. \A a \in Cell : a \in Nat BY Sizes DEF Cell
  <1>4. \A a \in Cell : a < f.address => Image(f)[a] = f.cell[a] BY <1>0, ImageFacts
  <1>5. CASE Partly(f, u)
    <2>1. LastEnd(u) = LastEnd(f)
      <3>1. f.journalIdx # 0 => f.journalIdx - 1 \in Item BY <1>0, StoreFields, Sizes DEF Item
      <3> QED BY <1>1, <1>5, <3>1 DEF Partly, LastEnd
    <2>2. f.journalIdx <= r.journalIdx BY <1>1, <1>5 DEF Mounted, Repaired, Partly
    <2>3. \A a \in Cell : a < LastEnd(f) => r.cell[a] = f.cell[a]
      BY <1>1, <1>3, <1>4, <1>5, <2>1 DEF Partly
    <2>4. \A i \in Item : i < f.journalIdx => r.begin[i] = f.begin[i] /\ r.end[i] = f.end[i]
      BY <1>5 DEF Partly, Mounted
    <2>5. Store!IsPrefix(Logs(f), Logs(r)) /\ (r.journalIdx = f.journalIdx => Logs(r) = Logs(f))
      BY <1>0, <2>2, <2>3, <2>4, LogsAgree
    <2>6. CASE r.journalIdx = u.journalIdx BY <1>5, <2>5, <2>6 DEF Partly
    <2>7. CASE Repaired(u, r)
      <3>1. Len(Logs(r)) = Len(Logs(f)) + 1 BY <1>2, <1>5, <2>7 DEF Partly, Repaired
      <3> QED BY <1>0, <1>5, <2>1, <2>5, <2>7, <3>1, SalvagedPartly DEF Left
    <2> QED BY <2>6, <2>7 DEF Mounted
  <1>6. CASE Closed(f, u)
    <2>1. r.journalIdx = u.journalIdx
      <3> SUFFICES ASSUME Repaired(u, r) PROVE FALSE BY DEF Mounted
      <3>1. u.journalIdx \in Item BY <1>1, Sizes DEF Repaired, Item
      <3>2. IsEOF(u) BY <1>6, <3>1 DEF Closed, Repaired
      <3>3. u.address >= Cells BY <3>2, <1>1, Sizes DEF IsEOF, Repaired
      <3> QED BY <1>1, <1>6, <3>3, Sizes DEF Closed, Repaired
    <2>2. \A i \in Item : i < u.journalIdx => r.begin[i] = u.begin[i] /\ r.end[i] = u.end[i]
      BY DEF Mounted
    <2>3. r.journalIdx = f.journalIdx + 1 BY <1>6, <2>1 DEF Closed
    <2>4. Image(u) = u.cell BY <1>0, EmptyBuffer DEF Left, Sound
    <2>5. \A i \in Item : i \in Int /\ (i < f.journalIdx => i < u.journalIdx)
      BY <1>1, <1>6 DEF Closed, Item
    <2>6. \A i \in Item : i < f.journalIdx => r.begin[i] = f.begin[i] /\ r.end[i] = f.end[i]
      BY <1>6, <2>2, <2>5 DEF Closed, Kept
    <2>7. \A a \in Cell : a < LastEnd(f) => r.cell[a] = f.cell[a]
      BY <1>1, <1>3, <1>4, <1>6, <2>4 DEF Closed, Kept
    <2>8. f.journalIdx <= r.journalIdx BY <1>1, <2>3
    <2>9. Store!IsPrefix(Logs(f), Logs(r)) BY <1>0, <2>6, <2>7, <2>8, LogsAgree
    <2>10. Len(Logs(r)) = Len(Logs(f)) + 1 BY <1>2, <2>3
    <2>11. Logs(r) = Logs(u)
      <3>1. u.journalIdx <= r.journalIdx BY <1>1, <2>1
      <3> QED BY <1>0, <1>1, <2>1, <2>2, <3>1, LogsAgree
    <2>12. Store!IsPrefix(OpenLog(f), Store!Last(Logs(r)))
      <3>1. f.address <= u.address BY <1>1, <1>6 DEF Closed
      <3> QED BY <1>0, <1>1, <1>6, <2>11, <3>1, CloseStep
    <2>13. Store!Last(Logs(r)) \in Seq(Content)
      <3> DEFINE from == r.begin[f.journalIdx]
      <3>1. from = r.begin[f.journalIdx] OBVIOUS
      <3> QED BY <1>0, <1>1, <2>3, LastLog
    <2> QED BY <2>9, <2>10, <2>12, <2>13, SalvagedWhole
  <1> QED BY <1>5, <1>6 DEF Left

(* A blank store has no log.                                               *)
LEMMA NoLogs == Logs(Blank) = <<>> /\ OpenLog(Blank) = <<>>
PROOF
  <1>1. Sound(Blank) BY BlankFacts DEF StoreInv
  <1>2. Logs(Blank) \in Seq(Seq(Content)) /\ Len(Logs(Blank)) = 0
    BY <1>1, BlankFacts, LogsFacts
  <1>3. Logs(Blank) = <<>> BY <1>2, EmptySeq
  <1> QED BY <1>3, BlankFacts, NothingOpen

(* Each step of the recorder is one of the store's promise, or no step.    *)
LEMMA ChangeStep ==
  ASSUME NEW f, NEW g, StoreInv(f), StoreInv(g), Same(f, g) \/ Closed(f, g), f = fs, g = fs'
  PROVE  Store!Next
PROOF
  <1>1. CASE Same(f, g)
    <2>1. Logs(g) = Logs(f) /\ Store!IsPrefix(OpenLog(f), OpenLog(g)) BY <1>1, GrowStep
    <2>2. Store!Grow BY <2>1 DEF Store!Grow
    <2> QED BY <2>2 DEF Store!Next
  <1>2. CASE Closed(f, g)
    <2>0. Sound(f) /\ Sound(g) BY DEF StoreInv
    <2>1. Len(Logs(g)) = Len(Logs(f)) + 1 BY <1>2, <2>0, LogsFacts DEF Closed
    <2>2. Store!IsPrefix(Logs(f), Logs(g)) BY LogsKept
    <2>3. Top(g) = g.address BY <1>2, NothingWaits DEF Closed
    <2>4. Store!IsPrefix(OpenLog(f), Store!Last(Logs(g)))
      BY <1>2, <2>0, <2>3, GrownFacts, CloseStep
    <2>5. OpenLog(g) = <<>> BY <1>2, NothingOpen DEF Closed
    <2>6. Store!CloseLog BY <2>1, <2>2, <2>4, <2>5 DEF Store!CloseLog
    <2> QED BY <2>6 DEF Store!Next
  <1> QED BY <1>1, <1>2

(* An update of the recorder is a step of a log store.                     *)
LEMMA UpdateStep ==
  ASSUME Inv, Inv', Update
  PROVE  Store!Next
PROOF
  <1>1. PICK s \in Updates : fs' = s.fs BY DEF Update
  <1>2. PairInv(s) /\ (Later(fs, s.fs) \/ Closed(fs, s.fs) \/ s.fs = Blank)
    BY <1>1, UpdatesFacts DEF Inv
  <1>3. StoreInv(fs) /\ StoreInv(s.fs) BY <1>2 DEF Inv, PairInv
  <1>4. CASE s.fs = Blank
    <2>1. Store!Erase BY <1>1, <1>4, NoLogs DEF Store!Erase
    <2> QED BY <2>1 DEF Store!Next
  <1>5. CASE Later(fs, s.fs) \/ Closed(fs, s.fs)
    <2>1. Same(fs, s.fs) \/ Closed(fs, s.fs) BY <1>5 DEF Later
    <2> QED BY <1>1, <1>3, <2>1, ChangeStep
  <1> QED BY <1>2, <1>4, <1>5

(* A loss of power and the repair after it recover a log store.            *)
LEMMA PowerLossStep ==
  ASSUME Inv, PowerLoss
  PROVE  Store!Next
PROOF
  <1> DEFINE r == fs'
  <1>1. PICK u : Left(fs, u) /\ Mounted(u, r) /\ Top(r) = LastEnd(r) /\ StoreInv(r)
    BY PowerLossInv
  <1>2. StoreInv(fs) BY DEF Inv, PairInv
  <1>3. OpenLog(fs)' = <<>> BY <1>1, NothingOpen
  <1> HIDE DEF r
  <1>4. \/ Logs(r) = Logs(fs)
        \/ /\ Len(Logs(r)) = Len(Logs(fs)) + 1 /\ Store!IsPrefix(Logs(fs), Logs(r))
           /\ \E n \in 0..Len(Store!Last(Logs(r))) : Store!Salvages(Store!Last(Logs(r)), n)
    BY <1>1, <1>2, RecoverStep DEF Store!Salvages
  <1>5. Store!Recover BY <1>3, <1>4 DEF Store!Recover, r
  <1> QED BY <1>5 DEF Store!Next

(* The recorder and its flash keep what a log store promises: closed logs  *)
(* stay as they were written, through losses of power and repairs, until   *)
(* they are erased (BlackboxFlashfs.cpp under blackbox.c).                 *)
THEOREM RecorderIsLogStore == Spec => IsLogStore
PROOF
  <1>1. Init => Store!Init BY NoLogs DEF Init, Store!Init
  <1>2. Inv /\ Inv' /\ [Next]_vars => [Store!Next]_<<Logs(fs), OpenLog(fs)>>
    <2> SUFFICES ASSUME Inv, Inv', [Next]_vars
                 PROVE  Store!Next \/ (Logs(fs)' = Logs(fs) /\ OpenLog(fs)' = OpenLog(fs))
      OBVIOUS
    <2>1. CASE Update BY <2>1, UpdateStep
    <2>2. CASE ArmOrDisarm BY <2>2 DEF ArmOrDisarm
    <2>3. CASE Switch BY <2>3 DEF Switch
    <2>4. CASE DataflashErase
      <3>1. fs' = Blank BY <2>4, EraseInv
      <3>2. Store!Erase BY <3>1, NoLogs DEF Store!Erase
      <3> QED BY <3>2 DEF Store!Next
    <2>5. CASE PowerLoss BY <2>5, PowerLossStep
    <2>6. CASE UNCHANGED vars BY <2>6 DEF vars
    <2> QED BY <2>1, <2>2, <2>3, <2>4, <2>5, <2>6 DEF Next
  <1>3. Spec => []Inv BY RecorderInvariant
  <1>4. Spec => Store!Spec BY <1>1, <1>2, <1>3, PTL DEF Spec, Store!Spec
  <1> QED BY <1>4 DEF IsLogStore

=============================================================================
