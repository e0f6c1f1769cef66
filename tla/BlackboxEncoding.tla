-------------------------- MODULE BlackboxEncoding --------------------------
(***************************************************************************)
(* How numbers become bytes in the log: betaflight's blackbox_encoding.c.  *)
(*                                                                         *)
(* TLC counts in 32 bits itself, so a word has 28 here: four bytes of      *)
(* seven bits hold it, as five hold one of 32.                             *)
(***************************************************************************)
EXTENDS Integers, FiniteSets, SequencesExt

Word == 2^28

(* The lowest n bits, and whether v is a signed number of n bits. *)
Low(v, n) == v % 2^n
Fits(v, n) == v \in -2^(n - 1) .. 2^(n - 1) - 1
AllFit(vs, n) == \A k \in DOMAIN vs : Fits(vs[k], n)

-----------------------------------------------------------------------------
(* Seven bits to a byte, the lowest first; the high bit announces more. *)
UnsignedVB(v) ==
  LET w == v % Word
      more == Cardinality({k \in 1..3 : w >= 128^k})
  IN [k \in 1..more + 1 |->
        Low(w \div 128^(k - 1), 7) + (IF k <= more THEN 128 ELSE 0)]

ZigZag(v) == IF v >= 0 THEN 2 * v ELSE -2 * v - 1

SignedVB(v) == UnsignedVB(ZigZag(v))

SignedVBArray(vs) == FlattenSeq([k \in DOMAIN vs |-> SignedVB(vs[k])])

-----------------------------------------------------------------------------
(* The lowest byte first. *)
Bytes(v, n) == [k \in 1..n |-> Low((v % Word) \div 256^(k - 1), 8)]

BytesNeeded(v) == CHOOSE n \in 1..4 : (n = 4 \/ Fits(v, 8 * n)) /\ \A k \in 1..n - 1 : ~Fits(v, 8 * k)

(***************************************************************************)
(* Three numbers behind a selector of two bits: of 2, 4 or 6 bits each, or *)
(* of as many bytes as each needs.                                         *)
(***************************************************************************)
Tag2_3S32(v) ==
  CASE AllFit(v, 2) -> <<16 * Low(v[1], 2) + 4 * Low(v[2], 2) + Low(v[3], 2)>>
    [] AllFit(v, 4) /\ ~AllFit(v, 2) -> <<64 + Low(v[1], 4), 16 * Low(v[2], 4) + Low(v[3], 4)>>
    [] AllFit(v, 6) /\ ~AllFit(v, 4) -> <<128 + Low(v[1], 6), Low(v[2], 8), Low(v[3], 8)>>
    [] OTHER ->
         LET n == [k \in 1..3 |-> BytesNeeded(v[k])]
         IN <<192 + (n[1] - 1) + 4 * (n[2] - 1) + 16 * (n[3] - 1)>>
              \o Bytes(v[1], n[1]) \o Bytes(v[2], n[2]) \o Bytes(v[3], n[3])

(***************************************************************************)
(* Four numbers behind a selector of a byte: none, 1, 2 or 4 nibbles each, *)
(* the highest first, and half a byte of zeros when they are odd.          *)
(***************************************************************************)
Kind16(v) == CASE v = 0 -> 0 [] v # 0 /\ Fits(v, 4) -> 1 [] ~Fits(v, 4) /\ Fits(v, 8) -> 2 [] OTHER -> 3

Nibbles(v) ==
  LET n == <<0, 1, 2, 4>>[Kind16(v) + 1] IN [k \in 1..n |-> Low(v \div 16^(n - k), 4)]

Tag8_4S16(v) ==
  LET halves == Nibbles(v[1]) \o Nibbles(v[2]) \o Nibbles(v[3]) \o Nibbles(v[4])
      padded == IF Len(halves) % 2 = 0 THEN halves ELSE Append(halves, 0)
  IN <<Kind16(v[1]) + 4 * Kind16(v[2]) + 16 * Kind16(v[3]) + 64 * Kind16(v[4])>>
       \o [k \in 1..Len(padded) \div 2 |-> 16 * padded[2 * k - 1] + padded[2 * k]]

(* Up to eight numbers behind a byte that marks those that are not zero; *)
(* one alone needs no such byte.                                         *)
Tag8_8SVB(v) ==
  LET marks == FoldLeftDomain(LAMBDA sum, k : sum + (IF v[k] # 0 THEN 2^(k - 1) ELSE 0), 0, v)
  IN CASE Len(v) = 0 -> <<>>
       [] Len(v) = 1 -> SignedVB(v[1])
       [] OTHER -> <<marks>> \o SignedVBArray(SelectSeq(v, LAMBDA x : x # 0))

=============================================================================
