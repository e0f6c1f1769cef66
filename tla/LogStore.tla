----------------------------- MODULE LogStore ------------------------------
(***************************************************************************)
(* What a log store promises: an open log only grows, closing it appends   *)
(* it to the logs as it was written, closed logs stay what they are until  *)
(* all of them are erased, and a loss of power costs the end of the open   *)
(* log only, which is kept with less than a gap of erased cells behind it. *)
(***************************************************************************)
EXTENDS Naturals, SequencesExt

CONSTANTS Gap, Erased

VARIABLES logs, open

Init == logs = <<>> /\ open = <<>>

Grow == UNCHANGED logs /\ IsPrefix(open, open')

CloseLog ==
  /\ Len(logs') = Len(logs) + 1 /\ IsPrefix(logs, logs')
  /\ IsPrefix(open, Last(logs')) /\ open' = <<>>

(* The log as recovered: n cells of what was written, then erased ones. *)
Salvages(log, n) ==
  /\ n <= Len(log) /\ Len(log) - n <= Gap
  /\ \A k \in (n + 1)..Len(log) : log[k] = Erased
  /\ LET kept == SubSeq(log, 1, n)
     IN IsPrefix(kept, open) \/ IsPrefix(open, kept)

Recover ==
  /\ open' = <<>>
  /\ \/ UNCHANGED logs
     \/ /\ Len(logs') = Len(logs) + 1 /\ IsPrefix(logs, logs')
        /\ \E n \in 0..Len(Last(logs')) : Salvages(Last(logs'), n)

Erase == logs' = <<>> /\ open' = <<>>

Next == Grow \/ CloseLog \/ Recover \/ Erase

Spec == Init /\ [][Next]_<<logs, open>>

=============================================================================
