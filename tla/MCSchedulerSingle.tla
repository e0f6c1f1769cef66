------------------------- MODULE MCSchedulerSingle --------------------------
(* SchedulerSingle with small clocks: the constants are given values in the  *)
(* configurations.                                                           *)
EXTENDS SchedulerSingle

MCGaps == {1, 2, 3}
OneGap == {1}

=============================================================================
