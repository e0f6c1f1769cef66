-------------------------- MODULE MCSampleHandoff --------------------------
(***************************************************************************)
(* Two ways by which data travels that share no state, one of them watched *)
(* at a time: the samples from one core to the other (SampleHandoff) and   *)
(* the settings from one craft to another through a dump (Cli).            *)
(***************************************************************************)
EXTENDS SampleHandoff, Cli

VARIABLE watched

BoardPorts == <<"0", "usb">>

(* Each sample as what was dumped and as what was found. *)
SamplePairs == {<<2, 1>>, <<3, 2>>, <<4, 3>>, <<1, 4>>}

EitherInit ==
  /\ watched \in {"samples", "dump"}
  /\ Init /\ CliInit
  /\ watched = "samples" => backup = 1 /\ notes = "none" /\ ends = "LF" /\ active

Samples(A) == watched = "samples" /\ A /\ UNCHANGED <<watched, cliVars>>

(* A dump that was played back is the end of it. *)
Dump(A) == watched = "dump" /\ A /\ UNCHANGED <<watched, vars>>

EitherNext ==
  \/ Samples(Next)
  \/ Dump(CliNext)
  \/ Dump(phase # "playing" /\ UNCHANGED cliVars)

EitherSpec ==
  /\ EitherInit /\ [][EitherNext]_<<watched, vars, cliVars>>
  /\ WF_vars(Samples(StoreAccel)) /\ WF_vars(Samples(UpdateOther))

=============================================================================
