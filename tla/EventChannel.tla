---------------------------- MODULE EventChannel ----------------------------
(***************************************************************************)
(* What the gyro task and the PID task expect of Target::Queue: a bounded  *)
(* first-in first-out channel between one sender and one receiver.  An     *)
(* event is dropped when the channel is full and never otherwise lost,     *)
(* repeated or reordered.                                                  *)
(***************************************************************************)
EXTENDS Naturals, Sequences

CONSTANTS Event, Size

VARIABLES
  channel,     \* the events accepted and not yet received
  received     \* the last event handed to the receiver

Send(e) ==
  /\ Len(channel) < Size
  /\ channel' = Append(channel, e)
  /\ UNCHANGED received

Receive ==
  /\ channel # <<>>
  /\ received' = Head(channel)
  /\ channel' = Tail(channel)

ChannelInit == channel = <<>> /\ received \in Event

ChannelNext == Receive \/ \E e \in Event : Send(e)

ChannelSpec == ChannelInit /\ [][ChannelNext]_<<channel, received>>

=============================================================================
