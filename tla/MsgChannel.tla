----------------------------- MODULE MsgChannel -----------------------------
(***************************************************************************)
(* What a one-way IBUS channel promises its two ends, with nothing of the  *)
(* ring buffer left in it: a message that was put is delivered once, whole *)
(* and in the order of the puts, unless the channel is reset.              *)
(***************************************************************************)
EXTENDS Sequences

CONSTANTS Message,   \* the messages a channel can carry
          NoMessage  \* what the reading end holds before its first message:
                     \* no message a channel can carry

VARIABLES queue,     \* messages put and not yet delivered, oldest first
          got        \* the message delivered last

channelVars == <<queue, got>>

ChannelInit == queue = <<>> /\ got = NoMessage

Put(m) == queue' = Append(queue, m) /\ UNCHANGED got

Deliver ==
  /\ queue # <<>>
  /\ got' = Head(queue)
  /\ queue' = Tail(queue)

Reset == queue' = <<>> /\ UNCHANGED got

ChannelNext == (\E m \in Message : Put(m)) \/ Deliver \/ Reset

ChannelSpec == ChannelInit /\ [][ChannelNext]_channelVars
=============================================================================
