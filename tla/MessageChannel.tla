---------------------------- MODULE MessageChannel ---------------------------
(***************************************************************************)
(* What the pipes promise to a reader of messages: each message received   *)
(* is one that was sent, whole, and later than those received before.      *)
(* Messages may be lost, but none is repeated, reordered, cut or joined.   *)
(* Messages are numbered in the order they are sent.                       *)
(***************************************************************************)
EXTENDS Naturals, Sequences

VARIABLES
  sent,        \* the number of messages sent
  received     \* those received, in order

channelVars == <<sent, received>>

ChannelInit == sent = 0 /\ received = << >>

Send == sent' = sent + 1 /\ UNCHANGED received

\* Some of those sent arrive, one or several at once.
Receive ==
  /\ received' \in Seq(1..sent)
  /\ \E n \in 0..Len(received') : received = SubSeq(received', 1, n)
  /\ \A i, j \in DOMAIN received' : i < j => received'[i] < received'[j]
  /\ UNCHANGED sent

ChannelSpec == ChannelInit /\ [][Send \/ Receive]_channelVars

=============================================================================
