------------------------------ MODULE MCChannels ------------------------------
(* Instances of Channels for TLC. *)
EXTENDS ChannelsRefinement, TLC

CONSTANTS w1, w2, w3, c1, c2

\* Two senders and a receiver that may choose between them.
MergeProc == {w1, w2, w3}
MergeSender == c1 :> w1 @@ c2 :> w2
MergeReceiver == c1 :> w3 @@ c2 :> w3
MergeResetter == {w3}

\* Two processes that each send to the other.
DuplexProc == {w1, w2}
DuplexSender == c1 :> w1 @@ c2 :> w2
DuplexReceiver == c1 :> w2 @@ c2 :> w1
DuplexResetter == {w1, w2}

\* One channel carries words, the other messages of any length.
MCChan == {c1, c2}
MCScalarChan == {c1}
===============================================================================
