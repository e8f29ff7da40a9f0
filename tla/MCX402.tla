------------------------------- MODULE MCX402 -------------------------------
(* Instance of X402 for TLC: b buys the video of c, once or twice.            *)
EXTENDS X402, TLC

CONSTANTS b, c, v1

MCOwner == [v \in {v1} |-> c]
MCPrice == [v \in {v1} |-> 105]
MCFields == SignedFields
MCBlocks == {<<c, b>>}
=============================================================================
