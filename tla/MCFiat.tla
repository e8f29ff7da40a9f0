------------------------------- MODULE MCFiat -------------------------------
(* Instance of Fiat for TLC: user b buys the video of creator c; one invoice, *)
(* two webhook tasks and one administrator.                                   *)
EXTENDS Fiat, TLC

CONSTANTS b, c, v1, h1, h2

MCUsers == {b, c}
MCOwner == [v \in {v1} |-> c]
MCBlocks == {<<c, b>>}
MCHooks == {h1, h2}
MCSymmetry == Permutations(MCHooks)
=============================================================================
