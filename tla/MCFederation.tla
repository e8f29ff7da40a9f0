---------------------------- MODULE MCFederation ----------------------------
(* Instance of Federation for TLC: two followers, two edits, two workers.     *)
EXTENDS Federation, TLC

\* Peers, workers and edits are interchangeable; the properties are all invariants.
Symmetric == Permutations(Peers) \cup Permutations(Workers) \cup Permutations(Editors)
=============================================================================
