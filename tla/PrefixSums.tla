---------------------------- MODULE PrefixSums ----------------------------
(***************************************************************************)
(* Sums over 1..n, written as a recursive function so that TLC evaluates   *)
(* them and TLAPS can reason about them (see PrefixSumsProofs).            *)
(***************************************************************************)
EXTENDS Integers

\* The function whose value at i is f[1] + ... + f[i].
PrefixSum(f, n) ==
    LET s[i \in 0 .. n] == IF i = 0 THEN 0 ELSE s[i - 1] + f[i]
    IN  s

\* f[1] + ... + f[n]
SumTo(f, n) == PrefixSum(f, n)[n]
===========================================================================
