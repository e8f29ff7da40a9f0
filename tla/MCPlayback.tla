----------------------------- MODULE MCPlayback -----------------------------
(* Instance of Playback for TLC: u1, whose video it is, is logged in; u2 may  *)
(* register, log in, be given access, and be made administrator.              *)
EXTENDS Playback, TLC

CONSTANTS u1, u2, s1, s2

MCSidOf == [s \in {s1, s2} |-> IF s = s1 THEN u1 ELSE u2]
=============================================================================
