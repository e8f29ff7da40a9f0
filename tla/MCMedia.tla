------------------------------ MODULE MCMedia -------------------------------
(* Instance of Media for TLC: two buckets of one backend.                     *)
EXTENDS Media, TLC

CONSTANTS b1, b2

MCBackendOf == [b \in {b1, b2} |-> "s3"]
=============================================================================
