----------------------------- MODULE MCWalletTx -----------------------------
(* Instance of WalletTx for TLC: user 1 buys, user 2 owns the video, user 3  *)
(* is the affiliate; a deposit of user 1 and a withdrawal of user 2 wait for *)
(* the administrator.                                                        *)
EXTENDS WalletTx

CONSTANTS r1, r2, v1

MCRequests == {r1, r2}
MCVideos == {v1}
MCMayBlock == {<<2, 1>>}
MCSwitches == {[payment |-> b, transfer |-> b] : b \in BOOLEAN}
MCOwner == [v \in MCVideos |-> 2]
MCOpeningBalance == [u \in Users |-> CASE u = 1 -> 8 [] u = 2 -> 5 [] OTHER -> 0]
MCOpeningLedger ==
    << [user |-> 1, type |-> "deposit", amount |-> 4, status |-> "pending"],
       [user |-> 2, type |-> "withdrawal", amount |-> 4, status |-> "pending"] >>
=============================================================================
