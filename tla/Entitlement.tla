---------------------------- MODULE Entitlement ----------------------------
(***************************************************************************)
(* What selling a video promises, whatever the payment method: an invoice  *)
(* is paid at most once, nothing is granted for an invoice before it is    *)
(* paid, and what has been granted stays granted.                          *)
(***************************************************************************)
CONSTANT Invoices

VARIABLES
    paid,     \* invoices whose money has arrived
    granted   \* invoices for which the platform has given something away

vars == <<paid, granted>>

Init == paid = {} /\ granted = {}

Pay(i) ==
    /\ i \notin paid
    /\ paid' = paid \cup {i}
    /\ UNCHANGED granted

Grant(i) ==
    /\ i \in paid
    /\ granted' = granted \cup {i}
    /\ UNCHANGED paid

Next == \E i \in Invoices : Pay(i) \/ Grant(i)

Spec == Init /\ [][Next]_vars
=============================================================================
