------------------------------ MODULE MCShutdown ------------------------------
(* A few pages of address space for TLC. *)
EXTENDS Shutdown

MCAddresses == 0 .. 5

Lowest == [runs \in SUBSET MCAddresses |-> {a \in runs : \A b \in runs : a <= b}]
===============================================================================
