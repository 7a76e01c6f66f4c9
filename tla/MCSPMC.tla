------------------------------- MODULE MCSPMC -------------------------------
(* A small instance of the queue for TLC. *)
EXTENDS SPMC
==============================================================================
