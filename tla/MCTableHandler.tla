---------------------------- MODULE MCTableHandler ----------------------------
(* A small instance of the handler over a table of two slots for TLC. *)
EXTENDS TableHandler
===============================================================================
