--------------------------- MODULE MCOpenAddressMap ---------------------------
(* Small tables for TLC: the keys are chosen by their home slots, see the  *)
(* configurations.                                                         *)
EXTENDS OpenAddressMap
===============================================================================
