----------------------------- MODULE MCMarketData -----------------------------
(* A small instance of the handler for TLC. *)
EXTENDS MarketData, TLC

Interchangeable == Permutations(References)
===============================================================================
