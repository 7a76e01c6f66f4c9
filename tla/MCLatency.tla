------------------------------- MODULE MCLatency -------------------------------
(* A recorder with a ring of four samples for TLC. *)
EXTENDS Latency

(* One scope may see the counter go back by two. *)
MCSteps == {1, 3, -2}

(* p50, p99 and p99.9. *)
MCQuantiles == {<<1, 2>>, <<99, 100>>, <<999, 1000>>}
================================================================================
