-------------------------------- MODULE Replay --------------------------------
(***************************************************************************)
(* What bench/replay.cpp is meant to do, with no queue and no bytes: a     *)
(* feed hands out the frames of a file one by one, and every worker        *)
(* handles each of them once, whole and in order.                          *)
(***************************************************************************)
EXTENDS Integers

CONSTANT Workers

VARIABLES
    complete,   \* how many complete frames the file holds
    truncated,  \* the file ends in the middle of a frame
    fed,        \* frames handed out so far
    finished,   \* the feed has announced the end of the file
    handled,    \* handled[w]: frames worker w has dealt with
    stopped     \* the workers that have left their loop

vars == <<complete, truncated, fed, finished, handled, stopped>>

Init ==
    /\ complete \in Nat
    /\ truncated \in BOOLEAN
    /\ fed = 0
    /\ finished = FALSE
    /\ handled = [w \in Workers |-> 0]
    /\ stopped = {}

Feed ==
    /\ fed < complete
    /\ fed' = fed + 1
    /\ UNCHANGED <<complete, truncated, finished, handled, stopped>>

(* The end of the file can only be announced once it is reached.           *)
Finish ==
    /\ fed = complete
    /\ ~truncated
    /\ finished' = TRUE
    /\ UNCHANGED <<complete, truncated, fed, handled, stopped>>

Handle(w) ==
    /\ w \notin stopped
    /\ handled[w] < fed
    /\ handled' = [handled EXCEPT ![w] = @ + 1]
    /\ UNCHANGED <<complete, truncated, fed, finished, stopped>>

Stop(w) ==
    /\ finished
    /\ stopped' = stopped \cup {w}
    /\ UNCHANGED <<complete, truncated, fed, finished, handled>>

Next ==
    \/ Feed
    \/ Finish
    \/ \E w \in Workers : Handle(w) \/ Stop(w)

Spec == Init /\ [][Next]_vars
===============================================================================
