------------------------------- MODULE KeyedMap -------------------------------
(***************************************************************************)
(* What a client of OpenAddressMap relies on: a map from keys to values    *)
(* with room for Capacity entries.  An operation on a key the map does not *)
(* hold fails once the map is full, even if it only asks for the key.      *)
(***************************************************************************)
EXTENDS Integers, FiniteSets

CONSTANTS Keys, Values, Capacity

VARIABLES
    contents,   \* contents[k]: the value stored under k, for the keys stored
    result      \* what the last operation told its caller

Init ==
    /\ contents = << >>
    /\ result = "none"

Overflows(k) == k \notin DOMAIN contents /\ Cardinality(DOMAIN contents) = Capacity

Assign(k, v) ==
    /\ ~Overflows(k)
    /\ contents' = [q \in DOMAIN contents \cup {k} |->
                      IF q = k THEN v ELSE contents[q]]
    /\ result' = "assigned"

Find(k) ==
    /\ ~Overflows(k)
    /\ result' = IF k \in DOMAIN contents THEN contents[k] ELSE "absent"
    /\ UNCHANGED contents

Update(k, v) ==
    /\ k \in DOMAIN contents
    /\ contents' = [contents EXCEPT ![k] = v]
    /\ result' = "updated"

Erase(k) ==
    /\ k \in DOMAIN contents
    /\ contents' = [q \in DOMAIN contents \ {k} |-> contents[q]]
    /\ result' = "erased"

Saturate(k) ==
    /\ Overflows(k)
    /\ result' = "saturated"
    /\ UNCHANGED contents

Next ==
    \E k \in Keys :
        \/ \E v \in Values : Assign(k, v) \/ Update(k, v)
        \/ Find(k)
        \/ Erase(k)
        \/ Saturate(k)

Spec == Init /\ [][Next]_<<contents, result>>
===============================================================================
