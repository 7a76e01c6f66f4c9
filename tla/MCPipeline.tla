------------------------------ MODULE MCPipeline ------------------------------
(* Files of three frames for TLC, whole or cut off anywhere. *)
EXTENDS Pipeline

Layouts == {[at |-> <<0, 4, 9, 13>>, kind |-> <<"order", "add", "other">>],
            [at |-> <<0, 5, 9, 15>>, kind |-> <<"other", "order", "order">>]}

MCFiles ==
    UNION {{[at |-> l.at, kind |-> l.kind, size |-> n] : n \in 0 .. l.at[4]} : l \in Layouts}
===============================================================================
