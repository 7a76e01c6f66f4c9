------------------------------ MODULE Broadcast ------------------------------
(***************************************************************************)
(* What the SPMC queue promises its users, with no threads, no caches and  *)
(* no slots: one stream of items to which whole payloads are appended, and *)
(* one position per consumer, which moves over published items only, in    *)
(* order, by exactly the number of items asked for.  A call takes effect   *)
(* at one point between its beginning and its end.                         *)
(*                                                                         *)
(* An item is named by its place in the stream, so "the consumer got the   *)
(* right items" is a statement about numbers.                              *)
(***************************************************************************)
EXTENDS Integers, Sequences

CONSTANTS
    Consumers,  \* the registered consumers
    Capacity,   \* how far the stream may run ahead of the slowest consumer
    PushSizes,  \* sizes of the payloads offered
    PopSizes    \* counts asked for

VARIABLES
    published,  \* number of items appended so far
    closed,     \* the producer has announced the end of the stream
    payload,    \* size of the payload being pushed, 0 between pushes
    crowded,    \* the push has met a consumer it would leave too far behind
    position,   \* position[c]: number of items c has moved past
    call,       \* call[c]: what c is asking for: "none", "pop" or "skip"
    wanted,     \* wanted[c]: how many items
    received    \* received[c]: the items c's last call handed over

producerVars == <<published, closed, payload, crowded>>
consumerVars == <<position, call, wanted, received>>
vars == <<producerVars, consumerVars>>

(* The n items that follow position p in the stream. *)
Window(p, n) == [k \in 1 .. n |-> p + k - 1]

Init ==
    /\ published = 0
    /\ closed = FALSE
    /\ payload = 0
    /\ crowded = FALSE
    /\ position = [c \in Consumers |-> 0]
    /\ call = [c \in Consumers |-> "none"]
    /\ wanted = [c \in Consumers |-> 0]
    /\ received = [c \in Consumers |-> << >>]

Offer(n) ==
    /\ payload = 0
    /\ payload' = n
    /\ UNCHANGED <<published, closed, crowded, consumerVars>>

(* Some consumer has no room for the payload, at this moment of the push.  *)
Meet(c) ==
    /\ published + payload - position[c] > Capacity
    /\ crowded' = TRUE
    /\ UNCHANGED <<published, closed, payload, consumerVars>>

(* Only such a moment excuses a push that appends nothing.  (An empty      *)
(* payload appends nothing in any case, and may be refused in any.)        *)
Refuse ==
    /\ payload = 0 \/ crowded
    /\ payload' = 0
    /\ crowded' = FALSE
    /\ UNCHANGED <<published, closed, consumerVars>>

(* A payload becomes visible as a whole, to every consumer at once, and    *)
(* only when it leaves no consumer more than Capacity items behind.        *)
Publish ==
    /\ \A c \in Consumers : published + payload - position[c] <= Capacity
    /\ published' = published + payload
    /\ payload' = 0
    /\ UNCHANGED <<closed, crowded, consumerVars>>

Close ==
    /\ payload = 0
    /\ closed' = TRUE
    /\ UNCHANGED <<published, payload, crowded, consumerVars>>

Ask(c, what, n) ==
    /\ call[c] = "none"
    /\ call' = [call EXCEPT ![c] = what]
    /\ wanted' = [wanted EXCEPT ![c] = n]
    /\ received' = [received EXCEPT ![c] = << >>]
    /\ UNCHANGED <<producerVars, position>>

(* A call that fails hands over nothing and moves nothing. *)
Fail(c) ==
    /\ call' = [call EXCEPT ![c] = "none"]
    /\ wanted' = [wanted EXCEPT ![c] = 0]
    /\ UNCHANGED <<producerVars, position, received>>

(* A call that succeeds moves over items that are all published, and a pop *)
(* hands over exactly those.                                               *)
Succeed(c) ==
    /\ call[c] # "none"
    /\ position[c] + wanted[c] <= published
    /\ position' = [position EXCEPT ![c] = @ + wanted[c]]
    /\ received' = [received EXCEPT ![c] =
                      IF call[c] = "pop" THEN Window(position[c], wanted[c])
                      ELSE << >>]
    /\ call' = [call EXCEPT ![c] = "none"]
    /\ wanted' = [wanted EXCEPT ![c] = 0]
    /\ UNCHANGED producerVars

Next ==
    \/ \E n \in PushSizes \cup {1} : Offer(n)
    \/ \E c \in Consumers : Meet(c)
    \/ Refuse
    \/ Publish
    \/ Close
    \/ \E c \in Consumers :
        \/ \E n \in PopSizes \cup {1}, what \in {"pop", "skip"} : Ask(c, what, n)
        \/ Fail(c)
        \/ Succeed(c)

Spec == Init /\ [][Next]_vars
==============================================================================
