---------------------------- MODULE OpenAddressMap ----------------------------
(***************************************************************************)
(* The open-addressing hash table of util/open_address_map.h, with linear  *)
(* or quadratic probing, tombstones, and the optional in-place rehash.     *)
(* One thread uses it, so each operation is one action.                    *)
(***************************************************************************)
EXTENDS OpenAddressTable

CONSTANTS
    Keys,       \* bound: keys used
    Values,
    Rehash,     \* the Rehash parameter
    CountMax    \* the largest std::size_t, 2^64 - 1 in the program

ASSUME MapAssumption ==
    /\ Keys \subseteq Nat
    /\ Rehash \in BOOLEAN
    /\ CountMax \in Nat

VARIABLES
    table,      \* table_
    tombstone,  \* tombstone_
    result      \* what the last operation told its caller

vars == <<table, tombstone, result>>

Init ==
    /\ table = EmptyTable("initial")
    /\ tombstone = 0
    /\ result = "none"

-----------------------------------------------------------------------------

(* Mutant: the count is a signed integer.                                  *)
CountAfterProbeSigned(key) ==
    tombstone - Cardinality(FirstTombstones(table, key))

(* Every search that passes a tombstone lowers the count of tombstones,    *)
(* whether or not the tombstone is going to be reused.                     *)
CountAfterProbe(key) ==
    IF FirstTombstones(table, key) # {} THEN (tombstone - 1) % (CountMax + 1)
    ELSE tombstone

(* operator[] followed by the caller's assignment to what it returned.     *)
Assign(key, value) ==
    \E s \in ProbedSlots(table, key) :
        /\ table' = Filled(table, s, key, value)
        /\ tombstone' = CountAfterProbe(key)
        /\ result' = "assigned"

(* Mutant: find compares the key of the slot and not its state.            *)
FindErased(key) ==
    \E s \in ProbedSlots(table, key) :
        /\ result' = IF table[s].key = key THEN table[s].value ELSE "absent"
        /\ tombstone' = CountAfterProbe(key)
        /\ UNCHANGED table

(* find, and the caller reads the value through the Handle.                *)
Find(key) ==
    \E s \in ProbedSlots(table, key) :
        /\ result' = IF Matches(table, key, s) THEN table[s].value ELSE "absent"
        /\ tombstone' = CountAfterProbe(key)
        /\ UNCHANGED table

(* The caller changes the value through the Handle that find returned.     *)
Update(key, value) ==
    \E s \in ProbedSlots(table, key) :
        /\ Matches(table, key, s)
        /\ table' = [table EXCEPT ![s].value = value]
        /\ tombstone' = CountAfterProbe(key)
        /\ result' = "updated"

(* What erase(Handle) does to the slots, the count being one up already.   *)
EraseSlot(s, count) ==
    \/ /\ ~(Rehash /\ count > Capacity \div 4)
       /\ tombstone' = count
       /\ table' = Buried(table, s)
    \/ /\ Rehash /\ count > Capacity \div 4
       /\ tombstone' = 0
       /\ table' = Rehashed(Buried(table, s))

(* erase(key), and erase(Handle) with the Handle of the find before it.    *)
Erase(key) ==
    \E s \in ProbedSlots(table, key) :
        \/ /\ Matches(table, key, s)
           /\ EraseSlot(s, (CountAfterProbe(key) + 1) % (CountMax + 1))
           /\ result' = "erased"
        \/ /\ ~Matches(table, key, s)
           /\ tombstone' = CountAfterProbe(key)
           /\ result' = "absent"
           /\ UNCHANGED table

(* MapSaturatedException, out of any of the operations.                    *)
Saturate(key) ==
    /\ Saturated(table, key)
    /\ result' = "saturated"
    /\ UNCHANGED <<table, tombstone>>

Next ==
    \E key \in Keys :
        \/ \E value \in Values : Assign(key, value) \/ Update(key, value)
        \/ Find(key)
        \/ Erase(key)
        \/ Saturate(key)

Spec == Init /\ [][Next]_vars

-----------------------------------------------------------------------------
(* Properties.                                                             *)

(* Every slot and the count have their types, and what is stored are keys  *)
(* and values that were assigned.                                          *)
TypeOK ==
    /\ table \in [Slots -> [state : SlotStates, key : Keys \cup {0},
                            value : Values \cup {"initial"}]]
    /\ \A s \in Occupied(table) : table[s].key \in Keys /\ table[s].value \in Values
    /\ tombstone \in 0 .. CountMax
    /\ result \in Values \cup {"none", "assigned", "updated", "absent", "erased",
                              "saturated"}

(* No key is stored twice, although a tombstone may be reused far in front *)
(* of the slot a key was stored in before.                                 *)
KeysUnique ==
    \A s, t \in Occupied(table) : table[s].key = table[t].key => s = t

(* A search for a stored key finds it, whatever was erased in front of it. *)
KeysReachable ==
    \A s \in Occupied(table) : ProbedSlots(table, table[s].key) = {s}

(* With Rehash, a key that searches no longer find is stored only in slots *)
(* before its home: an in-place rehash in slot order moves an entry nearer *)
(* to its home before the wrapped entries behind it.                       *)
OnlyWrappedKeysLost ==
    \A s \in Occupied(table) :
        (\A r \in ProbedSlots(table, table[s].key) : ~Matches(table, table[s].key, r))
            => s < Hash(table[s].key)

(* The table implements the map.                                           *)
Map == INSTANCE KeyedMap WITH contents <- Stored(table)

ImplementsMap == Map!Spec
===============================================================================
