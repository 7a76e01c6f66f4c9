--------------------------- MODULE OpenAddressTable ---------------------------
(***************************************************************************)
(* The slots of the open-addressing hash table of util/open_address_map.h, *)
(* and what probing, storing, erasing and rehashing make of them.  No      *)
(* state here: OpenAddressMap.tla is the table by itself, and              *)
(* TableHandler.tla the table under the market data handler.               *)
(***************************************************************************)
EXTENDS Integers, FiniteSets

CONSTANTS
    Capacity,   \* number of slots, a power of two
    Probing     \* Probe: "linear" or "quadratic"

(* A power of two has no odd divisor but 1.                                *)
PowerOfTwo(n) == \A d \in 1 .. n : n % d = 0 => d = 1 \/ d % 2 = 0

ASSUME TableAssumption ==
    /\ Capacity \in Nat \ {0}
    /\ PowerOfTwo(Capacity)
    /\ Probing \in {"linear", "quadratic"}

Slots == 0 .. Capacity - 1

SlotStates == {"EMPTY", "OCCUPIED", "TOMBSTONE"}

(* A table of Slot{}s: value-initialised keys and values, never looked at. *)
EmptyTable(initial) ==
    [s \in Slots |-> [state |-> "EMPTY", key |-> 0, value |-> initial]]

Occupied(t) == {s \in Slots : t[s].state = "OCCUPIED"}

StoredKeys(t) == {t[s].key : s \in Occupied(t)}

(* The table as a map.                                                     *)
Stored(t) ==
    [k \in StoredKeys(t) |-> t[CHOOSE s \in Occupied(t) : t[s].key = k].value]

-----------------------------------------------------------------------------
(* Probing.                                                                *)

(* key & MASK                                                              *)
Hash(key) == key % Capacity

(* The slot probed after n attempts: LinearProbe adds 1 to the index each  *)
(* time, QuadraticProbe the number of the attempt.                         *)
ProbeAt(key, n) ==
    IF Probing = "linear" THEN (Hash(key) + n) % Capacity
    ELSE (Hash(key) + (n * (n + 1)) \div 2) % Capacity

(* The probe sequence ends where it comes back to the key's own slot.      *)
ProbeLength == IF Probing = "linear" THEN Capacity ELSE 2 * Capacity - 1

Attempts == 0 .. ProbeLength - 1

Matches(t, key, s) == t[s].state = "OCCUPIED" /\ t[s].key = key

(* The attempts at which a search for key ends: on the key or on an EMPTY  *)
(* slot, with nothing of the kind before.                                  *)
Stops(t, key) ==
    {n \in Attempts :
        /\ \/ Matches(t, key, ProbeAt(key, n))
           \/ t[ProbeAt(key, n)].state = "EMPTY"
        /\ \A i \in 0 .. n - 1 :
              /\ ~Matches(t, key, ProbeAt(key, i))
              /\ t[ProbeAt(key, i)].state # "EMPTY"}

(* The first tombstone on the way of a search for key: all slots before it *)
(* are taken by other keys.  first_tombstone_idx is set there and not      *)
(* again.                                                                  *)
FirstTombstones(t, key) ==
    {n \in Attempts :
        /\ t[ProbeAt(key, n)].state = "TOMBSTONE"
        /\ \A i \in 0 .. n - 1 :
              /\ t[ProbeAt(key, i)].state = "OCCUPIED"
              /\ ~Matches(t, key, ProbeAt(key, i))}

(* Mutant: the first tombstone is returned without looking for the key     *)
(* behind it.                                                              *)
ProbedSlotsAtTombstone(t, key) ==
    {ProbeAt(key, n) : n \in FirstTombstones(t, key) \cup
                             {n \in Stops(t, key) : FirstTombstones(t, key) = {}}}

(* What probe_for_slot_idx can return: the key's slot; or else the first   *)
(* tombstone; or else the EMPTY slot the search ended on; or, thrown out   *)
(* of a table full of other keys, nothing.                                 *)
ProbedSlots(t, key) ==
    LET stops == Stops(t, key)
        hits == {n \in stops : Matches(t, key, ProbeAt(key, n))}
        tombstones == FirstTombstones(t, key)
    IN  {ProbeAt(key, n) : n \in IF hits # {} THEN hits
                                 ELSE IF tombstones # {} THEN tombstones
                                 ELSE stops}

(* Mutant: a tombstone that was passed is not remembered.                  *)
SaturatedByTombstones(t, key) ==
    \A n \in Attempts : /\ t[ProbeAt(key, n)].state # "EMPTY"
                        /\ ~Matches(t, key, ProbeAt(key, n))

(* The search comes back to its start without having seen the key, an      *)
(* EMPTY slot or a tombstone: MapSaturatedException.                       *)
Saturated(t, key) ==
    \A n \in Attempts : /\ t[ProbeAt(key, n)].state = "OCCUPIED"
                        /\ ~Matches(t, key, ProbeAt(key, n))

-----------------------------------------------------------------------------
(* Storing and erasing.                                                    *)

(* operator[] on the slot it probed, and the caller's assignment through   *)
(* the reference it returned.                                              *)
Filled(t, s, key, value) ==
    [t EXCEPT ![s] = [state |-> "OCCUPIED", key |-> key, value |-> value]]

(* Mutant: the erased slot becomes EMPTY.                                  *)
BuriedAsEmpty(t, s) == [t EXCEPT ![s].state = "EMPTY"]

(* erase(Handle): the slot keeps its key and value, and only its state     *)
(* says that they are gone.                                                *)
Buried(t, s) == [t EXCEPT ![s].state = "TOMBSTONE"]

-----------------------------------------------------------------------------
(* rehash                                                                  *)

Cleared(t) == [s \in Slots |-> IF t[s].state = "TOMBSTONE"
                               THEN [t[s] EXCEPT !.state = "EMPTY"] ELSE t[s]]

(* Mutant of FirstFree: the search starts one past the home slot.          *)
FreePastHome(t, key) ==
    CHOOSE i \in Attempts \ {0} : t[ProbeAt(key, i)].state # "OCCUPIED"

(* The first attempt at which key finds a slot of t that is not occupied.  *)
FirstFree(t, key) ==
    CHOOSE i \in Attempts :
        /\ t[ProbeAt(key, i)].state # "OCCUPIED"
        /\ \A j \in 0 .. i - 1 : t[ProbeAt(key, j)].state = "OCCUPIED"

(* Takes the entry out of slot s and puts it where it now belongs.         *)
Reinserted(t, s) ==
    IF t[s].state # "OCCUPIED" THEN t
    ELSE LET without == [t EXCEPT ![s].state = "EMPTY"]
         IN  [without EXCEPT
                ![ProbeAt(t[s].key, FirstFree(without, t[s].key))] = t[s]]

(* The slots are visited in order, in place.                               *)
Rehashed(t) ==
    LET after[s \in 0 .. Capacity] ==
            IF s = 0 THEN Cleared(t) ELSE Reinserted(after[s - 1], s - 1)
    IN  after[Capacity]
===============================================================================
