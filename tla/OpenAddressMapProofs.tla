------------------------- MODULE OpenAddressMapProofs -------------------------
(***************************************************************************)
(* What OpenAddressMap promises for every capacity and all keys: without   *)
(* rehash the table stays searchable and implements the map, down to when  *)
(* it is full; with rehash, what a search still finds.                     *)
(***************************************************************************)
EXTENDS OpenAddressMap, OpenAddressTableProofs

(* The inductive invariant.                                                *)
MapInv == TypeOK /\ Searchable(table)

LEMMA TableIsTyped == TypeOK => table \in Tables(Values \cup {"initial"})
  <1>1. Keys \cup {0} \subseteq Nat
    BY MapAssumption
  <1>2. [state : SlotStates, key : Keys \cup {0}, value : Values \cup {"initial"}]
           \subseteq [state : SlotStates, key : Nat, value : Values \cup {"initial"}]
    BY <1>1
  <1>3. QED
    BY <1>2 DEF TypeOK, Tables

LEMMA CountIsTyped ==
    ASSUME TypeOK, NEW key \in Keys
    PROVE  /\ CountAfterProbe(key) \in 0 .. CountMax
           /\ (CountAfterProbe(key) + 1) % (CountMax + 1) \in 0 .. CountMax
  <1>1. CountMax \in Nat /\ tombstone \in Int
    BY MapAssumption DEF TypeOK
  <1>2. \A j \in Int : j % (CountMax + 1) \in 0 .. CountMax
    BY <1>1
  <1>3. CountAfterProbe(key) \in 0 .. CountMax
    BY <1>1, <1>2 DEF CountAfterProbe, TypeOK
  <1>4. QED
    BY <1>1, <1>2, <1>3

-----------------------------------------------------------------------------
(* Types, with and without rehash.                                         *)

LEMMA AssignTyped ==
    ASSUME TypeOK, NEW key \in Keys, NEW value \in Values, Assign(key, value)
    PROVE  TypeOK'
  <1>1. PICK s \in ProbedSlots(table, key) :
           /\ table' = Filled(table, s, key, value)
           /\ tombstone' = CountAfterProbe(key)
           /\ result' = "assigned"
    BY DEF Assign
  <1>2. key \in Nat /\ s \in Slots
    BY MapAssumption, TableIsTyped, MatchIsStored
  <1>3. table' \in [Slots -> [state : SlotStates, key : Keys \cup {0},
                              value : Values \cup {"initial"}]]
    BY <1>1, <1>2 DEF TypeOK, Filled, SlotStates
  <1>4. \A r \in Occupied(table') : table'[r].key \in Keys /\ table'[r].value \in Values
    BY <1>1, <1>2 DEF TypeOK, Filled, Occupied
  <1>5. QED
    BY <1>1, <1>3, <1>4, CountIsTyped DEF TypeOK

LEMMA UpdateTyped ==
    ASSUME TypeOK, NEW key \in Keys, NEW value \in Values, Update(key, value)
    PROVE  TypeOK'
  <1>1. PICK s \in ProbedSlots(table, key) :
           /\ Matches(table, key, s)
           /\ table' = [table EXCEPT ![s].value = value]
           /\ tombstone' = CountAfterProbe(key)
           /\ result' = "updated"
    BY DEF Update
  <1>2. s \in Occupied(table)
    BY <1>1, MapAssumption, TableIsTyped, MatchIsStored
  <1>3. table' \in [Slots -> [state : SlotStates, key : Keys \cup {0},
                              value : Values \cup {"initial"}]]
    BY <1>1 DEF TypeOK
  <1>4. \A r \in Occupied(table') : table'[r].key \in Keys /\ table'[r].value \in Values
    BY <1>1, <1>2 DEF TypeOK, Occupied
  <1>5. QED
    BY <1>1, <1>3, <1>4, CountIsTyped DEF TypeOK

LEMMA FindTyped ==
    ASSUME TypeOK, NEW key \in Keys, Find(key)
    PROVE  TypeOK'
  <1>1. PICK s \in ProbedSlots(table, key) :
           /\ result' = IF Matches(table, key, s) THEN table[s].value ELSE "absent"
           /\ tombstone' = CountAfterProbe(key)
           /\ UNCHANGED table
    BY DEF Find
  <1>2. Matches(table, key, s) => s \in Occupied(table)
    BY MapAssumption, TableIsTyped, MatchIsStored
  <1>3. result' \in Values \cup {"absent"}
    BY <1>1, <1>2 DEF TypeOK
  <1>4. QED
    BY <1>1, <1>3, CountIsTyped DEF TypeOK

(* Rehash moves entries about, so what is stored after it was stored       *)
(* before.                                                                 *)
LEMMA RehashTyped ==
    ASSUME NEW t \in [Slots -> [state : SlotStates, key : Keys \cup {0},
                                value : Values \cup {"initial"}]],
           \A s \in Occupied(t) : t[s].key \in Keys /\ t[s].value \in Values
    PROVE  /\ Rehashed(t) \in [Slots -> [state : SlotStates, key : Keys \cup {0},
                                         value : Values \cup {"initial"}]]
           /\ \A s \in Occupied(Rehashed(t)) : /\ Rehashed(t)[s].key \in Keys
                                               /\ Rehashed(t)[s].value \in Values
  <1> DEFINE V == Values \cup {"initial"}
             u == Rehashed(t)
  <1>1. t \in Tables(V)
    <2>1. Keys \cup {0} \subseteq Nat
      BY MapAssumption
    <2>2. [state : SlotStates, key : Keys \cup {0}, value : V]
             \subseteq [state : SlotStates, key : Nat, value : V]
      BY <2>1
    <2>3. QED
      BY <2>2 DEF Tables
  <1>2. /\ u \in Tables(V)
        /\ Entries(u) = Entries(t)
        /\ Contents(u) \subseteq Contents(t)
    BY <1>1, RehashKeepsEntries
  <1> HIDE DEF u
  <1>3. ASSUME NEW s \in Slots
        PROVE  u[s] \in [state : SlotStates, key : Keys \cup {0}, value : V]
    <2>1. <<u[s].key, u[s].value>> \in Contents(t)
      BY <1>2 DEF Contents
    <2>2. u[s].key \in Keys \cup {0}
      BY <2>1 DEF Contents
    <2>3. u[s] \in [state : SlotStates, key : Nat, value : V]
      BY <1>2 DEF Tables
    <2>4. QED
      BY <2>2, <2>3
  <1>4. ASSUME NEW s \in Occupied(u)
        PROVE  u[s].key \in Keys /\ u[s].value \in Values
    <2>1. <<u[s].key, u[s].value>> \in Entries(t)
      BY <1>2 DEF Entries
    <2>2. QED
      BY <2>1 DEF Entries
  <1>5. u \in [Slots -> [state : SlotStates, key : Keys \cup {0}, value : V]]
    BY <1>2, <1>3 DEF Tables
  <1>6. QED
    BY <1>4, <1>5 DEF u

LEMMA EraseTyped ==
    ASSUME TypeOK, NEW key \in Keys, Erase(key)
    PROVE  TypeOK'
  <1>1. PICK s \in ProbedSlots(table, key) :
          \/ /\ Matches(table, key, s)
             /\ EraseSlot(s, (CountAfterProbe(key) + 1) % (CountMax + 1))
             /\ result' = "erased"
          \/ /\ ~Matches(table, key, s)
             /\ tombstone' = CountAfterProbe(key)
             /\ result' = "absent"
             /\ UNCHANGED table
    BY DEF Erase
  <1>2. CASE ~Matches(table, key, s)
    BY <1>1, <1>2, CountIsTyped DEF TypeOK
  <1>3. CASE Matches(table, key, s)
    <2>1. s \in Occupied(table)
      BY <1>3, MapAssumption, TableIsTyped, MatchIsStored
    <2>2. /\ Buried(table, s) \in [Slots -> [state : SlotStates, key : Keys \cup {0},
                                            value : Values \cup {"initial"}]]
          /\ \A r \in Occupied(Buried(table, s)) :
                /\ Buried(table, s)[r].key \in Keys
                /\ Buried(table, s)[r].value \in Values
      <3>1. "TOMBSTONE" \in SlotStates
        BY DEF SlotStates
      <3>2. QED
        BY <2>1, <3>1 DEF TypeOK, Buried, Occupied
    <2>3. table' = Buried(table, s) \/ table' = Rehashed(Buried(table, s))
      BY <1>1, <1>3 DEF EraseSlot
    <2>4. tombstone' \in 0 .. CountMax /\ result' = "erased"
      BY <1>1, <1>3, CountIsTyped, MapAssumption DEF EraseSlot
    <2>5. /\ table' \in [Slots -> [state : SlotStates, key : Keys \cup {0},
                                  value : Values \cup {"initial"}]]
          /\ \A r \in Occupied(table') : table'[r].key \in Keys /\ table'[r].value \in Values
      BY <2>2, <2>3, RehashTyped
    <2>6. QED
      BY <2>4, <2>5 DEF TypeOK
  <1>4. QED
    BY <1>2, <1>3

LEMMA NextTyped == TypeOK /\ [Next]_vars => TypeOK'
  <1> SUFFICES ASSUME TypeOK, [Next]_vars
               PROVE  TypeOK'
    OBVIOUS
  <1>1. ASSUME NEW key \in Keys, Saturate(key)
        PROVE  TypeOK'
    BY <1>1 DEF Saturate, TypeOK
  <1>2. CASE UNCHANGED vars
    BY <1>2 DEF vars, TypeOK
  <1>3. QED
    BY <1>1, <1>2, AssignTyped, UpdateTyped, FindTyped, EraseTyped DEF Next

LEMMA InitTyped == Init => TypeOK
  <1> SUFFICES ASSUME Init
               PROVE  TypeOK
    OBVIOUS
  <1>1. Occupied(table) = {}
    BY EmptyTableSearchable DEF Init
  <1>2. table \in [Slots -> [state : SlotStates, key : Keys \cup {0},
                            value : Values \cup {"initial"}]]
    BY DEF Init, EmptyTable, SlotStates
  <1>3. tombstone \in 0 .. CountMax
    BY MapAssumption DEF Init
  <1>4. QED
    BY <1>1, <1>2, <1>3 DEF Init, TypeOK

(* Every slot keeps its type, and what is stored was assigned, with and    *)
(* without rehash.                                                         *)
THEOREM TypeCorrect == Spec => []TypeOK
  BY InitTyped, NextTyped, PTL DEF Spec

-----------------------------------------------------------------------------
(* Without rehash: the table stays searchable.                             *)

LEMMA AssignKeeps ==
    ASSUME MapInv, NEW key \in Keys, NEW value \in Values, Assign(key, value)
    PROVE  Searchable(table')
  <1>1. PICK s \in ProbedSlots(table, key) : table' = Filled(table, s, key, value)
    BY DEF Assign
  <1> DEFINE V == Values \cup {"initial"}
  <1>2. table \in Tables(V) /\ value \in V /\ Searchable(table) /\ key \in Nat
    BY MapAssumption, TableIsTyped DEF MapInv
  <1> HIDE DEF V
  <1>3. Searchable(Filled(table, s, key, value))
    BY <1>2, FillStores, Zenon
  <1>4. QED
    BY <1>1, <1>3

LEMMA UpdateKeeps ==
    ASSUME MapInv, NEW key \in Keys, NEW value \in Values, Update(key, value)
    PROVE  Searchable(table')
  <1>1. PICK s \in ProbedSlots(table, key) :
           Matches(table, key, s) /\ table' = [table EXCEPT ![s].value = value]
    BY DEF Update
  <1>2. s \in Occupied(table)
    BY <1>1, MapAssumption, TableIsTyped, MatchIsStored DEF MapInv
  <1>3. value \in Values \cup {"initial"}
    OBVIOUS
  <1>4. table \in Tables(Values \cup {"initial"}) /\ Searchable(table)
    BY TableIsTyped DEF MapInv
  <1>5. Searchable([table EXCEPT ![s].value = value])
    BY <1>2, <1>3, <1>4, ChangeStores
  <1>6. QED
    BY <1>1, <1>5

LEMMA EraseKeeps ==
    ASSUME ~Rehash, MapInv, NEW key \in Keys, Erase(key)
    PROVE  Searchable(table')
  <1>1. PICK s \in ProbedSlots(table, key) :
           \/ Matches(table, key, s) /\ table' = Buried(table, s)
           \/ UNCHANGED table
    BY DEF Erase, EraseSlot
  <1>2. CASE Matches(table, key, s) /\ table' = Buried(table, s)
    <2>1. s \in Occupied(table)
      BY <1>2, MapAssumption, TableIsTyped, MatchIsStored DEF MapInv
    <2>2. QED
      BY <1>2, <2>1, TableIsTyped, BuryErases DEF MapInv
  <1>3. QED
    BY <1>1, <1>2 DEF MapInv

(* Without rehash the table stays searchable, whatever is done to it.      *)
THEOREM TableStaysSearchable ==
    ASSUME ~Rehash
    PROVE  Spec => []MapInv
  <1>1. Init => MapInv
    BY InitTyped, EmptyTableSearchable DEF Init, MapInv
  <1>2. MapInv /\ [Next]_vars => MapInv'
    <2> SUFFICES ASSUME MapInv, [Next]_vars
                 PROVE  Searchable(table')
      BY NextTyped DEF MapInv
    <2>1. ASSUME NEW key \in Keys, Find(key) \/ Saturate(key)
          PROVE  Searchable(table')
      BY <2>1 DEF Find, Saturate, MapInv
    <2>2. CASE UNCHANGED vars
      BY <2>2 DEF vars, MapInv
    <2>3. QED
      BY <2>1, <2>2, AssignKeeps, UpdateKeeps, EraseKeeps DEF Next
  <1>3. QED
    BY <1>1, <1>2, PTL DEF Spec

(* Without rehash no key is ever stored twice.                             *)
THEOREM KeysStayUnique ==
    ASSUME ~Rehash
    PROVE  Spec => []KeysUnique
  <1>1. MapInv => KeysUnique
    BY DEF MapInv, Searchable, NoKeyTwice, KeysUnique
  <1>2. QED
    BY <1>1, TableStaysSearchable, PTL

(* Without rehash no tombstone ever hides a stored key.                    *)
THEOREM KeysStayReachable ==
    ASSUME ~Rehash
    PROVE  Spec => []KeysReachable
  <1>1. MapInv => KeysReachable
    BY TableIsTyped, StoredKeyIsFound DEF MapInv, KeysReachable
  <1>2. QED
    BY <1>1, TableStaysSearchable, PTL

-----------------------------------------------------------------------------
(* With rehash.                                                            *)

(* The inductive invariant of linear probing, with and without rehash.     *)
ShelterInv == TypeOK /\ Sheltered(table)

LEMMA AssignShelters ==
    ASSUME Probing = "linear", ShelterInv,
           NEW key \in Keys, NEW value \in Values, Assign(key, value)
    PROVE  Sheltered(table')
  <1>1. PICK s \in ProbedSlots(table, key) : table' = Filled(table, s, key, value)
    BY DEF Assign
  <1> DEFINE V == Values \cup {"initial"}
  <1>2. table \in Tables(V) /\ value \in V /\ Sheltered(table) /\ key \in Nat
    BY MapAssumption, TableIsTyped DEF ShelterInv
  <1> HIDE DEF V
  <1>3. Sheltered(Filled(table, s, key, value))
    BY <1>2, FillShelters, Zenon
  <1>4. QED
    BY <1>1, <1>3

LEMMA UpdateShelters ==
    ASSUME ShelterInv, NEW key \in Keys, NEW value \in Values, Update(key, value)
    PROVE  Sheltered(table')
  <1>1. PICK s \in Slots : table' = [table EXCEPT ![s].value = value]
    BY MapAssumption, TableIsTyped, MatchIsStored DEF Update, ShelterInv
  <1>2. table \in Tables(Values \cup {"initial"})
    BY TableIsTyped DEF ShelterInv
  <1>3. \A r \in Slots : table'[r].state = table[r].state /\ table'[r].key = table[r].key
    BY <1>1, <1>2 DEF Tables
  <1>4. ASSUME NEW r \in Slots
        PROVE  \A x \in Hash(table[r].key) .. r : x \in Slots
    <2>1. table[r].key \in Nat
      BY <1>2 DEF Tables
    <2>2. Hash(table[r].key) \in Nat
      BY <2>1, HashInSlots
    <2>3. QED
      BY <2>2, TableAssumption DEF Slots
  <1>5. QED
    BY <1>3, <1>4 DEF Sheltered, Occupied, ShelterInv

LEMMA EraseShelters ==
    ASSUME Probing = "linear", ShelterInv, NEW key \in Keys, Erase(key)
    PROVE  Sheltered(table')
  <1>1. PICK s \in ProbedSlots(table, key) :
           \/ /\ Matches(table, key, s)
              /\ table' = Buried(table, s) \/ table' = Rehashed(Buried(table, s))
           \/ UNCHANGED table
    BY DEF Erase, EraseSlot
  <1>2. CASE UNCHANGED table
    BY <1>2 DEF ShelterInv
  <1>3. CASE Matches(table, key, s)
    <2>1. s \in Occupied(table)
      BY <1>3, MapAssumption, TableIsTyped, MatchIsStored DEF ShelterInv
    <2>2. /\ Sheltered(Buried(table, s))
          /\ Buried(table, s) \in Tables(Values \cup {"initial"})
      BY <2>1, TableIsTyped, BuryShelters DEF ShelterInv
    <2>3. Sheltered(Rehashed(Buried(table, s)))
      BY <2>2, RehashShelters
    <2>4. QED
      BY <1>1, <1>2, <2>2, <2>3
  <1>4. QED
    BY <1>1, <1>2, <1>3

(* With linear probing, whether or not the table rehashes, a stored key    *)
(* that a search does not find is stored before its home only.             *)
THEOREM OnlyWrappedLost ==
    ASSUME Probing = "linear"
    PROVE  Spec => []OnlyWrappedKeysLost
  <1>1. Init => ShelterInv
    <2>1. Init => Occupied(table) = {}
      BY EmptyTableSearchable DEF Init
    <2>2. QED
      BY <2>1, InitTyped DEF ShelterInv, Sheltered
  <1>2. ShelterInv /\ [Next]_vars => ShelterInv'
    <2> SUFFICES ASSUME ShelterInv, [Next]_vars
                 PROVE  Sheltered(table')
      BY NextTyped DEF ShelterInv
    <2>1. ASSUME NEW key \in Keys, Find(key) \/ Saturate(key)
          PROVE  Sheltered(table')
      BY <2>1 DEF Find, Saturate, ShelterInv
    <2>2. CASE UNCHANGED vars
      BY <2>2 DEF vars, ShelterInv
    <2>3. QED
      BY <2>1, <2>2, AssignShelters, UpdateShelters, EraseShelters DEF Next
  <1>3. ShelterInv => OnlyWrappedKeysLost
    <2> SUFFICES ASSUME ShelterInv, NEW s \in Occupied(table),
                        ~(s < Hash(table[s].key))
                 PROVE  \E r \in ProbedSlots(table, table[s].key) :
                           Matches(table, table[s].key, r)
      BY DEF OnlyWrappedKeysLost
    <2>1. table \in Tables(Values \cup {"initial"}) /\ Sheltered(table)
      BY TableIsTyped DEF ShelterInv
    <2>2. Hash(table[s].key) <= s
      <3>1. s \in Nat /\ Hash(table[s].key) \in Nat
        BY <2>1, HashInSlots, TableAssumption DEF Occupied, Slots, Tables
      <3>2. QED
        BY <3>1
    <2>3. QED
      BY <2>1, <2>2, ShelteredIsFound
  <1>4. QED
    BY <1>1, <1>2, <1>3, PTL DEF Spec

-----------------------------------------------------------------------------
(* Refinement.                                                             *)

(* The Cardinality that KeyedMap speaks of is the one known here.           *)
LEMMA SameCardinality ==
    ASSUME NEW S
    PROVE  Map!Cardinality(S) = Cardinality(S)
  BY DEF Cardinality, Map!Cardinality

(* As long as a probe comes back with a slot that is not the key's, the    *)
(* map has room.                                                           *)
LEMMA NotOverflowing ==
    ASSUME MapInv, NEW key \in Keys, NEW s \in ProbedSlots(table, key)
    PROVE  /\ ~Map!Overflows(key)
           /\ ~Matches(table, key, s) => key \notin DOMAIN Stored(table)
  <1>1. key \in Nat /\ table \in Tables(Values \cup {"initial"}) /\ Searchable(table)
    BY MapAssumption, TableIsTyped DEF MapInv
  <1>2. DOMAIN Stored(table) = StoredKeys(table)
    BY DEF Stored
  <1>3. CASE Matches(table, key, s)
    BY <1>1, <1>2, <1>3, MatchIsStored DEF Map!Overflows, StoredKeys
  <1>4. CASE ~Matches(table, key, s)
    <2>1. s \in Slots /\ table[s].state # "OCCUPIED" /\ key \notin StoredKeys(table)
      BY <1>1, <1>4, AbsentKeyHasRoom
    <2>2. Cardinality(StoredKeys(table)) < Capacity
      BY <1>1, <2>1, RoomLeft DEF Searchable
    <2>3. Cardinality(StoredKeys(table)) # Capacity
      BY <1>1, <2>2, StoredKeysCounted, FS_CardinalityType, TableAssumption DEF Searchable
    <2>4. QED
      BY <1>2, <2>1, <2>3, SameCardinality DEF Map!Overflows
  <1>5. QED
    BY <1>3, <1>4

LEMMA AssignRefines ==
    ASSUME MapInv, NEW key \in Keys, NEW value \in Values, Assign(key, value)
    PROVE  Map!Assign(key, value)
  <1>1. PICK s \in ProbedSlots(table, key) :
           table' = Filled(table, s, key, value) /\ result' = "assigned"
    BY DEF Assign
  <1>2. Stored(table') = Entered(Stored(table), key, value)
    <2> DEFINE V == Values \cup {"initial"}
    <2>1. table \in Tables(V) /\ value \in V /\ Searchable(table) /\ key \in Nat
      BY MapAssumption, TableIsTyped DEF MapInv
    <2> HIDE DEF V
    <2>2. Stored(Filled(table, s, key, value)) = Entered(Stored(table), key, value)
      BY <2>1, FillStores, Zenon
    <2>3. QED
      BY <1>1, <2>2
  <1>3. ~Map!Overflows(key)
    BY NotOverflowing
  <1> HIDE DEF Stored
  <1>4. QED
    BY <1>1, <1>2, <1>3 DEF Map!Assign, Entered

LEMMA UpdateRefines ==
    ASSUME MapInv, NEW key \in Keys, NEW value \in Values, Update(key, value)
    PROVE  Map!Update(key, value)
  <1>1. PICK s \in ProbedSlots(table, key) :
           /\ Matches(table, key, s)
           /\ table' = [table EXCEPT ![s].value = value]
           /\ result' = "updated"
    BY DEF Update
  <1>2. s \in Occupied(table) /\ table[s].key = key
    BY <1>1, MapAssumption, TableIsTyped, MatchIsStored DEF MapInv
  <1>3. Stored(table') = [Stored(table) EXCEPT ![key] = value]
    <2>1. value \in Values \cup {"initial"}
      OBVIOUS
    <2>2. table \in Tables(Values \cup {"initial"}) /\ Searchable(table)
      BY TableIsTyped DEF MapInv
    <2>3. Stored([table EXCEPT ![s].value = value]) =
            [Stored(table) EXCEPT ![table[s].key] = value]
      BY <1>2, <2>1, <2>2, ChangeStores
    <2>4. QED
      BY <1>1, <1>2, <2>3
  <1>4. key \in DOMAIN Stored(table)
    BY <1>2 DEF Stored, StoredKeys
  <1>5. QED
    BY <1>1, <1>3, <1>4 DEF Map!Update

LEMMA FindRefines ==
    ASSUME MapInv, NEW key \in Keys, Find(key)
    PROVE  Map!Find(key)
  <1>1. PICK s \in ProbedSlots(table, key) :
           /\ result' = IF Matches(table, key, s) THEN table[s].value ELSE "absent"
           /\ UNCHANGED table
    BY DEF Find
  <1>2. ~Map!Overflows(key)
    BY NotOverflowing
  <1>3. CASE Matches(table, key, s)
    <2>1. s \in Occupied(table) /\ table[s].key = key
      BY <1>3, MapAssumption, TableIsTyped, MatchIsStored DEF MapInv
    <2>2. key \in DOMAIN Stored(table)
      BY <2>1 DEF Stored, StoredKeys
    <2>3. Stored(table)[key] = table[s].value
      BY <2>1, StoredValue DEF MapInv, Searchable
    <2>4. QED
      BY <1>1, <1>2, <1>3, <2>2, <2>3 DEF Map!Find
  <1>4. CASE ~Matches(table, key, s)
    BY <1>1, <1>2, <1>4, NotOverflowing DEF Map!Find
  <1>5. QED
    BY <1>3, <1>4

(* Erasing a key that is not stored looks like a find of it.               *)
LEMMA EraseRefines ==
    ASSUME ~Rehash, MapInv, NEW key \in Keys, Erase(key)
    PROVE  Map!Erase(key) \/ Map!Find(key)
  <1>1. PICK s \in ProbedSlots(table, key) :
          \/ /\ Matches(table, key, s)
             /\ EraseSlot(s, (CountAfterProbe(key) + 1) % (CountMax + 1))
             /\ result' = "erased"
          \/ /\ ~Matches(table, key, s)
             /\ result' = "absent"
             /\ UNCHANGED table
    BY DEF Erase
  <1>2. CASE ~Matches(table, key, s)
    BY <1>1, <1>2, NotOverflowing DEF Map!Find
  <1>3. CASE Matches(table, key, s)
    <2>1. table' = Buried(table, s) /\ result' = "erased"
      BY <1>1, <1>3 DEF EraseSlot
    <2>2. s \in Occupied(table) /\ table[s].key = key
      BY <1>3, MapAssumption, TableIsTyped, MatchIsStored DEF MapInv
    <2>3. Stored(table') = Removed(Stored(table), key)
      BY <2>1, <2>2, TableIsTyped, BuryErases DEF MapInv
    <2>4. key \in StoredKeys(table) /\ DOMAIN Stored(table) = StoredKeys(table)
      BY <2>2 DEF Stored, StoredKeys
    <2> HIDE DEF Stored
    <2>5. QED
      BY <2>1, <2>3, <2>4 DEF Map!Erase, Removed
  <1>4. QED
    BY <1>2, <1>3

LEMMA SaturateRefines ==
    ASSUME MapInv, NEW key \in Keys, Saturate(key)
    PROVE  Map!Saturate(key)
  <1>1. key \notin StoredKeys(table) /\ Cardinality(StoredKeys(table)) = Capacity
    BY MapAssumption, TableIsTyped, SaturatedIsFull DEF MapInv, Searchable, Saturate
  <1>2. DOMAIN Stored(table) = StoredKeys(table)
    BY DEF Stored
  <1>3. QED
    BY <1>1, <1>2, SameCardinality DEF Saturate, Map!Saturate, Map!Overflows

(* Without rehash, and with either way of probing, the table behaves like  *)
(* the map: what find returns, what operator[] and erase do, and that it   *)
(* gives up exactly when it is asked for an absent key while Capacity keys *)
(* are stored.  For quadratic probing this is where the capacity must be a *)
(* power of two.                                                           *)
THEOREM TableImplementsMap ==
    ASSUME ~Rehash
    PROVE  Spec => ImplementsMap
  <1>1. Init => Map!Init
    <2> SUFFICES ASSUME Init
                 PROVE  Map!Init
      OBVIOUS
    <2>1. Occupied(table) = {}
      BY EmptyTableSearchable DEF Init
    <2>2. DOMAIN Stored(table) = {} /\ Stored(table) = [k \in {} |-> Stored(table)[k]]
      BY <2>1 DEF Stored, StoredKeys
    <2>3. Stored(table) = << >>
      BY <2>2
    <2>4. QED
      BY <2>3 DEF Init, Map!Init
  <1>2. MapInv /\ [Next]_vars => [Map!Next]_<<Stored(table), result>>
    <2> SUFFICES ASSUME MapInv, [Next]_vars
                 PROVE  [Map!Next]_<<Stored(table), result>>
      OBVIOUS
    <2>1. CASE UNCHANGED vars
      BY <2>1 DEF vars
    <2>2. CASE Next
      BY <2>2, AssignRefines, UpdateRefines, FindRefines, EraseRefines, SaturateRefines
      DEF Next, Map!Next
    <2>3. QED
      BY <2>1, <2>2
  <1>3. QED
    BY <1>1, <1>2, TableStaysSearchable, PTL DEF Spec, ImplementsMap, Map!Spec
===============================================================================
