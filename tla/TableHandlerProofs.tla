-------------------------- MODULE TableHandlerProofs --------------------------
(***************************************************************************)
(* Proofs that the handler over the table is the handler over a map, for   *)
(* every capacity, until the table is full, and that it is full only of    *)
(* live orders.                                                            *)
(***************************************************************************)
EXTENDS TableHandler, OpenAddressTableProofs

SlotValue == [side : MD!Sides, price : Prices \cup {0}, shares : 0 .. SharesMax]

TypedSlots == [Slots -> [state : SlotStates, key : References \cup {0},
                         value : SlotValue]]

(* What the state of the table and the flags must be for a lookup to mean  *)
(* what it means in a map.                                                 *)
TableInv == TypeOK /\ Searchable(slots)

LEMMA SlotsTyped ==
    ASSUME TypeOK
    PROVE  slots \in Tables(SlotValue) /\ slots \in TypedSlots
  <1>1. References \cup {0} \subseteq Nat
    BY HandlerAssumption
  <1>2. [state : SlotStates, key : References \cup {0}, value : SlotValue]
           \subseteq [state : SlotStates, key : Nat, value : SlotValue]
    BY <1>1
  <1>3. slots \in TypedSlots
    BY DEF TypeOK, TypedSlots, SlotValue
  <1>4. QED
    BY <1>2, <1>3 DEF TypedSlots, Tables

LEMMA RecordIsSlotValue == MD!Record \subseteq SlotValue
  BY HandlerAssumption DEF MD!Record, SlotValue

-----------------------------------------------------------------------------
(* What a lookup says.                                                     *)

LEMMA FoundIsStored ==
    ASSUME TableInv, NEW reference \in References, NEW s \in Slots,
           FoundIn(reference, s)
    PROVE  /\ s \in Occupied(slots) /\ slots[s].key = reference
           /\ slots[s].value \in MD!Record
           /\ reference \in DOMAIN Stored(slots)
           /\ Stored(slots)[reference] = slots[s].value
  <1>1. s \in Occupied(slots) /\ slots[s].key = reference
    BY DEF FoundIn, Matches, Occupied
  <1>2. Stored(slots)[reference] = slots[s].value
    BY <1>1, StoredValue DEF TableInv, Searchable
  <1>3. reference \in DOMAIN Stored(slots)
    BY <1>1 DEF Stored, StoredKeys
  <1>4. QED
    BY <1>1, <1>2, <1>3 DEF TableInv, TypeOK

LEMMA NotFoundIsAbsent ==
    ASSUME TableInv, NEW reference \in References,
           \A s \in Slots : ~FoundIn(reference, s)
    PROVE  reference \notin DOMAIN Stored(slots)
  <1> SUFFICES ASSUME NEW s \in Occupied(slots), slots[s].key = reference
               PROVE  FALSE
    BY DEF Stored, StoredKeys
  <1>1. ProbedSlots(slots, reference) = {s}
    BY SlotsTyped, StoredKeyIsFound DEF TableInv
  <1>2. s \in Slots /\ Matches(slots, reference, s)
    BY DEF Occupied, Matches
  <1>3. QED
    BY <1>1, <1>2 DEF FoundIn

-----------------------------------------------------------------------------
(* What the handlers do to the table.                                      *)

(* t is a table as TypeOK asks for.                                        *)
GoodTable(t) ==
    /\ t \in TypedSlots
    /\ \A s \in Occupied(t) : t[s].key \in References /\ t[s].value \in MD!Record
    /\ Searchable(t)

LEMMA GoodSlots == TableInv => GoodTable(slots)
  BY SlotsTyped DEF TableInv, TypeOK, GoodTable

LEMMA GoodIsTyped == \A t : GoodTable(t) => t \in Tables(SlotValue)
  <1>1. References \cup {0} \subseteq Nat
    BY HandlerAssumption
  <1>2. [state : SlotStates, key : References \cup {0}, value : SlotValue]
           \subseteq [state : SlotStates, key : Nat, value : SlotValue]
    BY <1>1
  <1>3. QED
    BY <1>2 DEF GoodTable, TypedSlots, Tables

LEMMA FillGood ==
    ASSUME NEW t, GoodTable(t), NEW reference \in References,
           NEW s \in ProbedSlots(t, reference), NEW record \in MD!Record
    PROVE  /\ GoodTable(Filled(t, s, reference, record))
           /\ Stored(Filled(t, s, reference, record)) =
                MD!Insert(Stored(t), reference, record)
  <1> DEFINE u == Filled(t, s, reference, record)
  <1>1. t \in Tables(SlotValue) /\ reference \in Nat /\ record \in SlotValue
    BY GoodIsTyped, HandlerAssumption, RecordIsSlotValue
  <1>2. s \in Slots /\ Searchable(t)
    BY <1>1, MatchIsStored DEF GoodTable
  <1>3. u \in TypedSlots
    BY <1>1, <1>2 DEF GoodTable, TypedSlots, Filled, SlotStates
  <1>4. \A r \in Occupied(u) : u[r].key \in References /\ u[r].value \in MD!Record
    BY <1>2 DEF GoodTable, TypedSlots, Filled, Occupied
  <1>5. /\ Searchable(u)
        /\ Stored(u) = Entered(Stored(t), reference, record)
    BY <1>1, <1>2, FillStores
  <1> HIDE DEF Stored
  <1>6. QED
    BY <1>3, <1>4, <1>5 DEF GoodTable, MD!Insert, Entered

LEMMA BuryGood ==
    ASSUME NEW t, GoodTable(t), NEW s \in Occupied(t)
    PROVE  /\ GoodTable(Buried(t, s))
           /\ Stored(Buried(t, s)) = MD!Erase(Stored(t), t[s].key)
           /\ Buried(t, s)[s].value = t[s].value
  <1> DEFINE u == Buried(t, s)
  <1>1. t \in Tables(SlotValue) /\ Searchable(t)
    BY GoodIsTyped DEF GoodTable
  <1>2. u \in TypedSlots
    <2>1. "TOMBSTONE" \in SlotStates
      BY DEF SlotStates
    <2>2. QED
      BY <2>1 DEF GoodTable, TypedSlots, Buried
  <1>3. \A r \in Occupied(u) : r \in Occupied(t) /\ u[r] = t[r]
    BY <1>1 DEF Tables, Buried, Occupied
  <1>4. /\ Searchable(u) /\ u[s].value = t[s].value
        /\ Stored(u) = Removed(Stored(t), t[s].key)
    BY <1>1, BuryErases
  <1> HIDE DEF Stored
  <1>5. QED
    BY <1>2, <1>3, <1>4 DEF GoodTable, MD!Erase, Removed

LEMMA ReduceGood ==
    ASSUME TableInv, NEW reference \in References, NEW s \in Slots,
           FoundIn(reference, s), NEW n \in Sizes
    PROVE  /\ GoodTable(Reduced(s, n))
           /\ Stored(Reduced(s, n)) = MD!Reduced(reference, n)
           /\ Reduced(s, n)[s].value.side = slots[s].value.side
           /\ Reduced(s, n)[s].value.price = slots[s].value.price
  <1> DEFINE left == MD!Minus(slots[s].value.shares, n)
             record == [slots[s].value EXCEPT !.shares = left]
             changed == [slots EXCEPT ![s].value = record]
  <1>1. /\ s \in Occupied(slots) /\ slots[s].key = reference
        /\ slots[s].value \in MD!Record
        /\ reference \in DOMAIN Stored(slots)
        /\ Stored(slots)[reference] = slots[s].value
        /\ GoodTable(slots) /\ slots \in TypedSlots
    BY FoundIsStored, GoodSlots, SlotsTyped DEF TableInv
  <1>2. left \in 0 .. SharesMax
    <2>1. SharesMax \in Nat /\ n \in Int /\ slots[s].value.shares \in Int
      BY <1>1, HandlerAssumption DEF MD!Record
    <2>2. QED
      BY <2>1 DEF MD!Minus
  <1>3. record \in SlotValue /\ record.side = slots[s].value.side
        /\ record.price = slots[s].value.price /\ record.shares = left
    BY <1>1, <1>2 DEF MD!Record, SlotValue
  <1>4. [slots EXCEPT ![s].value.shares = left] = changed
    BY <1>1 DEF TypedSlots
  <1>5. /\ changed \in TypedSlots /\ changed \in Tables(SlotValue)
        /\ s \in Occupied(changed) /\ changed[s].key = reference
        /\ changed[s].value = record
    BY <1>1, <1>3, SlotsTyped DEF TypedSlots, Tables, Occupied, TableInv
  <1>6. Searchable(changed) /\ Stored(changed) = [Stored(slots) EXCEPT ![reference] = record]
    BY <1>1, <1>3, SlotsTyped, ChangeStores DEF TableInv
  <1>7. CASE left = 0
    <2>1. Reduced(s, n) = Buried(changed, s)
      BY <1>4, <1>7 DEF Reduced
    <2>2. /\ Searchable(Buried(changed, s))
          /\ Buried(changed, s)[s].value = record
          /\ Stored(Buried(changed, s)) = Removed(Stored(changed), reference)
      <3> HIDE DEF changed, record
      <3>1. changed \in Tables(SlotValue) /\ Searchable(changed) /\ s \in Occupied(changed)
        BY <1>5, <1>6
      <3>2. /\ Searchable(Buried(changed, s))
            /\ Buried(changed, s)[s].value = changed[s].value
            /\ Stored(Buried(changed, s)) = Removed(Stored(changed), changed[s].key)
        BY <3>1, BuryErases, Zenon
      <3>3. QED
        BY <1>5, <3>2
    <2>3. Buried(changed, s) \in TypedSlots
      <3>1. "TOMBSTONE" \in SlotStates
        BY DEF SlotStates
      <3>2. QED
        BY <1>5, <3>1 DEF TypedSlots, Buried
    <2>4. \A r \in Occupied(Buried(changed, s)) :
             r \in Occupied(slots) /\ Buried(changed, s)[r] = slots[r]
      BY <1>1, <1>5 DEF Buried, Occupied, TypedSlots
    <2>5. GoodTable(Reduced(s, n))
      BY <1>1, <2>1, <2>2, <2>3, <2>4 DEF GoodTable
    <2>6. DOMAIN Stored(changed) = DOMAIN Stored(slots)
      BY <1>6 DEF Stored
    <2>7. MD!Reduced(reference, n) = MD!Erase(Stored(slots), reference)
      BY <1>1, <1>7 DEF MD!Reduced
    <2> HIDE DEF Stored
    <2>8. Removed(Stored(changed), reference) = MD!Erase(Stored(slots), reference)
      BY <1>6, <2>6 DEF MD!Erase, Removed
    <2>9. QED
      BY <1>3, <2>1, <2>2, <2>5, <2>7, <2>8
  <1>8. CASE left # 0
    <2>1. Reduced(s, n) = changed
      BY <1>4, <1>8 DEF Reduced
    <2>2. record \in MD!Record
      BY <1>1, <1>2, <1>8, HandlerAssumption DEF MD!Record
    <2>3. \A r \in Occupied(changed) :
             r \in Occupied(slots) /\ (r # s => changed[r] = slots[r])
      BY <1>1, <1>5 DEF Occupied, TypedSlots
    <2>4. GoodTable(Reduced(s, n))
      BY <1>1, <1>5, <1>6, <2>1, <2>2, <2>3 DEF GoodTable
    <2>5. MD!Reduced(reference, n) = [Stored(slots) EXCEPT ![reference].shares = left]
      BY <1>1, <1>8 DEF MD!Reduced
    <2>6. [Stored(slots) EXCEPT ![reference].shares = left]
             = [Stored(slots) EXCEPT ![reference] = record]
      BY <1>1
    <2>7. QED
      BY <1>3, <1>5, <1>6, <2>1, <2>4, <2>5, <2>6
  <1>9. QED
    BY <1>7, <1>8

-----------------------------------------------------------------------------
(* One message.                                                            *)

(* What a step that goes on leaves behind.                                 *)
LEMMA StepKeeps ==
    ASSUME TableInv, GoodTable(slots'), cache_stock_locate' \in LocateCodes,
           crashed' \in BOOLEAN, saturated' \in BOOLEAN
    PROVE  TableInv'
  BY DEF TableInv, TypeOK, GoodTable, TypedSlots, SlotValue

(* What the fields of a message can be.                                    *)
LEMMA MessageFields ==
    ASSUME NEW m \in MD!Messages
    PROVE  /\ m.type \in {"A", "F"} =>
                 /\ m.reference \in References /\ m.side \in MD!Sides
                 /\ m.price \in Prices /\ m.shares \in Sizes
           /\ m.type \in {"E", "C", "X"} =>
                 m.reference \in References /\ m.shares \in Sizes
           /\ m.type = "D" => m.reference \in References
           /\ m.type = "U" =>
                 /\ m.reference \in References /\ m.new_reference \in References
                 /\ m.price \in Prices /\ m.shares \in Sizes
           /\ m.type \in {"A", "F", "E", "C", "X", "D", "U", "S"}
  BY DEF MD!Messages, MD!AddMessages, MD!ReduceMessages, MD!DeleteMessages,
     MD!ReplaceMessages, MD!OtherMessages, MD!Sides

LEMMA RecordOfTyped ==
    ASSUME NEW m, NEW side \in MD!Sides, m.price \in Prices, m.shares \in Sizes
    PROVE  MD!RecordOf(side, m) \in MD!Record
  BY HandlerAssumption DEF MD!RecordOf, MD!Record

LEMMA FindFailsRefines ==
    ASSUME TableInv, NEW reference \in References, FindFails(reference)
    PROVE  /\ TableInv'
           /\ ~saturated' => /\ ~MD!Found(reference)
                             /\ MD!DereferenceNull
  <1>1. UNCHANGED <<slots, cache_stock_locate, levels, corrupted>>
        /\ crashed' \in BOOLEAN /\ saturated' \in BOOLEAN
        /\ (~saturated' => crashed' = TRUE)
    BY DEF FindFails, Throw, TableInv, TypeOK
  <1>2. TableInv'
    BY <1>1, GoodSlots, StepKeeps DEF TableInv, TypeOK
  <1>3. reference \notin DOMAIN Stored(slots)
    BY NotFoundIsAbsent DEF FindFails
  <1>4. Stored(slots)' = Stored(slots)
    BY <1>1
  <1>5. QED
    BY <1>1, <1>2, <1>3, <1>4 DEF MD!Found, MD!DereferenceNull, MD!bookVars

LEMMA AddOrderRefines ==
    ASSUME TableInv, ~saturated, NEW m \in MD!Messages, AddOrder(m)
    PROVE  TableInv' /\ (~saturated' => MD!AddOrder(m))
  <1>1. /\ m.reference \in References /\ MD!RecordOf(m.side, m) \in MD!Record
        /\ m.type \in {"A", "F"} /\ m.stock_locate = TargetStock
        /\ cache_stock_locate' = m.stock_locate /\ cache_stock_locate' \in LocateCodes
    BY MessageFields, RecordOfTyped, HandlerAssumption DEF AddOrder
  <1>2. CASE Throw
    BY <1>1, <1>2, GoodSlots, StepKeeps DEF Throw, TableInv, TypeOK
  <1>3. CASE /\ \E s \in ProbedSlots(slots, m.reference) :
                   slots' = Filled(slots, s, m.reference, MD!RecordOf(m.side, m))
             /\ MD!AddToBook(m.side, m.price, m.shares)
             /\ UNCHANGED <<crashed, saturated>>
    <2>1. /\ GoodTable(slots')
          /\ Stored(slots)' = MD!Insert(Stored(slots), m.reference, MD!RecordOf(m.side, m))
      BY <1>1, <1>3, GoodSlots, FillGood
    <2>2. TableInv'
      BY <1>1, <1>3, <2>1, StepKeeps DEF TableInv, TypeOK
    <2>3. QED
      BY <1>1, <1>3, <2>1, <2>2 DEF MD!AddOrder
  <1>4. QED
    BY <1>2, <1>3 DEF AddOrder

LEMMA ExecuteOrderRefines ==
    ASSUME TableInv, NEW m \in MD!Messages, ExecuteOrder(m)
    PROVE  TableInv' /\ (~saturated' => MD!ExecuteOrder(m))
  <1>1. m.reference \in References /\ m.shares \in Sizes /\ m.type \in {"E", "C"}
    BY MessageFields DEF ExecuteOrder
  <1>2. CASE FindFails(m.reference)
    BY <1>1, <1>2, FindFailsRefines DEF MD!ExecuteOrder
  <1>3. ASSUME NEW s \in Slots, FoundIn(m.reference, s),
               slots' = Reduced(s, m.shares),
               MD!ExecuteInBook(slots[s].value.side, slots[s].value.price, m.shares),
               UNCHANGED others
        PROVE  TableInv' /\ (~saturated' => MD!ExecuteOrder(m))
    <2>1. GoodTable(slots') /\ Stored(slots)' = MD!Reduced(m.reference, m.shares)
      BY <1>1, <1>3, ReduceGood
    <2>2. m.reference \in DOMAIN Stored(slots) /\ Stored(slots)[m.reference] = slots[s].value
      BY <1>1, <1>3, FoundIsStored
    <2>3. TableInv'
      BY <1>3, <2>1, StepKeeps DEF TableInv, TypeOK, others
    <2>4. QED
      BY <1>1, <1>3, <2>1, <2>2, <2>3 DEF MD!ExecuteOrder, MD!Found, others
  <1>4. QED
    BY <1>2, <1>3 DEF ExecuteOrder

LEMMA CancelOrderRefines ==
    ASSUME TableInv, NEW m \in MD!Messages, CancelOrder(m)
    PROVE  TableInv' /\ (~saturated' => MD!CancelOrder(m))
  <1>1. m.reference \in References /\ m.shares \in Sizes /\ m.type = "X"
    BY MessageFields DEF CancelOrder
  <1>2. CASE FindFails(m.reference)
    BY <1>1, <1>2, FindFailsRefines DEF MD!CancelOrder
  <1>3. ASSUME NEW s \in Slots, FoundIn(m.reference, s),
               slots' = Reduced(s, m.shares),
               LET record == Reduced(s, m.shares)[s].value
               IN  MD!CancelInBook(record.side, record.price, m.shares),
               UNCHANGED others
        PROVE  TableInv' /\ (~saturated' => MD!CancelOrder(m))
    <2>1. GoodTable(slots') /\ Stored(slots)' = MD!Reduced(m.reference, m.shares)
      BY <1>1, <1>3, ReduceGood
    <2>2. m.reference \in DOMAIN Stored(slots) /\ Stored(slots)[m.reference] = slots[s].value
      BY <1>1, <1>3, FoundIsStored
    <2>3. TableInv'
      BY <1>3, <2>1, StepKeeps DEF TableInv, TypeOK, others
    <2>4. MD!CancelInBook(slots[s].value.side, slots[s].value.price, m.shares)
      BY <1>1, <1>3, ReduceGood
    <2>5. QED
      BY <1>1, <1>3, <2>1, <2>2, <2>3, <2>4 DEF MD!CancelOrder, MD!Found, others
  <1>4. QED
    BY <1>2, <1>3 DEF CancelOrder

LEMMA DeleteOrderRefines ==
    ASSUME TableInv, NEW m \in MD!Messages, DeleteOrderRecord(m)
    PROVE  TableInv' /\ (~saturated' => MD!DeleteOrderRecord(m))
  <1>1. m.reference \in References /\ m.type = "D"
    BY MessageFields DEF DeleteOrderRecord
  <1>2. CASE FindFails(m.reference)
    BY <1>1, <1>2, FindFailsRefines DEF MD!DeleteOrderRecord
  <1>3. ASSUME NEW s \in Slots, FoundIn(m.reference, s),
               slots' = Buried(slots, s),
               LET record == slots[s].value
               IN  MD!CancelInBook(record.side, record.price, record.shares),
               UNCHANGED others
        PROVE  TableInv' /\ (~saturated' => MD!DeleteOrderRecord(m))
    <2>1. /\ s \in Occupied(slots) /\ slots[s].key = m.reference
          /\ m.reference \in DOMAIN Stored(slots)
          /\ Stored(slots)[m.reference] = slots[s].value
      BY <1>1, <1>3, FoundIsStored
    <2>2. GoodTable(slots') /\ Stored(slots)' = MD!Erase(Stored(slots), m.reference)
      BY <1>3, <2>1, GoodSlots, BuryGood
    <2>3. TableInv'
      BY <1>3, <2>2, StepKeeps DEF TableInv, TypeOK, others
    <2>4. QED
      BY <1>1, <1>3, <2>1, <2>2, <2>3 DEF MD!DeleteOrderRecord, MD!Found, others
  <1>4. QED
    BY <1>2, <1>3 DEF DeleteOrderRecord

LEMMA ReplaceOrderRefines ==
    ASSUME TableInv, NEW m \in MD!Messages, ReplaceOrderRecord(m)
    PROVE  TableInv' /\ (~saturated' => MD!ReplaceOrderRecord(m))
  <1>1. /\ m.reference \in References /\ m.new_reference \in References
        /\ m.price \in Prices /\ m.shares \in Sizes /\ m.type = "U"
    BY MessageFields DEF ReplaceOrderRecord
  <1>2. CASE FindFails(m.reference)
    BY <1>1, <1>2, FindFailsRefines DEF MD!ReplaceOrderRecord
  <1>3. ASSUME NEW s \in Slots, FoundIn(m.reference, s),
               NEW r \in ProbedSlots(Buried(slots, s), m.new_reference),
               slots' = Filled(Buried(slots, s), r, m.new_reference,
                               MD!RecordOf(slots[s].value.side, m)),
               MD!ReplaceInBook(slots[s].value.side, slots[s].value.price,
                                slots[s].value.shares, m.price, m.shares),
               UNCHANGED others
        PROVE  TableInv' /\ (~saturated' => MD!ReplaceOrderRecord(m))
    <2> DEFINE record == slots[s].value
    <2>1. /\ s \in Occupied(slots) /\ slots[s].key = m.reference
          /\ m.reference \in DOMAIN Stored(slots)
          /\ Stored(slots)[m.reference] = record /\ record \in MD!Record
      BY <1>1, <1>3, FoundIsStored
    <2>2. /\ GoodTable(Buried(slots, s))
          /\ Stored(Buried(slots, s)) = MD!Erase(Stored(slots), m.reference)
      BY <2>1, GoodSlots, BuryGood
    <2>3. MD!RecordOf(record.side, m) \in MD!Record
      BY <1>1, <2>1, RecordOfTyped DEF MD!Record
    <2>4. /\ GoodTable(slots')
          /\ Stored(slots)' = MD!Insert(MD!Erase(Stored(slots), m.reference),
                                        m.new_reference, MD!RecordOf(record.side, m))
      BY <1>1, <1>3, <2>2, <2>3, FillGood
    <2>5. TableInv'
      BY <1>3, <2>4, StepKeeps DEF TableInv, TypeOK, others
    <2>6. QED
      BY <1>1, <1>3, <2>1, <2>4, <2>5 DEF MD!ReplaceOrderRecord, MD!Found, others
  <1>4. QED
    BY <1>2, <1>3 DEF ReplaceOrderRecord

LEMMA PollRefines ==
    ASSUME TableInv, NEW m \in MD!Messages, Poll(m)
    PROVE  TableInv' /\ (~saturated' => MD!Poll(m))
  <1>1. ~crashed /\ ~saturated
    BY DEF Poll
  <1>2. CASE Ignored(m) /\ UNCHANGED <<others, slots, levels, corrupted>>
    <2>1. TableInv'
      BY <1>2, GoodSlots, StepKeeps DEF TableInv, TypeOK, others
    <2>2. UNCHANGED <<cache_stock_locate, Stored(slots), crashed, levels, corrupted>>
      BY <1>2 DEF others
    <2>3. UNCHANGED MD!handlerVars
      BY <2>2 DEF MD!handlerVars, MD!bookVars
    <2>4. QED
      BY <1>1, <1>2, <2>1, <2>3
      DEF Ignored, MD!Poll, MD!SimulateMessage, MD!AddOrder
  <1>3. CASE ~MD!Skips(m) /\ AddOrder(m)
    BY <1>1, <1>3, AddOrderRefines DEF MD!Poll, MD!SimulateMessage
  <1>4. CASE ~MD!Skips(m) /\ ExecuteOrder(m)
    BY <1>1, <1>4, ExecuteOrderRefines DEF MD!Poll, MD!SimulateMessage
  <1>5. CASE ~MD!Skips(m) /\ CancelOrder(m)
    BY <1>1, <1>5, CancelOrderRefines DEF MD!Poll, MD!SimulateMessage
  <1>6. CASE ~MD!Skips(m) /\ DeleteOrderRecord(m)
    BY <1>1, <1>6, DeleteOrderRefines DEF MD!Poll, MD!SimulateMessage
  <1>7. CASE ~MD!Skips(m) /\ ReplaceOrderRecord(m)
    BY <1>1, <1>7, ReplaceOrderRefines DEF MD!Poll, MD!SimulateMessage
  <1>8. QED
    BY <1>2, <1>3, <1>4, <1>5, <1>6, <1>7 DEF Poll

-----------------------------------------------------------------------------
(* The theorems.                                                           *)

LEMMA InitGood == Init => TableInv /\ MD!Init
  <1> SUFFICES ASSUME Init
               PROVE  TableInv /\ MD!Init
    OBVIOUS
  <1>1. NoRecord \in SlotValue
    BY HandlerAssumption DEF NoRecord, SlotValue, MD!Sides
  <1>2. Searchable(slots) /\ Occupied(slots) = {}
    BY <1>1, EmptyTableSearchable DEF Init
  <1>3. slots \in TypedSlots
    BY <1>1 DEF Init, EmptyTable, TypedSlots, SlotStates
  <1>4. TableInv
    BY <1>2, <1>3 DEF TableInv, TypeOK, TypedSlots, SlotValue, Init
  <1>5. Stored(slots) = [k \in {} |-> Stored(slots)[k]]
    BY <1>2 DEF Stored, StoredKeys
  <1>6. Stored(slots) = << >>
    BY <1>5
  <1>7. QED
    BY <1>4, <1>6 DEF Init, MD!Init, MD!HandlerInit

(* The table stays searchable under the handler's own calls.               *)
THEOREM HandlerKeepsTable == Spec => []TableInv
  <1>1. TableInv /\ [Next]_vars => TableInv'
    <2> SUFFICES ASSUME TableInv, [Next]_vars
                 PROVE  TableInv'
      OBVIOUS
    <2>1. CASE UNCHANGED vars
      BY <2>1 DEF vars, others, TableInv, TypeOK
    <2>2. CASE Next
      BY <2>2, PollRefines DEF Next, Handle
    <2>3. QED
      BY <2>1, <2>2
  <1>2. QED
    BY <1>1, InitGood, PTL DEF Spec

(* The slots and flags keep their types.                                   *)
THEOREM TypeCorrect == Spec => []TypeOK
  <1>1. TableInv => TypeOK
    BY DEF TableInv
  <1>2. QED
    BY <1>1, HandlerKeepsTable, PTL

(* Over a table of any size, the handler does what MarketData says of a    *)
(* handler over a map, until a search throws: all that is proved of        *)
(* MarketData holds of the program until then.                             *)
THEOREM TableIsTransparent == Spec => ImplementsMarketData
  <1>1. TableInv /\ [Next]_vars => [saturated' \/ MD!Next]_vars
    <2> SUFFICES ASSUME TableInv, Next, ~saturated'
                 PROVE  MD!Next
      OBVIOUS
    <2>1. PICK m \in MD!Messages : Handle(m)
      BY DEF Next
    <2>2. MD!Handle(m)
      BY <2>1, PollRefines DEF Handle, MD!Handle
    <2>3. QED
      BY <2>2 DEF MD!Next
  <1>2. QED
    BY <1>1, InitGood, HandlerKeepsTable, PTL DEF Spec, ImplementsMarketData
-----------------------------------------------------------------------------
(* When the table throws.                                                  *)

(* What is known of a handler over a map, for the table's contents.        *)
Map == INSTANCE MarketDataProofs WITH order_records <- Stored(slots)

(* Until it throws, what the table stores follows the exchange.            *)
TableTracks == ~saturated => Map!Tracking

LEMMA MapNext == MD!Next => Map!Next
  BY DEF MD!Next, Map!Next, MD!Handle, Map!Handle, MD!Send, Map!Send, MD!Poll, Map!Poll,
     MD!MissedOf, Map!MissedOf, MD!Messages, Map!Messages,
     MD!AddMessages, Map!AddMessages, MD!ReduceMessages, Map!ReduceMessages,
     MD!DeleteMessages, Map!DeleteMessages, MD!ReplaceMessages, Map!ReplaceMessages,
     MD!OtherMessages, Map!OtherMessages,
     MD!AnnounceOrder, Map!AnnounceOrder, MD!AboutLiveOrder, Map!AboutLiveOrder,
     MD!ReduceOrder, Map!ReduceOrder, MD!DeleteOrder, Map!DeleteOrder,
     MD!ReplaceOrder, Map!ReplaceOrder, MD!SendOther, Map!SendOther,
     MD!Without, Map!Without, MD!exchangeVars, Map!exchangeVars,
     MD!Skips, Map!Skips, MD!handlerVars, Map!handlerVars, MD!bookVars, Map!bookVars,
     MD!SimulateMessage, Map!SimulateMessage, MD!AddOrder, Map!AddOrder,
     MD!ExecuteOrder, Map!ExecuteOrder, MD!CancelOrder, Map!CancelOrder,
     MD!DeleteOrderRecord, Map!DeleteOrderRecord,
     MD!ReplaceOrderRecord, Map!ReplaceOrderRecord,
     MD!Found, Map!Found, MD!Insert, Map!Insert, MD!Erase, Map!Erase,
     MD!Reduced, Map!Reduced, MD!RecordOf, Map!RecordOf,
     MD!DereferenceNull, Map!DereferenceNull, MD!Minus, Map!Minus, MD!Plus, Map!Plus,
     MD!SharesAt, Map!SharesAt, MD!Put, Map!Put, MD!Drop, Map!Drop,
     MD!WithShares, Map!WithShares, MD!WithoutShares, Map!WithoutShares,
     MD!RemoveShares, Map!RemoveShares, MD!AddToBook, Map!AddToBook,
     MD!ExecuteInBook, Map!ExecuteInBook, MD!CancelInBook, Map!CancelInBook,
     MD!ReplaceInBook, Map!ReplaceInBook

LEMMA MapInit == MD!Init => Map!Init
  BY DEF MD!Init, Map!Init, MD!NothingTraded, Map!NothingTraded, MD!HandlerInit,
     Map!HandlerInit, MD!EmptyBook, Map!EmptyBook, MD!Sides, Map!Sides

LEMMA MapAssumptions == Map!TargetAssumption /\ Map!WidthAssumption
  BY HandlerAssumption DEF Map!TargetAssumption, Map!WidthAssumption

LEMMA NextTracksInTable ==
    ASSUME TableInv, TableTracks, [Next]_vars
    PROVE  TableTracks'
  <1>1. CASE UNCHANGED vars
    <2>1. UNCHANGED <<saturated, live, announced, missed, cache_stock_locate,
                      Stored(slots), crashed, levels, corrupted>>
      BY <1>1 DEF vars, others
    <2>2. UNCHANGED Map!vars
      BY <2>1 DEF Map!vars, Map!exchangeVars, Map!handlerVars, Map!bookVars
    <2>3. Map!Tracking => Map!Tracking'
      BY <2>2, Map!NextTracks, MapAssumptions
    <2>4. QED
      BY <2>1, <2>3 DEF TableTracks
  <1>2. CASE Next
    <2> SUFFICES ASSUME ~saturated'
                 PROVE  Map!Tracking'
      BY DEF TableTracks
    <2>1. PICK m \in MD!Messages : Handle(m)
      BY <1>2 DEF Next
    <2>2. Map!Tracking
      BY <2>1 DEF Handle, Poll, TableTracks
    <2>3. MD!Handle(m)
      BY <2>1, PollRefines DEF Handle, MD!Handle
    <2>4. MD!Next
      BY <2>3 DEF MD!Next
    <2>5. Map!Next
      BY <2>4, MapNext
    <2>6. QED
      BY <2>2, <2>5, Map!NextTracks, MapAssumptions
  <1>3. QED
    BY <1>1, <1>2

(* A search throws only in a table that is full of orders of the stock.    *)
LEMMA ThrowsWhenFull ==
    ASSUME TableInv, TableTracks, Next, saturated'
    PROVE  Cardinality(LiveOfTarget) >= Capacity
  <1>1. PICK m \in MD!Messages : Handle(m)
    BY DEF Next
  <1>2. ~saturated /\ Map!Tracking /\ Poll(m)
    BY <1>1 DEF Handle, Poll, TableTracks
  <1>3. m.type \in {"A", "F", "E", "C", "X", "D", "U"} => m.reference \in References
    BY MessageFields
  <1>4. Saturated(slots, m.reference) /\ m.reference \in References
    BY <1>2, <1>3 DEF Poll, Ignored, AddOrder, ExecuteOrder, CancelOrder,
       DeleteOrderRecord, ReplaceOrderRecord, FindFails, Throw, others
  <1>5. slots \in Tables(SlotValue) /\ NoKeyTwice(slots) /\ m.reference \in Nat
    BY <1>4, SlotsTyped, HandlerAssumption DEF TableInv, Searchable
  <1>6. Cardinality(StoredKeys(slots)) = Capacity
    BY <1>4, <1>5, SaturatedIsFull
  <1>7. DOMAIN Stored(slots) = StoredKeys(slots)
    BY DEF Stored
  <1>8. Map!RecordsAreLive /\ Map!Typed
    BY <1>2 DEF Map!Tracking
  <1>9. StoredKeys(slots) \subseteq LiveOfTarget
    <2> HIDE DEF Stored
    <2>1. QED
      BY <1>7, <1>8 DEF Map!RecordsAreLive, LiveOfTarget
  <1>10. LiveOfTarget \subseteq References
    BY <1>8 DEF Map!Typed, LiveOfTarget
  <1>11. IsFiniteSet(LiveOfTarget)
    BY <1>10, HandlerAssumption, FS_Subset
  <1>12. Cardinality(StoredKeys(slots)) <= Cardinality(LiveOfTarget)
    BY <1>9, <1>11, FS_Subset
  <1>13. QED
    BY <1>6, <1>11, <1>12, FS_CardinalityType, TableAssumption

(* The table throws only while the stock has as many live orders as there  *)
(* are slots, so tombstones never bring it about.                          *)
THEOREM FullOnlyOfLiveOrders == Spec => SaturationExplained
  <1>1. Init => TableTracks
    BY InitGood, MapInit, Map!InitTracks, MapAssumptions DEF TableTracks
  <1>2. Spec => [](TableInv /\ TableTracks)
    BY <1>1, HandlerKeepsTable, NextTracksInTable, PTL DEF Spec
  <1>3. TableInv /\ TableTracks /\ [Next]_vars
            => [saturated' => Cardinality(LiveOfTarget) >= Capacity]_vars
    BY ThrowsWhenFull
  <1>4. QED
    BY <1>2, <1>3, PTL DEF Spec, SaturationExplained

(* A search that throws leaves the table and the book as they are.         *)
LEMMA ThrowChangesNothing ==
    ASSUME NEW m, Poll(m), saturated'
    PROVE  UNCHANGED <<slots, levels, corrupted>>
BY DEF Poll, Ignored, others, AddOrder, ExecuteOrder, CancelOrder, DeleteOrderRecord,
   ReplaceOrderRecord, FindFails, Throw

LEMMA NextFollowsInTable ==
    ASSUME NEW size, Map!LevelsFit(size), TableInv, TableTracks,
           Map!BookFollows(size), [Next]_vars
    PROVE  Map!BookFollows(size)'
  <1>1. ASSUME UNCHANGED <<slots, levels, corrupted>>
        PROVE  Map!BookFollows(size)'
    <2>1. UNCHANGED <<Stored(slots), levels, corrupted>>
      BY <1>1
    <2>2. QED
      BY <2>1 DEF Map!BookFollows
  <1>2. CASE UNCHANGED vars
    BY <1>1, <1>2 DEF vars
  <1>3. CASE Next
    <2>1. PICK m \in MD!Messages : Handle(m)
      BY <1>3 DEF Next
    <2>2. Poll(m) /\ ~saturated
      BY <2>1 DEF Handle, Poll
    <2>3. CASE saturated'
      BY <1>1, <2>2, <2>3, ThrowChangesNothing
    <2>4. CASE ~saturated'
      <3>1. Map!Tracking
        BY <2>2 DEF TableTracks
      <3>2. MD!Handle(m)
        BY <2>1, <2>4, PollRefines DEF Handle, MD!Handle
      <3>3. Map!Next
        BY <3>2, MapNext DEF MD!Next
      <3>4. QED
        BY <3>1, <3>3, Map!NextFollows, MapAssumptions
    <2>5. QED
      BY <2>3, <2>4
  <1>4. QED
    BY <1>2, <1>3

(* Whatever is erased, reused or thrown on the way, every level of the     *)
(* book is the sum of the records in the table's slots at its price, and   *)
(* remove_shares finds the level it takes shares off.                      *)
THEOREM BookCorrectOverTable ==
    ASSUME NEW size, Map!LevelsFit(size)
    PROVE  Spec => [](Map!BookShowsTheRecords /\ Map!BookIntact)
  <1>1. Init => TableTracks /\ Map!BookFollows(size)
    BY InitGood, MapInit, Map!InitTracks, Map!InitFollows, MapAssumptions DEF TableTracks
  <1>2. TableInv /\ TableTracks /\ Map!BookFollows(size) /\ [Next]_vars
            => TableTracks' /\ Map!BookFollows(size)'
    BY NextTracksInTable, NextFollowsInTable
  <1>3. Map!BookFollows(size) => Map!BookShowsTheRecords /\ Map!BookIntact
    BY Map!FollowingShows, MapAssumptions DEF Map!BookFollows, Map!BookIntact
  <1>4. QED
    BY <1>1, <1>2, <1>3, HandlerKeepsTable, PTL DEF Spec
===============================================================================
