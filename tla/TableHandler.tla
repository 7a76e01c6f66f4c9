----------------------------- MODULE TableHandler -----------------------------
(***************************************************************************)
(* The market data handler over the hash table it really keeps its order   *)
(* records in.  MarketData treats order_records_ as a map of any size;     *)
(* here it is the OpenAddressMap of the template's default parameters,     *)
(* find returns a slot, handlers read and write the record through that    *)
(* slot before and after they erase it, and a search in a full table       *)
(* throws.  The exchange, the book and the filter are MarketData's own.    *)
(*                                                                         *)
(* tombstone_ is left out: without rehash nothing depends on it.           *)
(***************************************************************************)
EXTENDS OpenAddressTable

CONSTANTS Stocks, References, Prices, Sizes, SharesMax, TargetStock, LocateCodes

ASSUME HandlerAssumption ==
    /\ TargetStock \in Stocks /\ Stocks \subseteq LocateCodes
    /\ SharesMax \in Nat /\ Sizes \subseteq 1 .. SharesMax
    /\ References \subseteq Nat /\ IsFiniteSet(References)
    /\ Probing = "linear"

VARIABLES
    live, announced, missed,    \* as in MarketData
    levels, corrupted,
    cache_stock_locate, crashed,
    slots,                      \* order_records_.table_
    saturated                   \* a MapSaturatedException has left the worker

MD == INSTANCE MarketData WITH order_records <- Stored(slots)

others == <<cache_stock_locate, crashed, saturated>>

vars == <<live, announced, missed, levels, corrupted, others, slots>>

(* The OrderRecord{} of a slot never used: side_t{} is BUY.                *)
NoRecord == [side |-> "BUY", price |-> 0, shares |-> 0]

Init ==
    /\ MD!NothingTraded
    /\ missed = {}
    /\ MD!EmptyBook
    /\ cache_stock_locate \in LocateCodes
    /\ slots = EmptyTable(NoRecord)
    /\ crashed = FALSE
    /\ saturated = FALSE

-----------------------------------------------------------------------------
(* What a lookup can end in.                                               *)

(* The exception passes through poll and the worker's loop.                *)
Throw == saturated' = TRUE /\ UNCHANGED <<slots, crashed, levels, corrupted>>

(* find(reference) returns a Handle of s.                                  *)
FoundIn(reference, s) ==
    s \in ProbedSlots(slots, reference) /\ Matches(slots, reference, s)

(* find(reference) throws, or returns a null Handle that is dereferenced.  *)
FindFails(reference) ==
    /\ \A s \in Slots : ~FoundIn(reference, s)
    /\ \/ Saturated(slots, reference) /\ Throw
       \/ /\ ~Saturated(slots, reference)
          /\ crashed' = TRUE
          /\ UNCHANGED <<slots, saturated, levels, corrupted>>
    /\ UNCHANGED cache_stock_locate

-----------------------------------------------------------------------------
(* simulate_message                                                        *)

(* The locate code is cached before the table is asked, the book is told   *)
(* only when the table has taken the record.                               *)
AddOrder(m) ==
    /\ m.type \in {"A", "F"}
    /\ m.stock_locate = TargetStock
    /\ cache_stock_locate' = m.stock_locate
    /\ \/ Saturated(slots, m.reference) /\ Throw
       \/ /\ \E s \in ProbedSlots(slots, m.reference) :
                slots' = Filled(slots, s, m.reference, MD!RecordOf(m.side, m))
          /\ MD!AddToBook(m.side, m.price, m.shares)
          /\ UNCHANGED <<crashed, saturated>>

(* Mutant of Reduced: an erased slot is value-initialised.                 *)
ReducedAndWiped(s, n) ==
    LET left == MD!Minus(slots[s].value.shares, n)
    IN  IF left = 0 THEN [Buried(slots, s) EXCEPT ![s].value = NoRecord]
        ELSE [slots EXCEPT ![s].value.shares = left]

(* Mutant of Reduced: a record outlives its last share.                    *)
ReducedOnly(s, n) == [slots EXCEPT ![s].value.shares = MD!Minus(@, n)]

(* shares -= n in slot s, and erase(Handle) with the last share.           *)
Reduced(s, n) ==
    LET left == MD!Minus(slots[s].value.shares, n)
        changed == [slots EXCEPT ![s].value.shares = left]
    IN  IF left = 0 THEN Buried(changed, s) ELSE changed

ExecuteOrder(m) ==
    /\ m.type \in {"E", "C"}
    /\ \/ FindFails(m.reference)
       \/ \E s \in Slots :
             /\ FoundIn(m.reference, s)
             /\ slots' = Reduced(s, m.shares)
             /\ MD!ExecuteInBook(slots[s].value.side, slots[s].value.price, m.shares)
             /\ UNCHANGED others

(* side and price are references into the slot, read after the erase.      *)
CancelOrder(m) ==
    /\ m.type = "X"
    /\ \/ FindFails(m.reference)
       \/ \E s \in Slots :
             /\ FoundIn(m.reference, s)
             /\ slots' = Reduced(s, m.shares)
             /\ LET record == Reduced(s, m.shares)[s].value
                IN  MD!CancelInBook(record.side, record.price, m.shares)
             /\ UNCHANGED others

(* side, price and shares are copies, taken before the erase.              *)
DeleteOrderRecord(m) ==
    /\ m.type = "D"
    /\ \/ FindFails(m.reference)
       \/ \E s \in Slots :
             /\ FoundIn(m.reference, s)
             /\ slots' = Buried(slots, s)
             /\ LET record == slots[s].value
                IN  MD!CancelInBook(record.side, record.price, record.shares)
             /\ UNCHANGED others

(* operator[] may put the new record into the slot just erased, or into a  *)
(* tombstone before it; after the erase it always finds room.              *)
ReplaceOrderRecord(m) ==
    /\ m.type = "U"
    /\ \/ FindFails(m.reference)
       \/ \E s \in Slots :
             /\ FoundIn(m.reference, s)
             /\ LET record == slots[s].value
                    erased == Buried(slots, s)
                IN  /\ \E r \in ProbedSlots(erased, m.new_reference) :
                          slots' = Filled(erased, r, m.new_reference,
                                          MD!RecordOf(record.side, m))
                    /\ MD!ReplaceInBook(record.side, record.price, record.shares,
                                        m.price, m.shares)
             /\ UNCHANGED others

(* Messages that are skipped, of a type without a handler, or adds of      *)
(* another stock.                                                          *)
Ignored(m) ==
    \/ MD!Skips(m)
    \/ m.type = "S"
    \/ m.type \in {"A", "F"} /\ m.stock_locate # TargetStock

Poll(m) ==
    /\ ~crashed /\ ~saturated
    /\ \/ Ignored(m) /\ UNCHANGED <<others, slots, levels, corrupted>>
       \/ /\ ~MD!Skips(m)
          /\ \/ AddOrder(m)
             \/ ExecuteOrder(m)
             \/ CancelOrder(m)
             \/ DeleteOrderRecord(m)
             \/ ReplaceOrderRecord(m)

Handle(m) ==
    /\ MD!Send(m)
    /\ Poll(m)
    /\ missed' = missed \cup MD!MissedOf(m)

Next == \E m \in MD!Messages : Handle(m)

Spec == Init /\ [][Next]_vars

-----------------------------------------------------------------------------
(* Properties.                                                             *)

(* Every slot and flag has its type, and what is stored are records.       *)
TypeOK ==
    /\ cache_stock_locate \in LocateCodes
    /\ slots \in [Slots -> [state : SlotStates, key : References \cup {0},
                            value : [side : MD!Sides, price : Prices \cup {0},
                                     shares : 0 .. SharesMax]]]
    /\ \A s \in Occupied(slots) :
          slots[s].key \in References /\ slots[s].value \in MD!Record
    /\ crashed \in BOOLEAN
    /\ saturated \in BOOLEAN

(* Until the table throws, the handler behaves as it does over a map:      *)
(* records, book, crashes and skipped messages are the same, with          *)
(* tombstones, slots reused, and records read through a Handle after their *)
(* erase.                                                                  *)
ImplementsMarketData ==
    /\ MD!Init
    /\ [][saturated' \/ MD!Next]_vars

LiveOfTarget == {r \in DOMAIN live : live[r].stock = TargetStock}

(* The table throws only while the stock has at least as many live orders  *)
(* as there are slots: erased records never take up room.                  *)
SaturationExplained == [][saturated' => Cardinality(LiveOfTarget) >= Capacity]_vars
===============================================================================
