-------------------------- MODULE MarketDataHandler --------------------------
(***************************************************************************)
(* One worker's MarketDataHandler: it filters the feed for its stock,      *)
(* remembers the stock's live orders by reference number, and keeps the    *)
(* stock's order book.  Each action is what poll does with one complete    *)
(* message; that poll always finds the message complete in the queue is    *)
(* the business of Pipeline.tla.                                           *)
(*                                                                         *)
(* order_records_ is a map from reference numbers to records here; that    *)
(* the open-addressing table behind it behaves like one is the business of *)
(* OpenAddressMap.tla.                                                     *)
(***************************************************************************)
EXTENDS OrderBook

CONSTANTS
    TargetStock,    \* the template parameter
    LocateCodes     \* what a 16-bit locate code can be

VARIABLES
    cache_stock_locate, \* cache_stock_locate_
    order_records,      \* order_records_: reference number -> record
    crashed             \* a null Handle has been dereferenced

handlerVars == <<cache_stock_locate, order_records, crashed, bookVars>>

(* cache_stock_locate_ has no initialiser: it is whatever the stack holds. *)
HandlerInit ==
    /\ cache_stock_locate \in LocateCodes
    /\ order_records = << >>
    /\ crashed = FALSE
    /\ EmptyBook

-----------------------------------------------------------------------------
(* order_records_                                                          *)

Found(reference) == reference \in DOMAIN order_records

Insert(records, reference, record) ==
    [r \in DOMAIN records \cup {reference} |->
        IF r = reference THEN record ELSE records[r]]

Erase(records, reference) ==
    [r \in DOMAIN records \ {reference} |-> records[r]]

(* The record of an order, as the messages that announce or replace it     *)
(* determine it.                                                           *)
RecordOf(side, m) == [side |-> side, price |-> m.price, shares |-> m.shares]

(* *order_entry of a null Handle: the thread is killed, and with it the    *)
(* process.                                                                *)
DereferenceNull ==
    /\ crashed' = TRUE
    /\ UNCHANGED <<cache_stock_locate, order_records, bookVars>>

-----------------------------------------------------------------------------
(* simulate_message                                                        *)

(* Mutant of AddOrder: the stock is not compared.                          *)
AddOrderOfAnyStock(m) ==
    /\ m.type \in {"A", "F"}
    /\ cache_stock_locate' = m.stock_locate
    /\ order_records' = Insert(order_records, m.reference, RecordOf(m.side, m))
    /\ AddToBook(m.side, m.price, m.shares)
    /\ UNCHANGED crashed

(* The template argument is the message's layout only: 'A' and 'F' are     *)
(* handled alike.                                                          *)
AddOrder(m) ==
    /\ m.type \in {"A", "F"}
    /\ \/ /\ m.stock_locate # TargetStock
          /\ UNCHANGED handlerVars
       \/ /\ m.stock_locate = TargetStock
          /\ cache_stock_locate' = m.stock_locate
          /\ order_records' = Insert(order_records, m.reference, RecordOf(m.side, m))
          /\ AddToBook(m.side, m.price, m.shares)
          /\ UNCHANGED crashed

(* Mutant of Reduced: a record outlives its last share.                    *)
ReducedKeepingRecord(reference, n) ==
    [order_records EXCEPT ![reference].shares = Minus(@, n)]

(* shares -= n, and the record is erased with its last share.              *)
Reduced(reference, n) ==
    LET left == Minus(order_records[reference].shares, n)
    IN  IF left = 0 THEN Erase(order_records, reference)
        ELSE [order_records EXCEPT ![reference].shares = left]

ExecuteOrder(m) ==
    /\ m.type \in {"E", "C"}
    /\ \/ ~Found(m.reference) /\ DereferenceNull
       \/ /\ Found(m.reference)
          /\ order_records' = Reduced(m.reference, m.shares)
          /\ LET record == order_records[m.reference]
             IN  ExecuteInBook(record.side, record.price, m.shares)
          /\ UNCHANGED <<cache_stock_locate, crashed>>

(* Here the record is erased before the book is told, through references   *)
(* into the erased slot: erase leaves the slot's value where it is.        *)
CancelOrder(m) ==
    /\ m.type = "X"
    /\ \/ ~Found(m.reference) /\ DereferenceNull
       \/ /\ Found(m.reference)
          /\ order_records' = Reduced(m.reference, m.shares)
          /\ LET record == order_records[m.reference]
             IN  CancelInBook(record.side, record.price, m.shares)
          /\ UNCHANGED <<cache_stock_locate, crashed>>

DeleteOrderRecord(m) ==
    /\ m.type = "D"
    /\ \/ ~Found(m.reference) /\ DereferenceNull
       \/ /\ Found(m.reference)
          /\ order_records' = Erase(order_records, m.reference)
          /\ LET record == order_records[m.reference]
             IN  CancelInBook(record.side, record.price, record.shares)
          /\ UNCHANGED <<cache_stock_locate, crashed>>

(* Mutant of ReplaceOrderRecord: the record stays under its old reference. *)
ReplaceUnderOldReference(m) ==
    /\ m.type = "U"
    /\ \/ ~Found(m.reference) /\ DereferenceNull
       \/ /\ Found(m.reference)
          /\ LET record == order_records[m.reference]
             IN  /\ order_records' =
                      Insert(order_records, m.reference, RecordOf(record.side, m))
                 /\ ReplaceInBook(record.side, record.price, record.shares,
                                  m.price, m.shares)
          /\ UNCHANGED <<cache_stock_locate, crashed>>

ReplaceOrderRecord(m) ==
    /\ m.type = "U"
    /\ \/ ~Found(m.reference) /\ DereferenceNull
       \/ /\ Found(m.reference)
          /\ LET record == order_records[m.reference]
             IN  /\ order_records' =
                      Insert(Erase(order_records, m.reference),
                             m.new_reference, RecordOf(record.side, m))
                 /\ ReplaceInBook(record.side, record.price, record.shares,
                                  m.price, m.shares)
          /\ UNCHANGED <<cache_stock_locate, crashed>>

SimulateMessage(m) ==
    \/ AddOrder(m)
    \/ ExecuteOrder(m)
    \/ CancelOrder(m)
    \/ DeleteOrderRecord(m)
    \/ ReplaceOrderRecord(m)
    \/ /\ m.type \notin {"A", "F", "E", "C", "X", "D", "U"}
       /\ UNCHANGED handlerVars

-----------------------------------------------------------------------------
(* poll                                                                    *)

(* Mutant of Skips: 'A' is filtered like the rest.                         *)
SkipsAll(m) == m.stock_locate # cache_stock_locate

(* Messages of other stocks are skipped by their locate code, except 'A',  *)
(* whose body names the stock and so tells the code to begin with.         *)
Skips(m) == m.type # "A" /\ m.stock_locate # cache_stock_locate

Poll(m) ==
    /\ ~crashed
    /\ \/ Skips(m) /\ UNCHANGED handlerVars
       \/ ~Skips(m) /\ SimulateMessage(m)
==============================================================================
