--------------------------- MODULE MarketDataProofs ---------------------------
(***************************************************************************)
(* Proofs that a handler follows the exchange, for any stocks, orders,     *)
(* prices and share counts.                                                *)
(***************************************************************************)
EXTENDS MarketData, FiniteSetTheorems, WellFoundedInduction, TLAPS

(* The maps from some of the elements of S to elements of T.               *)
Maps(S, T) == UNION {[D -> T] : D \in SUBSET S}

Level == Maps(Prices, 0 .. SharesMax)

(* TypeOK, with sets of maps for the provers.                              *)
Typed ==
    /\ announced \subseteq References
    /\ missed \subseteq References
    /\ DOMAIN live \subseteq announced
    /\ live \in Maps(References, Order)
    /\ cache_stock_locate \in LocateCodes
    /\ order_records \in Maps(References, Record)
    /\ crashed \in BOOLEAN
    /\ levels \in [Sides -> Level]
    /\ corrupted \in BOOLEAN

LEMMA TypedIsTypeOK == Typed => TypeOK
BY DEF Typed, TypeOK, IsMap, Maps, Level

(* The inductive invariant.  That records need the code is what makes it   *)
(* inductive: no message about a recorded order is ever skipped.           *)
Tracking ==
    /\ Typed
    /\ RecordsAreLive
    /\ OnlyEarlyOrdersMissed
    /\ \A r \in DOMAIN order_records : cache_stock_locate = TargetStock

-----------------------------------------------------------------------------
(* Share counts and levels.                                                *)

(* Taking some of an order's shares off never wraps around.                *)
LEMMA MinusExact ==
    ASSUME NEW a \in 0 .. SharesMax, NEW b \in 0 .. SharesMax, b <= a
    PROVE  Minus(a, b) = a - b /\ a - b \in 0 .. SharesMax
<1>1. SharesMax \in Nat /\ a - b \in Nat /\ a - b < SharesMax + 1
  BY WidthAssumption
<1>2. (a - b) % (SharesMax + 1) = a - b
  BY <1>1
<1> QED BY <1>1, <1>2 DEF Minus

(* Share counts stay within their 64 bits.                                 *)
LEMMA SharesInRange ==
    ASSUME NEW a \in Int, NEW b \in Int
    PROVE  Plus(a, b) \in 0 .. SharesMax /\ Minus(a, b) \in 0 .. SharesMax
BY WidthAssumption DEF Plus, Minus

LEMMA PutTyped ==
    ASSUME NEW level \in Level, NEW price \in Prices, NEW shares \in 0 .. SharesMax
    PROVE  Put(level, price, shares) \in Level
<1>1. PICK D \in SUBSET Prices : level \in [D -> 0 .. SharesMax]
  BY DEF Level, Maps
<1>2. Put(level, price, shares) \in [D \cup {price} -> 0 .. SharesMax]
  BY <1>1 DEF Put
<1> QED BY <1>2 DEF Level, Maps

LEMMA DropTyped ==
    ASSUME NEW level \in Level, NEW price
    PROVE  Drop(level, price) \in Level
<1>1. PICK D \in SUBSET Prices : level \in [D -> 0 .. SharesMax]
  BY DEF Level, Maps
<1>2. Drop(level, price) \in [D \ {price} -> 0 .. SharesMax]
  BY <1>1 DEF Drop
<1> QED BY <1>2 DEF Level, Maps

LEMMA WithSharesTyped ==
    ASSUME NEW level \in Level, NEW price \in Prices, NEW shares \in 0 .. SharesMax
    PROVE  WithShares(level, price, shares) \in Level
<1>1. SharesAt(level, price) \in Int /\ shares \in Int
  BY WidthAssumption DEF Level, Maps, SharesAt
<1>2. Plus(SharesAt(level, price), shares) \in 0 .. SharesMax
  BY ONLY <1>1, SharesInRange
<1> QED BY <1>2, PutTyped DEF WithShares

LEMMA WithoutSharesTyped ==
    ASSUME NEW level \in Level, NEW price \in DOMAIN level, NEW shares \in 0 .. SharesMax
    PROVE  WithoutShares(level, price, shares) \in Level
<1>1. price \in Prices /\ level[price] \in Int /\ shares \in Int
  BY DEF Level, Maps
<1>2. Minus(level[price], shares) \in 0 .. SharesMax
  BY ONLY <1>1, SharesInRange
<1> QED BY <1>1, <1>2, PutTyped, DropTyped DEF WithoutShares

-----------------------------------------------------------------------------
(* The book keeps its type whatever it is asked to do.                     *)

BookTyped == /\ levels \in [Sides -> Level]
             /\ corrupted \in BOOLEAN

LEMMA AddToBookTyped ==
    ASSUME BookTyped, NEW side \in Sides, NEW price \in Prices,
           NEW shares \in 0 .. SharesMax, AddToBook(side, price, shares)
    PROVE  BookTyped'
BY WithSharesTyped DEF BookTyped, AddToBook

LEMMA RemoveSharesTyped ==
    ASSUME BookTyped, NEW side \in Sides, NEW price \in Prices,
           NEW shares \in 0 .. SharesMax, RemoveShares(side, price, shares)
    PROVE  BookTyped'
BY WithoutSharesTyped DEF BookTyped, RemoveShares

LEMMA ReplaceInBookTyped ==
    ASSUME BookTyped, NEW side \in Sides, NEW p \in Prices, NEW q \in Prices,
           NEW m \in 0 .. SharesMax, NEW n \in 0 .. SharesMax,
           ReplaceInBook(side, p, m, q, n)
    PROVE  BookTyped'
<1> DEFINE rest == IF p \in DOMAIN levels[side]
                   THEN WithoutShares(levels[side], p, m) ELSE levels[side]
<1>1. rest \in Level
  BY WithoutSharesTyped DEF BookTyped
<1>2. WithShares(rest, q, n) \in Level
  BY <1>1, WithSharesTyped
<1> QED BY <1>2 DEF BookTyped, ReplaceInBook

-----------------------------------------------------------------------------
(* Maps.                                                                   *)

LEMMA MapIsFunction ==
    ASSUME NEW S, NEW T, NEW f \in Maps(S, T)
    PROVE  /\ f = [x \in DOMAIN f |-> f[x]]
           /\ DOMAIN f \subseteq S
           /\ \A x \in DOMAIN f : f[x] \in T
BY DEF Maps

LEMMA FunctionIsMap ==
    ASSUME NEW S, NEW T, NEW D \in SUBSET S, NEW f \in [D -> T]
    PROVE  f \in Maps(S, T)
BY DEF Maps

-----------------------------------------------------------------------------
(* One message.                                                            *)

LEMMA AnnouncePreserves ==
    ASSUME Tracking, NEW m \in Messages, AnnounceOrder(m), Poll(m),
           missed' = missed \cup MissedOf(m)
    PROVE  Tracking'
<1> USE DEF Tracking
<1> DEFINE r == m.reference
           order == [stock |-> m.stock_locate, side |-> m.side,
                     price |-> m.price, shares |-> m.shares]
<1>1. /\ m.type \in {"A", "F"} /\ m.stock_locate \in Stocks /\ r \in References
      /\ m.side \in Sides /\ m.shares \in Sizes /\ m.price \in Prices
  BY DEF AnnounceOrder, AddMessages, Sides
<1>2. m.shares \in 1 .. SharesMax /\ m.shares \in 0 .. SharesMax
  <2>1. m.shares \in 1 .. SharesMax
    BY <1>1, WidthAssumption
  <2> HIDE DEF Tracking
  <2> QED BY <2>1, WidthAssumption
<1>3. live \in Maps(References, Order) /\ DOMAIN live \subseteq announced
      /\ r \notin announced /\ announced' = announced \cup {r}
      /\ order_records \in Maps(References, Record)
  BY DEF Typed, AnnounceOrder
<1>4. live' = [q \in DOMAIN live \cup {r} |-> IF q = r THEN order ELSE live[q]]
  BY DEF AnnounceOrder
<1>5. order \in Order
  BY <1>1, <1>2 DEF Order
<1>6. live' \in Maps(References, Order)
  <2>1. live' \in [DOMAIN live \cup {r} -> Order]
    BY <1>3, <1>4, <1>5, MapIsFunction
  <2>2. DOMAIN live \cup {r} \in SUBSET References
    BY <1>1, <1>3, MapIsFunction
  <2> QED BY <2>1, <2>2, FunctionIsMap
<1>7. missed' \subseteq References /\ announced' \subseteq References
      /\ DOMAIN live' \subseteq announced' /\ missed \subseteq missed'
  BY <1>1, <1>3, <1>4 DEF Typed, MissedOf
<1>8. r \notin DOMAIN order_records
  BY <1>3 DEF RecordsAreLive
<1>9. \A q \in DOMAIN live : live'[q] = live[q] /\ q # r
  BY <1>3, <1>4
<1>10. live'[r] = order /\ DOMAIN live' = DOMAIN live \cup {r}
  BY <1>4
<1>11. CASE UNCHANGED handlerVars /\ (m.stock_locate # TargetStock \/ r \in missed')
  <2>1. UNCHANGED <<order_records, cache_stock_locate, crashed, levels, corrupted>>
    BY <1>11 DEF handlerVars, bookVars
  <2>2. Typed'
    BY <1>6, <1>7, <2>1 DEF Typed
  <2>3. RecordsAreLive'
    BY <1>9, <1>10, <2>1 DEF RecordsAreLive
  <2>4. OnlyEarlyOrdersMissed'
    BY <1>7, <1>9, <1>10, <1>11, <2>1 DEF OnlyEarlyOrdersMissed
  <2> QED BY <2>1, <2>2, <2>3, <2>4
<1>12. CASE /\ m.stock_locate = TargetStock
            /\ cache_stock_locate' = TargetStock
            /\ order_records' = Insert(order_records, r, RecordOf(m.side, m))
            /\ AddToBook(m.side, m.price, m.shares)
            /\ UNCHANGED crashed
  <2>1. RecordOf(m.side, m) \in Record
    BY <1>1, <1>2 DEF RecordOf, Record
  <2>2. order_records' \in Maps(References, Record)
    <3>1. order_records' \in [DOMAIN order_records \cup {r} -> Record]
      BY <1>3, <1>12, <2>1, MapIsFunction DEF Insert
    <3>2. DOMAIN order_records \cup {r} \in SUBSET References
      BY <1>1, <1>3, MapIsFunction
    <3> QED BY <3>1, <3>2, FunctionIsMap
  <2>3. Typed'
    <3>1. BookTyped'
      BY <1>1, <1>2, <1>12, AddToBookTyped DEF BookTyped, Typed
    <3> QED BY <1>6, <1>7, <1>12, <2>2, <3>1, TargetAssumption DEF Typed, BookTyped
  <2>4. RecordsAreLive'
    BY <1>9, <1>10, <1>12 DEF RecordsAreLive, Insert, RecordOf
  <2>5. OnlyEarlyOrdersMissed'
    BY <1>7, <1>9, <1>10, <1>12 DEF OnlyEarlyOrdersMissed, Insert
  <2> QED BY <1>12, <2>3, <2>4, <2>5
<1>13. CASE Skips(m) /\ UNCHANGED handlerVars
  <2>1. m.type = "F" /\ m.stock_locate # cache_stock_locate
    BY <1>1, <1>13 DEF Skips
  <2>2. m.stock_locate = TargetStock => r \in missed'
    BY <2>1 DEF MissedOf
  <2> QED BY <1>11, <1>13, <2>2
<1>14. CASE SimulateMessage(m)
  <2>1. AddOrder(m)
    BY <1>1, <1>14 DEF SimulateMessage, ExecuteOrder, CancelOrder,
       DeleteOrderRecord, ReplaceOrderRecord
  <2> QED BY <1>11, <1>12, <2>1 DEF AddOrder
<1> QED BY <1>13, <1>14 DEF Poll

(* A message about an order that is live either is skipped, and the order  *)
(* is not recorded; or finds its record; or kills the process.             *)
LEMMA SkippedMeansUnrecorded ==
    ASSUME Tracking, NEW m, AboutLiveOrder(m), Skips(m)
    PROVE  m.reference \notin DOMAIN order_records
BY DEF Tracking, RecordsAreLive, AboutLiveOrder, Skips

(* Whatever the handler does not touch still follows the exchange when an  *)
(* order it has no record of changes or goes.                              *)
LEMMA UnrecordedChangePreserves ==
    ASSUME Tracking, NEW r, r \notin DOMAIN order_records,
           live' \in Maps(References, Order),
           DOMAIN live' \subseteq announced',
           announced' \subseteq References,
           missed' \subseteq References,
           missed \subseteq missed',
           \A q \in DOMAIN live \ {r} : q \in DOMAIN live' /\ live'[q] = live[q],
           UNCHANGED <<cache_stock_locate, order_records, bookVars>>,
           crashed' \in BOOLEAN,
           ~crashed' => ~crashed /\ \A q \in DOMAIN live' \ DOMAIN live :
                                       live'[q].stock = TargetStock => q \in missed',
           ~crashed' /\ r \in DOMAIN live' /\ r \in DOMAIN live
               => live'[r].stock = live[r].stock
    PROVE  Tracking'
<1> USE DEF Tracking, bookVars
<1>1. Typed'
  BY DEF Typed
<1>2. RecordsAreLive'
  BY DEF RecordsAreLive
<1>3. OnlyEarlyOrdersMissed'
  BY DEF OnlyEarlyOrdersMissed
<1> QED BY <1>1, <1>2, <1>3

(* What the exchange does to its live orders in a reduction.               *)
LEMMA ReduceOrderLive ==
    ASSUME Tracking, NEW m \in Messages, ReduceOrder(m)
    PROVE  /\ live' \in Maps(References, Order)
           /\ DOMAIN live' \subseteq DOMAIN live
           /\ \A q \in DOMAIN live \ {m.reference} :
                 q \in DOMAIN live' /\ live'[q] = live[q]
           /\ m.reference \in DOMAIN live'
                 => /\ m.shares < live[m.reference].shares
                    /\ live'[m.reference] = [live[m.reference] EXCEPT !.shares = @ - m.shares]
           /\ m.reference \notin DOMAIN live' => m.shares = live[m.reference].shares
           /\ m.shares \in 1 .. SharesMax
           /\ m.shares <= live[m.reference].shares
<1> DEFINE r == m.reference
<1>1. m.shares \in Sizes /\ r \in DOMAIN live
  BY DEF ReduceOrder, ReduceMessages, AboutLiveOrder
<1>2. m.shares \in 1 .. SharesMax
  BY <1>1, WidthAssumption
<1>3. live \in Maps(References, Order)
  BY DEF Tracking, Typed
<1>4. PICK D \in SUBSET References : live \in [D -> Order]
  BY <1>3 DEF Maps
<1>5. live[r] \in Order /\ live[r].shares \in 1 .. SharesMax
  BY <1>1, <1>4 DEF Order
<1>6. CASE m.shares < live[r].shares /\ live' = [live EXCEPT ![r].shares = @ - m.shares]
  <2>1. live[r].shares - m.shares \in 1 .. SharesMax
    BY <1>2, <1>5, <1>6, WidthAssumption
  <2>2. [live[r] EXCEPT !.shares = @ - m.shares] \in Order
    BY <1>5, <2>1 DEF Order
  <2>3. live' \in [D -> Order]
    BY <1>4, <1>6, <2>2
  <2>4. live' \in Maps(References, Order)
    BY <2>3, FunctionIsMap
  <2>5. m.shares <= live[r].shares /\ r \in DOMAIN live'
    BY <1>1, <1>2, <1>5, <1>6, WidthAssumption
  <2>6. DOMAIN live' = DOMAIN live
    BY <1>6
  <2>7. live'[r] = [live[r] EXCEPT !.shares = @ - m.shares]
    BY <1>1, <1>6
  <2>8. \A q \in DOMAIN live \ {r} : q \in DOMAIN live' /\ live'[q] = live[q]
    BY <1>6
  <2> QED BY <1>2, <1>6, <2>4, <2>5, <2>6, <2>7, <2>8
<1>7. CASE m.shares = live[r].shares /\ live' = Without(r)
  <2>1. live' \in [D \ {r} -> Order]
    BY <1>4, <1>7 DEF Without
  <2>2. live' \in Maps(References, Order)
    BY <2>1, FunctionIsMap
  <2>3. m.shares <= live[r].shares
    BY <1>5, <1>7, WidthAssumption
  <2>4. DOMAIN live' = DOMAIN live \ {r}
    BY <1>7 DEF Without
  <2>5. \A q \in DOMAIN live \ {r} : q \in DOMAIN live' /\ live'[q] = live[q]
    BY <1>7 DEF Without
  <2> QED BY <1>2, <1>7, <2>2, <2>3, <2>4, <2>5
<1> QED BY <1>6, <1>7 DEF ReduceOrder

(* Messages that reduce an order.                                          *)
LEMMA ReducePreserves ==
    ASSUME Tracking, NEW m \in Messages, ReduceOrder(m), Poll(m),
           missed' = missed \cup MissedOf(m)
    PROVE  Tracking'
<1> DEFINE r == m.reference
<1>1. /\ m.type \in {"E", "C", "X"} /\ AboutLiveOrder(m) /\ announced' = announced
      /\ r \in DOMAIN live
  BY DEF ReduceOrder, ReduceMessages, AboutLiveOrder
<1>2. missed' = missed
  BY <1>1 DEF MissedOf
<1>3. /\ live' \in Maps(References, Order)
      /\ DOMAIN live' \subseteq announced' /\ announced' \subseteq References
      /\ missed' \subseteq References
      /\ DOMAIN live' \subseteq DOMAIN live
      /\ \A q \in DOMAIN live \ {r} : q \in DOMAIN live' /\ live'[q] = live[q]
  BY <1>1, <1>2, ReduceOrderLive DEF Tracking, Typed
<1>4. r \in DOMAIN live' => live'[r].stock = live[r].stock
  <2>1. live[r] \in Order
    BY <1>1, MapIsFunction DEF Tracking, Typed
  <2> QED BY <2>1, ReduceOrderLive DEF Order
<1>5. CASE /\ r \notin DOMAIN order_records
           /\ UNCHANGED <<cache_stock_locate, order_records, bookVars>>
           /\ crashed' = crashed \/ crashed' = TRUE
  <2>1. crashed' \in BOOLEAN
    BY <1>5 DEF Tracking, Typed
  <2>2. ~crashed' => ~crashed
    BY <1>5
  <2> QED BY <1>2, <1>3, <1>4, <1>5, <2>1, <2>2, UnrecordedChangePreserves
<1>6. CASE /\ r \in DOMAIN order_records
           /\ order_records' = Reduced(r, m.shares)
           /\ RemoveShares(order_records[r].side, order_records[r].price, m.shares)
           /\ UNCHANGED <<cache_stock_locate, crashed>>
  <2> DEFINE left == live[r].shares - m.shares
  <2>1. /\ order_records[r] = [side |-> live[r].side, price |-> live[r].price,
                               shares |-> live[r].shares]
        /\ live[r].stock = TargetStock
    BY <1>6 DEF Tracking, RecordsAreLive
  <2>2. live[r] \in Order
    BY <1>1, MapIsFunction DEF Tracking, Typed
  <2>0. /\ m.shares \in 1 .. SharesMax
        /\ m.shares <= live[r].shares
        /\ r \in DOMAIN live' => m.shares < live[r].shares
        /\ r \notin DOMAIN live' => m.shares = live[r].shares
    BY ReduceOrderLive
  <2>00. live[r].shares \in 1 .. SharesMax /\ SharesMax \in Nat
    BY <2>2, WidthAssumption DEF Order
  <2>3. /\ m.shares \in 0 .. SharesMax /\ live[r].shares \in 0 .. SharesMax
        /\ m.shares <= live[r].shares
    BY ONLY <2>0, <2>00
  <2>4. Minus(order_records[r].shares, m.shares) = left
    BY <2>1, <2>3, MinusExact
  <2>5. order_records \in Maps(References, Record) /\ order_records[r] \in Record
    BY <1>6, MapIsFunction DEF Tracking, Typed
  <2>6. PICK D \in SUBSET References : order_records \in [D -> Record]
    BY <2>5 DEF Maps
  <2>7. BookTyped'
    BY <1>6, <2>3, <2>5, RemoveSharesTyped DEF Tracking, Typed, BookTyped, Record
  <2>8. CASE r \in DOMAIN live'
    <3>1. left # 0 /\ left \in 1 .. SharesMax
      BY ONLY <2>0, <2>00, <2>8
    <3>2. order_records' = [order_records EXCEPT ![r].shares = left]
      BY <1>6, <2>4, <3>1 DEF Reduced
    <3>3. order_records'[r] = [order_records[r] EXCEPT !.shares = left]
      BY <1>6, <3>2
    <3>4. order_records'[r] \in Record
      BY <2>5, <3>1, <3>3 DEF Record
    <3>5. order_records' \in [D -> Record]
      BY <2>6, <3>2, <3>3, <3>4
    <3>6. order_records' \in Maps(References, Record)
      BY <3>5, FunctionIsMap
    <3>7. Typed'
      BY <1>3, <1>6, <2>7, <3>6 DEF Tracking, Typed, BookTyped
    <3>8. live'[r] = [live[r] EXCEPT !.shares = left]
      BY <2>8, ReduceOrderLive
    <3>9. RecordsAreLive'
      <4>1. order_records'[r] = [side |-> live'[r].side, price |-> live'[r].price,
                                shares |-> live'[r].shares]
            /\ live'[r].stock = TargetStock
        BY <2>1, <2>2, <3>3, <3>8 DEF Order
      <4>2. \A q \in DOMAIN order_records \ {r} : order_records'[q] = order_records[q]
        BY <3>2
      <4>3. DOMAIN order_records' = DOMAIN order_records
        BY <3>2
      <4> QED BY <1>3, <2>8, <4>1, <4>2, <4>3 DEF Tracking, RecordsAreLive
    <3>10. DOMAIN order_records' = DOMAIN order_records
      BY <3>2
    <3>11. OnlyEarlyOrdersMissed'
      BY <1>2, <1>3, <1>6, <3>10 DEF Tracking, OnlyEarlyOrdersMissed
    <3> QED BY <1>6, <3>7, <3>9, <3>10, <3>11 DEF Tracking
  <2>9. CASE r \notin DOMAIN live'
    <3>1. left = 0
      BY ONLY <2>0, <2>00, <2>9
    <3>2. order_records' = Erase(order_records, r)
      BY <1>6, <2>4, <3>1 DEF Reduced
    <3>3. order_records' \in [D \ {r} -> Record]
      BY <2>6, <3>2 DEF Erase
    <3>4. order_records' \in Maps(References, Record)
      BY <3>3, FunctionIsMap
    <3>5. Typed'
      BY <1>3, <1>6, <2>7, <3>4 DEF Tracking, Typed, BookTyped
    <3>6. DOMAIN order_records' = DOMAIN order_records \ {r}
          /\ \A q \in DOMAIN order_records' : order_records'[q] = order_records[q]
      BY <3>2 DEF Erase
    <3>7. RecordsAreLive'
      BY <1>3, <3>6 DEF Tracking, RecordsAreLive
    <3>8. OnlyEarlyOrdersMissed'
      BY <1>2, <1>3, <1>6, <2>9, <3>6 DEF Tracking, OnlyEarlyOrdersMissed
    <3> QED BY <1>6, <3>5, <3>6, <3>7, <3>8 DEF Tracking
  <2> QED BY <2>8, <2>9
<1>7. CASE Skips(m) /\ UNCHANGED handlerVars
  BY <1>1, <1>5, <1>7, SkippedMeansUnrecorded DEF handlerVars
<1>8. CASE SimulateMessage(m)
  <2>1. ExecuteOrder(m) \/ CancelOrder(m)
    BY <1>1, <1>8 DEF SimulateMessage, AddOrder, DeleteOrderRecord, ReplaceOrderRecord
  <2> QED BY <1>5, <1>6, <2>1 DEF ExecuteOrder, CancelOrder, Found, DereferenceNull,
          ExecuteInBook, CancelInBook
<1> QED BY <1>7, <1>8 DEF Poll

LEMMA DeletePreserves ==
    ASSUME Tracking, NEW m \in Messages, DeleteOrder(m), Poll(m),
           missed' = missed \cup MissedOf(m)
    PROVE  Tracking'
<1> DEFINE r == m.reference
<1>1. /\ m.type = "D" /\ AboutLiveOrder(m) /\ announced' = announced
      /\ r \in DOMAIN live /\ live' = Without(r)
  BY DEF DeleteOrder, DeleteMessages, AboutLiveOrder
<1>2. missed' = missed
  BY <1>1 DEF MissedOf
<1>3. PICK E \in SUBSET References : live \in [E -> Order]
  BY DEF Tracking, Typed, Maps
<1>4. /\ DOMAIN live' = DOMAIN live \ {r}
      /\ \A q \in DOMAIN live \ {r} : q \in DOMAIN live' /\ live'[q] = live[q]
  BY <1>1 DEF Without
<1>5. live' \in Maps(References, Order)
  <2>1. live' \in [E \ {r} -> Order]
    BY <1>1, <1>3 DEF Without
  <2> QED BY <2>1, FunctionIsMap
<1>6. DOMAIN live' \subseteq announced' /\ announced' \subseteq References
      /\ missed' \subseteq References
  BY <1>1, <1>2, <1>4 DEF Tracking, Typed
<1>7. CASE /\ r \notin DOMAIN order_records
           /\ UNCHANGED <<cache_stock_locate, order_records, bookVars>>
           /\ crashed' = crashed \/ crashed' = TRUE
  <2>1. crashed' \in BOOLEAN
    BY <1>7 DEF Tracking, Typed
  <2>2. ~crashed' => ~crashed
    BY <1>7
  <2> QED BY <1>2, <1>4, <1>5, <1>6, <1>7, <2>1, <2>2, UnrecordedChangePreserves
<1>8. CASE /\ r \in DOMAIN order_records
           /\ order_records' = Erase(order_records, r)
           /\ RemoveShares(order_records[r].side, order_records[r].price,
                           order_records[r].shares)
           /\ UNCHANGED <<cache_stock_locate, crashed>>
  <2>1. order_records \in Maps(References, Record) /\ order_records[r] \in Record
    BY <1>8, MapIsFunction DEF Tracking, Typed
  <2>2. PICK D \in SUBSET References : order_records \in [D -> Record]
    BY <2>1 DEF Maps
  <2>3. order_records' \in [D \ {r} -> Record]
    BY <1>8, <2>2 DEF Erase
  <2>4. order_records' \in Maps(References, Record)
    BY <2>3, FunctionIsMap
  <2>5. order_records[r].shares \in 0 .. SharesMax
    <3>1. order_records[r].shares \in 1 .. SharesMax
      BY <2>1 DEF Record
    <3> QED BY <3>1
  <2>6. BookTyped'
    BY <1>8, <2>1, <2>5, RemoveSharesTyped DEF Tracking, Typed, BookTyped, Record
  <2>7. Typed'
    BY <1>5, <1>6, <1>8, <2>4, <2>6 DEF Tracking, Typed, BookTyped
  <2>8. DOMAIN order_records' = DOMAIN order_records \ {r}
        /\ \A q \in DOMAIN order_records' : order_records'[q] = order_records[q]
    BY <1>8 DEF Erase
  <2>9. RecordsAreLive'
    BY <1>4, <2>8 DEF Tracking, RecordsAreLive
  <2>10. OnlyEarlyOrdersMissed'
    BY <1>2, <1>4, <1>8, <2>8 DEF Tracking, OnlyEarlyOrdersMissed
  <2> QED BY <1>8, <2>7, <2>8, <2>9, <2>10 DEF Tracking
<1>9. CASE Skips(m) /\ UNCHANGED handlerVars
  BY <1>1, <1>7, <1>9, SkippedMeansUnrecorded DEF handlerVars
<1>10. CASE SimulateMessage(m)
  <2>1. DeleteOrderRecord(m)
    BY <1>1, <1>10 DEF SimulateMessage, AddOrder, ExecuteOrder, CancelOrder,
       ReplaceOrderRecord
  <2> QED BY <1>7, <1>8, <2>1 DEF DeleteOrderRecord, Found, DereferenceNull, CancelInBook
<1> QED BY <1>9, <1>10 DEF Poll

(* The new order inherits stock and side: known if the old one was.        *)
LEMMA ReplacePreserves ==
    ASSUME Tracking, NEW m \in Messages, ReplaceOrder(m), Poll(m),
           missed' = missed \cup MissedOf(m)
    PROVE  Tracking'
<1> DEFINE r == m.reference
           n == m.new_reference
           order == [stock |-> live[r].stock, side |-> live[r].side,
                     price |-> m.price, shares |-> m.shares]
<1>1. /\ m.type = "U" /\ AboutLiveOrder(m) /\ announced' = announced \cup {n}
      /\ r \in DOMAIN live /\ n \notin announced /\ n \in References
      /\ m.shares \in Sizes /\ m.price \in Prices
      /\ m.stock_locate = live[r].stock
  BY DEF ReplaceOrder, ReplaceMessages, AboutLiveOrder
<1>2. live' = [q \in (DOMAIN live \ {r}) \cup {n} |-> IF q = n THEN order ELSE live[q]]
  BY DEF ReplaceOrder
<1>3. m.shares \in 1 .. SharesMax /\ SharesMax \in Nat
  BY <1>1, WidthAssumption
<1>03. m.shares \in 0 .. SharesMax
  BY ONLY <1>3
<1>4. PICK E \in SUBSET References : live \in [E -> Order]
  BY DEF Tracking, Typed, Maps
<1>5. n \notin DOMAIN live /\ n # r /\ n \notin DOMAIN order_records
  BY <1>1 DEF Tracking, Typed, RecordsAreLive
<1>6. order \in Order
  <2>1. live[r] \in Order
    BY <1>1, <1>4
  <2> QED BY <1>1, <1>3, <2>1 DEF Order
<1>7. /\ DOMAIN live' = (DOMAIN live \ {r}) \cup {n}
      /\ live'[n] = order
      /\ \A q \in DOMAIN live \ {r} : q \in DOMAIN live' /\ live'[q] = live[q]
  BY <1>2, <1>5
<1>8. live' \in Maps(References, Order)
  <2>1. live' \in [(E \ {r}) \cup {n} -> Order]
    BY <1>2, <1>4, <1>6
  <2>2. (E \ {r}) \cup {n} \in SUBSET References
    BY <1>1
  <2> QED BY <2>1, <2>2, FunctionIsMap
<1>9. /\ DOMAIN live' \subseteq announced' /\ announced' \subseteq References
      /\ missed' \subseteq References /\ missed \subseteq missed'
  BY <1>1, <1>7 DEF Tracking, Typed, MissedOf
<1>10. CASE /\ r \notin DOMAIN order_records
            /\ UNCHANGED <<cache_stock_locate, order_records, bookVars>>
            /\ crashed' = TRUE \/ (crashed' = crashed /\ m.stock_locate # cache_stock_locate)
  <2>1. crashed' \in BOOLEAN
    BY <1>10 DEF Tracking, Typed
  <2>2. ~crashed' => ~crashed /\ \A q \in DOMAIN live' \ DOMAIN live :
                                    live'[q].stock = TargetStock => q \in missed'
    BY <1>1, <1>6, <1>7, <1>10 DEF MissedOf
  <2>3. r \notin DOMAIN live'
    BY <1>5, <1>7
  <2> QED BY <1>7, <1>8, <1>9, <1>10, <2>1, <2>2, <2>3, UnrecordedChangePreserves
<1>11. CASE /\ r \in DOMAIN order_records
            /\ order_records' = Insert(Erase(order_records, r), n,
                                       RecordOf(order_records[r].side, m))
            /\ ReplaceInBook(order_records[r].side, order_records[r].price,
                             order_records[r].shares, m.price, m.shares)
            /\ UNCHANGED <<cache_stock_locate, crashed>>
  <2> DEFINE record == RecordOf(order_records[r].side, m)
  <2>1. order_records \in Maps(References, Record) /\ order_records[r] \in Record
    BY <1>11, MapIsFunction DEF Tracking, Typed
  <2>2. PICK D \in SUBSET References : order_records \in [D -> Record]
    BY <2>1 DEF Maps
  <2>3. record \in Record
    BY <1>1, <1>3, <2>1 DEF Record, RecordOf
  <2>4. order_records' = [q \in (DOMAIN order_records \ {r}) \cup {n} |->
                            IF q = n THEN record ELSE order_records[q]]
    BY <1>11 DEF Insert, Erase
  <2>5. order_records' \in Maps(References, Record)
    <3>1. order_records' \in [(D \ {r}) \cup {n} -> Record]
      BY <2>2, <2>3, <2>4
    <3>2. (D \ {r}) \cup {n} \in SUBSET References
      BY <1>1
    <3> QED BY <3>1, <3>2, FunctionIsMap
  <2>6. order_records[r].shares \in 0 .. SharesMax
    <3>1. order_records[r].shares \in 1 .. SharesMax
      BY <2>1 DEF Record
    <3> QED BY <3>1
  <2>7. BookTyped'
    BY <1>1, <1>03, <1>11, <2>1, <2>6, ReplaceInBookTyped
       DEF Tracking, Typed, BookTyped, Record
  <2>8. Typed'
    BY <1>8, <1>9, <1>11, <2>5, <2>7 DEF Tracking, Typed, BookTyped
  <2>9. RecordsAreLive'
    <3>1. live[r].stock = TargetStock /\ order_records[r].side = live[r].side
      BY <1>11 DEF Tracking, RecordsAreLive
    <3>2. order_records'[n] = record /\ live'[n].stock = TargetStock
          /\ record = [side |-> live'[n].side, price |-> live'[n].price,
                       shares |-> live'[n].shares]
      BY <1>6, <1>7, <2>4, <3>1 DEF RecordOf
    <3> QED BY <1>7, <2>4, <3>2 DEF Tracking, RecordsAreLive
  <2>10. OnlyEarlyOrdersMissed'
    BY <1>7, <1>9, <1>11, <2>4 DEF Tracking, OnlyEarlyOrdersMissed
  <2>11. cache_stock_locate' = TargetStock
    BY <1>11 DEF Tracking
  <2> QED BY <2>8, <2>9, <2>10, <2>11 DEF Tracking
<1>12. CASE Skips(m) /\ UNCHANGED handlerVars
  <2>1. r \notin DOMAIN order_records
    BY <1>1, <1>12, SkippedMeansUnrecorded
  <2>2. m.stock_locate # cache_stock_locate
    BY <1>12 DEF Skips
  <2> QED BY <1>10, <1>12, <2>1, <2>2 DEF handlerVars
<1>13. CASE SimulateMessage(m)
  <2>1. ReplaceOrderRecord(m)
    BY <1>1, <1>13 DEF SimulateMessage, AddOrder, ExecuteOrder, CancelOrder,
       DeleteOrderRecord
  <2> QED BY <1>10, <1>11, <2>1 DEF ReplaceOrderRecord, Found, DereferenceNull
<1> QED BY <1>12, <1>13 DEF Poll

LEMMA OtherPreserves ==
    ASSUME Tracking, NEW m \in Messages, SendOther(m), Poll(m),
           missed' = missed \cup MissedOf(m)
    PROVE  Tracking'
<1>1. m.type = "S"
  BY DEF SendOther, OtherMessages
<1>2. UNCHANGED <<exchangeVars, handlerVars, missed>>
  <2>1. UNCHANGED handlerVars
    BY <1>1 DEF Poll, SimulateMessage, AddOrder, ExecuteOrder, CancelOrder,
       DeleteOrderRecord, ReplaceOrderRecord
  <2> QED BY <1>1, <2>1 DEF SendOther, MissedOf
<1> QED BY <1>2 DEF exchangeVars, handlerVars, bookVars, Tracking, Typed,
        RecordsAreLive, OnlyEarlyOrdersMissed

-----------------------------------------------------------------------------

LEMMA InitTracks == Init => Tracking
<1> SUFFICES ASSUME Init
             PROVE  Tracking
  OBVIOUS
<1> USE DEF Init, NothingTraded, HandlerInit, EmptyBook
<1>1. \A S, T : << >> \in Maps(S, T)
  <2> SUFFICES ASSUME NEW S, NEW T
               PROVE  << >> \in Maps(S, T)
    OBVIOUS
  <2>1. << >> \in [{} -> T] /\ {} \in SUBSET S
    OBVIOUS
  <2> QED BY <2>1, FunctionIsMap
<1>2. live \in Maps(References, Order) /\ order_records \in Maps(References, Record)
  BY <1>1
<1>3. levels \in [Sides -> Level]
  BY <1>1 DEF Level
<1>4. DOMAIN live = {} /\ DOMAIN order_records = {}
  OBVIOUS
<1>5. Typed
  BY <1>2, <1>3, <1>4 DEF Typed
<1> QED BY <1>4, <1>5 DEF Tracking, RecordsAreLive, OnlyEarlyOrdersMissed

LEMMA NextTracks == Tracking /\ [Next]_vars => Tracking'
<1> SUFFICES ASSUME Tracking, [Next]_vars
             PROVE  Tracking'
  OBVIOUS
<1>1. ASSUME NEW m \in Messages, Handle(m)
      PROVE  Tracking'
  BY <1>1, AnnouncePreserves, ReducePreserves, DeletePreserves, ReplacePreserves,
     OtherPreserves DEF Handle, Send
<1>2. CASE UNCHANGED vars
  BY <1>2 DEF vars, exchangeVars, handlerVars, bookVars, Tracking, Typed,
     RecordsAreLive, OnlyEarlyOrdersMissed
<1> QED BY <1>1, <1>2 DEF Next

THEOREM HandlerTracks == Spec => []Tracking
BY InitTracks, NextTracks, PTL DEF Spec

(* The exchange, the handler and the book keep their types.                *)
THEOREM TypeCorrect == Spec => []TypeOK
<1>1. Tracking => TypeOK
  BY TypedIsTypeOK DEF Tracking
<1> QED BY <1>1, HandlerTracks, PTL

(* What order_records_ remembers is always a live order of the handler's   *)
(* stock with exactly the exchange's side, price and shares.               *)
THEOREM RecordsCorrect == Spec => []RecordsAreLive
BY HandlerTracks, PTL DEF Tracking

(* The filter of poll loses no order of the stock once its code is known.  *)
THEOREM RecordsComplete == Spec => []OnlyEarlyOrdersMissed
BY HandlerTracks, PTL DEF Tracking

(* The unchecked handles of the order handlers are null only for orders    *)
(* the filter lost, or while the uninitialised cache holds another stock's *)
(* code.                                                                   *)
THEOREM NullHandlesExplained == Spec => CrashesExplained
<1> DEFINE Explained ==
      crashed' =>
         \E r \in DOMAIN live :
            /\ \/ r \in missed
               \/ cache_stock_locate # TargetStock /\ live[r].stock = cache_stock_locate
            /\ r \in DOMAIN live' => live'[r] # live[r]
<1>1. Tracking /\ [Next]_vars => [Explained]_vars
  <2> SUFFICES ASSUME Tracking, NEW m \in Messages, Handle(m), crashed'
               PROVE  Explained
    BY DEF Next
  <2> DEFINE r == m.reference
  <2>1. ~crashed /\ ~Skips(m) /\ SimulateMessage(m)
    BY DEF Handle, Poll, handlerVars
  <2>2. /\ m.type \in {"E", "C", "X", "D", "U"} /\ r \notin DOMAIN order_records
        /\ m.stock_locate = cache_stock_locate
    BY <2>1 DEF SimulateMessage, AddOrder, ExecuteOrder, CancelOrder,
       DeleteOrderRecord, ReplaceOrderRecord, Found, handlerVars, Skips
  <2>3. ReduceOrder(m) \/ DeleteOrder(m) \/ ReplaceOrder(m)
    BY <2>2 DEF Handle, Send, AnnounceOrder, AddMessages, SendOther, OtherMessages
  <2>4. r \in DOMAIN live /\ live[r].stock = cache_stock_locate
    BY <2>2, <2>3 DEF ReduceOrder, DeleteOrder, ReplaceOrder, AboutLiveOrder
  <2>5. r \in missed \/ cache_stock_locate # TargetStock
    BY <2>1, <2>2, <2>4 DEF Tracking, OnlyEarlyOrdersMissed
  <2>6. r \in DOMAIN live' => live'[r] # live[r]
    <3>1. CASE ReduceOrder(m)
      <4>1. SUFFICES ASSUME r \in DOMAIN live'
                     PROVE  live'[r].shares # live[r].shares
        OBVIOUS
      <4>2. live[r] \in Order
        BY <2>4, MapIsFunction DEF Tracking, Typed
      <4>3. live[r].shares \in 1 .. SharesMax /\ m.shares \in 1 .. SharesMax
            /\ live'[r].shares = live[r].shares - m.shares
        BY <3>1, <4>1, <4>2, ReduceOrderLive DEF Order
      <4> QED BY ONLY <4>3
    <3>2. CASE DeleteOrder(m)
      BY <3>2 DEF DeleteOrder, Without
    <3>3. CASE ReplaceOrder(m)
      BY <2>4, <3>3 DEF ReplaceOrder, Tracking, Typed
    <3> QED BY <2>3, <3>1, <3>2, <3>3
  <2> QED BY <2>4, <2>5, <2>6
<1> QED BY <1>1, HandlerTracks, PTL DEF Spec, CrashesExplained

-----------------------------------------------------------------------------
(* The shares of a set of records, as a sum.                               *)

(* Finite sets with a property have a minimal one: induction, for a       *)
(* prover that cannot instantiate an induction principle.                  *)
LEMMA MinimalFiniteSet ==
    ASSUME NEW U, NEW T, T \subseteq FiniteSubsetsOf(U), T # {}
    PROVE  \E S \in T : \A R \in T : R \subseteq S => R = S
<1>1. PICK S \in T : \A R \in T : ~ (<<R, S>> \in StrictSubsetOrdering(U))
  BY FS_StrictSubsetOrderingWellFounded, WFMin, Zenon
<1>2. ASSUME NEW R \in T, R \subseteq S, R # S
      PROVE  FALSE
  <2>1. R \in SUBSET U /\ S \in SUBSET U
    BY DEF FiniteSubsetsOf
  <2>2. <<R, S>> \in StrictSubsetOrdering(U)
    BY <1>2, <2>1 DEF StrictSubsetOrdering
  <2> QED BY <1>1, <2>2
<1> QED BY <1>2

(* sum[s] is the number of shares of the records s, for each s \subseteq S, *)
(* as MapThenSumSet adds them up: one chosen record at a time.             *)
Summing(records, S, sum) ==
    sum = [s \in SUBSET S |->
             IF s = {} THEN 0
             ELSE LET r == CHOOSE x \in s : TRUE
                  IN  records[r].shares + sum[s \ {r}]]

SharesOf(records, S) == (CHOOSE sum : Summing(records, S, sum))[S]

(* The sums of BookShowsTheRecords.                                        *)
LEMMA SumIs ==
    ASSUME NEW records, NEW S
    PROVE  MapThenSumSet(LAMBDA r : records[r].shares, S) = SharesOf(records, S)
BY DEF MapThenSumSet, MapThenFoldSet, SharesOf, Summing

(* What the sum of some records adds up to, given that of the others.      *)
SumStep(records, s, sum) ==
    IF s = {} THEN 0
    ELSE LET r == CHOOSE x \in s : TRUE
         IN  records[r].shares + sum[s \ {r}]

LEMMA SummingAt ==
    ASSUME NEW records, NEW S, NEW sum
    PROVE  Summing(records, S, sum) <=>
              sum = [s \in SUBSET S |-> SumStep(records, s, sum)]
BY DEF Summing, SumStep

(* The equation determines the sum of a finite set...                      *)
LEMMA SumUnique ==
    ASSUME NEW records, NEW S, IsFiniteSet(S), NEW sum, NEW other,
           Summing(records, S, sum), Summing(records, S, other)
    PROVE  sum = other
<1> DEFINE Wrong == {s \in SUBSET S : sum[s] # other[s]}
<1>1. /\ sum = [s \in SUBSET S |-> SumStep(records, s, sum)]
      /\ other = [s \in SUBSET S |-> SumStep(records, s, other)]
  BY SummingAt
<1>2. Wrong = {}
  <2> SUFFICES ASSUME Wrong # {}
               PROVE  FALSE
    OBVIOUS
  <2>1. Wrong \subseteq FiniteSubsetsOf(S)
    BY FS_Subset DEF FiniteSubsetsOf
  <2> HIDE DEF Wrong
  <2>2. PICK s \in Wrong : \A t \in Wrong : t \subseteq s => t = s
    BY <2>1, MinimalFiniteSet
  <2> USE DEF Wrong
  <2>3. s # {}
    BY <1>1, <2>2 DEF SumStep
  <2> DEFINE r == CHOOSE x \in s : TRUE
  <2>4. r \in s /\ s \ {r} \subseteq s /\ s \ {r} # s /\ s \ {r} \in SUBSET S
    BY <2>3
  <2>5. sum[s \ {r}] = other[s \ {r}]
    BY <2>2, <2>4
  <2>6. sum[s] = records[r].shares + sum[s \ {r}]
    BY <1>1, <2>2, <2>3 DEF SumStep
  <2>7. other[s] = records[r].shares + other[s \ {r}]
    BY <1>1, <2>2, <2>3 DEF SumStep
  <2> QED BY <2>2, <2>5, <2>6, <2>7
<1> QED BY <1>1, <1>2

LEMMA SumRestricted ==
    ASSUME NEW records, NEW S, NEW sum, Summing(records, S, sum),
           NEW R \in SUBSET S
    PROVE  \E part : /\ Summing(records, R, part)
                     /\ \A s \in SUBSET R : part[s] = sum[s]
<1> DEFINE part == [s \in SUBSET R |-> sum[s]]
<1>1. sum = [s \in SUBSET S |-> SumStep(records, s, sum)]
  BY SummingAt
<1>2. ASSUME NEW s \in SUBSET R
      PROVE  sum[s] = SumStep(records, s, part)
  <2>1. sum[s] = SumStep(records, s, sum)
    BY <1>1
  <2>2. \A r : sum[s \ {r}] = part[s \ {r}]
    OBVIOUS
  <2> QED BY <2>1, <2>2 DEF SumStep
<1>3. part = [s \in SUBSET R |-> SumStep(records, s, part)]
  BY <1>2
<1> QED BY <1>3, SummingAt

(* ...from any larger set's sums...                                        *)
LEMMA SharesOfIsSum ==
    ASSUME NEW records, NEW S, IsFiniteSet(S), NEW sum, Summing(records, S, sum),
           NEW R \in SUBSET S
    PROVE  sum[R] = SharesOf(records, R)
<1>1. PICK part : Summing(records, R, part) /\ part[R] = sum[R]
  BY SumRestricted
<1>2. IsFiniteSet(R)
  BY FS_Subset
<1>3. Summing(records, R, CHOOSE t : Summing(records, R, t))
  BY <1>1
<1>4. part = CHOOSE t : Summing(records, R, t)
  BY <1>1, <1>2, <1>3, SumUnique
<1> QED BY <1>1, <1>4 DEF SharesOf

(* ...and has a solution.                                                  *)
LEMMA SumExists ==
    ASSUME NEW records, NEW U, IsFiniteSet(U)
    PROVE  \E sum : Summing(records, U, sum)
<1> DEFINE Wrong == {S \in SUBSET U : ~ \E sum : Summing(records, S, sum)}
<1> SUFFICES Wrong = {}
  OBVIOUS
<1> SUFFICES ASSUME Wrong # {}
             PROVE  FALSE
  OBVIOUS
<1>1. Wrong \subseteq FiniteSubsetsOf(U)
  BY FS_Subset DEF FiniteSubsetsOf
<1> HIDE DEF Wrong
<1>2. PICK S \in Wrong : \A t \in Wrong : t \subseteq S => t = S
  BY <1>1, MinimalFiniteSet
<1> USE DEF Wrong
<1>3. S \in SUBSET U /\ IsFiniteSet(S)
  BY FS_Subset
<1> DEFINE of == [s \in SUBSET S |-> SharesOf(records, s)]
           sum == [s \in SUBSET S |-> SumStep(records, s, of)]
<1>4. ASSUME NEW s \in SUBSET S, s # S
      PROVE  SharesOf(records, s) = SumStep(records, s, of)
  <2>1. s \notin Wrong /\ s \in SUBSET U
    BY <1>2, <1>3, <1>4
  <2>2. PICK g : Summing(records, s, g)
    BY <2>1
  <2>3. IsFiniteSet(s)
    BY <1>3, FS_Subset
  <2>4. \A t \in SUBSET s : g[t] = SharesOf(records, t)
    BY <2>2, <2>3, SharesOfIsSum
  <2>5. g[s] = SumStep(records, s, g)
    BY <2>2, SummingAt
  <2>6. \A r : g[s \ {r}] = of[s \ {r}]
    BY <2>4
  <2> QED BY <2>4, <2>5, <2>6 DEF SumStep
<1>5. ASSUME NEW s \in SUBSET S
      PROVE  SumStep(records, s, of) = SumStep(records, s, sum)
  <2>1. CASE s = {}
    BY <2>1 DEF SumStep
  <2>2. CASE s # {}
    <3> DEFINE r == CHOOSE x \in s : TRUE
    <3>1. r \in s /\ s \ {r} \in SUBSET S /\ s \ {r} # S
      BY <2>2
    <3>2. sum[s \ {r}] = of[s \ {r}]
      BY <1>4, <3>1
    <3> QED BY <2>2, <3>2 DEF SumStep
  <2> QED BY <2>1, <2>2
<1>6. Summing(records, S, sum)
  BY <1>5, SummingAt
<1> QED BY <1>2, <1>6

LEMMA SharesOfStep ==
    ASSUME NEW records, NEW S, IsFiniteSet(S)
    PROVE  /\ S = {} => SharesOf(records, S) = 0
           /\ S # {} => \E r \in S : SharesOf(records, S) =
                           records[r].shares + SharesOf(records, S \ {r})
<1>1. PICK sum : Summing(records, S, sum)
  BY SumExists
<1>2. sum[S] = SumStep(records, S, sum)
  BY <1>1, SummingAt
<1>3. \A s \in SUBSET S : sum[s] = SharesOf(records, s)
  BY <1>1, SharesOfIsSum
<1>4. CASE S = {}
  BY <1>2, <1>3, <1>4 DEF SumStep
<1>5. CASE S # {}
  <2> DEFINE r == CHOOSE x \in S : TRUE
  <2>1. r \in S /\ S \ {r} \in SUBSET S
    BY <1>5
  <2>2. sum[S] = records[r].shares + sum[S \ {r}]
    BY <1>2, <1>5 DEF SumStep
  <2> QED BY <1>3, <1>5, <2>1, <2>2
<1> QED BY <1>4, <1>5

(* The sum does not depend on the order in which records are chosen.       *)
LEMMA SharesOfAdd ==
    ASSUME NEW records, NEW U, IsFiniteSet(U), \A r \in U : records[r].shares \in Nat
    PROVE  /\ SharesOf(records, U) \in Nat
           /\ \A r \in U : SharesOf(records, U) =
                              records[r].shares + SharesOf(records, U \ {r})
<1> DEFINE Adds(S) == /\ SharesOf(records, S) \in Nat
                      /\ \A r \in S : SharesOf(records, S) =
                              records[r].shares + SharesOf(records, S \ {r})
           Wrong == {S \in SUBSET U : ~ Adds(S)}
<1> SUFFICES ASSUME Wrong # {}
             PROVE  FALSE
  OBVIOUS
<1>1. Wrong \subseteq FiniteSubsetsOf(U)
  BY FS_Subset DEF FiniteSubsetsOf
<1> HIDE DEF Wrong
<1>2. PICK S \in Wrong : \A R \in Wrong : R \subseteq S => R = S
  BY <1>1, MinimalFiniteSet
<1> USE DEF Wrong
<1> HIDE DEF Adds
<1>3. S \in SUBSET U /\ ~ Adds(S) /\ IsFiniteSet(S)
  BY FS_Subset
<1>4. \A R \in SUBSET S : R # S => Adds(R)
  BY <1>2, <1>3
<1>5. S # {}
  <2> SUFFICES ASSUME S = {}
               PROVE  Adds(S)
    BY <1>3
  <2>1. SharesOf(records, S) = 0
    BY <1>3, SharesOfStep
  <2> QED BY <2>1 DEF Adds
<1>6. PICK c \in S : SharesOf(records, S) = records[c].shares + SharesOf(records, S \ {c})
  BY <1>3, <1>5, SharesOfStep
<1>7. /\ \A r \in S : records[r].shares \in Nat
      /\ \A r \in S : SharesOf(records, S \ {r}) \in Nat
  BY <1>3, <1>4 DEF Adds
<1>8. ASSUME NEW r \in S, r # c
      PROVE  SharesOf(records, S) = records[r].shares + SharesOf(records, S \ {r})
  <2> DEFINE rest == (S \ {c}) \ {r}
  <2>1. /\ Adds(S \ {c}) /\ r \in S \ {c}
        /\ Adds(S \ {r}) /\ c \in S \ {r}
        /\ Adds(rest)
    BY <1>4, <1>8
  <2>2. SharesOf(records, S \ {c}) = records[r].shares + SharesOf(records, rest)
    BY <2>1 DEF Adds
  <2>3. SharesOf(records, S \ {r}) = records[c].shares + SharesOf(records, rest)
    <3>1. (S \ {r}) \ {c} = rest
      OBVIOUS
    <3> QED BY <2>1, <3>1 DEF Adds
  <2>4. SharesOf(records, rest) \in Nat
    BY <2>1 DEF Adds
  <2> HIDE DEF rest
  <2> QED BY <1>6, <1>7, <2>2, <2>3, <2>4
<1>9. \A r \in S : SharesOf(records, S) = records[r].shares + SharesOf(records, S \ {r})
  BY <1>6, <1>8, Zenon
<1>10. SharesOf(records, S) \in Nat
  BY <1>6, <1>7
<1> QED BY <1>3, <1>9, <1>10 DEF Adds

(* Sums are bounded, and no shares means no records.                       *)
LEMMA SharesOfBound ==
    ASSUME NEW records, NEW U, IsFiniteSet(U), NEW size \in Nat,
           \A r \in U : records[r].shares \in 1 .. size
    PROVE  /\ SharesOf(records, U) <= size * Cardinality(U)
           /\ SharesOf(records, U) = 0 <=> U = {}
<1> DEFINE Wrong == {S \in SUBSET U : ~ SharesOf(records, S) <= size * Cardinality(S)}
<1>0. \A r \in U : records[r].shares \in Nat
  OBVIOUS
<1>1. Wrong = {}
  <2> SUFFICES ASSUME Wrong # {}
               PROVE  FALSE
    OBVIOUS
  <2>1. Wrong \subseteq FiniteSubsetsOf(U)
    BY FS_Subset DEF FiniteSubsetsOf
  <2> HIDE DEF Wrong
  <2>2. PICK S \in Wrong : \A R \in Wrong : R \subseteq S => R = S
    BY <2>1, MinimalFiniteSet
  <2> USE DEF Wrong
  <2>3. S \in SUBSET U /\ IsFiniteSet(S) /\ ~ SharesOf(records, S) <= size * Cardinality(S)
    BY FS_Subset
  <2>4. S # {}
    <3> SUFFICES ASSUME S = {}
                 PROVE  FALSE
      OBVIOUS
    <3>1. SharesOf(records, S) = 0 /\ Cardinality(S) = 0
      BY <2>3, SharesOfStep, FS_EmptySet
    <3> QED BY <2>3, <3>1
  <2>5. PICK r \in S : SharesOf(records, S) = records[r].shares + SharesOf(records, S \ {r})
    BY <2>3, <2>4, SharesOfStep
  <2>6. SharesOf(records, S \ {r}) <= size * Cardinality(S \ {r})
    BY <2>2, <2>3
  <2>7. /\ Cardinality(S \ {r}) = Cardinality(S) - 1 /\ Cardinality(S) \in Nat
        /\ IsFiniteSet(S \ {r})
    BY <2>3, FS_RemoveElement, FS_CardinalityType
  <2>8. size * (Cardinality(S) - 1) = size * Cardinality(S) - size
    BY <2>7
  <2>9. SharesOf(records, S \ {r}) \in Nat
    BY <1>0, <2>3, <2>7, SharesOfAdd
  <2>10. records[r].shares \in Nat /\ records[r].shares <= size
    BY <2>3
  <2>11. size * Cardinality(S) \in Nat
    BY <2>7
  <2> QED BY <2>3, <2>5, <2>6, <2>7, <2>8, <2>9, <2>10, <2>11
<1>2. SharesOf(records, U) = 0 => U = {}
  <2> SUFFICES ASSUME NEW r \in U, SharesOf(records, U) = 0
               PROVE  FALSE
    OBVIOUS
  <2>1. IsFiniteSet(U \ {r})
    BY FS_RemoveElement
  <2>2. SharesOf(records, U \ {r}) \in Nat
    BY <1>0, <2>1, SharesOfAdd
  <2>3. SharesOf(records, U) = records[r].shares + SharesOf(records, U \ {r})
    BY <1>0, SharesOfAdd
  <2>4. records[r].shares \in 1 .. size
    OBVIOUS
  <2> QED BY <2>2, <2>3, <2>4
<1> QED BY <1>1, <1>2, SharesOfStep

(* Only the records summed matter.                                         *)
LEMMA SharesOfSame ==
    ASSUME NEW records, NEW other, NEW U, IsFiniteSet(U),
           \A r \in U : records[r].shares = other[r].shares
    PROVE  SharesOf(records, U) = SharesOf(other, U)
<1>1. PICK sum : Summing(records, U, sum)
  BY SumExists
<1>2. \A s \in SUBSET U : SumStep(records, s, sum) = SumStep(other, s, sum)
  BY DEF SumStep
<1>3. Summing(other, U, sum)
  BY <1>1, <1>2, SummingAt
<1> QED BY <1>1, <1>3, SharesOfIsSum

-----------------------------------------------------------------------------
(* What a side of the book shows.                                          *)

(* One message's shares, over all the orders there can be, fit in a level: *)
(* messages have 32 bits for them, levels 64.                              *)
LevelsFit(size) ==
    /\ size \in Nat
    /\ Sizes \subseteq 1 .. size
    /\ IsFiniteSet(References)
    /\ size * Cardinality(References) <= SharesMax

SizedRecord(size) == [side : Sides, price : Prices, shares : 1 .. size]

At(records, side, price) ==
    {r \in DOMAIN records : records[r].side = side /\ records[r].price = price}

(* level is what the book's side must show of records.                     *)
Shows(level, records, side) ==
    level = [p \in {q \in Prices : At(records, side, q) # {}} |->
                SharesOf(records, At(records, side, p))]

(* What there is at one price fits in its level.                           *)
LEMMA LevelsFitThere ==
    ASSUME NEW size, LevelsFit(size), NEW records \in Maps(References, SizedRecord(size)),
           NEW side, NEW price
    PROVE  /\ IsFiniteSet(At(records, side, price))
           /\ \A r \in At(records, side, price) : records[r].shares \in 1 .. size
           /\ SharesOf(records, At(records, side, price)) \in 0 .. SharesMax
           /\ SharesOf(records, At(records, side, price)) = 0 <=> At(records, side, price) = {}
<1> DEFINE there == At(records, side, price)
<1>1. DOMAIN records \subseteq References /\ \A r \in DOMAIN records : records[r] \in SizedRecord(size)
  BY MapIsFunction
<1>2. there \in SUBSET References
  BY <1>1 DEF At
<1>3. /\ IsFiniteSet(there) /\ Cardinality(there) \in Nat
      /\ Cardinality(there) <= Cardinality(References) /\ Cardinality(References) \in Nat
  BY <1>2, FS_Subset, FS_CardinalityType DEF LevelsFit
<1>4. \A r \in there : records[r].shares \in 1 .. size
  BY <1>1 DEF At, SizedRecord
<1> HIDE DEF there
<1>5. size \in Nat /\ size * Cardinality(References) <= SharesMax /\ SharesMax \in Nat
  BY WidthAssumption DEF LevelsFit
<1>6. \A r \in there : records[r].shares \in Nat
  BY <1>4, <1>5
<1>7. /\ SharesOf(records, there) <= size * Cardinality(there)
      /\ SharesOf(records, there) = 0 <=> there = {}
  BY <1>3, <1>4, <1>5, SharesOfBound
<1>8. SharesOf(records, there) \in Nat
  BY <1>3, <1>6, SharesOfAdd
<1>9. size * Cardinality(there) <= size * Cardinality(References)
  <2>1. PICK d \in Nat : Cardinality(References) = Cardinality(there) + d
    <3>1. Cardinality(References) - Cardinality(there) \in Nat
      BY <1>3
    <3> QED BY <1>3, <3>1
  <2>2. size * Cardinality(References) = size * Cardinality(there) + size * d
    BY <1>3, <1>5, <2>1
  <2>3. size * d \in Nat /\ size * Cardinality(there) \in Nat
    BY <1>3, <1>5
  <2> QED BY <2>2, <2>3
<1>10. size * Cardinality(there) \in Nat /\ size * Cardinality(References) \in Nat
  BY <1>3, <1>5
<1>11. SharesOf(records, there) \in 0 .. SharesMax
  BY <1>5, <1>7, <1>8, <1>9, <1>10
<1> QED BY <1>3, <1>4, <1>7, <1>11 DEF there

LEMMA ShowsAt ==
    ASSUME NEW size, LevelsFit(size), NEW records \in Maps(References, SizedRecord(size)),
           NEW side, NEW level, Shows(level, records, side), NEW price \in Prices
    PROVE  /\ SharesAt(level, price) = SharesOf(records, At(records, side, price))
           /\ price \in DOMAIN level <=> At(records, side, price) # {}
BY LevelsFitThere DEF Shows, SharesAt

(* Records that are the same at every price show the same.                 *)
LEMMA SameShows ==
    ASSUME NEW size, LevelsFit(size), NEW records \in Maps(References, SizedRecord(size)),
           NEW side, NEW other,
           \A p \in Prices : /\ At(other, side, p) = At(records, side, p)
                             /\ \A r \in At(records, side, p) : other[r].shares = records[r].shares,
           NEW level, Shows(level, records, side)
    PROVE  Shows(level, other, side)
<1>1. ASSUME NEW p \in Prices
      PROVE  SharesOf(other, At(other, side, p)) = SharesOf(records, At(records, side, p))
  <2>1. IsFiniteSet(At(records, side, p))
    BY LevelsFitThere
  <2> QED BY <2>1, SharesOfSame
<1>2. {q \in Prices : At(other, side, q) # {}} = {q \in Prices : At(records, side, q) # {}}
  OBVIOUS
<1> QED BY <1>1, <1>2 DEF Shows

(* Adding shares that fit never wraps around.                              *)
LEMMA PlusExact ==
    ASSUME NEW a \in Nat, NEW b \in Nat, a + b <= SharesMax
    PROVE  Plus(a, b) = a + b
<1>1. SharesMax \in Nat /\ a + b \in Nat /\ a + b < SharesMax + 1
  BY WidthAssumption
<1>2. (a + b) % (SharesMax + 1) = a + b
  BY <1>1
<1> QED BY <1>2 DEF Plus

(* A new order: the level of its price gains its shares, or appears.       *)
LEMMA InsertShows ==
    ASSUME NEW size, LevelsFit(size), NEW records \in Maps(References, SizedRecord(size)),
           NEW r \in References, r \notin DOMAIN records, NEW record \in SizedRecord(size)
    PROVE  LET after == Insert(records, r, record)
           IN  /\ after \in Maps(References, SizedRecord(size))
               /\ \A level : Shows(level, records, record.side) =>
                     Shows(WithShares(level, record.price, record.shares), after, record.side)
               /\ \A side : side # record.side =>
                     \A level : Shows(level, records, side) => Shows(level, after, side)
<1> DEFINE after == Insert(records, r, record)
           price == record.price
<1>1. /\ DOMAIN after = DOMAIN records \cup {r} /\ after[r] = record
      /\ \A q \in DOMAIN records : after[q] = records[q]
  BY DEF Insert
<1>2. after \in Maps(References, SizedRecord(size))
  <2>1. after \in [DOMAIN records \cup {r} -> SizedRecord(size)]
    BY MapIsFunction DEF Insert
  <2>2. DOMAIN records \cup {r} \in SUBSET References
    BY MapIsFunction
  <2> QED BY <2>1, <2>2, FunctionIsMap
<1> HIDE DEF after
<1>3. ASSUME NEW side, NEW p, side # record.side \/ p # price
      PROVE  /\ At(after, side, p) = At(records, side, p)
             /\ \A q \in At(records, side, p) : after[q].shares = records[q].shares
  BY <1>1, <1>3 DEF At
<1>4. ASSUME NEW side, side # record.side, NEW level, Shows(level, records, side)
      PROVE  Shows(level, after, side)
  BY <1>3, <1>4, SameShows
<1>5. ASSUME NEW level, Shows(level, records, record.side)
      PROVE  Shows(WithShares(level, price, record.shares), after, record.side)
  <2> DEFINE side == record.side
             before == At(records, side, price)
             now == At(after, side, price)
  <2>1. now = before \cup {r} /\ r \notin before
    BY <1>1 DEF At
  <2>2. /\ IsFiniteSet(before)
        /\ SharesOf(records, before) \in 0 .. SharesMax
    BY LevelsFitThere
  <2>3. /\ IsFiniteSet(now) /\ \A q \in now : after[q].shares \in 1 .. size
        /\ SharesOf(after, now) \in 0 .. SharesMax
    BY <1>2, LevelsFitThere
  <2>4. now \ {r} = before /\ r \in now
    BY <2>1
  <2>5. SharesOf(after, now) = record.shares + SharesOf(after, before)
    <3>1. \A q \in now : after[q].shares \in Nat
      BY <2>3
    <3> HIDE DEF now, before
    <3> QED BY <1>1, <2>3, <2>4, <3>1, SharesOfAdd
  <2>6. SharesOf(after, before) = SharesOf(records, before)
    <3>1. \A q \in before : records[q].shares = after[q].shares
      BY <1>1 DEF At
    <3> HIDE DEF before
    <3> QED BY <2>2, <3>1, SharesOfSame
  <2>7. record.shares \in Nat /\ price \in Prices
    BY DEF SizedRecord, LevelsFit
  <2>8. SharesAt(level, price) = SharesOf(records, before)
    BY <1>5, <2>7, ShowsAt
  <2>9. Plus(SharesAt(level, price), record.shares) = SharesOf(after, now)
    <3> HIDE DEF now, before
    <3> QED BY <2>2, <2>3, <2>5, <2>6, <2>7, <2>8, WidthAssumption, PlusExact
  <2>10. DOMAIN level \cup {price} = {q \in Prices : At(after, side, q) # {}}
    <3>1. \A q \in Prices : q # price => At(after, side, q) = At(records, side, q)
      BY <1>3
    <3>2. DOMAIN level = {q \in Prices : At(records, side, q) # {}}
      BY <1>5 DEF Shows
    <3> QED BY <2>1, <2>7, <3>1, <3>2
  <2>11. ASSUME NEW p \in DOMAIN level, p # price
         PROVE  level[p] = SharesOf(after, At(after, side, p))
    <3>1. level[p] = SharesOf(records, At(records, side, p))
      BY <1>5 DEF Shows
    <3>2. IsFiniteSet(At(records, side, p))
      BY LevelsFitThere
    <3>3. /\ At(after, side, p) = At(records, side, p)
          /\ \A q \in At(records, side, p) : after[q].shares = records[q].shares
      BY <1>3, <2>11
    <3> QED BY <3>1, <3>2, <3>3, SharesOfSame
  <2> HIDE DEF now
  <2>12. WithShares(level, price, record.shares) =
           [p \in DOMAIN level \cup {price} |->
               IF p = price THEN SharesOf(after, now) ELSE level[p]]
    BY <2>9 DEF WithShares, Put
  <2>13. WithShares(level, price, record.shares) =
           [p \in DOMAIN level \cup {price} |-> SharesOf(after, At(after, side, p))]
    BY <2>11, <2>12 DEF now
  <2> QED BY <2>10, <2>13 DEF Shows
<1> QED BY <1>2, <1>4, <1>5 DEF after

(* A forgotten order: its level exists, and loses its shares or goes with  *)
(* the last of them.                                                       *)
LEMMA EraseShows ==
    ASSUME NEW size, LevelsFit(size), NEW records \in Maps(References, SizedRecord(size)),
           NEW r \in DOMAIN records
    PROVE  LET record == records[r]
               after == Erase(records, r)
           IN  /\ after \in Maps(References, SizedRecord(size))
               /\ \A level : Shows(level, records, record.side) =>
                     /\ record.price \in DOMAIN level
                     /\ Shows(WithoutShares(level, record.price, record.shares),
                              after, record.side)
               /\ \A side : side # record.side =>
                     \A level : Shows(level, records, side) => Shows(level, after, side)
<1> DEFINE record == records[r]
           after == Erase(records, r)
           price == record.price
<1>1. /\ DOMAIN after = DOMAIN records \ {r}
      /\ \A q \in DOMAIN after : after[q] = records[q]
  BY DEF Erase
<1>2. after \in Maps(References, SizedRecord(size))
  <2>1. after \in [DOMAIN records \ {r} -> SizedRecord(size)]
    BY MapIsFunction DEF Erase
  <2>2. DOMAIN records \ {r} \in SUBSET References
    BY MapIsFunction
  <2> QED BY <2>1, <2>2, FunctionIsMap
<1>3. record \in SizedRecord(size)
  BY MapIsFunction
<1> HIDE DEF after
<1>4. ASSUME NEW side, NEW p, side # record.side \/ p # price
      PROVE  /\ At(after, side, p) = At(records, side, p)
             /\ \A q \in At(records, side, p) : after[q].shares = records[q].shares
  BY <1>1, <1>4 DEF At
<1>5. ASSUME NEW side, side # record.side, NEW level, Shows(level, records, side)
      PROVE  Shows(level, after, side)
  BY <1>4, <1>5, SameShows
<1>6. ASSUME NEW level, Shows(level, records, record.side)
      PROVE  /\ price \in DOMAIN level
             /\ Shows(WithoutShares(level, price, record.shares), after, record.side)
  <2> DEFINE side == record.side
             before == At(records, side, price)
             now == At(after, side, price)
  <2>1. now = before \ {r} /\ r \in before
    BY <1>1 DEF At
  <2>2. /\ IsFiniteSet(before) /\ \A q \in before : records[q].shares \in 1 .. size
        /\ SharesOf(records, before) \in 0 .. SharesMax
    BY LevelsFitThere
  <2>3. /\ IsFiniteSet(now)
        /\ SharesOf(after, now) \in 0 .. SharesMax
        /\ SharesOf(after, now) = 0 <=> now = {}
    BY <1>2, LevelsFitThere
  <2>4. record.shares \in Nat /\ price \in Prices
    BY <1>3 DEF SizedRecord, LevelsFit
  <2>5. level[price] = SharesOf(records, before) /\ price \in DOMAIN level
    <3>1. price \in DOMAIN level
      BY <1>6, <2>1, <2>4, ShowsAt
    <3> QED BY <1>6, <2>4, <3>1 DEF Shows
  <2>6. SharesOf(records, before) = record.shares + SharesOf(records, now)
    <3>1. \A q \in before : records[q].shares \in Nat
      BY <2>2
    <3> HIDE DEF now, before
    <3> QED BY <2>1, <2>2, <3>1, SharesOfAdd
  <2>7. SharesOf(after, now) = SharesOf(records, now)
    <3>1. \A q \in now : records[q].shares = after[q].shares
      BY <1>1 DEF At
    <3> HIDE DEF now
    <3> QED BY <2>3, <3>1, SharesOfSame
  <2>8. Minus(level[price], record.shares) = SharesOf(after, now)
    <3>1. record.shares <= level[price] /\ record.shares \in 0 .. SharesMax
          /\ level[price] \in 0 .. SharesMax
          /\ level[price] - record.shares = SharesOf(after, now)
      <4> HIDE DEF now, before
      <4> QED BY <2>2, <2>3, <2>4, <2>5, <2>6, <2>7, WidthAssumption
    <3> QED BY <3>1, MinusExact
  <2>9. \A q \in Prices : q # price => At(after, side, q) = At(records, side, q)
    BY <1>4
  <2>10. DOMAIN level = {q \in Prices : At(records, side, q) # {}}
    BY <1>6 DEF Shows
  <2>11. ASSUME NEW p \in DOMAIN level, p # price
         PROVE  level[p] = SharesOf(after, At(after, side, p))
    <3>1. level[p] = SharesOf(records, At(records, side, p))
      BY <1>6 DEF Shows
    <3>2. IsFiniteSet(At(records, side, p))
      BY LevelsFitThere
    <3>3. /\ At(after, side, p) = At(records, side, p)
          /\ \A q \in At(records, side, p) : after[q].shares = records[q].shares
      BY <1>4, <2>11
    <3> QED BY <3>1, <3>2, <3>3, SharesOfSame
  <2>12. CASE now = {}
    <3>1. WithoutShares(level, price, record.shares) =
            [p \in DOMAIN level \ {price} |-> level[p]]
      <4> HIDE DEF now
      <4> QED BY <2>3, <2>8, <2>12 DEF WithoutShares, Drop
    <3>2. DOMAIN level \ {price} = {q \in Prices : At(after, side, q) # {}}
      BY <2>9, <2>10, <2>12
    <3>3. WithoutShares(level, price, record.shares) =
            [p \in DOMAIN level \ {price} |-> SharesOf(after, At(after, side, p))]
      BY <2>11, <3>1
    <3> QED BY <2>5, <3>2, <3>3 DEF Shows
  <2>13. CASE now # {}
    <3>1. WithoutShares(level, price, record.shares) =
            [p \in DOMAIN level \cup {price} |->
               IF p = price THEN SharesOf(after, now) ELSE level[p]]
      <4> HIDE DEF now
      <4> QED BY <2>3, <2>8, <2>13 DEF WithoutShares, Put
    <3>2. DOMAIN level \cup {price} = {q \in Prices : At(after, side, q) # {}}
      BY <2>4, <2>5, <2>9, <2>10, <2>13
    <3> HIDE DEF now
    <3>3. WithoutShares(level, price, record.shares) =
            [p \in DOMAIN level \cup {price} |-> SharesOf(after, At(after, side, p))]
      BY <2>11, <3>1 DEF now
    <3> QED BY <2>5, <3>2, <3>3 DEF Shows
  <2> QED BY <2>12, <2>13
<1> QED BY <1>2, <1>5, <1>6 DEF after

(* A partial execution or cancel never exhausts a level.                   *)
LEMMA ReduceShows ==
    ASSUME NEW size, LevelsFit(size), NEW records \in Maps(References, SizedRecord(size)),
           NEW r \in DOMAIN records, NEW n \in Nat, 1 <= n, n < records[r].shares
    PROVE  LET record == records[r]
               after == [records EXCEPT ![r].shares = records[r].shares - n]
           IN  /\ after \in Maps(References, SizedRecord(size))
               /\ \A level : Shows(level, records, record.side) =>
                     /\ record.price \in DOMAIN level
                     /\ Shows(WithoutShares(level, record.price, n), after, record.side)
               /\ \A side : side # record.side =>
                     \A level : Shows(level, records, side) => Shows(level, after, side)
<1> DEFINE record == records[r]
           after == [records EXCEPT ![r].shares = records[r].shares - n]
           price == record.price
<1>1. record \in SizedRecord(size)
  BY MapIsFunction
<1>01. record.shares \in 1 .. size /\ size \in Nat /\ price \in Prices
  BY <1>1 DEF SizedRecord, LevelsFit
<1>02. record.shares - n \in 1 .. size
  BY <1>01
<1>2. /\ DOMAIN after = DOMAIN records
      /\ after[r] = [record EXCEPT !.shares = record.shares - n]
      /\ \A q \in DOMAIN records \ {r} : after[q] = records[q]
  OBVIOUS
<1>3. after \in Maps(References, SizedRecord(size))
  <2>1. after[r] \in SizedRecord(size)
    BY <1>1, <1>02, <1>2 DEF SizedRecord
  <2>2. after \in [DOMAIN records -> SizedRecord(size)]
    BY <1>2, <2>1, MapIsFunction
  <2>3. DOMAIN records \in SUBSET References
    BY MapIsFunction
  <2> QED BY <2>2, <2>3, FunctionIsMap
<1>4. /\ after[r].shares = record.shares - n
      /\ after[r].side = record.side /\ after[r].price = price
  BY <1>1, <1>2 DEF SizedRecord
<1> HIDE DEF after
<1>5. ASSUME NEW side, NEW p
      PROVE  At(after, side, p) = At(records, side, p)
  BY <1>2, <1>4 DEF At
<1>6. ASSUME NEW side, NEW p, side # record.side \/ p # price
      PROVE  \A q \in At(records, side, p) : after[q].shares = records[q].shares
  BY <1>2, <1>6 DEF At
<1>7. ASSUME NEW side, side # record.side, NEW level, Shows(level, records, side)
      PROVE  Shows(level, after, side)
  BY <1>5, <1>6, <1>7, SameShows
<1>8. ASSUME NEW level, Shows(level, records, record.side)
      PROVE  /\ price \in DOMAIN level
             /\ Shows(WithoutShares(level, price, n), after, record.side)
  <2> DEFINE side == record.side
             there == At(records, side, price)
  <2>1. r \in there /\ At(after, side, price) = there
    BY <1>5 DEF At
  <2>2. /\ IsFiniteSet(there) /\ \A q \in there : records[q].shares \in 1 .. size
        /\ SharesOf(records, there) \in 0 .. SharesMax
    BY LevelsFitThere
  <2>3. /\ \A q \in there : after[q].shares \in 1 .. size
        /\ SharesOf(after, there) \in 0 .. SharesMax
        /\ SharesOf(after, there) = 0 <=> there = {}
    BY <1>3, <2>1, LevelsFitThere
  <2>4. level[price] = SharesOf(records, there) /\ price \in DOMAIN level
    <3>1. price \in DOMAIN level
      BY <1>8, <1>01, <2>1, ShowsAt
    <3> QED BY <1>8, <1>01, <3>1 DEF Shows
  <2>5. SharesOf(records, there) = record.shares + SharesOf(records, there \ {r})
    <3>1. \A q \in there : records[q].shares \in Nat
      BY <2>2
    <3> HIDE DEF there
    <3> QED BY <2>1, <2>2, <3>1, SharesOfAdd
  <2>6. SharesOf(after, there) = record.shares - n + SharesOf(after, there \ {r})
    <3>1. \A q \in there : after[q].shares \in Nat
      BY <2>3
    <3> HIDE DEF there
    <3> QED BY <1>4, <2>1, <2>2, <3>1, SharesOfAdd
  <2>7. SharesOf(after, there \ {r}) = SharesOf(records, there \ {r})
    <3>1. \A q \in there \ {r} : after[q].shares = records[q].shares
      BY <1>2 DEF At
    <3>2. IsFiniteSet(there \ {r})
      BY <2>2, FS_Subset
    <3> HIDE DEF there
    <3> QED BY <3>1, <3>2, SharesOfSame
  <2>8. SharesOf(records, there \ {r}) \in Nat
    <3>1. \A q \in there \ {r} : records[q].shares \in Nat
      BY <2>2
    <3>2. IsFiniteSet(there \ {r})
      BY <2>2, FS_Subset
    <3> HIDE DEF there
    <3> QED BY <3>1, <3>2, SharesOfAdd
  <2>9. Minus(level[price], n) = SharesOf(after, there) /\ SharesOf(after, there) # 0
    <3>1. n <= level[price] /\ n \in 0 .. SharesMax /\ level[price] \in 0 .. SharesMax
          /\ level[price] - n = SharesOf(after, there)
      <4> HIDE DEF there
      <4> QED BY <1>01, <2>2, <2>4, <2>5, <2>6, <2>7, <2>8, WidthAssumption
    <3>2. Minus(level[price], n) = SharesOf(after, there)
      BY <3>1, MinusExact
    <3> QED BY <2>1, <2>3, <3>2
  <2> HIDE DEF there
  <2>10. WithoutShares(level, price, n) =
            [p \in DOMAIN level \cup {price} |->
               IF p = price THEN SharesOf(after, there) ELSE level[p]]
    BY <2>9 DEF WithoutShares, Put
  <2>11. ASSUME NEW p \in DOMAIN level, p # price
         PROVE  level[p] = SharesOf(after, At(after, side, p))
    <3>1. level[p] = SharesOf(records, At(records, side, p))
      BY <1>8 DEF Shows
    <3>2. IsFiniteSet(At(records, side, p))
      BY LevelsFitThere
    <3> QED BY <1>5, <1>6, <2>11, <3>1, <3>2, SharesOfSame
  <2>12. DOMAIN level \cup {price} = {q \in Prices : At(after, side, q) # {}}
    <3>1. DOMAIN level = {q \in Prices : At(records, side, q) # {}}
      BY <1>8 DEF Shows
    <3> QED BY <1>5, <2>4, <3>1
  <2>13. WithoutShares(level, price, n) =
            [p \in DOMAIN level \cup {price} |-> SharesOf(after, At(after, side, p))]
    BY <2>1, <2>10, <2>11
  <2> QED BY <2>4, <2>12, <2>13 DEF Shows
<1> QED BY <1>3, <1>7, <1>8 DEF after

-----------------------------------------------------------------------------
(* What a message does to the records and to the book.                     *)

(* What a message that announces or replaces an order tells of it.         *)
Announced == [side : Sides, price : Prices, shares : Sizes]

(* What one message does to the records and the book.                      *)
Records(r, record) ==
    /\ order_records' = Insert(order_records, r, record)
    /\ AddToBook(record.side, record.price, record.shares)

Shrinks(r, n) ==
    LET record == order_records[r]
    IN  /\ n < record.shares
        /\ order_records' = [order_records EXCEPT ![r].shares = record.shares - n]
        /\ RemoveShares(record.side, record.price, n)

Forgets(r) ==
    LET record == order_records[r]
    IN  /\ order_records' = Erase(order_records, r)
        /\ RemoveShares(record.side, record.price, record.shares)

Exchanges(r, q, record) ==
    /\ record.side = order_records[r].side
    /\ order_records' = Insert(Erase(order_records, r), q, record)
    /\ ReplaceInBook(record.side, order_records[r].price, order_records[r].shares,
                     record.price, record.shares)

(* Whatever the message, the records and the book change in one of these   *)
(* ways, and in step: an execution or a cancel that wraps no share count   *)
(* leaves a record with shares, or forgets it.                             *)
LEMMA HandlerSteps ==
    ASSUME Tracking, NEW m \in Messages, Handle(m)
    PROVE  \/ UNCHANGED <<order_records, bookVars>>
           \/ \E r \in References \ DOMAIN order_records, record \in Announced :
                 Records(r, record)
           \/ \E r \in DOMAIN order_records, n \in Sizes : Shrinks(r, n)
           \/ \E r \in DOMAIN order_records : Forgets(r)
           \/ \E r \in DOMAIN order_records, q \in References \ DOMAIN order_records,
                 record \in Announced : Exchanges(r, q, record)
<1> DEFINE r == m.reference
<1>1. CASE UNCHANGED handlerVars
  BY <1>1 DEF handlerVars
<1>2. CASE DereferenceNull
  BY <1>2 DEF DereferenceNull
<1>3. CASE AddOrder(m)
  <2>1. m \in AddMessages /\ m.reference \notin announced
    BY <1>3 DEF AddOrder, Handle, Send, AnnounceOrder, ReduceOrder, ReduceMessages,
       DeleteOrder, DeleteMessages, ReplaceOrder, ReplaceMessages, SendOther, OtherMessages
  <2>2. r \in References \ DOMAIN order_records
    BY <2>1 DEF AddMessages, Tracking, Typed, RecordsAreLive
  <2>3. RecordOf(m.side, m) \in Announced
    BY <2>1 DEF AddMessages, RecordOf, Announced, Sides
  <2>4. CASE UNCHANGED handlerVars
    BY <1>1, <2>4
  <2>5. CASE ~ UNCHANGED handlerVars
    <3>1. Records(r, RecordOf(m.side, m))
      BY <1>3, <2>5 DEF AddOrder, Records, RecordOf
    <3> QED BY <2>2, <2>3, <3>1
  <2> QED BY <2>4, <2>5
<1>4. CASE /\ m.type \in {"E", "C", "X"} /\ Found(r)
           /\ order_records' = Reduced(r, m.shares)
           /\ RemoveShares(order_records[r].side, order_records[r].price, m.shares)
  <2> DEFINE shares == order_records[r].shares
  <2>1. ReduceOrder(m) /\ r \in DOMAIN order_records
    BY <1>4 DEF Found, Handle, Send, AnnounceOrder, AddMessages, ReduceOrder,
       DeleteOrder, DeleteMessages, ReplaceOrder, ReplaceMessages, SendOther, OtherMessages
  <2>2. m.shares \in Sizes
    BY <2>1 DEF ReduceOrder, ReduceMessages
  <2>3. m.shares \in 1 .. SharesMax /\ m.shares <= live[r].shares
    BY <2>1, ReduceOrderLive
  <2>4. shares = live[r].shares
    BY <2>1 DEF Tracking, RecordsAreLive
  <2>5. shares \in 1 .. SharesMax
    <3>1. order_records[r] \in Record
      BY <2>1, MapIsFunction DEF Tracking, Typed
    <3> QED BY <3>1 DEF Record
  <2>6. Minus(shares, m.shares) = shares - m.shares
    <3>1. shares \in 0 .. SharesMax /\ m.shares \in 0 .. SharesMax /\ m.shares <= shares
      BY <2>3, <2>4, <2>5, WidthAssumption
    <3> QED BY <3>1, MinusExact
  <2>7. CASE m.shares = shares
    <3>1. Minus(shares, m.shares) = 0
      BY <2>3, <2>5, <2>6, <2>7
    <3>2. Forgets(r)
      BY <1>4, <2>7, <3>1 DEF Forgets, Reduced
    <3> QED BY <2>1, <3>2
  <2>8. CASE m.shares # shares
    <3>1. Minus(shares, m.shares) # 0 /\ m.shares < shares
      BY <2>3, <2>4, <2>5, <2>6, <2>8
    <3>2. Shrinks(r, m.shares)
      BY <1>4, <2>6, <3>1 DEF Shrinks, Reduced
    <3> QED BY <2>1, <2>2, <3>2
  <2> QED BY <2>7, <2>8
<1>5. CASE /\ m.type = "D" /\ Found(r)
           /\ order_records' = Erase(order_records, r)
           /\ RemoveShares(order_records[r].side, order_records[r].price,
                           order_records[r].shares)
  <2>1. Forgets(r)
    BY <1>5 DEF Forgets
  <2> QED BY <1>5, <2>1 DEF Found
<1>6. CASE /\ m.type = "U" /\ Found(r)
           /\ order_records' = Insert(Erase(order_records, r), m.new_reference,
                                      RecordOf(order_records[r].side, m))
           /\ ReplaceInBook(order_records[r].side, order_records[r].price,
                            order_records[r].shares, m.price, m.shares)
  <2> DEFINE record == RecordOf(order_records[r].side, m)
             q == m.new_reference
  <2>1. m \in ReplaceMessages /\ q \notin announced /\ r \in DOMAIN order_records
    BY <1>6 DEF Found, Handle, Send, AnnounceOrder, AddMessages, ReduceOrder, ReduceMessages,
       DeleteOrder, DeleteMessages, ReplaceOrder, SendOther, OtherMessages
  <2>2. q \in References \ DOMAIN order_records
    BY <2>1 DEF ReplaceMessages, Tracking, Typed, RecordsAreLive
  <2>3. record \in Announced
    <3>1. order_records[r] \in Record
      BY <2>1, MapIsFunction DEF Tracking, Typed
    <3> QED BY <2>1, <3>1 DEF ReplaceMessages, RecordOf, Announced, Record
  <2>4. Exchanges(r, q, record)
    BY <1>6 DEF Exchanges, RecordOf
  <2> QED BY <2>1, <2>2, <2>3, <2>4
<1>7. CASE SimulateMessage(m)
  BY <1>1, <1>2, <1>3, <1>4, <1>5, <1>6, <1>7
     DEF SimulateMessage, ExecuteOrder, CancelOrder, DeleteOrderRecord, ReplaceOrderRecord,
         ExecuteInBook, CancelInBook
<1> QED BY <1>1, <1>7 DEF Handle, Poll

-----------------------------------------------------------------------------

(* The inductive invariant: BookShowsTheRecords and BookIntact, crashed or *)
(* not.  It needs Tracking, that no message takes more shares off an order *)
(* than its record has, and that no record has more than a message can say *)
(* it has; without the latter the sum of a level could wrap around to 0,   *)
(* and the level be erased under the records.                              *)
BookFollows(size) ==
    /\ order_records \in Maps(References, SizedRecord(size))
    /\ \A side \in Sides : Shows(levels[side], order_records, side)
    /\ ~corrupted

LEMMA InitFollows ==
    ASSUME NEW size, Init
    PROVE  BookFollows(size)
<1>1. /\ order_records = << >> /\ ~corrupted
      /\ levels = [side \in Sides |-> << >>]
  BY DEF Init, HandlerInit, EmptyBook
<1>2. order_records \in Maps(References, SizedRecord(size))
  <2>1. order_records \in [{} -> SizedRecord(size)] /\ {} \in SUBSET References
    BY <1>1
  <2> QED BY <2>1, FunctionIsMap
<1>3. ASSUME NEW side \in Sides
      PROVE  Shows(levels[side], order_records, side)
  <2>1. \A q : At(order_records, side, q) = {}
    BY <1>1 DEF At
  <2>2. {q \in Prices : At(order_records, side, q) # {}} = {}
    BY <2>1
  <2>3. levels[side] = << >>
    BY <1>1
  <2> QED BY <2>2, <2>3 DEF Shows
<1> QED BY <1>1, <1>2, <1>3 DEF BookFollows

LEMMA NextFollows ==
    ASSUME NEW size, LevelsFit(size), Tracking, BookFollows(size), [Next]_vars
    PROVE  BookFollows(size)'
<1> USE DEF BookFollows
<1>0. levels \in [Sides -> Level]
  BY DEF Tracking, Typed
<1>00. Announced \subseteq SizedRecord(size)
  BY DEF LevelsFit, Announced, SizedRecord
<1>1. CASE UNCHANGED <<order_records, bookVars>>
  BY <1>1 DEF bookVars
<1>2. ASSUME NEW r \in References, r \notin DOMAIN order_records, NEW record \in Announced,
             Records(r, record)
      PROVE  BookFollows(size)'
  <2>1. record \in SizedRecord(size) /\ record.side \in Sides
    BY <1>00 DEF Announced
  <2>2. /\ order_records' \in Maps(References, SizedRecord(size))
        /\ \A level : Shows(level, order_records, record.side) =>
              Shows(WithShares(level, record.price, record.shares), order_records', record.side)
        /\ \A side : side # record.side =>
              \A level : Shows(level, order_records, side) => Shows(level, order_records', side)
    BY <1>2, <2>1, InsertShows DEF Records
  <2>3. /\ levels'[record.side] = WithShares(levels[record.side], record.price, record.shares)
        /\ \A side \in Sides : side # record.side => levels'[side] = levels[side]
        /\ corrupted' = corrupted
    BY <1>0, <1>2, <2>1 DEF Records, AddToBook
  <2> QED BY <2>1, <2>2, <2>3
<1>3. ASSUME NEW r \in DOMAIN order_records, NEW n \in Sizes, Shrinks(r, n)
      PROVE  BookFollows(size)'
  <2> DEFINE record == order_records[r]
  <2>1. record.side \in Sides /\ n \in Nat /\ 1 <= n /\ n < record.shares
    <3>1. record \in SizedRecord(size)
      BY MapIsFunction
    <3>2. n \in Nat /\ 1 <= n
      BY DEF LevelsFit
    <3> QED BY <1>3, <3>1, <3>2 DEF SizedRecord, Shrinks
  <2>2. /\ order_records' \in Maps(References, SizedRecord(size))
        /\ \A level : Shows(level, order_records, record.side) =>
              /\ record.price \in DOMAIN level
              /\ Shows(WithoutShares(level, record.price, n), order_records', record.side)
        /\ \A side : side # record.side =>
              \A level : Shows(level, order_records, side) => Shows(level, order_records', side)
    BY <1>3, <2>1, ReduceShows DEF Shrinks
  <2>3. record.price \in DOMAIN levels[record.side]
    BY <2>1, <2>2
  <2>4. /\ levels'[record.side] = WithoutShares(levels[record.side], record.price, n)
        /\ \A side \in Sides : side # record.side => levels'[side] = levels[side]
        /\ corrupted' = corrupted
    BY <1>0, <1>3, <2>1, <2>3 DEF Shrinks, RemoveShares, Tracking, Typed
  <2> QED BY <2>1, <2>2, <2>4
<1>4. ASSUME NEW r \in DOMAIN order_records, Forgets(r)
      PROVE  BookFollows(size)'
  <2> DEFINE record == order_records[r]
  <2>1. record.side \in Sides
    <3>1. record \in SizedRecord(size)
      BY MapIsFunction
    <3> QED BY <3>1 DEF SizedRecord
  <2>2. /\ order_records' \in Maps(References, SizedRecord(size))
        /\ \A level : Shows(level, order_records, record.side) =>
              /\ record.price \in DOMAIN level
              /\ Shows(WithoutShares(level, record.price, record.shares),
                       order_records', record.side)
        /\ \A side : side # record.side =>
              \A level : Shows(level, order_records, side) => Shows(level, order_records', side)
    BY <1>4, EraseShows DEF Forgets
  <2>3. record.price \in DOMAIN levels[record.side]
    BY <2>1, <2>2
  <2>4. /\ levels'[record.side] = WithoutShares(levels[record.side], record.price, record.shares)
        /\ \A side \in Sides : side # record.side => levels'[side] = levels[side]
        /\ corrupted' = corrupted
    BY <1>0, <1>4, <2>1, <2>3 DEF Forgets, RemoveShares, Tracking, Typed
  <2> QED BY <2>1, <2>2, <2>4
<1>5. ASSUME NEW r \in DOMAIN order_records, NEW q \in References, q \notin DOMAIN order_records,
             NEW record \in Announced, Exchanges(r, q, record)
      PROVE  BookFollows(size)'
  <2> DEFINE old == order_records[r]
             rest == Erase(order_records, r)
             left == WithoutShares(levels[record.side], old.price, old.shares)
  <2>1. record \in SizedRecord(size) /\ record.side \in Sides /\ old.side = record.side
    BY <1>00, <1>5 DEF Announced, Exchanges
  <2>2. /\ rest \in Maps(References, SizedRecord(size))
        /\ \A level : Shows(level, order_records, record.side) =>
              /\ old.price \in DOMAIN level
              /\ Shows(WithoutShares(level, old.price, old.shares), rest, record.side)
        /\ \A side : side # record.side =>
              \A level : Shows(level, order_records, side) => Shows(level, rest, side)
    BY <2>1, EraseShows
  <2>3. q \notin DOMAIN rest
    BY <1>5 DEF Erase
  <2>4. /\ order_records' \in Maps(References, SizedRecord(size))
        /\ \A level : Shows(level, rest, record.side) =>
              Shows(WithShares(level, record.price, record.shares), order_records', record.side)
        /\ \A side : side # record.side =>
              \A level : Shows(level, rest, side) => Shows(level, order_records', side)
    BY <1>5, <2>1, <2>2, <2>3, InsertShows DEF Exchanges
  <2>5. old.price \in DOMAIN levels[record.side] /\ Shows(left, rest, record.side)
    BY <2>1, <2>2
  <2>6. /\ levels'[record.side] = WithShares(left, record.price, record.shares)
        /\ \A side \in Sides : side # record.side => levels'[side] = levels[side]
        /\ corrupted' = corrupted
    BY <1>0, <1>5, <2>1, <2>5 DEF Exchanges, ReplaceInBook, Tracking, Typed
  <2> HIDE DEF rest, left
  <2> QED BY <2>1, <2>2, <2>4, <2>5, <2>6
<1>6. ASSUME NEW m \in Messages, Handle(m)
      PROVE  BookFollows(size)'
  BY <1>1, <1>2, <1>3, <1>4, <1>5, <1>6, HandlerSteps
<1>7. CASE UNCHANGED vars
  BY <1>1, <1>7 DEF vars, handlerVars
<1> QED BY <1>6, <1>7 DEF Next

LEMMA FollowingShows ==
    ASSUME NEW size, BookFollows(size)
    PROVE  BookShowsTheRecords
<1>1. ASSUME NEW side \in Sides, NEW p \in Prices
      PROVE  At(order_records, side, p) = RecordsAt(side, p)
  BY DEF At, RecordsAt
<1>2. ASSUME NEW side \in Sides
      PROVE  DOMAIN levels[side] = {p \in Prices : RecordsAt(side, p) # {}}
  <2>1. DOMAIN levels[side] = {p \in Prices : At(order_records, side, p) # {}}
    BY DEF BookFollows, Shows
  <2> QED BY <1>1, <2>1
<1>3. ASSUME NEW side \in Sides, NEW p \in DOMAIN levels[side]
      PROVE  levels[side][p] =
                MapThenSumSet(LAMBDA r : order_records[r].shares, RecordsAt(side, p))
  <2>1. levels[side][p] = SharesOf(order_records, RecordsAt(side, p))
    BY <1>1, <1>2 DEF BookFollows, Shows
  <2> QED BY <2>1, SumIs
<1> QED BY <1>2, <1>3 DEF BookShowsTheRecords

(* As long as a level can hold what the messages can put at one price, the *)
(* book and the records agree, and no step breaks that.                    *)
THEOREM BookTracks ==
    ASSUME NEW size, LevelsFit(size)
    PROVE  Spec => []BookFollows(size)
<1>1. Init => BookFollows(size)
  BY InitFollows
<1>2. Tracking /\ BookFollows(size) /\ [Next]_vars => BookFollows(size)'
  BY NextFollows
<1> QED BY <1>1, <1>2, HandlerTracks, PTL DEF Spec

(* Every level of the book is the sum of the orders remembered at its      *)
(* price, and there is a level wherever there is such an order: through    *)
(* executions, cancels, deletions and replacements in any order, for any   *)
(* number of orders and prices.                                            *)
THEOREM BookCorrect ==
    ASSUME NEW size, LevelsFit(size)
    PROVE  Spec => []BookShowsTheRecords
<1>1. BookFollows(size) => BookShowsTheRecords
  BY FollowingShows
<1> QED BY <1>1, BookTracks, PTL

(* remove_shares dereferences what find returned without looking, and is   *)
(* right to: it is never asked for a price that has no level.              *)
THEOREM BookNeverCorrupted ==
    ASSUME NEW size, LevelsFit(size)
    PROVE  Spec => []BookIntact
<1>1. BookFollows(size) => BookIntact
  BY DEF BookFollows, BookIntact
<1> QED BY <1>1, BookTracks, PTL
==============================================================================
