------------------------------ MODULE MarketData ------------------------------
(***************************************************************************)
(* A worker's handler and book following the exchange through the feed.    *)
(* The handler's state depends on the messages and their order only, so a  *)
(* message is handled here in the step in which it is sent.                *)
(***************************************************************************)
EXTENDS Exchange, MarketDataHandler, FiniteSetsExt

ASSUME TargetAssumption == TargetStock \in Stocks /\ Stocks \subseteq LocateCodes

(* Share counts of messages have 32 bits, those of the book 64.            *)
ASSUME WidthAssumption == SharesMax \in Nat /\ Sizes \subseteq 1 .. SharesMax

VARIABLES
    missed      \* history: orders of the stock announced by an 'F' or a 'U'
                \* while the handler did not know the stock's locate code

vars == <<exchangeVars, handlerVars, missed>>

Init ==
    /\ NothingTraded
    /\ HandlerInit
    /\ missed = {}

(* What the filter of poll costs: the orders m announces for the stock     *)
(* while its code is not known, unless by an 'A'.                          *)
MissedOf(m) ==
    IF m.stock_locate # TargetStock \/ cache_stock_locate = TargetStock THEN {}
    ELSE IF m.type = "F" THEN {m.reference}
    ELSE IF m.type = "U" THEN {m.new_reference}
    ELSE {}

Handle(m) ==
    /\ Send(m)
    /\ Poll(m)
    /\ missed' = missed \cup MissedOf(m)

Next == \E m \in Messages : Handle(m)

Spec == Init /\ [][Next]_vars

-----------------------------------------------------------------------------
(* Properties.                                                             *)

Record == [side : Sides, price : Prices, shares : 1 .. SharesMax]
Order  == [stock : Stocks, side : Sides, price : Prices, shares : 1 .. SharesMax]

(* f maps some of the elements of S to elements of T.                      *)
IsMap(f, S, T) == DOMAIN f \subseteq S /\ f \in [DOMAIN f -> T]

(* Every variable has its type.                                            *)
TypeOK ==
    /\ announced \subseteq References
    /\ missed \subseteq References
    /\ DOMAIN live \subseteq announced
    /\ IsMap(live, References, Order)
    /\ cache_stock_locate \in LocateCodes
    /\ IsMap(order_records, References, Record)
    /\ crashed \in BOOLEAN
    /\ DOMAIN levels = Sides
    /\ \A s \in Sides : IsMap(levels[s], Prices, 0 .. SharesMax)
    /\ corrupted \in BOOLEAN

(* The handler never remembers an order that is not live, of another       *)
(* stock, or with a side, price or share count other than the exchange's.  *)
RecordsAreLive ==
    \A r \in DOMAIN order_records :
        /\ r \in DOMAIN live
        /\ live[r].stock = TargetStock
        /\ order_records[r] = [side |-> live[r].side, price |-> live[r].price,
                               shares |-> live[r].shares]

(* It remembers every live order of its stock but those that an 'F' or a   *)
(* 'U' announced before the locate code was known.                         *)
OnlyEarlyOrdersMissed ==
    ~crashed => \A r \in DOMAIN live :
        live[r].stock = TargetStock => r \in DOMAIN order_records \cup missed

(* The orders of the records at one price.                                 *)
RecordsAt(side, price) ==
    {r \in DOMAIN order_records : /\ order_records[r].side = side
                                  /\ order_records[r].price = price}

(* The book has a level exactly where there are records, and a level shows *)
(* the shares of its records, through every partial execution, cancel,     *)
(* delete and replace, even to the level that was just exhausted.          *)
BookShowsTheRecords ==
    ~crashed => \A side \in Sides :
        /\ DOMAIN levels[side] = {p \in Prices : RecordsAt(side, p) # {}}
        /\ \A p \in DOMAIN levels[side] :
              levels[side][p] =
                 MapThenSumSet(LAMBDA r : order_records[r].shares, RecordsAt(side, p))

(* remove_shares never writes through end(), although it does not look.    *)
BookIntact == ~corrupted

(* The process dies only over a message about an order it missed, or, as   *)
(* long as the code is not known, about an order of the stock whose code   *)
(* the uninitialised cache happens to hold.                                *)
CrashesExplained ==
    [][crashed' =>
         \E r \in DOMAIN live :
            /\ \/ r \in missed
               \/ cache_stock_locate # TargetStock /\ live[r].stock = cache_stock_locate
            /\ r \in DOMAIN live' => live'[r] # live[r]]_vars

(* What the stock's book should show: the live orders of the exchange.     *)
LiveAt(side, price) ==
    {r \in DOMAIN live : /\ live[r].stock = TargetStock
                         /\ live[r].side = side
                         /\ live[r].price = price}

(* The documentation's promise: the full depth of the stock at any time.   *)
FullDepth ==
    ~crashed => \A side \in Sides : \A p \in Prices :
        SharesAt(levels[side], p) =
            MapThenSumSet(LAMBDA r : live[r].shares, LiveAt(side, p))
===============================================================================
