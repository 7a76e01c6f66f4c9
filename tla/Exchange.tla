------------------------------- MODULE Exchange -------------------------------
(***************************************************************************)
(* The exchange behind a well-formed ITCH file, as far as the handlers of  *)
(* market_data rely on it: the orders that are live, and which messages    *)
(* about them it may send next.  It announces every order once, under a    *)
(* reference number of its own, before anything else about that order, and *)
(* never removes more shares than the order has left.                      *)
(*                                                                         *)
(* The exchange gives every stock one locate code for the day; here a      *)
(* stock is its own locate code.                                           *)
(***************************************************************************)
EXTENDS Integers

CONSTANTS
    Stocks,     \* the stocks traded
    References, \* bound: order reference numbers
    Prices,
    Sizes       \* bound: numbers of shares in messages

VARIABLES
    live,       \* live[r]: stock, side, price and remaining shares of order r
    announced   \* reference numbers used so far

exchangeVars == <<live, announced>>

-----------------------------------------------------------------------------
(* The messages, by MESSAGE_TYPE; "S" stands for every type the handlers   *)
(* have no case for.                                                       *)

AddMessages ==
    [type : {"A", "F"}, stock_locate : Stocks, reference : References,
     side : {"BUY", "SELL"}, shares : Sizes, price : Prices]

ReduceMessages ==
    [type : {"E", "C", "X"}, stock_locate : Stocks, reference : References,
     shares : Sizes]

DeleteMessages ==
    [type : {"D"}, stock_locate : Stocks, reference : References]

ReplaceMessages ==
    [type : {"U"}, stock_locate : Stocks, reference : References,
     new_reference : References, shares : Sizes, price : Prices]

OtherMessages == [type : {"S"}, stock_locate : Stocks]

Messages == AddMessages \cup ReduceMessages \cup DeleteMessages
                \cup ReplaceMessages \cup OtherMessages

-----------------------------------------------------------------------------

NothingTraded ==
    /\ live = << >>
    /\ announced = {}

Without(r) == [q \in DOMAIN live \ {r} |-> live[q]]

AnnounceOrder(m) ==
    /\ m \in AddMessages
    /\ m.reference \notin announced
    /\ announced' = announced \cup {m.reference}
    /\ live' = [r \in DOMAIN live \cup {m.reference} |->
                  IF r = m.reference
                  THEN [stock |-> m.stock_locate, side |-> m.side,
                        price |-> m.price, shares |-> m.shares]
                  ELSE live[r]]

(* m is about an order that is live, and carries that order's locate code. *)
AboutLiveOrder(m) ==
    /\ m.reference \in DOMAIN live
    /\ m.stock_locate = live[m.reference].stock

ReduceOrder(m) ==
    /\ m \in ReduceMessages
    /\ AboutLiveOrder(m)
    /\ \/ /\ m.shares < live[m.reference].shares
          /\ live' = [live EXCEPT ![m.reference].shares = @ - m.shares]
       \/ /\ m.shares = live[m.reference].shares
          /\ live' = Without(m.reference)
    /\ UNCHANGED announced

DeleteOrder(m) ==
    /\ m \in DeleteMessages
    /\ AboutLiveOrder(m)
    /\ live' = Without(m.reference)
    /\ UNCHANGED announced

ReplaceOrder(m) ==
    /\ m \in ReplaceMessages
    /\ AboutLiveOrder(m)
    /\ m.new_reference \notin announced
    /\ announced' = announced \cup {m.new_reference}
    /\ live' = [r \in (DOMAIN live \ {m.reference}) \cup {m.new_reference} |->
                  IF r = m.new_reference
                  THEN [stock |-> live[m.reference].stock,
                        side |-> live[m.reference].side,
                        price |-> m.price, shares |-> m.shares]
                  ELSE live[r]]

SendOther(m) ==
    /\ m \in OtherMessages
    /\ UNCHANGED exchangeVars

Send(m) ==
    \/ AnnounceOrder(m)
    \/ ReduceOrder(m)
    \/ DeleteOrder(m)
    \/ ReplaceOrder(m)
    \/ SendOther(m)
==============================================================================
