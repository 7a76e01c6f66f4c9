------------------------------ MODULE OrderBook ------------------------------
(***************************************************************************)
(* The price-level book of one stock (book/order_book): for each side, the *)
(* number of shares on offer at each price that has any.                   *)
(***************************************************************************)
EXTENDS Integers

CONSTANT SharesMax  \* the largest shares_t, 2^64 - 1 in the program

Sides == {"BUY", "SELL"}

VARIABLES
    levels,     \* levels["BUY"] is buy_, levels["SELL"] is sell_: a map from
                \* prices to shares
    corrupted   \* remove_shares has written through collection.end()

bookVars == <<levels, corrupted>>

EmptyBook ==
    /\ levels = [side \in Sides |-> << >>]
    /\ corrupted = FALSE

-----------------------------------------------------------------------------
(* std::map and shares_t.                                                  *)

(* operator[] inserts a level of no shares where there is none.            *)
SharesAt(level, price) == IF price \in DOMAIN level THEN level[price] ELSE 0

Put(level, price, shares) ==
    [p \in DOMAIN level \cup {price} |-> IF p = price THEN shares ELSE level[p]]

Drop(level, price) == [p \in DOMAIN level \ {price} |-> level[p]]

(* a + b and a - b on shares_t.                                            *)
Plus(a, b)  == (a + b) % (SharesMax + 1)
Minus(a, b) == (a - b) % (SharesMax + 1)

-----------------------------------------------------------------------------
(* What the operations do to the book.                                     *)

WithShares(level, price, shares) ==
    Put(level, price, Plus(SharesAt(level, price), shares))

(* Mutant of WithoutShares: an exhausted level stays in the book.          *)
WithoutSharesKeepingLevel(level, price, shares) ==
    Put(level, price, Minus(level[price], shares))

(* remove_shares on a level that exists.                                   *)
WithoutShares(level, price, shares) ==
    LET left == Minus(level[price], shares)
    IN  IF left = 0 THEN Drop(level, price) ELSE Put(level, price, left)

(* remove_shares does not look at what find returned: at a price without a *)
(* level it writes through end(), and from then on the book is anything.   *)
RemoveShares(side, price, shares) ==
    /\ levels' = [levels EXCEPT ![side] =
                    IF price \in DOMAIN @ THEN WithoutShares(@, price, shares) ELSE @]
    /\ corrupted' = (corrupted \/ price \notin DOMAIN levels[side])

AddToBook(side, price, shares) ==
    /\ levels' = [levels EXCEPT ![side] = WithShares(@, price, shares)]
    /\ UNCHANGED corrupted

ExecuteInBook(side, price, shares) == RemoveShares(side, price, shares)

CancelInBook(side, price, shares) == RemoveShares(side, price, shares)

(* Mutant of ReplaceInBook: the new shares go to the old price.            *)
ReplaceAtOldPrice(side, old_price, old_shares, new_price, new_shares) ==
    /\ levels' = [levels EXCEPT ![side] =
                    WithShares(WithoutShares(@, old_price, old_shares),
                               old_price, new_shares)]
    /\ UNCHANGED corrupted

(* replace_order takes the shares off the old level before it adds to the  *)
(* new one, which may be the level it has just erased.                     *)
ReplaceInBook(side, old_price, old_shares, new_price, new_shares) ==
    /\ levels' = [levels EXCEPT ![side] =
                    WithShares(IF old_price \in DOMAIN @
                               THEN WithoutShares(@, old_price, old_shares) ELSE @,
                               new_price, new_shares)]
    /\ corrupted' = (corrupted \/ old_price \notin DOMAIN levels[side])
==============================================================================
