--------------------------- MODULE ExchangeLedger ---------------------------
(***************************************************************************)
(* What the economy promises: goods change hands only as a whole offer of  *)
(* a transaction point, between one character that has what it gives and a *)
(* point that has what it hands out.  No requests, staff or ticks.         *)
(***************************************************************************)
EXTENDS Integers

CONSTANTS
    Customers,  \* characters with possessions
    Points,     \* transaction points
    Goods,      \* item ids, money among them
    Offers,     \* point -> its offers
    Gives,      \* offer -> goods -> quantity: character_gives
    Receives,   \* offer -> goods -> quantity: character_receives
    FirstPurse, \* customer -> goods -> quantity
    FirstShelf  \* point -> goods -> quantity

VARIABLES
    purse,  \* PossessionsComponent.holdings
    shelf   \* TransactionPointState.holdings

held == <<purse, shelf>>

Holdings == [Goods -> Nat]

CanDebit(holdings, amounts) == \A i \in Goods : holdings[i] >= amounts[i]

Affordable(c, p, o) == CanDebit(purse[c], Gives[o]) /\ CanDebit(shelf[p], Receives[o])

Swapped(holdings, out, in) == [i \in Goods |-> holdings[i] - out[i] + in[i]]

Exchange(c, p, o) ==
    /\ purse' = [purse EXCEPT ![c] = Swapped(@, Gives[o], Receives[o])]
    /\ shelf' = [shelf EXCEPT ![p] = Swapped(@, Receives[o], Gives[o])]

LedgerInit == purse = FirstPurse /\ shelf = FirstShelf

Trade ==
    \E c \in Customers, p \in Points : \E o \in Offers[p] :
        Affordable(c, p, o) /\ Exchange(c, p, o)

LedgerSpec == LedgerInit /\ [][Trade]_held
=============================================================================
