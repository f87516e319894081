--------------------------- MODULE MCTransactions ---------------------------
(***************************************************************************)
(* A small instance of Transactions: customers 1 and 3, the clerk 2 of the *)
(* counter, and a machine that two customers may use at once.              *)
(***************************************************************************)
EXTENDS Transactions

Shops == {"counter", "machine"}
Menu == [p \in Shops |-> IF p = "counter" THEN {"meal"} ELSE {"snack"}]
Price == [o \in {"meal", "snack"} |->
    [i \in Goods |-> IF i = "coin" THEN 1 ELSE 0]]
Product == [o \in {"meal", "snack"} |-> [i \in Goods |-> IF i = "food" THEN 1 ELSE 0]]
Coins == [c \in Customers |-> [i \in Goods |-> IF i = "food" THEN 0 ELSE IF c = 1 THEN 2 ELSE 1]]
OneFood == [p \in Shops |-> [i \in Goods |-> IF i = "food" THEN 1 ELSE 0]]
Post == [k \in Clerks |-> "counter"]
Post2 == [k \in Clerks |-> "behind"]
Where == [p \in Shops |-> {"shop"}]
Room == [p \in Shops |-> IF p = "counter" THEN 1 ELSE 2]
Takes == [o \in {"meal", "snack"} |-> IF o = "meal" THEN 3 ELSE 2]
Twice == [a \in Agents |-> IF a = 3 THEN 1 ELSE 2]
Wait == [p \in {"counter"} |-> 2]
=============================================================================
