CONSTANTS
    None = none
    Customers = {1, 3}
    Clerks = {2}
    Points = {"counter", "machine"}
    Goods = {"coin", "food"}
    Offers <- Menu
    Gives <- Price
    Receives <- Product
    FirstPurse <- Coins
    FirstShelf <- OneFood
    PostOf <- Post
    Places = {"shop", "behind"}
    CounterOf <- Where
    StaffPlace <- Post2
    Capacity <- Room
    Lasts <- Takes
    Patience <- Wait
    MaxActions <- Twice
SPECIFICATION Spec
INVARIANTS TransactionsNeverRaise ExchangesAreDue
PROPERTIES ImplementsLedger RequestsEnd
CHECK_DEADLOCK FALSE
