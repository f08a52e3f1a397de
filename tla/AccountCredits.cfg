SPECIFICATION LiveSpec
CONSTANTS
    u1 = u1
    u2 = u2
    w1 = w1
    p1 = p1
    p2 = p2
    Usages = {u1, u2}
    RoomUsages = {w1}
    CostOf <- Costs
    Allowance = 2
    Credit = 2
    Passes = {p1}
    BatchSize = 1
    MaxMonth = 2
    MaxLate = 1
    MaxTrouble = 1
INVARIANT BooksBalance
PROPERTY PaidCreditIsKept
 
CHECK_DEADLOCK FALSE
